SPECIFICATION Spec
CONSTANTS
  Machines <- AllMachines
  FirmwareMasks <- Masks
  FirmwareDests = {0, 3}
  MAX_IOAPICS = 4
  MAX_OVERRIDES = 16
  None = None
INVARIANTS TypeOK NothingStuckInService EdgesDeliveredOnce RoutesMatchWiring
PROPERTIES LatchedIsServed
