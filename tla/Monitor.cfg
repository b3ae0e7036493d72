SPECIFICATION MonitorSpec
CONSTANTS
  BUFFER_SIZE = 2
  Events = {"alloc", "free", "interrupt"}
  MaxEvents = 6
  Requests = {1, 2}
  Sizes = {1, 2}
  Message = 1
  MaxKeys = 1
INVARIANTS MetricsExact SnapshotCoherent
PROPERTY DumpsTheLast
