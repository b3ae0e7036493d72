SPECIFICATION Spec
CONSTANTS
  Cap = 2
  Modulus = 8
  Values = {a, b}
  Uninit = Uninit
INVARIANTS HandlerUninterrupted
PROPERTIES ImplementsFifo
