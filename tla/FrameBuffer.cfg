SPECIFICATION Spec
CONSTANTS
  WIDTH = 3
  HEIGHT = 3
  MAX_SCALE = 2
  CSI_LEN = 2
  Bytes = {"esc", "[", "4", ";", "m", "nl", "bs", " "}
INVARIANTS OneCursor CellsWhole
PROPERTIES ImplementsTextPage
