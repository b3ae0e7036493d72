SPECIFICATION ShellSpec
CONSTANTS
  WIDTH = 4
  HEIGHT = 3
  MAX_SCALE = 2
  CSI_LEN = 8
  Bytes = {}
  BUF_LEN = 4
  Keys = {"a", "b", "enter", "backspace", "ctrl +", "ctrl -", "dropped"}
INVARIANTS LineOnScreen PrintsComplete
