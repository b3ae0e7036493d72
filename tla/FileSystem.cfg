SPECIFICATION Spec
CONSTANTS
  Paths <- AllPaths
  Lengths = {1, 3}
  MAX_FILE_SIZE = 2
  MAX_DIR_CHILDREN = 2
  MAX_PATH_DEPTH = 2
  MAX_TOTAL_INODES = 5
INVARIANTS TypeOK SizeLimitsHold
PROPERTIES AnswersAreTrue
