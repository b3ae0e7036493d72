SPECIFICATION Spec
CONSTANTS
  RETRIES = 2
  WALK = 2
INVARIANTS TypeOK NobodySpins
PROPERTIES CrashReported
