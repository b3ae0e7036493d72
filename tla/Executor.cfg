SPECIFICATION Spec
CONSTANTS
  Tasks = {example_task, other_task, shell_task}
  Shell = shell_task
  NoTask = NoTask
  MAX_TASKS = 3
  MAX_SCANCODES = 2
  MaxKeys = 7
INVARIANTS TypeOK NoLostWake HaltsOnlyWhenIdle BacklogInOrder NoPanic
PROPERTIES DroppedWakeIsHarmless InterruptsNeverFree KeepsHalting ImplementsKeyStream
