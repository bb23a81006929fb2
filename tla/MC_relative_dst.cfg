SPECIFICATION Spec
CONSTANTS
  NULL = NULL
  EMPTY = EMPTY
  MaxRetries = 2
  MaxSeconds = 604800
  MaxInstant = 8000000
  Before = 7200
  After = 3600
  ShiftAt = 1126800
  Case <- ChangeCases
  PromptFile = {"unreadable", "not_utf8", "empty", "unknown_placeholder", "ok"}
  Structured <- StructuredTriggers
  Output <- Outputs
CHECK_DEADLOCK FALSE
INVARIANT
  InMeansElapsed
