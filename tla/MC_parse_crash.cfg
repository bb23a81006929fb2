SPECIFICATION FairSpec
CONSTANTS
  NULL = NULL
  EMPTY = EMPTY
  MaxRetries = 2
  MaxSeconds = 604800
  MaxInstant = 8000000
  Before = 3600
  After = 3600
  ShiftAt = 0
  Case <- Cases
  PromptFile = {"unreadable", "not_utf8", "empty", "unknown_placeholder", "ok"}
  Structured <- StructuredTriggers
  Output <- Outputs
CHECK_DEADLOCK FALSE
INVARIANT
  ParseFailureIs422
