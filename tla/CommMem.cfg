SPECIFICATION FairSpec
CONSTANTS
  SeqMod = 2
  NotifyMod = 2
  MaxCalls = 4
  MaxRestarts = 1
  Timed = TRUE
INVARIANTS
  CleanAnswersMatch
  CleanHandledOnce
PROPERTIES
  CallsReturn
  WaitsEnd
\* The application may stop making calls.
CHECK_DEADLOCK FALSE
