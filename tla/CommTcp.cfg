SPECIFICATION FairSpec
CONSTANTS
  SeqMod = 2
  MaxCalls = 4
  Timed = TRUE
INVARIANTS
  CleanAnswersMatch
  

  
\* The application may stop making calls.
CHECK_DEADLOCK FALSE
