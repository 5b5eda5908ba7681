CONSTANTS
  MaxCalls = 5
  MaxSlots = 2
SPECIFICATION FairSession
INVARIANTS QuietAfterReset FinishedIsTerminal
PROPERTIES OutcomeStays DestroyEnds
CHECK_DEADLOCK FALSE
