SPECIFICATION DialogueSpec
CONSTANTS
  RequestCost = 3
  MaxCost = 11
INVARIANTS DialogueTypeOK ContextIsTold StreamTellsAnswer CollectedTellsAnswer
CHECK_DEADLOCK FALSE
