\* A ring of four entries, a completion counter of three bits.
CONSTANTS
  SqN = 4
  CqMod = 8
  Word = 64
  Slots = 2
  Prompt = TRUE
  Scenarios <- MCScenarios
SPECIFICATION Spec
INVARIANT DoneIsDone
CHECK_DEADLOCK FALSE
