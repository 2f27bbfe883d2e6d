\* Rings of four entries, a completion counter of three bits.
CONSTANTS
  SqN = 4
  CqMod = 8
  World = 2
SPECIFICATION Spec
INVARIANTS TypeOK GatheredExact CarriedOutInOrder CompletionsTrue BarrierHolds NeverStuck
PROPERTIES ShardStable
