\* Two ranks; every component with small sizes of its own.
CONSTANTS
  World = 2
  CounterMod = 64
SPECIFICATION Spec
INVARIANTS TypeOK OutputCorrect BuffersStable CountersAgree OverflowReported PlansExact NeverStuck
PROPERTIES SortFaithful
