\* Two ranks, two replays: changing routes, overflow, time-outs.
CONSTANTS
  World = 2
  Grid = 3
  T = 1
  E = 2
  Scenarios <- Various
  MaxReplay = 2
  CounterMod = 256
SPECIFICATION Spec
INVARIANTS TypeOK OutputCorrect ReceiveStable PartStable ResetExact
\* The ranks stop after MaxReplay replays.
CHECK_DEADLOCK FALSE
