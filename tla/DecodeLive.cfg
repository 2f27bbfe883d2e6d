\* Every replay completes; the barriers inside the layer are those proved
\* correct.
CONSTANTS
  World = 2
  Grid = 3
  T = 1
  E = 2
  Scenarios <- Spread
  MaxReplay = 2
  CounterMod = 256
SPECIFICATION FairSpec
PROPERTIES Completes BarriersImplemented
\* The ranks stop after MaxReplay replays.
CHECK_DEADLOCK FALSE
