\* Counters of two bits: the arrival counter wraps after two launches.
CONSTANTS
  Rank = {r1, r2}
  Block = {b1, b2}
  MaxLaunch = 3
  CounterMod = 4
  SpinLimited = FALSE
SPECIFICATION Spec
INVARIANTS Separation
\* The ranks stop after MaxLaunch launches.
CHECK_DEADLOCK FALSE
