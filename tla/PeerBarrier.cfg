\* Two ranks of two CTAs; any wait may time out.
CONSTANTS
  Rank = {r1, r2}
  Block = {b1, b2}
  MaxLaunch = 3
  CounterMod = 64
  SpinLimited = TRUE
SPECIFICATION FairSpec
INVARIANTS TypeOK Separation
PROPERTIES Refinement Progress
\* The ranks stop after MaxLaunch launches.
CHECK_DEADLOCK FALSE
