\* Four CTAs; any wait may time out.
CONSTANTS
  Block = {b1, b2, b3, b4}
  MaxPhase = 3
  CounterMod = 64
  SpinLimited = TRUE
SPECIFICATION FairSpec
INVARIANTS TypeOK Separation
PROPERTIES Refinement Progress
\* The CTAs stop after MaxPhase barriers.
CHECK_DEADLOCK FALSE
