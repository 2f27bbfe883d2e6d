\* Four PEs, three barriers in a row.
CONSTANTS
  PEs = 4
  MaxRound = 3
SPECIFICATION FairSpec
INVARIANTS TypeOK Separation WordsClean
PROPERTIES Refinement Progress
\* The PEs stop after MaxRound barriers.
CHECK_DEADLOCK FALSE
