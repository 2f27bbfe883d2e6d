\* More tokens than lanes, as k0d_fused allows.
CONSTANTS
  T = 5
  Cap = 10
  Lanes = 4
  Inputs <- Stages
SPECIFICATION Spec
INVARIANTS PlanExact
\* The wave stops at its end.
CHECK_DEADLOCK FALSE
