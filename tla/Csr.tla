-------------------------------- MODULE Csr --------------------------------
(* The pull plan of the owner-pull combine: pull_ptr is the exclusive      *)
(* prefix sum of the fan-outs of the tokens, and pull_src lists, for every *)
(* token, the producers of its partial rows.  "stage" gives the slots of a *)
(* token that name a producer (pull_stage entries with pe >= 0; in         *)
(* k0d_fused the ranks that own one of its experts).                       *)
EXTENDS Integers, FiniteSets, SequencesExt

CONSTANTS T,         \* tokens of the rank
          Cap,       \* entries of pull_src (T * world)
          Inputs     \* possible stages: token -> set of slots

Token == 0 .. T - 1
Nowhere == <<-1, -1>>        \* an entry of pull_src nobody wrote

CsrAssumption == T \in Nat \ {0} /\ Cap \in Nat

(* pull_cnt.                                                               *)
fanout(stage, tau) == IF tau \in Token THEN Cardinality(stage[tau]) ELSE 0

(* The slot loop of a token that fills pull_src from k on, as far as it    *)
(* goes, and its overflow check.                                           *)
filled(stage, src, tau, k) ==
  LET slots == SetToSortSeq(stage[tau], <) IN
  [i \in DOMAIN src |-> IF i - k + 1 \in 1 .. Len(slots)
                        THEN <<tau, slots[i - k + 1]>> ELSE src[i]]

overflows(stage, tau, k) == k + fanout(stage, tau) > Cap

(* What the plan must be: the prefix sums, and the lists in slot order,    *)
(* without an entry between or behind them.                                *)
prefix(stage) ==
  LET sum[n \in 0 .. T] == IF n = 0 THEN 0 ELSE sum[n - 1] + fanout(stage, n - 1)
  IN  sum

lists(stage) ==
  LET upto[n \in 0 .. T] ==
        IF n = 0 THEN << >>
        ELSE upto[n - 1] \o [i \in 1 .. fanout(stage, n - 1) |->
               <<n - 1, SetToSortSeq(stage[n - 1], <)[i]>>]
  IN  [k \in 0 .. Cap - 1 |->
         IF k < Len(upto[T]) THEN upto[T][k + 1] ELSE Nowhere]
=============================================================================
