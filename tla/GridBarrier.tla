---------------------------- MODULE GridBarrier ----------------------------
(* The barrier between the CTAs of one launch: a cumulative counter that   *)
(* is never reset.  A CTA adds one, computes from what it found the value  *)
(* at which its phase is complete, and polls for it (grid_barrier of       *)
(* hkp_sync.hpp; inlined in k0d_mega, k0d_dsort, k0pf3_dsort and           *)
(* k0pf3_mega; k0pf4_dsort crosses it twice per launch on one counter).    *)
(* Phases follow each other without anything else that orders the CTAs: a  *)
(* launch boundary only removes interleavings.                             *)
EXTENDS HkpSync, FiniteSets

CONSTANTS Block,         \* the CTAs of the grid
          MaxPhase,      \* bound: barriers each CTA crosses
          SpinLimited    \* TRUE: a bounded wait may reach spin_limit

ASSUME GridBarrierAssumption == /\ Block # {} /\ IsFiniteSet(Block)
                                /\ MaxPhase \in Nat
                                /\ SpinLimited \in BOOLEAN

VARIABLES pc,         \* pc[b]: "work" or "wait"
          crossed,    \* crossed[b]: barriers b has left
          target,     \* target[b]: counter value b waits for
          gbar,       \* the cumulative counter
          pperr       \* a wait of this rank timed out

vars == <<pc, crossed, target, gbar, pperr>>

blocks == Cardinality(Block)

TypeOK == /\ pc \in [Block -> {"work", "wait"}]
          /\ crossed \in [Block -> 0 .. MaxPhase]
          /\ target \in [Block -> Nat]
          /\ gbar \in 0 .. CounterMod - 1
          /\ pperr \in BOOLEAN

Init == /\ pc = [b \in Block |-> "work"]
        /\ crossed = [b \in Block |-> 0]
        /\ target = [b \in Block |-> 0]
        /\ gbar = 0
        /\ pperr = FALSE

Arrive(b) == /\ pc[b] = "work"
             /\ crossed[b] < MaxPhase
             /\ gbar' = bump(gbar)
             /\ target' = [target EXCEPT ![b] = grid_target(gbar, blocks)]
             /\ pc' = [pc EXCEPT ![b] = "wait"]
             /\ UNCHANGED <<crossed, pperr>>

(* Mutant: a CTA skips the phase after the one it crossed.                 *)
leave_twice(b) == /\ pc' = [pc EXCEPT ![b] = "work"]
                  /\ crossed' = [crossed EXCEPT ![b] = @ + 2]
                  /\ UNCHANGED <<target, gbar>>

leave(b) == /\ pc' = [pc EXCEPT ![b] = "work"]
            /\ crossed' = [crossed EXCEPT ![b] = @ + 1]
            /\ UNCHANGED <<target, gbar>>

Pass(b) == /\ pc[b] = "wait"
           /\ reached(gbar, target[b])
           /\ leave(b)
           /\ UNCHANGED pperr

TimeOut(b) == /\ SpinLimited
              /\ pc[b] = "wait"
              /\ ~reached(gbar, target[b])
              /\ leave(b)
              /\ pperr' = TRUE

Next == \E b \in Block : Arrive(b) \/ Pass(b) \/ TimeOut(b)

Spec == Init /\ [][Next]_vars

(* The CTAs are co-resident, so each one keeps running.                    *)
FairSpec == Spec /\ \A b \in Block : WF_vars(Arrive(b) \/ Pass(b))

-----------------------------------------------------------------------------
arrived == [b \in Block |-> crossed[b] + IF pc[b] = "wait" THEN 1 ELSE 0]
failed == IF pperr THEN Block ELSE {}

(* Until a wait of the rank has timed out, the number of complete phases   *)
(* and the CTAs that are one phase further make up the counter, and only   *)
(* waiting CTAs are further.                                               *)
NoWrap == MaxPhase * blocks < CounterMod
phase == gbar \div blocks
ahead == {b \in Block : arrived[b] = phase + 1}
CleanInv == ~pperr =>
              /\ gbar = phase * blocks + Cardinality(ahead)
              /\ \A b \in Block :
                   /\ arrived[b] \in {phase, phase + 1}
                   /\ pc[b] = "work" => arrived[b] = phase
                   /\ pc[b] = "wait" => target[b] = arrived[b] * blocks
BoundInv == \A b \in Block : pc[b] = "wait" => crossed[b] < MaxPhase
IInv == TypeOK /\ BoundInv /\ CleanInv

(* Until a wait has timed out, no CTA is past its n-th barrier before      *)
(* every CTA has reached its n-th: the scatter of one CTA never precedes   *)
(* the count of another (kernels/decode/k0d_mega.hip:264-279).             *)
Separation == \A a, b \in Block : a \notin failed => arrived[b] >= crossed[a]

(* Every CTA crosses every barrier, unless a wait times out: the target an *)
(* arrival computes is one that the arrivals of its own phase reach.  (A   *)
(* CTA that gives up arrives for the next phase too early; the count of    *)
(* arrivals then no longer tells the phases apart, and others may wait for *)
(* arrivals that are not to come until they give up as well: hkp_sync.hpp, *)
(* grid_barrier.)                                                          *)
Progress == <>(pperr \/ \A b \in Block : crossed[b] = MaxPhase)

(* The counter barrier implements the fail-closed barrier between CTAs.    *)
B == INSTANCE Barrier WITH Worker <- Block, left <- crossed
Refinement == B!Spec
=============================================================================
