---------------------------- MODULE PeerBarrier ----------------------------
(* The cross-rank barrier built from monotone doorbells: every CTA of a    *)
(* launch adds one to the rank's cumulative arrival counter, the one that  *)
(* completes the grid pokes this rank's flag on every rank, and every CTA  *)
(* waits until the flags of all ranks have reached the launch's epoch.     *)
(*                                                                         *)
(* This is publish_after_writes + wait_before_reads of hkp_sync.hpp as the *)
(* head of k0d_combine instantiates them (epoch_from_cumulative); with one *)
(* block per rank it is k0d_barrier, whose thread 0 takes count[0] + 1 as  *)
(* the epoch and stores it back.                                           *)
(*                                                                         *)
(* A remote fetch_add whose result is unused is posted: it is issued, and  *)
(* takes effect on the peer some time later, in no order relative to the   *)
(* pokes of other destinations.                                            *)
EXTENDS HkpSync, FiniteSets

CONSTANTS Rank,          \* the ranks (GPUs) of the node
          Block,         \* the CTAs of one launch (gridDim.x of them)
          MaxLaunch,     \* bound: launches per rank
          SpinLimited    \* TRUE: a bounded wait may reach spin_limit

ASSUME PeerBarrierAssumption ==
         /\ Rank # {} /\ IsFiniteSet(Rank)
         /\ Block # {} /\ IsFiniteSet(Block)
         /\ MaxLaunch \in Nat
         /\ SpinLimited \in BOOLEAN

VARIABLES pc,             \* pc[r][b]: "ready", "wait" or "left"
          target,         \* target[r][b]: s_N, the epoch the CTA waits for
          arrive_count,   \* arrive_count[r]: cumulative CTA arrivals
          flags,          \* flags[r][s]: publications of s seen by r
          posted,         \* posted[s][r]: pokes of s not yet visible on r
          launched,       \* launched[r]: launches of r that completed
          pperr           \* pperr[r]: a wait of r timed out

vars == <<pc, target, arrive_count, flags, posted, launched, pperr>>

blocks == Cardinality(Block)

TypeOK == /\ pc \in [Rank -> [Block -> {"ready", "wait", "left"}]]
          /\ target \in [Rank -> [Block -> Nat]]
          /\ arrive_count \in [Rank -> 0 .. CounterMod - 1]
          /\ flags \in [Rank -> [Rank -> 0 .. CounterMod - 1]]
          /\ posted \in [Rank -> [Rank -> Nat]]
          /\ launched \in [Rank -> 0 .. MaxLaunch]
          /\ pperr \in [Rank -> BOOLEAN]

Init == /\ pc = [r \in Rank |-> [b \in Block |-> "ready"]]
        /\ target = [r \in Rank |-> [b \in Block |-> 0]]
        /\ arrive_count = [r \in Rank |-> 0]
        /\ flags = [r \in Rank |-> [s \in Rank |-> 0]]
        /\ posted = [s \in Rank |-> [r \in Rank |-> 0]]
        /\ launched = [r \in Rank |-> 0]
        /\ pperr = [r \in Rank |-> FALSE]

-----------------------------------------------------------------------------
(* The pokes of a completed grid: one to every rank, the own one included. *)
fanout_signal(s) == [posted EXCEPT ![s] = [r \in Rank |-> @[r] + 1]]

(* What publish_after_writes reads from the arrival counter before it adds *)
(* its own arrival.                                                        *)
publish(r, b) ==
  LET old == arrive_count[r] IN
  /\ arrive_count' = [arrive_count EXCEPT ![r] = bump(@)]
  /\ target' = [target EXCEPT ![r][b] = epoch_from_cumulative(old, blocks)]
  /\ posted' = IF last_arrival(old, blocks) THEN fanout_signal(r) ELSE posted

Arrive(r, b) == /\ launched[r] < MaxLaunch
                /\ pc[r][b] = "ready"
                /\ publish(r, b)
                /\ pc' = [pc EXCEPT ![r][b] = "wait"]
                /\ UNCHANGED <<flags, launched, pperr>>

(* A posted poke takes effect.                                             *)
Deliver(s, r) == /\ posted[s][r] > 0
                 /\ posted' = [posted EXCEPT ![s][r] = @ - 1]
                 /\ flags' = [flags EXCEPT ![r][s] = bump(@)]
                 /\ UNCHANGED <<pc, target, arrive_count, launched, pperr>>

(* Mutant: only the own flag is polled.                                    *)
own_reached(r, b) == reached(flags[r][r], target[r][b])

all_reached(r, b) == \A s \in Rank : reached(flags[r][s], target[r][b])

(* wait_before_reads: all polled flags have reached the epoch.             *)
Pass(r, b) == /\ pc[r][b] = "wait"
              /\ all_reached(r, b)
              /\ pc' = [pc EXCEPT ![r][b] = "left"]
              /\ UNCHANGED <<target, arrive_count, flags, posted, launched,
                             pperr>>

(* The fail_closed policy of bounded_wait: spin_limit polls found a flag   *)
(* short; the error bit is set and the CTA goes on regardless.             *)
TimeOut(r, b) == /\ SpinLimited
                 /\ pc[r][b] = "wait"
                 /\ ~all_reached(r, b)
                 /\ pperr' = [pperr EXCEPT ![r] = TRUE]
                 /\ pc' = [pc EXCEPT ![r][b] = "left"]
                 /\ UNCHANGED <<target, arrive_count, flags, posted, launched>>

(* Stream order: the next launch starts when every CTA of this one is done.*)
NextLaunch(r) == /\ \A b \in Block : pc[r][b] = "left"
                 /\ pc' = [pc EXCEPT ![r] = [b \in Block |-> "ready"]]
                 /\ launched' = [launched EXCEPT ![r] = @ + 1]
                 /\ UNCHANGED <<target, arrive_count, flags, posted, pperr>>

Next == \/ \E r \in Rank, b \in Block : Arrive(r, b) \/ Pass(r, b)
                                        \/ TimeOut(r, b)
        \/ \E s, r \in Rank : Deliver(s, r)
        \/ \E r \in Rank : NextLaunch(r)

Spec == Init /\ [][Next]_vars

(* The CTAs of a launch are co-resident (16 of them, launch bounds 256, 8) *)
(* and a posted poke eventually lands; a time-out is nobody's obligation.  *)
Fairness == /\ \A r \in Rank, b \in Block : WF_vars(Arrive(r, b) \/ Pass(r, b))
            /\ \A s, r \in Rank : WF_vars(Deliver(s, r))
            /\ \A r \in Rank : WF_vars(NextLaunch(r))

FairSpec == Spec /\ Fairness

-----------------------------------------------------------------------------
(* The inductive invariant: as long as the arrival counters cannot wrap    *)
(* (NoWrap), a counter is a whole number of launches plus the arrivals of  *)
(* the current one, a flag plus the pokes on their way to it counts the    *)
(* grids its source completed, and a CTA that left cleanly had been        *)
(* waiting for a grid of every rank.                                       *)
NoWrap == MaxLaunch * blocks < CounterMod

present(r) == {b \in Block : pc[r][b] # "ready"}
grids(r) == launched[r] + IF present(r) = Block THEN 1 ELSE 0

CountInv == \A r \in Rank :
              arrive_count[r] = launched[r] * blocks + Cardinality(present(r))
SentInv == \A s, r \in Rank : flags[r][s] + posted[s][r] = grids(s)
TargetInv == \A r \in Rank, b \in Block :
               pc[r][b] # "ready" => /\ launched[r] < MaxLaunch
                                     /\ target[r][b] = launched[r] + 1
CleanInv == \A r, s \in Rank :
              ~pperr[r] =>
                /\ grids(s) >= launched[r]
                /\ \A b \in Block : pc[r][b] = "left" => grids(s) > launched[r]

IInv == TypeOK /\ CountInv /\ SentInv /\ TargetInv /\ CleanInv

-----------------------------------------------------------------------------
(* Arrivals and departures of a CTA, over all launches.                    *)
Worker == Rank \X Block
arrived == [w \in Worker |->
              launched[w[1]] + IF pc[w[1]][w[2]] = "ready" THEN 0 ELSE 1]
left == [w \in Worker |->
           launched[w[1]] + IF pc[w[1]][w[2]] = "left" THEN 1 ELSE 0]
failed == {w \in Worker : pperr[w[1]]}

(* Whatever the interleaving of arrivals, pokes, time-outs and launches, a *)
(* CTA of a rank without error bit has left its n-th barrier only after    *)
(* every CTA of every rank arrived at its n-th (kernels/hkp/hkp_sync.hpp,  *)
(* wait_before_reads; kernels/decode/k0d_combine.hip:2).                   *)
Separation == \A w, v \in Worker : w \notin failed => arrived[v] >= left[w]

(* Every launch of every rank completes: nobody waits for a poke that      *)
(* nobody sends (kernels/hkp/hkp_sync.hpp, publish_after_writes).          *)
Progress == <>(\A r \in Rank : launched[r] = MaxLaunch)

(* The doorbell barrier implements the fail-closed barrier: a CTA whose    *)
(* rank has no error bit leaves only when every CTA of every rank arrived  *)
(* (kernels/hkp/hkp_sync.hpp, wait_before_reads with the fail_closed       *)
(* policy).                                                                *)
B == INSTANCE Barrier
Refinement == B!Spec
=============================================================================
