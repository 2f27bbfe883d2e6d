------------------------- MODULE PeerBarrierProofs -------------------------
(* Proofs about PeerBarrier: its type invariant, the separation of         *)
(* epochs, and that it implements Barrier, for every set of ranks, every   *)
(* grid size and every number of launches that the counters can count.     *)
EXTENDS PeerBarrier, FiniteSetTheorems, TLAPS

(* A grid has at least one CTA, and its size is a natural number.          *)
LEMMA BlocksType == blocks \in Nat \ {0}
<1>1. blocks \in Nat
  BY PeerBarrierAssumption, FS_CardinalityType DEF blocks
<1>2. blocks # 0
  BY PeerBarrierAssumption, FS_EmptySet DEF blocks
<1> QED BY <1>1, <1>2

(* What a cumulative arrival counter says about the launch in progress.    *)
LEMMA Cumulative ==
  ASSUME NEW a \in Nat, NEW k \in Nat, k < blocks
  PROVE  /\ epoch_from_cumulative(a * blocks + k, blocks) = a + 1
         /\ last_arrival(a * blocks + k, blocks) <=> k + 1 = blocks
<1>1. (a * blocks + k) \div blocks = a /\ (a * blocks + k) % blocks = k
  BY BlocksType
<1> QED BY <1>1, BlocksType DEF epoch_from_cumulative, last_arrival

(* The arrivals of a launch are some of the grid's CTAs.                   *)
LEMMA PresentType ==
  ASSUME NEW r \in Rank
  PROVE  /\ IsFiniteSet(present(r))
         /\ Cardinality(present(r)) \in 0 .. blocks
         /\ Cardinality(present(r)) = blocks <=> present(r) = Block
<1>1. present(r) \in SUBSET Block  BY DEF present
<1>2. /\ IsFiniteSet(present(r))
      /\ Cardinality(present(r)) <= blocks
      /\ blocks = Cardinality(present(r)) => Block = present(r)
  BY <1>1, FS_Subset, PeerBarrierAssumption DEF blocks
<1>3. Cardinality(present(r)) \in Nat
  BY <1>2, FS_CardinalityType
<1> QED BY <1>2, <1>3, BlocksType DEF blocks

(* Below the bound, no counter of the model wraps.                         *)
LEMMA BumpExact ==
  ASSUME NEW x \in Nat, x + 1 < CounterMod
  PROVE  bump(x) = x + 1
BY CounterModAssumption DEF bump

(* Before the first launch counters, flags and pokes are all at 0.         *)
LEMMA InitIInv == Init => IInv
<1> SUFFICES ASSUME Init PROVE IInv  OBVIOUS
<1> USE DEF Init
<1>1. \A r \in Rank : present(r) = {}  BY DEF present
<1>2. \A r \in Rank : Cardinality(present(r)) = 0  BY <1>1, FS_EmptySet
<1>3. Block # {}  BY PeerBarrierAssumption
<1>4. \A r \in Rank : grids(r) = 0  BY <1>1, <1>3 DEF grids
<1>5. TypeOK  BY CounterModAssumption, PeerBarrierAssumption DEF TypeOK
<1>6. CountInv  BY <1>2, BlocksType DEF CountInv
<1>7. SentInv  BY <1>4 DEF SentInv
<1>8. TargetInv  BY DEF TargetInv
<1>9. CleanInv  BY <1>4 DEF CleanInv
<1> QED BY <1>5, <1>6, <1>7, <1>8, <1>9 DEF IInv

(* An arrival adds the CTA to the present ones, and completes the grid     *)
(* exactly when it finds the counter at the last value of the launch.      *)
LEMMA ArriveFacts ==
  ASSUME NoWrap, IInv, NEW r \in Rank, NEW b \in Block, Arrive(r, b)
  PROVE  /\ arrive_count'[r] = arrive_count[r] + 1
         /\ arrive_count[r] + 1 < CounterMod
         /\ present(r)' = present(r) \cup {b}
         /\ Cardinality(present(r)') = Cardinality(present(r)) + 1
         /\ present(r) # Block
         /\ target'[r][b] = launched[r] + 1
         /\ last_arrival(arrive_count[r], blocks) <=> present(r)' = Block
<1> DEFINE k == Cardinality(present(r))
<1>1. b \notin present(r)  BY DEF Arrive, present
<1>2. present(r) # Block  BY <1>1
<1>3. k \in Nat /\ k < blocks  BY <1>2, PresentType, BlocksType
<1>4. present(r)' = present(r) \cup {b}
  BY DEF Arrive, present, IInv, TypeOK
<1>5. Cardinality(present(r)') = k + 1
  BY <1>1, <1>4, PresentType, FS_AddElement
<1>6. launched[r] \in Nat /\ launched[r] + 1 <= MaxLaunch /\ MaxLaunch \in Nat
  BY PeerBarrierAssumption DEF Arrive, IInv, TypeOK
<1>7. arrive_count[r] = launched[r] * blocks + k
  BY DEF IInv, CountInv
<1>8. arrive_count[r] + 1 <= (launched[r] + 1) * blocks
  BY <1>3, <1>6, <1>7, BlocksType
<1>9. (launched[r] + 1) * blocks <= MaxLaunch * blocks
  BY <1>6, BlocksType
<1>10. arrive_count[r] \in Nat  BY <1>3, <1>6, <1>7, BlocksType
<1>11. arrive_count[r] + 1 < CounterMod
  BY <1>6, <1>8, <1>9, <1>10, BlocksType, CounterModAssumption DEF NoWrap
<1>12. arrive_count'[r] = arrive_count[r] + 1
  BY <1>10, <1>11, BumpExact DEF Arrive, publish, IInv, TypeOK
<1>13. target'[r][b] = launched[r] + 1
  BY <1>3, <1>6, <1>7, Cumulative DEF Arrive, publish, IInv, TypeOK
<1>14. last_arrival(arrive_count[r], blocks) <=> k + 1 = blocks
  BY <1>3, <1>6, <1>7, Cumulative
<1>15. present(r)' = Block <=> k + 1 = blocks
  <2>1. present(r)' \in SUBSET Block  BY <1>4 DEF present
  <2>2. Block = present(r)' <=> blocks = Cardinality(present(r)')
    BY <2>1, FS_Subset, PeerBarrierAssumption DEF blocks
  <2> QED BY <2>2, <1>5
<1> QED BY <1>2, <1>4, <1>5, <1>11, <1>12, <1>13, <1>14, <1>15

(* Completed grids are counted by naturals up to the number of launches.   *)
LEMMA GridsType ==
  ASSUME IInv, NEW r \in Rank
  PROVE  grids(r) \in Nat /\ grids(r) <= MaxLaunch
<1>1. launched[r] \in 0 .. MaxLaunch /\ MaxLaunch \in Nat
  BY PeerBarrierAssumption DEF IInv, TypeOK
<1>2. present(r) = Block => launched[r] < MaxLaunch
  BY PeerBarrierAssumption DEF IInv, TargetInv, present
<1> QED BY <1>1, <1>2 DEF grids

(* An arrival, the last of its grid included, keeps the invariant.         *)
LEMMA ArriveIInv ==
  ASSUME NoWrap, IInv, NEW r \in Rank, NEW b \in Block, Arrive(r, b)
  PROVE  IInv'
<1> USE DEF IInv, TypeOK
<1>1. /\ arrive_count'[r] = arrive_count[r] + 1
      /\ arrive_count[r] + 1 < CounterMod
      /\ present(r)' = present(r) \cup {b}
      /\ Cardinality(present(r)') = Cardinality(present(r)) + 1
      /\ present(r) # Block
      /\ target'[r][b] = launched[r] + 1
      /\ last_arrival(arrive_count[r], blocks) <=> present(r)' = Block
  BY ArriveFacts
<1>2. /\ launched' = launched /\ flags' = flags /\ pperr' = pperr
      /\ pc' = [pc EXCEPT ![r][b] = "wait"]
      /\ launched[r] < MaxLaunch
  BY DEF Arrive
<1>3. \A q \in Rank : q # r => /\ present(q)' = present(q)
                              /\ arrive_count'[q] = arrive_count[q]
                              /\ target'[q] = target[q]
  BY <1>2 DEF present, Arrive, publish
<1>4. \A q \in Rank : launched[q] \in Nat  OBVIOUS
<1>5. \A q \in Rank : q # r => grids(q)' = grids(q)
  BY <1>2, <1>3 DEF grids
<1>6. grids(r)' = grids(r) + IF present(r)' = Block THEN 1 ELSE 0
  BY <1>1, <1>2, <1>4 DEF grids
<1>7. posted' = IF present(r)' = Block THEN fanout_signal(r) ELSE posted
  BY <1>1 DEF Arrive, publish
<1>8. TypeOK'
  <2>1. posted' \in [Rank -> [Rank -> Nat]]  BY <1>7 DEF fanout_signal
  <2>2. arrive_count' \in [Rank -> 0 .. CounterMod - 1]
    BY CounterModAssumption DEF Arrive, publish, bump
  <2>3. target' \in [Rank -> [Block -> Nat]]
    <3>1. target' = [target EXCEPT ![r][b] =
                       epoch_from_cumulative(arrive_count[r], blocks)]
      BY DEF Arrive, publish
    <3>2. target'[r][b] = epoch_from_cumulative(arrive_count[r], blocks)
      BY <3>1
    <3> QED BY <3>1, <3>2, <1>1, <1>4
  <2> QED BY <1>2, <2>1, <2>2, <2>3
<1>9. CountInv'
  <2>1. launched[r] * blocks \in Nat  BY BlocksType, <1>4
  <2>2. Cardinality(present(r)) \in Nat  BY PresentType
  <2>3. arrive_count'[r] = launched[r] * blocks + Cardinality(present(r)')
    BY <1>1, <2>1, <2>2 DEF CountInv
  <2>4. \A q \in Rank : q # r =>
          arrive_count'[q] = launched'[q] * blocks' + Cardinality(present(q)')
    BY <1>2, <1>3 DEF CountInv, blocks
  <2>5. arrive_count'[r] = launched'[r] * blocks' + Cardinality(present(r)')
    BY <1>2, <2>3 DEF blocks
  <2>6. \A q \in Rank :
          arrive_count'[q] = launched'[q] * blocks' + Cardinality(present(q)')
    BY <2>4, <2>5
  <2> QED BY <2>6 DEF CountInv
<1>10. SentInv'
  <2> SUFFICES ASSUME NEW s \in Rank, NEW q \in Rank
               PROVE  flags'[q][s] + posted'[s][q] = grids(s)'
    BY DEF SentInv
  <2>1. flags[q][s] + posted[s][q] = grids(s)  BY DEF SentInv
  <2>2. flags[q][s] \in Nat /\ posted[s][q] \in Nat  OBVIOUS
  <2>3. CASE s # r  BY <2>1, <2>3, <1>2, <1>5, <1>7 DEF fanout_signal
  <2>4. CASE s = r /\ present(r)' = Block
    <3>1. posted'[s][q] = posted[s][q] + 1  BY <2>4, <1>7 DEF fanout_signal
    <3> QED BY <2>1, <2>2, <2>4, <3>1, <1>2, <1>6
  <2>5. CASE s = r /\ present(r)' # Block
    <3>1. posted' = posted  BY <2>5, <1>7
    <3>2. grids(s)' = grids(s)  BY <2>5, <1>6, GridsType
    <3> QED BY <2>1, <3>1, <3>2, <1>2
  <2> QED BY <2>3, <2>4, <2>5
<1>11. TargetInv'
  <2>1. target'[r][b] = launched[r] + 1  BY <1>1
  <2>2. \A c \in Block : c # b => target'[r][c] = target[r][c]
    BY DEF Arrive, publish
  <2> QED BY <1>2, <1>3, <2>1, <2>2 DEF TargetInv
<1>12. CleanInv'
  <2>1. \A s \in Rank : grids(s)' >= grids(s) /\ grids(s) \in Nat
    <3> TAKE s \in Rank
    <3>1. grids(s) \in Nat  BY GridsType
    <3>2. CASE s = r  BY <3>1, <3>2, <1>6
    <3>3. CASE s # r  BY <3>1, <3>3, <1>5
    <3> QED BY <3>2, <3>3, <3>1
  <2>2. \A q \in Rank, c \in Block : pc'[q][c] = "left" => pc[q][c] = "left"
    BY <1>2
  <2>3. \A s \in Rank : grids(s)' \in Nat
    BY <1>5, <1>6, GridsType
  <2> QED BY <1>2, <1>4, <2>1, <2>2, <2>3 DEF CleanInv
<1> QED BY <1>8, <1>9, <1>10, <1>11, <1>12

(* A poke that lands turns one under way into one of the flag.             *)
LEMMA DeliverIInv ==
  ASSUME NoWrap, IInv, NEW s \in Rank, NEW r \in Rank, Deliver(s, r)
  PROVE  IInv'
<1> USE DEF IInv, TypeOK
<1>1. /\ posted[s][r] > 0
      /\ posted' = [posted EXCEPT ![s][r] = @ - 1]
      /\ UNCHANGED <<pc, target, arrive_count, launched, pperr>>
  BY DEF Deliver
<1>2. \A q \in Rank : present(q)' = present(q) /\ grids(q)' = grids(q)
  BY <1>1 DEF present, grids
<1>3. flags[r][s] + 1 < CounterMod
  <2>1. flags[r][s] + posted[s][r] = grids(s)  BY DEF SentInv
  <2>2. flags[r][s] + 1 <= MaxLaunch
    BY <1>1, <2>1, GridsType, PeerBarrierAssumption
  <2>3. /\ MaxLaunch * blocks \in Nat
        /\ MaxLaunch <= MaxLaunch * blocks
    BY BlocksType, PeerBarrierAssumption
  <2>4. flags[r][s] \in Nat /\ MaxLaunch \in Nat /\ CounterMod \in Nat
    BY PeerBarrierAssumption, CounterModAssumption
  <2> QED BY <2>2, <2>3, <2>4 DEF NoWrap
<1>4. flags' = [flags EXCEPT ![r][s] = @ + 1]
  <2>1. bump(flags[r][s]) = flags[r][s] + 1  BY <1>3, BumpExact
  <2> QED BY <2>1 DEF Deliver
<1>5. TypeOK'
  BY <1>1, <1>3, <1>4, CounterModAssumption
<1>6. SentInv'
  <2> SUFFICES ASSUME NEW t \in Rank, NEW q \in Rank
               PROVE  flags'[q][t] + posted'[t][q] = grids(t)'
    BY DEF SentInv
  <2>1. flags[q][t] + posted[t][q] = grids(t)  BY DEF SentInv
  <2>2. flags[q][t] \in Nat /\ posted[t][q] \in Nat  OBVIOUS
  <2>3. CASE q = r /\ t = s
    <3>1. flags'[q][t] = flags[q][t] + 1  BY <1>4, <2>3
    <3>2. posted'[t][q] = posted[t][q] - 1  BY <1>1, <2>3
    <3> QED BY <1>2, <2>1, <2>2, <3>1, <3>2
  <2>4. CASE ~(q = r /\ t = s)
    <3>1. flags'[q][t] = flags[q][t]  BY <1>4, <2>4
    <3>2. posted'[t][q] = posted[t][q]  BY <1>1, <2>4
    <3> QED BY <1>2, <2>1, <3>1, <3>2
  <2> QED BY <2>3, <2>4
<1>7. CountInv'  BY <1>1, <1>2 DEF CountInv, blocks
<1>8. TargetInv'  BY <1>1 DEF TargetInv
<1>9. CleanInv'  BY <1>1, <1>2 DEF CleanInv
<1> QED BY <1>5, <1>6, <1>7, <1>8, <1>9

(* A CTA whose polls are all satisfied has seen a completed grid of the    *)
(* current launch of every rank.                                           *)
LEMMA PassReached ==
  ASSUME IInv, NEW r \in Rank, NEW b \in Block, Pass(r, b)
  PROVE  \A s \in Rank : grids(s) > launched[r]
<1> USE DEF IInv, TypeOK
<1> TAKE s \in Rank
<1>1. flags[r][s] >= target[r][b]  BY DEF Pass, all_reached, reached
<1>2. target[r][b] = launched[r] + 1  BY DEF Pass, TargetInv
<1>3. flags[r][s] + posted[s][r] = grids(s)  BY DEF SentInv
<1>4. flags[r][s] \in Nat /\ posted[s][r] \in Nat /\ launched[r] \in Nat
  OBVIOUS
<1> QED BY <1>1, <1>2, <1>3, <1>4

(* A CTA passes only when every rank's grid is complete.                   *)
LEMMA PassIInv ==
  ASSUME IInv, NEW r \in Rank, NEW b \in Block, Pass(r, b)
  PROVE  IInv'
<1> USE DEF IInv, TypeOK
<1>1. /\ pc[r][b] = "wait" /\ pc' = [pc EXCEPT ![r][b] = "left"]
      /\ UNCHANGED <<target, arrive_count, flags, posted, launched, pperr>>
  BY DEF Pass
<1>2. \A q \in Rank : present(q)' = present(q) /\ grids(q)' = grids(q)
  BY <1>1 DEF present, grids
<1>3. \A s \in Rank : grids(s) > launched[r]  BY PassReached
<1>4. TypeOK'  BY <1>1
<1>5. CountInv' /\ SentInv'  BY <1>1, <1>2 DEF CountInv, SentInv, blocks
<1>6. TargetInv'  BY <1>1 DEF TargetInv
<1>7. CleanInv'
  BY <1>1, <1>2, <1>3 DEF CleanInv
<1> QED BY <1>4, <1>5, <1>6, <1>7

(* A time-out raises the bit that the invariant of clean ranks excludes.   *)
LEMMA TimeOutIInv ==
  ASSUME IInv, NEW r \in Rank, NEW b \in Block, TimeOut(r, b)
  PROVE  IInv'
<1> USE DEF IInv, TypeOK
<1>1. /\ pc[r][b] = "wait" /\ pc' = [pc EXCEPT ![r][b] = "left"]
      /\ pperr' = [pperr EXCEPT ![r] = TRUE]
      /\ UNCHANGED <<target, arrive_count, flags, posted, launched>>
  BY DEF TimeOut
<1>2. \A q \in Rank : present(q)' = present(q) /\ grids(q)' = grids(q)
  BY <1>1 DEF present, grids
<1>3. TypeOK'  BY <1>1
<1>4. CountInv' /\ SentInv'  BY <1>1, <1>2 DEF CountInv, SentInv, blocks
<1>5. TargetInv'  BY <1>1 DEF TargetInv
<1>6. CleanInv'  BY <1>1, <1>2 DEF CleanInv
<1> QED BY <1>3, <1>4, <1>5, <1>6

(* Stream order turns a completed grid into a completed launch, so the     *)
(* number of grids a rank has completed does not change.                   *)
LEMMA NextLaunchIInv ==
  ASSUME IInv, NEW r \in Rank, NextLaunch(r)
  PROVE  IInv'
<1> USE DEF IInv, TypeOK
<1>1. /\ \A b \in Block : pc[r][b] = "left"
      /\ pc' = [pc EXCEPT ![r] = [b \in Block |-> "ready"]]
      /\ launched' = [launched EXCEPT ![r] = @ + 1]
      /\ UNCHANGED <<target, arrive_count, flags, posted, pperr>>
  BY DEF NextLaunch
<1>2. PICK b0 \in Block : TRUE  BY PeerBarrierAssumption
<1>3. launched[r] < MaxLaunch /\ launched[r] \in Nat /\ MaxLaunch \in Nat
  BY <1>1, <1>2, PeerBarrierAssumption DEF TargetInv
<1>4. present(r) = Block /\ present(r)' = {}
  BY <1>1 DEF present
<1>5. Cardinality(present(r)) = blocks /\ Cardinality(present(r)') = 0
  BY <1>4, FS_EmptySet DEF blocks
<1>6. \A q \in Rank : q # r => present(q)' = present(q)
  BY <1>1 DEF present
<1>7. \A q \in Rank : grids(q)' = grids(q)
  <2>1. grids(r) = launched[r] + 1  BY <1>4 DEF grids
  <2>2. grids(r)' = launched[r] + 1  BY <1>1, <1>2, <1>3, <1>4 DEF grids
  <2>3. \A q \in Rank : q # r => grids(q)' = grids(q)
    BY <1>1, <1>6 DEF grids
  <2> QED BY <2>1, <2>2, <2>3
<1>8. TypeOK'  BY <1>1, <1>3
<1>9. CountInv'
  <2>1. arrive_count[r] = launched[r] * blocks + blocks
    BY <1>5 DEF CountInv
  <2>2. arrive_count[r] = (launched[r] + 1) * blocks + 0
    BY <1>3, <2>1, BlocksType
  <2>3. arrive_count'[r] = launched'[r] * blocks' + Cardinality(present(r)')
    BY <1>1, <1>5, <2>2 DEF blocks
  <2>4. \A q \in Rank : q # r =>
          arrive_count'[q] = launched'[q] * blocks' + Cardinality(present(q)')
    BY <1>1, <1>6 DEF CountInv, blocks
  <2>5. \A q \in Rank :
          arrive_count'[q] = launched'[q] * blocks' + Cardinality(present(q)')
    BY <2>3, <2>4
  <2> QED BY <2>5 DEF CountInv
<1>10. SentInv'  BY <1>1, <1>7 DEF SentInv
<1>11. TargetInv'  BY <1>1 DEF TargetInv
<1>12. CleanInv'
  <2> SUFFICES ASSUME NEW q \in Rank, NEW s \in Rank, ~pperr[q]
               PROVE  /\ grids(s)' >= launched'[q]
                      /\ \A b \in Block : pc'[q][b] = "left" =>
                                            grids(s)' > launched'[q]
    BY <1>1 DEF CleanInv
  <2>1. CASE q # r  BY <1>1, <1>7, <2>1 DEF CleanInv
  <2>2. CASE q = r
    <3>1. grids(s) > launched[r]  BY <1>1, <1>2, <2>2 DEF CleanInv
    <3>2. grids(s) \in Nat  BY GridsType
    <3> QED BY <1>1, <1>3, <1>7, <2>2, <3>1, <3>2
  <2> QED BY <2>1, <2>2
<1> QED BY <1>8, <1>9, <1>10, <1>11, <1>12

(* The invariant looks at the variables only.                              *)
LEMMA StutterIInv == IInv /\ UNCHANGED vars => IInv'
BY DEF IInv, TypeOK, CountInv, SentInv, TargetInv, CleanInv, grids, present,
       blocks, vars

(* The inductive invariant holds of every behaviour of PeerBarrier whose   *)
(* arrival counters cannot wrap.                                           *)
THEOREM Invariance == ASSUME NoWrap PROVE Spec => []IInv
<1>1. Init => IInv  BY InitIInv
<1>2. IInv /\ [Next]_vars => IInv'
  <2> SUFFICES ASSUME IInv, [Next]_vars PROVE IInv'  OBVIOUS
  <2>1. ASSUME NEW r \in Rank, NEW b \in Block, Arrive(r, b) PROVE IInv'
    BY <2>1, ArriveIInv, NoWrap
  <2>2. ASSUME NEW r \in Rank, NEW b \in Block, Pass(r, b) PROVE IInv'
    BY <2>2, PassIInv
  <2>3. ASSUME NEW r \in Rank, NEW b \in Block, TimeOut(r, b) PROVE IInv'
    BY <2>3, TimeOutIInv
  <2>4. ASSUME NEW s \in Rank, NEW r \in Rank, Deliver(s, r) PROVE IInv'
    BY <2>4, DeliverIInv, NoWrap
  <2>5. ASSUME NEW r \in Rank, NextLaunch(r) PROVE IInv'
    BY <2>5, NextLaunchIInv
  <2>6. CASE UNCHANGED vars  BY <2>6, StutterIInv
  <2> QED BY <2>1, <2>2, <2>3, <2>4, <2>5, <2>6 DEF Next
<1> QED BY <1>1, <1>2, PTL DEF Spec

(* Type correctness of PeerBarrier.                                        *)
THEOREM TypeCorrect == ASSUME NoWrap PROVE Spec => []TypeOK
<1>1. IInv => TypeOK  BY DEF IInv
<1> QED BY <1>1, Invariance, PTL

(* The invariant implies the separation of the epochs.                     *)
LEMMA IInvSeparation == IInv => Separation
<1> SUFFICES ASSUME IInv, NEW w \in Worker, NEW v \in Worker, w \notin failed
             PROVE  arrived[v] >= left[w]
  BY DEF Separation
<1> USE DEF IInv, TypeOK
<1>1. w[1] \in Rank /\ w[2] \in Block /\ v[1] \in Rank /\ v[2] \in Block
  BY DEF Worker
<1>2. ~pperr[w[1]]  BY DEF failed
<1>3. left[w] = launched[w[1]] + IF pc[w[1]][w[2]] = "left" THEN 1 ELSE 0
  BY DEF left
<1>4. arrived[v] = launched[v[1]] + IF pc[v[1]][v[2]] = "ready" THEN 0 ELSE 1
  BY DEF arrived
<1>5. launched[w[1]] \in Nat /\ launched[v[1]] \in Nat  BY <1>1
<1>6. grids(v[1]) <= arrived[v]
  BY <1>1, <1>4, <1>5 DEF grids, present
<1>7. left[w] <= grids(v[1])
  BY <1>1, <1>2, <1>3, <1>5, GridsType DEF CleanInv
<1> QED BY <1>1, <1>3, <1>4, <1>5, <1>6, <1>7, GridsType

(* The separation of epochs: no CTA of a rank without error bit leaves its *)
(* n-th cross-rank barrier before every CTA of every rank has arrived at   *)
(* its n-th (kernels/hkp/hkp_sync.hpp, wait_before_reads).                 *)
THEOREM Separated == ASSUME NoWrap PROVE Spec => []Separation
BY Invariance, IInvSeparation, PTL

-----------------------------------------------------------------------------
(* The refinement: what each step does to the arrivals and departures.     *)
LEMMA CountsUnchanged ==
  ASSUME UNCHANGED <<launched, pperr, pc>>
  PROVE  UNCHANGED <<arrived, left, failed>>
BY DEF arrived, left, failed

(* An arrival is an arrival of the abstract barrier.                       *)
LEMMA ArriveRefines ==
  ASSUME IInv, NEW r \in Rank, NEW b \in Block, Arrive(r, b)
  PROVE  B!Arrive(<<r, b>>)
<1> USE DEF IInv, TypeOK
<1> DEFINE w == <<r, b>>
<1>1. /\ pc[r][b] = "ready" /\ pc' = [pc EXCEPT ![r][b] = "wait"]
      /\ UNCHANGED <<launched, pperr>>
  BY DEF Arrive
<1>2. w \in Worker /\ w[1] = r /\ w[2] = b  BY DEF Worker
<1>3. arrived[w] = left[w]  BY <1>1, <1>2 DEF arrived, left
<1>4. arrived' = [arrived EXCEPT ![w] = @ + 1]
  <2>1. arrived'[w] = arrived[w] + 1
    BY <1>1, <1>2 DEF arrived
  <2>2. \A v \in Worker : v # w => arrived'[v] = arrived[v]
    BY <1>1 DEF arrived, Worker
  <2> QED BY <2>1, <2>2 DEF arrived
<1>5. left' = left
  <2>1. \A v \in Worker : left'[v] = left[v]
    BY <1>1 DEF left, Worker
  <2> QED BY <2>1 DEF left
<1>6. failed' = failed  BY <1>1 DEF failed
<1> QED BY <1>3, <1>4, <1>5, <1>6 DEF B!Arrive

(* A departure is one of the two ways out of the abstract barrier.         *)
LEMMA LeaveCounts ==
  ASSUME IInv, NEW r \in Rank, NEW b \in Block, pc[r][b] = "wait",
         pc' = [pc EXCEPT ![r][b] = "left"], launched' = launched
  PROVE  /\ <<r, b>> \in Worker
         /\ left[<<r, b>>] < arrived[<<r, b>>]
         /\ arrived[<<r, b>>] = launched[r] + 1
         /\ left' = [left EXCEPT ![<<r, b>>] = @ + 1]
         /\ arrived' = arrived
<1> USE DEF IInv, TypeOK
<1> DEFINE w == <<r, b>>
<1>1. w \in Worker /\ w[1] = r /\ w[2] = b  BY DEF Worker
<1>2. left[w] = launched[r] /\ arrived[w] = launched[r] + 1
  BY <1>1 DEF left, arrived
<1>3. left'[w] = left[w] + 1  BY <1>1 DEF left
<1>4. \A v \in Worker : v # w => left'[v] = left[v]
  BY <1>1 DEF left, Worker
<1>5. \A v \in Worker : arrived'[v] = arrived[v]
  BY DEF arrived, Worker
<1>6. left' = [left EXCEPT ![w] = @ + 1]
  <2>1. /\ left = [v \in Worker |-> left[v]]
        /\ left' = [v \in Worker |-> left'[v]]
    BY DEF left
  <2> HIDE DEF w
  <2> QED BY <1>1, <1>3, <1>4, <2>1
<1>7. arrived' = arrived  BY <1>5 DEF arrived
<1> QED BY <1>1, <1>2, <1>6, <1>7

(* A CTA that passes leaves the abstract barrier.                          *)
LEMMA PassRefines ==
  ASSUME IInv, NEW r \in Rank, NEW b \in Block, Pass(r, b)
  PROVE  B!Leave(<<r, b>>)
<1> USE DEF IInv, TypeOK
<1>1. /\ pc[r][b] = "wait" /\ pc' = [pc EXCEPT ![r][b] = "left"]
      /\ UNCHANGED <<target, arrive_count, flags, posted, launched, pperr>>
  BY DEF Pass
<1>2. \A s \in Rank : grids(s) > launched[r]  BY PassReached
<1>3. \A v \in Worker : arrived[v] >= arrived[<<r, b>>]
  <2> TAKE v \in Worker
  <2>1. v[1] \in Rank /\ v[2] \in Block  BY DEF Worker
  <2>2. arrived[v] = launched[v[1]] + IF pc[v[1]][v[2]] = "ready" THEN 0 ELSE 1
    BY DEF arrived
  <2>3. grids(v[1]) <= arrived[v]  BY <2>1, <2>2 DEF grids, present
  <2>4. arrived[<<r, b>>] = launched[r] + 1  BY <1>1, LeaveCounts
  <2>5. launched[r] \in Nat /\ launched[v[1]] \in Nat  BY <2>1
  <2> QED BY <1>2, <2>1, <2>2, <2>3, <2>4, <2>5, GridsType
<1>4. failed' = failed  BY <1>1 DEF failed
<1> QED BY <1>1, <1>3, <1>4, LeaveCounts DEF B!Leave

(* A time-out is a failure of the abstract barrier, of all CTAs of the rank*)
LEMMA TimeOutRefines ==
  ASSUME IInv, NEW r \in Rank, NEW b \in Block, TimeOut(r, b)
  PROVE  B!GiveUp(<<r, b>>)
<1> USE DEF IInv, TypeOK
<1> DEFINE S == {v \in Worker : v[1] = r}
<1>1. /\ pc[r][b] = "wait" /\ pc' = [pc EXCEPT ![r][b] = "left"]
      /\ pperr' = [pperr EXCEPT ![r] = TRUE]
      /\ launched' = launched
  BY DEF TimeOut
<1>2. failed' = failed \cup S
  BY <1>1 DEF failed, Worker
<1>3. <<r, b>> \in S  BY DEF Worker
<1>4. S \in SUBSET Worker  OBVIOUS
<1> QED BY <1>1, <1>2, <1>3, <1>4, LeaveCounts DEF B!GiveUp

(* The next launch is no step of the abstract barrier.                     *)
LEMMA NextLaunchRefines ==
  ASSUME IInv, NEW r \in Rank, NextLaunch(r)
  PROVE  UNCHANGED <<arrived, left, failed>>
<1> USE DEF IInv, TypeOK
<1>1. /\ \A b \in Block : pc[r][b] = "left"
      /\ pc' = [pc EXCEPT ![r] = [b \in Block |-> "ready"]]
      /\ launched' = [launched EXCEPT ![r] = @ + 1]
      /\ pperr' = pperr
  BY DEF NextLaunch
<1>2. \A v \in Worker : arrived'[v] = arrived[v] /\ left'[v] = left[v]
  <2> TAKE v \in Worker
  <2>1. v[1] \in Rank /\ v[2] \in Block  BY DEF Worker
  <2>2. CASE v[1] = r  BY <1>1, <2>1, <2>2 DEF arrived, left
  <2>3. CASE v[1] # r  BY <1>1, <2>1, <2>3 DEF arrived, left
  <2> QED BY <2>2, <2>3
<1>3. failed' = failed  BY <1>1 DEF failed
<1>4. arrived' = arrived /\ left' = left  BY <1>2 DEF arrived, left
<1> QED BY <1>3, <1>4

(* The doorbell barrier implements the fail-closed barrier, whatever the   *)
(* number of ranks and CTAs and whichever waits time out                   *)
(* (kernels/hkp/hkp_sync.hpp, publish_after_writes, wait_before_reads).    *)
THEOREM Implements == ASSUME NoWrap PROVE Spec => Refinement
<1>1. Init => B!Init
  <2> SUFFICES ASSUME Init PROVE B!Init  OBVIOUS
  <2>1. \A v \in Worker : arrived[v] = 0 /\ left[v] = 0
    BY DEF Init, arrived, left, Worker
  <2>2. arrived = [v \in Worker |-> 0] /\ left = [v \in Worker |-> 0]
    BY <2>1 DEF arrived, left
  <2>3. failed = {}  BY DEF Init, failed, Worker
  <2> QED BY <2>2, <2>3 DEF B!Init
<1>2. IInv /\ [Next]_vars => [B!Next]_(B!vars)
  <2> SUFFICES ASSUME IInv, [Next]_vars PROVE [B!Next]_(B!vars)  OBVIOUS
  <2>1. ASSUME NEW r \in Rank, NEW b \in Block, Arrive(r, b)
        PROVE  B!Next
    BY <2>1, ArriveRefines DEF B!Next, Worker
  <2>2. ASSUME NEW r \in Rank, NEW b \in Block, Pass(r, b)
        PROVE  B!Next
    BY <2>2, PassRefines DEF B!Next, Worker
  <2>3. ASSUME NEW r \in Rank, NEW b \in Block, TimeOut(r, b)
        PROVE  B!Next
    BY <2>3, TimeOutRefines DEF B!Next, Worker
  <2>4. ASSUME NEW s \in Rank, NEW r \in Rank, Deliver(s, r)
        PROVE  UNCHANGED B!vars
    BY <2>4, CountsUnchanged DEF Deliver, B!vars
  <2>5. ASSUME NEW r \in Rank, NextLaunch(r) PROVE UNCHANGED B!vars
    BY <2>5, NextLaunchRefines DEF B!vars
  <2>6. CASE UNCHANGED vars
    BY <2>6, CountsUnchanged DEF vars, B!vars
  <2> QED BY <2>1, <2>2, <2>3, <2>4, <2>5, <2>6 DEF Next
<1> QED BY <1>1, <1>2, Invariance, PTL DEF Spec, B!Spec, Refinement
=============================================================================
