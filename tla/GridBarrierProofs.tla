------------------------- MODULE GridBarrierProofs -------------------------
(* Proofs about GridBarrier, for every grid size and number of phases that *)
(* the counter can count.                                                  *)
EXTENDS GridBarrier, FiniteSetTheorems, TLAPS

(* A grid has at least one CTA.                                            *)
LEMMA BlocksType == blocks \in Nat \ {0}
<1>1. blocks \in Nat
  BY GridBarrierAssumption, FS_CardinalityType DEF blocks
<1>2. blocks # 0
  BY GridBarrierAssumption, FS_EmptySet DEF blocks
<1> QED BY <1>1, <1>2

(* Quotient and remainder of a counter by the grid size.                   *)
LEMMA Quotient ==
  ASSUME NEW a \in Nat, NEW k \in Nat, k < blocks
  PROVE  (a * blocks + k) \div blocks = a
BY BlocksType

(* The number of complete phases is a natural.                             *)
LEMMA PhaseType == IInv => phase \in Nat
BY BlocksType, CounterModAssumption DEF IInv, TypeOK, phase

(* The CTAs a phase ahead of the slowest are some of the grid's.           *)
LEMMA AheadType ==
  /\ IsFiniteSet(ahead)
  /\ Cardinality(ahead) \in 0 .. blocks
  /\ Cardinality(ahead) = blocks <=> ahead = Block
<1>1. ahead \in SUBSET Block  BY DEF ahead
<1>2. /\ IsFiniteSet(ahead)
      /\ Cardinality(ahead) <= blocks
      /\ blocks = Cardinality(ahead) => Block = ahead
  BY <1>1, FS_Subset, GridBarrierAssumption DEF blocks
<1>3. Cardinality(ahead) \in Nat  BY <1>2, FS_CardinalityType
<1> QED BY <1>2, <1>3, BlocksType DEF blocks

(* Before the first phase the counter is 0 and nobody waits.               *)
LEMMA InitIInv == Init => IInv
<1> SUFFICES ASSUME Init PROVE IInv  OBVIOUS
<1> USE DEF Init
<1>1. phase = 0  BY BlocksType DEF phase
<1>2. \A b \in Block : arrived[b] = 0  BY DEF arrived
<1>3. ahead = {}  BY <1>1, <1>2 DEF ahead
<1>4. Cardinality(ahead) = 0  BY <1>3, FS_EmptySet
<1>5. TypeOK
  <2>1. crossed \in [Block -> 0 .. MaxPhase]  BY GridBarrierAssumption
  <2>2. gbar \in 0 .. CounterMod - 1  BY CounterModAssumption
  <2> QED BY <2>1, <2>2 DEF TypeOK
<1>6. BoundInv /\ CleanInv  BY <1>1, <1>2, <1>4, BlocksType DEF CleanInv, BoundInv
<1> QED BY <1>5, <1>6 DEF IInv

(* While some CTA is still to arrive, the arrivals so far do not fill the  *)
(* phase.                                                                  *)
LEMMA ArriveIInv ==
  ASSUME NoWrap, IInv, NEW b \in Block, Arrive(b)
  PROVE  IInv'
<1> USE DEF IInv, TypeOK
<1> DEFINE k == Cardinality(ahead)
<1>1. /\ pc[b] = "work" /\ crossed[b] < MaxPhase
      /\ pc' = [pc EXCEPT ![b] = "wait"]
      /\ crossed' = crossed /\ pperr' = pperr
  BY DEF Arrive
<1>2. TypeOK'
  <2>1. grid_target(gbar, blocks) \in Nat
    BY BlocksType, CounterModAssumption DEF grid_target
  <2>2. bump(gbar) \in 0 .. CounterMod - 1
    BY CounterModAssumption DEF bump
  <2> QED BY <1>1, <2>1, <2>2 DEF Arrive
<1> BoundInv'  BY <1>1 DEF BoundInv
<1>3. CASE pperr  BY <1>1, <1>2, <1>3 DEF CleanInv
<1>4. CASE ~pperr
  <2>1. /\ gbar = phase * blocks + k
        /\ \A c \in Block :
             /\ arrived[c] \in {phase, phase + 1}
             /\ pc[c] = "work" => arrived[c] = phase
             /\ pc[c] = "wait" => target[c] = arrived[c] * blocks
    BY <1>4 DEF CleanInv
  <2>2. phase \in Nat /\ blocks \in Nat \ {0} /\ MaxPhase \in Nat
    BY PhaseType, BlocksType, GridBarrierAssumption
  <2>3. arrived[b] = phase /\ crossed[b] = phase
    BY <1>1, <2>1 DEF arrived
  <2>4. b \notin ahead  BY <2>2, <2>3 DEF ahead
  <2>5. k \in Nat /\ k < blocks  BY <2>4, AheadType, BlocksType
  <2>6. (phase + 1) * blocks <= MaxPhase * blocks
    BY <1>1, <2>2, <2>3
  <2>7. gbar + 1 <= (phase + 1) * blocks  BY <2>1, <2>2, <2>5
  <2>8. /\ (phase + 1) * blocks \in Nat /\ MaxPhase * blocks \in Nat
        /\ gbar \in Nat /\ CounterMod \in Nat
    BY <2>2, CounterModAssumption
  <2>9. (phase + 1) * blocks < CounterMod /\ gbar + 1 < CounterMod
    BY <2>6, <2>7, <2>8 DEF NoWrap
  <2>10. gbar' = gbar + 1
    BY <2>8, <2>9, CounterModAssumption DEF Arrive, bump
  <2>11. target' = [target EXCEPT ![b] = (phase + 1) * blocks]
    <3>1. grid_target(gbar, blocks) = ((phase + 1) * blocks) % CounterMod
      BY DEF grid_target, phase
    <3>2. ((phase + 1) * blocks) % CounterMod = (phase + 1) * blocks
      BY <2>8, <2>9, CounterModAssumption
    <3> QED BY <3>1, <3>2 DEF Arrive
  <2>12. arrived'[b] = phase + 1  BY <1>1, <2>3 DEF arrived
  <2>13. \A c \in Block : c # b => /\ arrived'[c] = arrived[c]
                                   /\ pc'[c] = pc[c] /\ target'[c] = target[c]
    BY <1>1, <2>11 DEF arrived
  <2>14. blocks' = blocks  BY DEF blocks
  <2>15. CASE k + 1 < blocks
    <3>1. phase' = phase
      <4>1. gbar' = phase * blocks + (k + 1)
        BY <2>1, <2>2, <2>5, <2>10
      <4>2. gbar' \div blocks = phase  BY <2>2, <2>5, <2>15, <4>1, Quotient
      <4> QED BY <4>2, <2>14 DEF phase
    <3>2. ahead' = ahead \cup {b}
      BY <2>12, <2>13, <3>1 DEF ahead
    <3>3. Cardinality(ahead') = k + 1
      BY <2>4, <3>2, AheadType, FS_AddElement
    <3>4. gbar' = phase' * blocks' + Cardinality(ahead)'
      BY <2>1, <2>2, <2>5, <2>10, <2>14, <3>1, <3>3
    <3>5. ASSUME NEW c \in Block
          PROVE  /\ arrived'[c] \in {phase', phase' + 1}
                 /\ pc'[c] = "work" => arrived'[c] = phase'
                 /\ pc'[c] = "wait" => target'[c] = arrived'[c] * blocks'
      BY <1>1, <2>1, <2>11, <2>12, <2>13, <2>14, <3>1
    <3> QED BY <1>2, <3>4, <3>5 DEF CleanInv
  <2>16. CASE k + 1 = blocks
    <3>1. phase' = phase + 1
      <4>1. gbar' = (phase + 1) * blocks + 0
        BY <2>1, <2>2, <2>5, <2>10, <2>16
      <4>2. gbar' \div blocks = phase + 1  BY <2>2, <4>1, Quotient
      <4> QED BY <4>2, <2>14 DEF phase
    <3>2. ahead \cup {b} = Block
      <4>1. Cardinality(ahead \cup {b}) = blocks
        BY <2>4, <2>16, AheadType, FS_AddElement
      <4>2. ahead \cup {b} \in SUBSET Block  BY DEF ahead
      <4> QED BY <4>1, <4>2, FS_Subset, GridBarrierAssumption DEF blocks
    <3>3. \A c \in Block : arrived'[c] = phase + 1
      BY <2>12, <2>13, <3>2 DEF ahead
    <3>4. ahead' = {}  BY <2>2, <3>1, <3>3 DEF ahead
    <3>5. Cardinality(ahead)' = 0  BY <3>4, FS_EmptySet
    <3>6. gbar' = phase' * blocks' + Cardinality(ahead)'
      BY <2>1, <2>2, <2>5, <2>10, <2>14, <2>16, <3>1, <3>5
    <3>7. ASSUME NEW c \in Block
          PROVE  /\ arrived'[c] \in {phase', phase' + 1}
                 /\ pc'[c] = "work" => arrived'[c] = phase'
                 /\ pc'[c] = "wait" => target'[c] = arrived'[c] * blocks'
      BY <1>1, <2>1, <2>11, <2>12, <2>13, <2>14, <3>1, <3>3
    <3> QED BY <1>2, <3>6, <3>7 DEF CleanInv
  <2> QED BY <2>5, <2>15, <2>16, BlocksType
<1> QED BY <1>3, <1>4

(* A CTA that passes keeps the invariant, and unless a wait has timed out  *)
(* every CTA has arrived as often as it.                                   *)
LEMMA PassIInv ==
  ASSUME NoWrap, IInv, NEW b \in Block, Pass(b)
  PROVE  /\ IInv'
         /\ ~pperr => \A c \in Block : arrived[c] >= arrived[b]
<1> USE DEF IInv, TypeOK
<1>1. /\ pc[b] = "wait" /\ pc' = [pc EXCEPT ![b] = "work"]
      /\ crossed' = [crossed EXCEPT ![b] = @ + 1]
      /\ UNCHANGED <<target, gbar, pperr>>
  BY DEF Pass, leave
<1>2. blocks' = blocks /\ phase' = phase  BY <1>1 DEF blocks, phase
<1>3. arrived' = arrived
  <2>1. \A c \in Block : arrived'[c] = arrived[c]  BY <1>1 DEF arrived
  <2> QED BY <2>1 DEF arrived
<1>4. ahead' = ahead  BY <1>2, <1>3 DEF ahead
<1>5. CASE pperr
  <2> QED BY <1>1, <1>5, GridBarrierAssumption DEF CleanInv, BoundInv
<1>6. CASE ~pperr
  <2>1. /\ target[b] = arrived[b] * blocks
        /\ gbar = phase * blocks + Cardinality(ahead)
        /\ arrived[b] \in {phase, phase + 1}
    BY <1>1, <1>6 DEF CleanInv
  <2>2. phase \in Nat /\ blocks \in Nat \ {0} /\ Cardinality(ahead) \in Nat
    BY PhaseType, BlocksType, AheadType
  <2>3. b \in ahead => arrived[b] = phase + 1  BY DEF ahead
  <2>4. arrived[b] = phase
    <3> SUFFICES ASSUME arrived[b] = phase + 1 PROVE FALSE  BY <2>1
    <3>1. (phase + 1) * blocks <= gbar
      BY <1>1, <2>1 DEF Pass, reached
    <3>2. gbar < (phase + 1) * blocks
      BY <2>2, CounterModAssumption DEF phase
    <3> QED BY <2>2, <3>1, <3>2
  <2>5. TypeOK' /\ BoundInv'
    BY <1>1, GridBarrierAssumption DEF BoundInv
  <2>6. CleanInv'
    BY <1>1, <1>2, <1>3, <1>4, <1>6, <2>4 DEF CleanInv
  <2>7. \A c \in Block : arrived[c] >= arrived[b]
    BY <1>6, <2>2, <2>4 DEF CleanInv
  <2> QED BY <2>5, <2>6, <2>7
<1> QED BY <1>5, <1>6

(* A time-out raises the error bit, and only that part of the invariant    *)
(* remains which holds of a rank in error.                                 *)
LEMMA TimeOutIInv ==
  ASSUME IInv, NEW b \in Block, TimeOut(b)
  PROVE  IInv'
<1> USE DEF IInv, TypeOK
<1>1. /\ pc[b] = "wait" /\ pc' = [pc EXCEPT ![b] = "work"]
      /\ crossed' = [crossed EXCEPT ![b] = @ + 1]
      /\ UNCHANGED <<target, gbar>> /\ pperr' = TRUE
  BY DEF TimeOut, leave
<1>2. crossed[b] < MaxPhase  BY <1>1 DEF BoundInv
<1> QED BY <1>1, <1>2, GridBarrierAssumption DEF CleanInv, BoundInv

(* The inductive invariant holds of every behaviour of GridBarrier whose   *)
(* counter cannot wrap.                                                    *)
THEOREM Invariance == ASSUME NoWrap PROVE Spec => []IInv
<1>1. Init => IInv  BY InitIInv
<1>2. IInv /\ [Next]_vars => IInv'
  <2> SUFFICES ASSUME IInv, [Next]_vars PROVE IInv'  OBVIOUS
  <2>1. ASSUME NEW b \in Block, Arrive(b) PROVE IInv'
    BY <2>1, ArriveIInv, NoWrap
  <2>2. ASSUME NEW b \in Block, Pass(b) PROVE IInv'
    BY <2>2, PassIInv, NoWrap
  <2>3. ASSUME NEW b \in Block, TimeOut(b) PROVE IInv'
    BY <2>3, TimeOutIInv
  <2>4. CASE UNCHANGED vars
    BY <2>4 DEF IInv, TypeOK, BoundInv, CleanInv, phase, ahead, arrived,
                blocks, vars
  <2> QED BY <2>1, <2>2, <2>3, <2>4 DEF Next
<1> QED BY <1>1, <1>2, PTL DEF Spec

(* Type correctness of GridBarrier.                                        *)
THEOREM TypeCorrect == ASSUME NoWrap PROVE Spec => []TypeOK
<1>1. IInv => TypeOK  BY DEF IInv
<1> QED BY <1>1, Invariance, PTL

(* The invariant implies the separation of the phases.                     *)
LEMMA IInvSeparation == IInv => Separation
<1> SUFFICES ASSUME IInv, NEW a \in Block, NEW b \in Block, a \notin failed
             PROVE  arrived[b] >= crossed[a]
  BY DEF Separation
<1>1. ~pperr  BY DEF failed
<1>2. /\ arrived[b] \in {phase, phase + 1}
      /\ arrived[a] \in {phase, phase + 1}
      /\ pc[a] = "work" => arrived[a] = phase
  BY <1>1 DEF IInv, CleanInv
<1>3. /\ arrived[a] = crossed[a] + IF pc[a] = "wait" THEN 1 ELSE 0
      /\ crossed[a] \in Nat
      /\ pc[a] \in {"work", "wait"}
  BY DEF arrived, IInv, TypeOK
<1>4. phase \in Nat  BY PhaseType
<1> QED BY <1>2, <1>3, <1>4

(* No CTA of a rank without error bit is past its n-th grid barrier before *)
(* every CTA of the grid has reached its n-th (kernels/hkp/hkp_sync.hpp,   *)
(* grid_barrier).                                                          *)
THEOREM Separated == ASSUME NoWrap PROVE Spec => []Separation
BY Invariance, IInvSeparation, PTL

(* An arrival is an arrival of the abstract barrier.                       *)
LEMMA ArriveRefines ==
  ASSUME IInv, NEW b \in Block, Arrive(b)
  PROVE  B!Arrive(b)
<1> USE DEF IInv, TypeOK
<1>1. /\ pc[b] = "work" /\ pc' = [pc EXCEPT ![b] = "wait"]
      /\ crossed' = crossed /\ pperr' = pperr
  BY DEF Arrive
<1>2. arrived[b] = crossed[b]  BY <1>1 DEF arrived
<1>3. arrived' = [arrived EXCEPT ![b] = @ + 1]
  <2>1. arrived'[b] = arrived[b] + 1  BY <1>1 DEF arrived
  <2>2. \A c \in Block : c # b => arrived'[c] = arrived[c]
    BY <1>1 DEF arrived
  <2>3. /\ arrived = [c \in Block |-> arrived[c]]
        /\ arrived' = [c \in Block |-> arrived'[c]]
    BY DEF arrived
  <2> QED BY <2>1, <2>2, <2>3
<1>4. failed' = failed  BY <1>1 DEF failed
<1> QED BY <1>1, <1>2, <1>3, <1>4 DEF B!Arrive

(* A CTA that ends its wait leaves the abstract barrier, or gives up.      *)
LEMMA LeaveRefines ==
  ASSUME NoWrap, IInv, NEW b \in Block, Pass(b) \/ TimeOut(b)
  PROVE  B!Leave(b) \/ B!GiveUp(b)
<1> USE DEF IInv, TypeOK
<1>1. /\ pc[b] = "wait" /\ pc' = [pc EXCEPT ![b] = "work"]
      /\ crossed' = [crossed EXCEPT ![b] = @ + 1]
  BY DEF Pass, TimeOut, leave
<1>2. crossed[b] < arrived[b]  BY <1>1 DEF arrived
<1>3. arrived' = arrived
  <2>1. \A c \in Block : arrived'[c] = arrived[c]  BY <1>1 DEF arrived
  <2> QED BY <2>1 DEF arrived
<1>4. CASE Pass(b) /\ ~pperr
  <2>1. failed' = failed  BY <1>4 DEF failed, Pass
  <2>2. \A c \in Block : arrived[c] >= arrived[b]  BY <1>4, PassIInv
  <2> QED BY <1>1, <1>2, <1>3, <2>1, <2>2 DEF B!Leave
<1>5. CASE Pass(b) /\ pperr
  <2>1. failed' = failed \cup {} /\ b \in failed  BY <1>5 DEF failed, Pass
  <2> QED BY <1>1, <1>2, <1>3, <2>1 DEF B!GiveUp
<1>6. CASE TimeOut(b)
  <2>1. failed' = failed \cup Block  BY <1>6 DEF failed, TimeOut
  <2> QED BY <1>1, <1>2, <1>3, <2>1 DEF B!GiveUp
<1> QED BY <1>4, <1>5, <1>6 DEF TypeOK

(* The counter barrier implements the fail-closed barrier between the CTAs *)
(* of a grid, whatever its size (kernels/hkp/hkp_sync.hpp, grid_barrier).  *)
THEOREM Implements == ASSUME NoWrap PROVE Spec => Refinement
<1>1. Init => B!Init
  <2> SUFFICES ASSUME Init PROVE B!Init  OBVIOUS
  <2>1. arrived = [c \in Block |-> 0]  BY DEF Init, arrived
  <2> QED BY <2>1 DEF Init, B!Init, failed
<1>2. IInv /\ [Next]_vars => [B!Next]_(B!vars)
  <2> SUFFICES ASSUME IInv, [Next]_vars PROVE [B!Next]_(B!vars)  OBVIOUS
  <2>1. ASSUME NEW b \in Block, Arrive(b) PROVE B!Next
    BY <2>1, ArriveRefines DEF B!Next
  <2>2. ASSUME NEW b \in Block, Pass(b) \/ TimeOut(b) PROVE B!Next
    BY <2>2, LeaveRefines, NoWrap DEF B!Next
  <2>3. CASE UNCHANGED vars
    BY <2>3 DEF vars, B!vars, arrived, failed
  <2> QED BY <2>1, <2>2, <2>3 DEF Next
<1> QED BY <1>1, <1>2, Invariance, PTL DEF Spec, B!Spec, Refinement
=============================================================================
