------------------------- MODULE ShmemBarrierProofs -------------------------
(* Proofs about ShmemBarrier: its type invariant, the separation of the    *)
(* rounds, that the words are clean between them, and that it implements   *)
(* Barrier, for every number of PEs and of rounds.                         *)
EXTENDS ShmemBarrier, TLAPS

(* Two stores are the same when they write the same value to the same word.*)
LEMMA Stores ==
  \A p, q, i, j, v, w :
    store(p, i, v) = store(q, j, w) <=> p = q /\ i = j /\ v = w
BY DEF store

(* The four stores of the protocol differ from each other and are stores.  *)
LEMMA Kinds ==
  ASSUME NEW p \in Other, NEW q \in Other
  PROVE  /\ arrival(p) = arrival(q) <=> p = q
         /\ collected(p) = collected(q) <=> p = q
         /\ release(p) = release(q) <=> p = q
         /\ taken(p) = taken(q) <=> p = q
         /\ collected(p) # release(q)
         /\ arrival(p) # taken(q)
         /\ arrival(p) # collected(q)
         /\ release(p) # taken(q)
         /\ {arrival(p), collected(p), release(p), taken(p)}
              \subseteq [pe : PE, word : PE, value : {0, 1}]
<1>1. p \in PE /\ 0 \in PE /\ p # 0 /\ q # 0
  BY ShmemBarrierAssumption DEF PE, Other
<1>2. /\ arrival(p) = arrival(q) <=> p = q
      /\ collected(p) = collected(q) <=> p = q
      /\ release(p) = release(q) <=> p = q
      /\ taken(p) = taken(q) <=> p = q
  BY Stores DEF arrival, collected, release, taken
<1>3. /\ collected(p) # release(q)
      /\ arrival(p) # taken(q)
      /\ arrival(p) # collected(q)
      /\ release(p) # taken(q)
  BY <1>1, Stores DEF arrival, collected, release, taken
<1>4. {arrival(p), collected(p), release(p), taken(p)}
        \subseteq [pe : PE, word : PE, value : {0, 1}]
  BY <1>1 DEF arrival, collected, release, taken, store
<1> QED BY <1>2, <1>3, <1>4

(* A posted store keeps the type of the stores on their way.               *)
LEMMA PostType ==
  ASSUME NEW W, NEW f \in [PE -> SUBSET W], NEW p \in PE, NEW w \in W
  PROVE  [f EXCEPT ![p] = @ \cup {w}] \in [PE -> SUBSET W]
OBVIOUS

(* PE 0, the coordinator, is a PE, and the others are the rest.            *)
LEMMA PEs0 == /\ 0 \in PE /\ Other = PE \ {0} /\ PEs \in Nat \ {0}
              /\ MaxRound \in Nat /\ \A p \in Other : p \in PE /\ p # 0 /\ p \in Nat
BY ShmemBarrierAssumption DEF PE, Other

(* Before the first round all words are clear.                             *)
LEMMA InitIInv == Init => IInv
<1> SUFFICES ASSUME Init PROVE IInv  OBVIOUS
<1> USE DEF Init
<1>1. TypeOK  BY PEs0 DEF TypeOK
<1>2. PhaseInv  BY PEs0 DEF PhaseInv
<1>3. PostedInv  BY PEs0 DEF PostedInv
<1>4. ArriveInv  BY PEs0 DEF ArriveInv, gathered, in_word
<1>5. ReleaseInv  BY PEs0 DEF ReleaseInv, released, woken, in_word
<1> QED BY <1>1, <1>2, <1>3, <1>4, <1>5 DEF IInv

(* The counts of rounds are naturals.                                      *)
LEMMA Counts ==
  ASSUME TypeOK, NEW p \in PE
  PROVE  entered[p] \in Nat /\ exited[p] \in Nat /\ turn \in Nat
BY PEs0 DEF TypeOK

(* The coordinator begins a round.                                         *)
LEMMA BeginIInv == ASSUME IInv, Begin PROVE IInv'
<1> USE DEF Begin, goto
<1>1. TypeOK'
  <2>1. entered[0] + 1 \in 0 .. MaxRound  BY PEs0 DEF IInv, TypeOK
  <2> QED BY <2>1, PEs0 DEF IInv, TypeOK
<1>2. PhaseInv'
  BY PEs0 DEF IInv, TypeOK, PhaseInv
<1>3. PostedInv'
  BY PEs0 DEF IInv, TypeOK, PostedInv
<1>4. ArriveInv'
  <2>1. \A p \in Other : gathered(p)' = gathered(p) /\ entered'[p] = entered[p]
    BY PEs0 DEF IInv, TypeOK, gathered
  <2> QED BY <2>1 DEF IInv, ArriveInv, in_word
<1>5. ReleaseInv'
  <2>1. \A p \in Other : released(p)' = released(p) /\ woken(p)' = woken(p)
    BY PEs0 DEF IInv, TypeOK, released, woken
  <2> QED BY <2>1 DEF IInv, ReleaseInv, in_word
<1> QED BY <1>1, <1>2, <1>3, <1>4, <1>5 DEF IInv

(* The coordinator takes the arrival of PE turn: the word's token is spent *)
(* and its reset is under way.                                             *)
LEMMA CollectIInv == ASSUME IInv, Collect PROVE IInv'
<1> USE DEF Collect, post
<1>1. turn \in Other /\ turn \in Nat /\ turn < PEs
  BY PEs0 DEF IInv, TypeOK, Other
<1>2. posted' = [posted EXCEPT ![0] = @ \cup {collected(turn)}]
  OBVIOUS
<1>3. /\ posted'[0] = posted[0] \cup {collected(turn)}
      /\ \A p \in Other : posted'[p] = posted[p]
  BY <1>2, PEs0 DEF IInv, TypeOK
<1>4. collected(turn) \notin posted[0]
  <2>1. posted[0] \subseteq {collected(p) : p \in 1 .. turn - 1}
    BY DEF IInv, PostedInv
  <2>2. \A p \in 1 .. turn - 1 : p \in Other /\ p # turn
    BY <1>1, PEs0 DEF Other
  <2> QED BY <2>1, <2>2, <1>1, Kinds
<1>5. TypeOK'
  <2>1. collected(turn) \in [pe : PE, word : PE, value : {0, 1}]
    BY <1>1, Kinds
  <2>2. posted' \in [PE -> SUBSET [pe : PE, word : PE, value : {0, 1}]]
    BY <2>1, <1>2, PostType, PEs0 DEF IInv, TypeOK
  <2>3. turn' \in 1 .. PEs  BY <1>1, PEs0 DEF IInv, TypeOK
  <2> QED BY <2>2, <2>3 DEF IInv, TypeOK
<1>6. PhaseInv'
  BY DEF IInv, PhaseInv
<1>7. PostedInv'
  <2>1. posted'[0] \subseteq {collected(p) : p \in 1 .. turn' - 1}
    BY <1>1, <1>3 DEF IInv, PostedInv
  <2> QED BY <2>1, <1>3 DEF IInv, PostedInv
<1>8. ArriveInv'
  <2> SUFFICES ASSUME NEW p \in Other
               PROVE  /\ entered'[p] = gathered(p)'
                         + IF in_word(0, p, 0)' \/ arrival(p) \in posted'[p]
                           THEN 1 ELSE 0
                      /\ arrival(p) \in posted'[p] =>
                           ~in_word(0, p, 0)' /\ collected(p) \notin posted'[0]
                      /\ collected(p) \in posted'[0] => pSync'[0][p] = 1
    BY DEF ArriveInv, arrival, collected, store
  <2>1. CASE p = turn
    <3>1. in_word(0, p, 0)
      BY <1>4, <2>1 DEF in_word, collected
    <3>2. arrival(p) \notin posted[p]
      BY <3>1 DEF IInv, ArriveInv
    <3>3. ~in_word(0, p, 0)' /\ arrival(p) \notin posted'[p]
      BY <1>3, <2>1, <3>2 DEF in_word, collected
    <3>4. gathered(p)' = gathered(p) + 1
      BY <1>1, <2>1, PEs0, Counts DEF gathered, IInv
    <3>5. entered[p] = gathered(p) + 1
      BY <3>1 DEF IInv, ArriveInv
    <3>6. gathered(p) \in Nat
      BY PEs0, Counts DEF gathered, IInv
    <3> QED BY <3>3, <3>4, <3>5, <3>6, <2>1
  <2>2. CASE p # turn
    <3>1. collected(p) \in posted'[0] <=> collected(p) \in posted[0]
      BY <1>1, <1>3, <2>2, Kinds
    <3>2. in_word(0, p, 0)' <=> in_word(0, p, 0)
      BY <3>1 DEF in_word, collected
    <3>3. gathered(p)' = gathered(p)
      BY <1>1, <2>2, PEs0 DEF gathered
    <3> QED BY <1>3, <3>1, <3>2, <3>3 DEF IInv, ArriveInv
  <2> QED BY <2>1, <2>2
<1>9. ReleaseInv'
  <2> SUFFICES ASSUME NEW p \in Other
               PROVE  /\ released(p)' = woken(p)'
                         + IF in_word(p, 0, p)' \/ release(p) \in posted'[0]
                           THEN 1 ELSE 0
                      /\ release(p) \in posted'[0] =>
                           ~in_word(p, 0, p)' /\ taken(p) \notin posted'[p]
                      /\ taken(p) \in posted'[p] => pSync'[p][0] = 1
    BY DEF ReleaseInv, release, taken, store
  <2>1. release(p) \in posted'[0] <=> release(p) \in posted[0]
    BY <1>1, <1>3, Kinds
  <2>2. released(p)' = released(p) /\ woken(p)' = woken(p)
    BY DEF released, woken
  <2>3. in_word(p, 0, p)' <=> in_word(p, 0, p)
    BY <1>3 DEF in_word
  <2> QED BY <1>3, <2>1, <2>2, <2>3 DEF IInv, ReleaseInv
<1> QED BY <1>5, <1>6, <1>7, <1>8, <1>9 DEF IInv

(* The coordinator has collected every arrival of the round.               *)
LEMMA CollectedIInv == ASSUME IInv, Collected PROVE IInv'
<1> USE DEF Collected, goto, fenced
<1>1. TypeOK'
  BY PEs0 DEF IInv, TypeOK
<1>2. PhaseInv'
  BY PEs0 DEF IInv, TypeOK, PhaseInv
<1>3. PostedInv'
  BY PEs0 DEF IInv, TypeOK, PostedInv
<1>4. ArriveInv'
  <2>1. \A p \in Other : gathered(p)' = gathered(p)
    BY PEs0 DEF IInv, TypeOK, gathered, Other
  <2> QED BY <2>1 DEF IInv, ArriveInv, in_word
<1>5. ReleaseInv'
  <2>1. \A p \in Other : released(p)' = released(p) /\ woken(p)' = woken(p)
    BY PEs0 DEF IInv, TypeOK, released, woken, Other
  <2> QED BY <2>1 DEF IInv, ReleaseInv, in_word
<1> QED BY <1>1, <1>2, <1>3, <1>4, <1>5 DEF IInv

(* The coordinator sends PE turn its release, and gives it its token.      *)
LEMMA ReleaseIInv == ASSUME IInv, Release PROVE IInv'
<1> USE DEF Release, post, fenced
<1>1. turn \in Other /\ turn \in Nat /\ turn < PEs /\ turn > 0
  BY PEs0 DEF IInv, TypeOK, Other
<1>2. posted' = [posted EXCEPT ![0] = @ \cup {release(turn)}]
  OBVIOUS
<1>3. /\ posted'[0] = {release(turn)}
      /\ \A p \in Other : posted'[p] = posted[p]
  BY <1>2, PEs0 DEF IInv, TypeOK
<1>4. TypeOK'
  <2>1. release(turn) \in [pe : PE, word : PE, value : {0, 1}]
    BY <1>1, Kinds
  <2>2. posted' \in [PE -> SUBSET [pe : PE, word : PE, value : {0, 1}]]
    BY <2>1, <1>2, PostType, PEs0 DEF IInv, TypeOK
  <2>3. turn' \in 1 .. PEs  BY <1>1, PEs0 DEF IInv, TypeOK
  <2> QED BY <2>2, <2>3 DEF IInv, TypeOK
<1>5. PhaseInv'
  BY DEF IInv, PhaseInv
<1>6. PostedInv'
  <2>1. turn' - 1 = turn /\ turn \in {turn' - 1} \ {0}  BY <1>1
  <2> QED BY <2>1, <1>3 DEF IInv, PostedInv
<1>7. ArriveInv'
  <2>1. \A p \in Other : collected(p) \notin posted'[0] /\ collected(p) \notin posted[0]
    BY <1>1, <1>3, Kinds
  <2>2. \A p \in Other : gathered(p)' = gathered(p)
    BY DEF gathered
  <2>3. \A p \in Other : in_word(0, p, 0)' <=> in_word(0, p, 0)
    BY <2>1 DEF in_word, collected
  <2> QED BY <1>3, <2>1, <2>2, <2>3 DEF IInv, ArriveInv
<1>8. ReleaseInv'
  <2> SUFFICES ASSUME NEW p \in Other
               PROVE  /\ released(p)' = woken(p)'
                         + IF in_word(p, 0, p)' \/ release(p) \in posted'[0]
                           THEN 1 ELSE 0
                      /\ release(p) \in posted'[0] =>
                           ~in_word(p, 0, p)' /\ taken(p) \notin posted'[p]
                      /\ taken(p) \in posted'[p] => pSync'[p][0] = 1
    BY DEF ReleaseInv, release, taken, store
  <2>0. in_word(p, 0, p)' <=> in_word(p, 0, p)
    BY <1>3 DEF in_word
  <2>1. CASE p = turn
    <3>1. released(p) = exited[0] /\ released(p)' = exited[0] + 1
      BY <1>1, <2>1, Counts, PEs0 DEF released, IInv
    <3>2. entered[p] >= gathered(p) /\ gathered(p) = exited[0] + 1
      BY Counts, PEs0 DEF IInv, ArriveInv, gathered
    <3>3. ~in_word(p, 0, p) /\ woken(p) = exited[0] /\ woken(p)' = woken(p)
      <4>1. woken(p)' = woken(p)  BY DEF woken
      <4>2. woken(p) \in Nat /\ exited[0] \in Nat
        BY Counts, PEs0 DEF woken, IInv
      <4>3. release(p) \notin posted[0]  OBVIOUS
      <4>4. released(p) = woken(p) + IF in_word(p, 0, p) THEN 1 ELSE 0
        BY <4>3 DEF IInv, ReleaseInv
      <4>5. CASE ~in_word(p, 0, p)  BY <4>1, <4>2, <4>4, <4>5, <3>1
      <4>6. CASE in_word(p, 0, p)
        <5>1. woken(p) + 1 = exited[0]  BY <4>2, <4>4, <4>6, <3>1
        <5>2. entered[p] <= exited[p] + 1  BY Counts, PEs0 DEF IInv, PhaseInv
        <5>3. entered[p] <= woken(p) + 1
          BY <5>2, Counts, PEs0 DEF woken, IInv, PhaseInv
        <5> QED BY <5>1, <5>3, <3>2, <4>2, Counts, PEs0 DEF IInv
      <4> QED BY <4>5, <4>6
    <3>4. taken(p) \notin posted[p]
      <4>1. pc[p] # "clear"
        <5>1. exited[p] + 1 >= entered[p] /\ exited[p] \in Nat /\ exited[0] \in Nat
          BY Counts, PEs0 DEF IInv, PhaseInv
        <5> QED BY <5>1, <3>2, <3>3, Counts, PEs0 DEF woken, IInv
      <4>2. posted[p] \subseteq {arrival(p)}
        BY <4>1 DEF IInv, PhaseInv, PostedInv
      <4> QED BY <4>2, Kinds
    <3> QED BY <1>3, <2>0, <2>1, <3>1, <3>3, <3>4
  <2>2. CASE p # turn
    <3>1. release(p) \notin posted'[0] /\ release(p) \notin posted[0]
      BY <1>1, <1>3, <2>2, Kinds
    <3>2. released(p)' = released(p) /\ woken(p)' = woken(p)
      BY <1>1, <2>2, PEs0 DEF released, woken
    <3> QED BY <1>3, <2>0, <3>1, <3>2 DEF IInv, ReleaseInv
  <2> QED BY <2>1, <2>2
<1> QED BY <1>4, <1>5, <1>6, <1>7, <1>8 DEF IInv

(* The coordinator ends the round.                                         *)
LEMMA EndIInv == ASSUME IInv, End PROVE IInv'
<1> USE DEF End, goto, fenced
<1>1. entered[0] = exited[0] + 1 /\ exited[0] \in Nat
  BY Counts, PEs0 DEF IInv, PhaseInv
<1>2. TypeOK'
  BY <1>1, PEs0 DEF IInv, TypeOK
<1>3. PhaseInv'
  BY <1>1, PEs0 DEF IInv, TypeOK, PhaseInv
<1>4. PostedInv'
  BY PEs0 DEF IInv, TypeOK, PostedInv
<1>5. ArriveInv'
  <2>1. \A p \in Other : gathered(p)' = gathered(p)
    BY <1>1, PEs0 DEF IInv, TypeOK, gathered
  <2> QED BY <2>1 DEF IInv, ArriveInv, in_word
<1>6. ReleaseInv'
  <2>1. \A p \in Other : released(p)' = released(p) /\ woken(p)' = woken(p)
    BY <1>1, PEs0 DEF IInv, TypeOK, released, woken, Other
  <2> QED BY <2>1 DEF IInv, ReleaseInv, in_word
<1> QED BY <1>2, <1>3, <1>4, <1>5, <1>6 DEF IInv

(* Another PE posts its arrival: the token of its word on PE 0.            *)
LEMMA ArriveIInv == ASSUME IInv, NEW p \in Other, Arrive(p) PROVE IInv'
<1> USE DEF Arrive, post, goto
<1>1. p \in PE /\ p # 0 /\ 0 \in PE  BY PEs0
<1>2. /\ posted'[p] = posted[p] \cup {arrival(p)}
      /\ \A q \in PE : q # p => posted'[q] = posted[q]
      /\ posted[p] = {}
  BY <1>1 DEF IInv, TypeOK, PostedInv
<1>3. /\ pc'[p] = "wait" /\ pc[p] = "out" /\ \A q \in PE : q # p => pc'[q] = pc[q]
      /\ entered'[p] = entered[p] + 1
      /\ \A q \in PE : q # p => entered'[q] = entered[q]
  BY <1>1 DEF IInv, TypeOK
<1>4. entered[p] = exited[p] /\ entered[p] \in Nat /\ exited[0] \in Nat
  BY <1>1, <1>3, Counts DEF IInv, PhaseInv
<1>5. TypeOK'
  <2>1. arrival(p) \in [pe : PE, word : PE, value : {0, 1}]  BY Kinds
  <2>2. posted' \in [PE -> SUBSET [pe : PE, word : PE, value : {0, 1}]]
    BY <1>1, <2>1, PostType DEF IInv, TypeOK
  <2>3. entered[p] + 1 \in 0 .. MaxRound
    BY <1>1, <1>4, PEs0 DEF IInv, TypeOK
  <2> QED BY <1>1, <2>2, <2>3 DEF IInv, TypeOK
<1>6. PhaseInv'
  BY <1>1, <1>3, <1>4, PEs0 DEF IInv, PhaseInv
<1>7. PostedInv'
  BY <1>1, <1>2, <1>3, PEs0 DEF IInv, PostedInv
<1>8. \A q \in Other : /\ gathered(q)' = gathered(q) /\ released(q)' = released(q)
                       /\ woken(q)' = woken(q)
  BY <1>1, <1>3, PEs0 DEF gathered, released, woken
<1>9. ~in_word(0, p, 0)
  <2>1. released(p) = woken(p) + IF in_word(p, 0, p) \/ release(p) \in posted[0]
                                 THEN 1 ELSE 0
    BY DEF IInv, ReleaseInv
  <2>2. released(p) >= woken(p) /\ woken(p) = exited[p]
    BY <1>1, <1>3, <2>1, Counts DEF woken, IInv
  <2>3. gathered(p) >= released(p)
    BY <1>1, <1>4, Counts DEF gathered, released, IInv
  <2>4. gathered(p) \in Nat /\ released(p) \in Nat /\ woken(p) \in Nat
    BY <1>1, <1>3, <1>4, Counts DEF gathered, released, woken, IInv
  <2>5. entered[p] = gathered(p) + IF in_word(0, p, 0) \/ arrival(p) \in posted[p]
                                   THEN 1 ELSE 0
    BY DEF IInv, ArriveInv
  <2> QED BY <1>4, <2>2, <2>3, <2>4, <2>5
<1>10. collected(p) \notin posted[0]
  <2>1. CASE collected(p) \in posted[0]
    <3>1. pc[0] = "collect" /\ turn > p
      <4>1. pc[0] = "collect" /\ posted[0] \subseteq {collected(q) : q \in 1 .. turn - 1}
        <5>1. pc[0] # "out"  BY <2>1 DEF IInv, PostedInv
        <5>2. pc[0] # "release"
          <6> SUFFICES ASSUME pc[0] = "release" PROVE FALSE  OBVIOUS
          <6>1. posted[0] \subseteq {release(q) : q \in {turn - 1} \ {0}}
            BY DEF IInv, PostedInv
          <6>2. PICK q \in {turn - 1} \ {0} : collected(p) = release(q)
            BY <2>1, <6>1
          <6>3. q \in Other  BY <6>2, PEs0 DEF IInv, TypeOK, Other
          <6> QED BY <6>2, <6>3, Kinds
        <5> QED BY <5>1, <5>2 DEF IInv, PhaseInv, PostedInv
      <4>2. PICK q \in 1 .. turn - 1 : collected(p) = collected(q)
        BY <2>1, <4>1
      <4>3. q \in Other  BY <4>2, PEs0 DEF IInv, TypeOK, Other
      <4>4. p = q  BY <4>2, <4>3, Kinds
      <4> QED BY <4>1, <4>2, <4>4, PEs0 DEF IInv, TypeOK
    <3>2. gathered(p) = exited[0] + 1 /\ released(p) = exited[0]
      BY <3>1, <1>4 DEF gathered, released
    <3>3. entered[p] >= exited[0] + 1
      BY <3>2, <1>4 DEF IInv, ArriveInv
    <3>4. woken(p) = exited[p]  BY <1>3, <1>4 DEF woken
    <3>5. released(p) >= woken(p)
      BY <3>2, <3>4, <1>4 DEF IInv, ReleaseInv
    <3> QED BY <3>2, <3>3, <3>4, <3>5, <1>4
  <2> QED BY <2>1
<1>11. ArriveInv'
  <2> SUFFICES ASSUME NEW q \in Other
               PROVE  /\ entered'[q] = gathered(q)'
                         + IF in_word(0, q, 0)' \/ arrival(q) \in posted'[q]
                           THEN 1 ELSE 0
                      /\ arrival(q) \in posted'[q] =>
                           ~in_word(0, q, 0)' /\ collected(q) \notin posted'[0]
                      /\ collected(q) \in posted'[0] => pSync'[0][q] = 1
    BY DEF ArriveInv, arrival, collected, store
  <2>1. in_word(0, q, 0)' <=> in_word(0, q, 0)
    BY <1>1, <1>2 DEF in_word
  <2>2. posted'[0] = posted[0]  BY <1>1, <1>2
  <2>3. CASE q = p
    <3>1. entered[p] = gathered(p)
      BY <1>2, <1>9, <1>4, <1>1, Counts DEF IInv, ArriveInv, gathered
    <3> QED BY <1>2, <1>3, <1>8, <1>9, <1>10, <2>1, <2>2, <2>3, <3>1
            DEF IInv, ArriveInv
  <2>4. CASE q # p
    <3>1. posted'[q] = posted[q] /\ entered'[q] = entered[q]
      BY <1>2, <1>3, <2>4, PEs0
    <3> QED BY <1>8, <2>1, <2>2, <3>1 DEF IInv, ArriveInv
  <2> QED BY <2>3, <2>4
<1>12. ReleaseInv'
  <2> SUFFICES ASSUME NEW q \in Other
               PROVE  /\ released(q)' = woken(q)'
                         + IF in_word(q, 0, q)' \/ release(q) \in posted'[0]
                           THEN 1 ELSE 0
                      /\ release(q) \in posted'[0] =>
                           ~in_word(q, 0, q)' /\ taken(q) \notin posted'[q]
                      /\ taken(q) \in posted'[q] => pSync'[q][0] = 1
    BY DEF ReleaseInv, release, taken, store
  <2>1. taken(q) \in posted'[q] <=> taken(q) \in posted[q]
    BY <1>2, PEs0, Kinds
  <2>2. in_word(q, 0, q)' <=> in_word(q, 0, q)
    BY <2>1 DEF in_word, taken
  <2>3. posted'[0] = posted[0]  BY <1>1, <1>2
  <2> QED BY <1>8, <2>1, <2>2, <2>3 DEF IInv, ReleaseInv
<1> QED BY <1>5, <1>6, <1>7, <1>11, <1>12 DEF IInv

(* A PE sees its release.                                                  *)
LEMMA ReleasedIInv == ASSUME IInv, NEW p \in Other, Released(p) PROVE IInv'
<1> USE DEF Released, post, goto, fenced
<1>1. p \in PE /\ p # 0 /\ 0 \in PE  BY PEs0
<1>2. /\ posted'[p] = {taken(p)} /\ posted[p] = {}
      /\ \A q \in PE : q # p => posted'[q] = posted[q]
  BY <1>1 DEF IInv, TypeOK
<1>3. pc'[p] = "clear" /\ pc[p] = "wait" /\ \A q \in PE : q # p => pc'[q] = pc[q]
  BY <1>1 DEF IInv, TypeOK
<1>4. in_word(p, 0, p)  BY <1>2 DEF in_word
<1>5. TypeOK'
  <2>1. taken(p) \in [pe : PE, word : PE, value : {0, 1}]  BY Kinds
  <2>2. posted' \in [PE -> SUBSET [pe : PE, word : PE, value : {0, 1}]]
    BY <1>1, <2>1, PostType DEF IInv, TypeOK
  <2> QED BY <1>1, <2>2 DEF IInv, TypeOK
<1>6. PhaseInv'
  BY <1>1, <1>3, PEs0 DEF IInv, PhaseInv
<1>7. PostedInv'
  BY <1>1, <1>2, <1>3, PEs0 DEF IInv, PostedInv
<1>8. ArriveInv'
  <2>1. \A q \in Other : gathered(q)' = gathered(q)
    BY <1>1, <1>3 DEF gathered
  <2>2. \A q \in Other : arrival(q) \in posted'[q] <=> arrival(q) \in posted[q]
    BY <1>2, PEs0, Kinds
  <2>3. posted'[0] = posted[0]  BY <1>1, <1>2
  <2>4. \A q \in Other : in_word(0, q, 0)' <=> in_word(0, q, 0)
    BY <2>3 DEF in_word
  <2> QED BY <2>1, <2>2, <2>3, <2>4 DEF IInv, ArriveInv
<1>9. ReleaseInv'
  <2> SUFFICES ASSUME NEW q \in Other
               PROVE  /\ released(q)' = woken(q)'
                         + IF in_word(q, 0, q)' \/ release(q) \in posted'[0]
                           THEN 1 ELSE 0
                      /\ release(q) \in posted'[0] =>
                           ~in_word(q, 0, q)' /\ taken(q) \notin posted'[q]
                      /\ taken(q) \in posted'[q] => pSync'[q][0] = 1
    BY DEF ReleaseInv, release, taken, store
  <2>1. posted'[0] = posted[0] /\ released(q)' = released(q)
    BY <1>1, <1>2, <1>3 DEF released
  <2>2. CASE q = p
    <3>1. woken(p)' = woken(p) + 1 /\ woken(p) \in Nat
      BY <1>1, <1>3, Counts DEF woken, IInv
    <3>2. release(p) \notin posted[0] /\ released(p) = woken(p) + 1
      BY <1>4 DEF IInv, ReleaseInv
    <3>3. ~in_word(p, 0, p)'  BY <1>2 DEF in_word, taken
    <3> QED BY <2>1, <2>2, <3>1, <3>2, <3>3
  <2>3. CASE q # p
    <3>1. posted'[q] = posted[q] /\ woken(q)' = woken(q)
      BY <1>2, <1>3, <2>3, PEs0 DEF woken
    <3>2. in_word(q, 0, q)' <=> in_word(q, 0, q)  BY <3>1 DEF in_word
    <3> QED BY <2>1, <3>1, <3>2 DEF IInv, ReleaseInv
  <2> QED BY <2>2, <2>3
<1> QED BY <1>5, <1>6, <1>7, <1>8, <1>9 DEF IInv

(* A PE clears its release word and leaves.                                *)
LEMMA LeaveIInv == ASSUME IInv, NEW p \in Other, Leave(p) PROVE IInv'
<1> USE DEF Leave, goto, fenced
<1>1. p \in PE /\ p # 0 /\ 0 \in PE  BY PEs0
<1>2. /\ pc'[p] = "out" /\ pc[p] = "clear" /\ \A q \in PE : q # p => pc'[q] = pc[q]
      /\ exited'[p] = exited[p] + 1
      /\ \A q \in PE : q # p => exited'[q] = exited[q]
  BY <1>1 DEF IInv, TypeOK
<1>3. entered[p] = exited[p] + 1 /\ exited[p] \in Nat
  BY <1>1, <1>2, Counts DEF IInv, PhaseInv
<1>4. TypeOK'
  <2>1. exited[p] + 1 \in 0 .. MaxRound
    BY <1>1, <1>3, PEs0 DEF IInv, TypeOK
  <2> QED BY <1>1, <2>1 DEF IInv, TypeOK
<1>5. PhaseInv'
  BY <1>1, <1>2, <1>3, PEs0 DEF IInv, PhaseInv
<1>6. PostedInv'
  BY <1>1, <1>2, PEs0 DEF IInv, PostedInv
<1>7. \A q \in Other : /\ gathered(q)' = gathered(q) /\ released(q)' = released(q)
                       /\ woken(q)' = woken(q)
  BY <1>1, <1>2, <1>3, PEs0, Counts DEF gathered, released, woken, IInv
<1>8. ArriveInv'
  BY <1>7 DEF IInv, ArriveInv, in_word
<1>9. ReleaseInv'
  BY <1>7 DEF IInv, ReleaseInv, in_word
<1> QED BY <1>4, <1>5, <1>6, <1>8, <1>9 DEF IInv

(* What a store on its way can be.                                         *)
LEMMA PostedKinds ==
  ASSUME IInv, NEW p \in PE, NEW w \in posted[p]
  PROVE  \/ p = 0 /\ \E x \in Other : w = collected(x) \/ w = release(x)
         \/ p \in Other /\ (w = arrival(p) \/ w = taken(p))
<1>1. CASE p = 0
  <2>1. \A x \in 1 .. turn - 1 : x \in Other
    BY PEs0 DEF IInv, TypeOK, Other
  <2>2. \A x \in {turn - 1} \ {0} : x \in Other
    BY PEs0 DEF IInv, TypeOK, Other
  <2> QED BY <1>1, <2>1, <2>2 DEF IInv, PhaseInv, PostedInv
<1>2. CASE p # 0
  <2>1. p \in Other  BY <1>2, PEs0
  <2> QED BY <2>1 DEF IInv, PhaseInv, PostedInv
<1> QED BY <1>1, <1>2

(* A store takes effect: its token arrives, or a spent one is wiped out.   *)
LEMMA DeliverIInv ==
  ASSUME IInv, NEW p \in PE, NEW w \in posted[p], Deliver(p, w)
  PROVE  IInv'
<1> USE DEF Deliver
<1>1. 0 \in PE  BY PEs0
<1>2. /\ posted'[p] = posted[p] \ {w}
      /\ \A q \in PE : q # p => posted'[q] = posted[q]
      /\ \A q \in PE : posted'[q] \subseteq posted[q]
  BY DEF IInv, TypeOK
<1>3. w \in [pe : PE, word : PE, value : {0, 1}]
  BY DEF IInv, TypeOK
<1>4. TypeOK'
  <2>1. pSync' \in [PE -> [PE -> {0, 1}]]  BY <1>3 DEF IInv, TypeOK
  <2>2. posted' \in [PE -> SUBSET [pe : PE, word : PE, value : {0, 1}]]
    BY DEF IInv, TypeOK
  <2> QED BY <2>1, <2>2 DEF IInv, TypeOK
<1>5. PhaseInv'  BY DEF IInv, PhaseInv
<1>6. PostedInv'
  BY <1>2, PEs0 DEF IInv, PostedInv
<1>7. \A q \in Other : /\ gathered(q)' = gathered(q) /\ released(q)' = released(q)
                       /\ woken(q)' = woken(q)
  BY DEF gathered, released, woken
<1>8. \A q, i \in PE : pSync'[q][i] = IF q = w.pe /\ i = w.word THEN w.value
                                        ELSE pSync[q][i]
  BY <1>3 DEF IInv, TypeOK
<1>9. \A q \in Other :
        /\ (w = arrival(q) \/ w = collected(q)) <=> w.pe = 0 /\ w.word = q
        /\ (w = release(q) \/ w = taken(q)) <=> w.pe = q /\ w.word = 0
        /\ (w = arrival(q) \/ w = release(q)) => w.value = 1
        /\ (w = collected(q) \/ w = taken(q)) => w.value = 0
  BY <1>3, PEs0 DEF arrival, collected, release, taken, store
<1>10. ASSUME NEW q \in Other
       PROVE  /\ w = arrival(q) => p = q
              /\ w = taken(q) => p = q
              /\ w = collected(q) => p = 0
              /\ w = release(q) => p = 0
  <2>1. \A x \in Other : /\ arrival(q) # release(x) /\ taken(q) # collected(x)
                         /\ arrival(q) # collected(x) /\ taken(q) # release(x)
                         /\ collected(q) # arrival(x) /\ release(q) # taken(x)
                         /\ collected(q) # taken(x) /\ release(q) # arrival(x)
    BY PEs0, Stores DEF arrival, collected, release, taken
  <2> QED BY <2>1, PostedKinds, Kinds
<1>11. ArriveInv'
  <2> SUFFICES ASSUME NEW q \in Other
               PROVE  /\ entered'[q] = gathered(q)'
                         + IF in_word(0, q, 0)' \/ arrival(q) \in posted'[q]
                           THEN 1 ELSE 0
                      /\ arrival(q) \in posted'[q] =>
                           ~in_word(0, q, 0)' /\ collected(q) \notin posted'[0]
                      /\ collected(q) \in posted'[0] => pSync'[0][q] = 1
    BY DEF ArriveInv, arrival, collected, store
  <2>1. q \in PE /\ q # 0  BY PEs0
  <2>2. in_word(0, q, 0)' <=> pSync'[0][q] = 1 /\ collected(q) \notin posted'[0]
    BY DEF in_word, collected
  <2>3. in_word(0, q, 0) <=> pSync[0][q] = 1 /\ collected(q) \notin posted[0]
    BY DEF in_word, collected
  <2>4. arrival(q) # collected(q)  BY Kinds
  <2>5. CASE w = arrival(q)
    <3>1. p = q /\ pSync'[0][q] = 1
      BY <1>1, <1>8, <1>9, <1>10, <2>1, <2>5
    <3>2. arrival(q) \in posted[q] /\ arrival(q) \notin posted'[q]
      BY <1>2, <2>5, <3>1
    <3>3. collected(q) \notin posted'[0]
      BY <1>1, <1>2, <3>2 DEF IInv, ArriveInv
    <3> QED BY <1>7, <2>2, <3>1, <3>2, <3>3 DEF IInv, ArriveInv
  <2>6. CASE w = collected(q)
    <3>1. p = 0 /\ pSync'[0][q] = 0
      BY <1>1, <1>8, <1>9, <1>10, <2>1, <2>6
    <3>2. collected(q) \in posted[0] /\ collected(q) \notin posted'[0]
      BY <1>2, <2>6, <3>1
    <3>3. posted'[q] = posted[q]  BY <1>2, <2>1, <3>1
    <3> QED BY <1>7, <2>2, <2>3, <3>1, <3>2, <3>3 DEF IInv, ArriveInv
  <2>7. CASE w # arrival(q) /\ w # collected(q)
    <3>1. pSync'[0][q] = pSync[0][q]
      BY <1>1, <1>8, <1>9, <2>1, <2>7
    <3>2. /\ arrival(q) \in posted'[q] <=> arrival(q) \in posted[q]
          /\ collected(q) \in posted'[0] <=> collected(q) \in posted[0]
      BY <1>1, <1>2, <2>1, <2>7
    <3> QED BY <1>7, <2>2, <2>3, <3>1, <3>2 DEF IInv, ArriveInv
  <2> QED BY <2>5, <2>6, <2>7
<1>12. ReleaseInv'
  <2> SUFFICES ASSUME NEW q \in Other
               PROVE  /\ released(q)' = woken(q)'
                         + IF in_word(q, 0, q)' \/ release(q) \in posted'[0]
                           THEN 1 ELSE 0
                      /\ release(q) \in posted'[0] =>
                           ~in_word(q, 0, q)' /\ taken(q) \notin posted'[q]
                      /\ taken(q) \in posted'[q] => pSync'[q][0] = 1
    BY DEF ReleaseInv, release, taken, store
  <2>1. q \in PE /\ q # 0  BY PEs0
  <2>2. in_word(q, 0, q)' <=> pSync'[q][0] = 1 /\ taken(q) \notin posted'[q]
    BY DEF in_word, taken
  <2>3. in_word(q, 0, q) <=> pSync[q][0] = 1 /\ taken(q) \notin posted[q]
    BY DEF in_word, taken
  <2>4. CASE w = release(q)
    <3>1. p = 0 /\ pSync'[q][0] = 1
      BY <1>1, <1>8, <1>9, <1>10, <2>1, <2>4
    <3>2. release(q) \in posted[0] /\ release(q) \notin posted'[0]
      BY <1>2, <2>4, <3>1
    <3>3. taken(q) \notin posted'[q]
      BY <1>2, <2>1, <3>2 DEF IInv, ReleaseInv
    <3> QED BY <1>7, <2>2, <3>1, <3>2, <3>3 DEF IInv, ReleaseInv
  <2>5. CASE w = taken(q)
    <3>1. p = q /\ pSync'[q][0] = 0
      BY <1>1, <1>8, <1>9, <1>10, <2>1, <2>5
    <3>2. taken(q) \in posted[q] /\ taken(q) \notin posted'[q]
      BY <1>2, <2>5, <3>1
    <3>3. posted'[0] = posted[0]  BY <1>1, <1>2, <2>1, <3>1
    <3> QED BY <1>7, <2>2, <2>3, <3>1, <3>2, <3>3 DEF IInv, ReleaseInv
  <2>6. CASE w # release(q) /\ w # taken(q)
    <3>1. pSync'[q][0] = pSync[q][0]
      BY <1>1, <1>8, <1>9, <2>1, <2>6
    <3>2. /\ release(q) \in posted'[0] <=> release(q) \in posted[0]
          /\ taken(q) \in posted'[q] <=> taken(q) \in posted[q]
      BY <1>1, <1>2, <2>1, <2>6
    <3> QED BY <1>7, <2>2, <2>3, <3>1, <3>2 DEF IInv, ReleaseInv
  <2> QED BY <2>4, <2>5, <2>6
<1> QED BY <1>4, <1>5, <1>6, <1>11, <1>12 DEF IInv

(* Every step of the coordinator, of a PE or of the fabric keeps the       *)
(* invariant.                                                              *)
LEMMA StepIInv == IInv /\ [Next]_vars => IInv'
<1> SUFFICES ASSUME IInv, [Next]_vars PROVE IInv'  OBVIOUS
<1>1. CASE Coordinate
  BY <1>1, BeginIInv, CollectIInv, CollectedIInv, ReleaseIInv, EndIInv
  DEF Coordinate
<1>2. ASSUME NEW p \in Other, Follow(p) PROVE IInv'
  BY <1>2, ArriveIInv, ReleasedIInv, LeaveIInv DEF Follow
<1>3. ASSUME NEW p \in PE, Fabric(p) PROVE IInv'
  BY <1>3, DeliverIInv DEF Fabric
<1>4. CASE UNCHANGED vars
  BY <1>4 DEF vars, IInv, TypeOK, PhaseInv, PostedInv, ArriveInv, ReleaseInv,
              gathered, released, woken, in_word
<1> QED BY <1>1, <1>2, <1>3, <1>4 DEF Next

(* The inductive invariant holds of every behaviour of ShmemBarrier        *)
(* (baseline/mori, shmem_device_api.hpp, ShmemInternalBarrierThread).      *)
THEOREM Invariance == Spec => []IInv
BY InitIInv, StepIInv, PTL DEF Spec

(* A barrier that the coordinator has gathered was begun by every PE, and  *)
(* one that a PE was released from has been gathered.                      *)
LEMMA RoundsOrdered ==
  ASSUME IInv, NEW p \in PE, NEW q \in PE
  PROVE  /\ exited[p] <= entered[q]
         /\ pc[p] = "clear" => exited[p] < entered[q]
         /\ pc[0] = "release" => exited[0] < entered[q]
<1>1. /\ \A x \in PE : entered[x] \in Nat /\ exited[x] \in Nat
      /\ entered[0] = exited[0] + IF pc[0] = "out" THEN 0 ELSE 1
  BY Counts DEF IInv, PhaseInv
<1>2. ASSUME NEW x \in Other
      PROVE  /\ gathered(x) <= entered[x] /\ gathered(x) >= exited[0]
             /\ pc[0] = "release" => gathered(x) = exited[0] + 1
  BY <1>1, PEs0 DEF IInv, ArriveInv, gathered
<1>3. ASSUME NEW x \in Other
      PROVE  /\ exited[x] <= released(x)
             /\ pc[x] = "clear" => exited[x] < released(x)
             /\ released(x) \in Nat
             /\ released(x) <= exited[0] + IF pc[0] = "release" THEN 1 ELSE 0
  BY <1>1, PEs0 DEF IInv, ReleaseInv, released, woken
<1>4. exited[0] + (IF pc[0] = "release" THEN 1 ELSE 0) <= entered[q]
  <2>1. CASE q = 0  BY <2>1, <1>1, PEs0
  <2>2. CASE q # 0
    <3>1. q \in Other  BY <2>2, PEs0
    <3>2. gathered(q) \in Nat  BY <1>1, PEs0 DEF gathered
    <3> QED BY <3>1, <3>2, <1>1, <1>2, PEs0
  <2> QED BY <2>1, <2>2
<1>5. CASE p = 0
  BY <1>1, <1>4, <1>5, PEs0 DEF IInv, PhaseInv
<1>6. CASE p # 0
  <2>1. p \in Other  BY <1>6, PEs0
  <2> QED BY <2>1, <1>1, <1>3, <1>4, PEs0
<1> QED BY <1>5, <1>6

(* The words and counters keep their types whatever the number of PEs and  *)
(* rounds (baseline/mori, shmem_device_api.hpp, ShmemInternalBarrierThread)*)
THEOREM TypeCorrect == Spec => []TypeOK
BY Invariance, PTL DEF IInv

(* No PE has left its n-th barrier before every PE began its n-th, for any *)
(* number of PEs and however late their stores take effect (same function).*)
THEOREM Separates == Spec => []Separation
<1>1. IInv => Separation  BY RoundsOrdered DEF Separation
<1> QED BY <1>1, Invariance, PTL

(* The words of a round are clean before the next can use them (the resets *)
(* of pSync in the same function).                                         *)
THEOREM Clean == Spec => []WordsClean
<1>1. IInv => WordsClean
  <2> SUFFICES ASSUME IInv, NEW p \in Other
               PROVE  /\ pc[p] = "out" => pSync[p][0] = 0 \/ released(p) > exited[p]
                      /\ pc[0] = "out" /\ pSync[0][p] = 1 => entered[p] > exited[0]
    BY DEF WordsClean
  <2>1. /\ exited[p] \in Nat /\ exited[0] \in Nat /\ 0 \in PE /\ p \in PE /\ p # 0
        /\ pSync[p][0] \in {0, 1}
    BY Counts, PEs0 DEF IInv, TypeOK
  <2>2. pc[p] = "out" => pSync[p][0] = 0 \/ released(p) > exited[p]
    <3> SUFFICES ASSUME pc[p] = "out", pSync[p][0] # 0
                 PROVE  released(p) > exited[p]
      OBVIOUS
    <3>1. in_word(p, 0, p)  BY <2>1 DEF IInv, PostedInv, in_word
    <3>2. woken(p) = exited[p]  BY <2>1 DEF woken
    <3> QED BY <3>1, <3>2, <2>1 DEF IInv, ReleaseInv
  <2>3. pc[0] = "out" /\ pSync[0][p] = 1 => entered[p] > exited[0]
    <3> SUFFICES ASSUME pc[0] = "out", pSync[0][p] = 1
                 PROVE  entered[p] > exited[0]
      OBVIOUS
    <3>1. in_word(0, p, 0)  BY DEF IInv, PostedInv, in_word
    <3>2. gathered(p) = exited[0]  BY <2>1 DEF gathered
    <3> QED BY <3>1, <3>2, <2>1 DEF IInv, ArriveInv
  <2> QED BY <2>2, <2>3
<1> QED BY <1>1, Invariance, PTL

(* The coordinator's barrier implements the abstract one, in which a worker*)
(* leaves only when every worker has arrived as often (same function).     *)
THEOREM Implements == Spec => Refinement
<1>1. Init => B!Init
  BY DEF Init, B!Init
<1>2. IInv /\ [Next]_vars => [B!Next]_(B!vars)
  <2> SUFFICES ASSUME IInv, [Next]_vars PROVE [B!Next]_(B!vars)  OBVIOUS
  <2>1. \A p \in PE : /\ entered[p] = exited[p] + IF pc[p] = "out" THEN 0 ELSE 1
                      /\ entered[p] \in Nat /\ exited[p] \in Nat
    BY Counts, PEs0 DEF IInv, PhaseInv
  <2>2. CASE Begin
    <3>1. B!Arrive(0)  BY <2>1, <2>2, PEs0 DEF Begin, B!Arrive
    <3> QED BY <3>1, PEs0 DEF B!Next
  <2>3. CASE End
    <3>1. \A q \in PE : entered[q] >= entered[0]
      BY <2>1, <2>3, PEs0, RoundsOrdered DEF End
    <3>2. B!Leave(0)  BY <2>1, <2>3, <3>1, PEs0 DEF End, B!Leave
    <3> QED BY <3>2, PEs0 DEF B!Next
  <2>4. CASE Collect \/ Collected \/ Release
    BY <2>4 DEF Collect, Collected, Release, B!vars
  <2>5. ASSUME NEW p \in Other, Follow(p) PROVE [B!Next]_(B!vars)
    <3>1. p \in PE  BY PEs0
    <3>2. CASE Arrive(p)
      <4>1. B!Arrive(p)  BY <2>1, <3>1, <3>2 DEF Arrive, B!Arrive
      <4> QED BY <4>1, <3>1 DEF B!Next
    <3>3. CASE Leave(p)
      <4>1. \A q \in PE : entered[q] >= entered[p]
        BY <2>1, <3>1, <3>3, RoundsOrdered DEF Leave
      <4>2. B!Leave(p)  BY <2>1, <3>1, <3>3, <4>1 DEF Leave, B!Leave
      <4> QED BY <4>2, <3>1 DEF B!Next
    <3>4. CASE Released(p)
      BY <3>4 DEF Released, B!vars
    <3> QED BY <2>5, <3>2, <3>3, <3>4 DEF Follow
  <2>6. ASSUME NEW p \in PE, Fabric(p) PROVE [B!Next]_(B!vars)
    BY <2>6 DEF Fabric, Deliver, B!vars
  <2>7. CASE UNCHANGED vars
    BY <2>7 DEF vars, B!vars
  <2> QED BY <2>2, <2>3, <2>4, <2>5, <2>6, <2>7 DEF Next, Coordinate
<1> QED BY <1>1, <1>2, Invariance, PTL DEF Spec, B!Spec, Refinement
=============================================================================
