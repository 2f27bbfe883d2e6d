--------------------------- MODULE DestSortProofs ---------------------------
(* Proofs about the destination sort, for every number of threads, experts *)
(* and positions, every block size and every routing: the segments are     *)
(* exact when they fit and reported when they do not, no position is       *)
(* written twice and no alarm is false.  The counts come first, then the   *)
(* layout of the scan, the claims on the cursors, the rows of the padding, *)
(* and last what stands in the positions.                                  *)
EXTENDS DestSort, FiniteSetTheorems, TLAPS

(* What the assumption says.                                               *)
LEMMA Constants ==
  ASSUME DestSortAssumption
  PROVE  /\ Grid \in Nat \ {0} /\ E \in Nat \ {0} /\ BlockM \in Nat \ {0}
         /\ PADMAX \in Nat /\ MaxLaunch \in Nat /\ Schemes \subseteq BOOLEAN
         /\ 0 \in Cta /\ Cta \subseteq Nat /\ Expert \subseteq 0 .. E
BY DEF DestSortAssumption, Cta, Expert

(* Quotient and remainder.                                                 *)
LEMMA Division ==
  ASSUME NEW n \in Nat, NEW d \in Nat \ {0}
  PROVE  /\ n \div d \in Nat /\ n % d \in 0 .. d - 1
         /\ n = d * (n \div d) + (n % d)
OBVIOUS

(* They are determined by the number.                                      *)
LEMMA Quotient ==
  ASSUME NEW q \in Nat, NEW d \in Nat \ {0}, NEW r \in 0 .. d - 1
  PROVE  (d * q + r) \div d = q /\ (d * q + r) % d = r
<1> DEFINE n == d * q + r
<1>1. n \in Nat  OBVIOUS
<1>2. n \div d \in Nat /\ n % d \in 0 .. d - 1 /\ n = d * (n \div d) + (n % d)
  BY <1>1, Division
<1> DEFINE p == n \div d  s == n % d
<1>3. ASSUME p < q PROVE FALSE
  <2>1. d * (p + 1) <= d * q  BY <1>2, <1>3
  <2> QED BY <2>1, <1>2
<1>4. ASSUME q < p PROVE FALSE
  <2>1. d * (q + 1) <= d * p  BY <1>2, <1>4
  <2> QED BY <2>1, <1>2
<1>5. p = q  BY <1>2, <1>3, <1>4
<1> QED BY <1>2, <1>5

(* The grid-stride loops: indices of a thread are Grid apart.              *)
LEMMA Stride ==
  ASSUME NEW i \in Nat, NEW d \in Nat \ {0}
  PROVE  /\ (i + d) % d = i % d
         /\ \A j \in Nat : j % d = i % d /\ i < j => i + d <= j
<1>1. (i + d) % d = i % d
  <2> DEFINE a == i \div d  r == i % d
  <2>1. a \in Nat /\ r \in 0 .. d - 1 /\ i = d * a + r  BY Division
  <2> DEFINE q == a + 1
  <2> HIDE DEF a, r
  <2>2. q \in Nat /\ i + d = d * q + r  BY <2>1
  <2> HIDE DEF q
  <2>3. (d * q + r) % d = r  BY <2>1, <2>2, Quotient
  <2>4. (i + d) % d = r  BY <2>2, <2>3
  <2> QED BY <2>4 DEF r
<1>2. ASSUME NEW j \in Nat, j % d = i % d, i < j PROVE i + d <= j
  <2> DEFINE a == i \div d  b == j \div d  r == i % d
  <2>1. a \in Nat /\ r \in 0 .. d - 1 /\ i = d * a + r  BY Division
  <2>2. b \in Nat /\ j = d * b + r
    <3>1. b \in Nat /\ j = d * b + (j % d)  BY Division
    <3> QED BY <1>2, <3>1
  <2> HIDE DEF a, b, r
  <2>3. a < b
    <3>1. ASSUME b <= a PROVE FALSE
      <4>1. d * b <= d * a  BY <2>1, <2>2, <3>1
      <4> QED BY <4>1, <2>1, <2>2, <1>2
    <3> QED BY <3>1, <2>1, <2>2
  <2>4. d * (a + 1) <= d * b  BY <2>1, <2>2, <2>3
  <2> QED BY <2>1, <2>2, <2>4
<1> QED BY <1>1, <1>2

(* A segment is the least number of whole blocks that holds the pairs.     *)
LEMMA PaddedType ==
  ASSUME DestSortAssumption, NEW n \in Nat
  PROVE  /\ padded(n) \in Nat /\ n <= padded(n) /\ padded(n) < n + BlockM
         /\ \E q \in Nat : padded(n) = BlockM * q
<1> DEFINE m == n + BlockM - 1  q == m \div BlockM
<1>1. m \in Nat /\ BlockM \in Nat \ {0}  BY Constants
<1>2. q \in Nat /\ m % BlockM \in 0 .. BlockM - 1 /\ m = BlockM * q + (m % BlockM)
  BY <1>1, Division
<1>3. padded(n) = BlockM * q  BY <1>1, <1>2 DEF padded
<1>4. BlockM * q \in Nat /\ n <= BlockM * q /\ BlockM * q < n + BlockM
  BY <1>1, <1>2
<1> QED BY <1>2, <1>3, <1>4

(* A number that is whole blocks and one that is whole blocks more.        *)
LEMMA Whole ==
  ASSUME NEW d \in Nat \ {0}, NEW a \in Nat, NEW b \in Nat,
         a = d * (a \div d), \E q \in Nat : b = d * q
  PROVE  /\ a + b = d * ((a + b) \div d)
         /\ (a + b) \div d >= a \div d
<1>1. PICK q \in Nat : b = d * q  OBVIOUS
<1>2. a \div d \in Nat  BY Division
<1>3. a + b = d * (a \div d + q) + 0  BY <1>1, <1>2
<1> DEFINE m == a \div d + q
<1>4. (a + b) \div d = m
  <2>1. m \in Nat /\ 0 \in 0 .. d - 1 /\ a + b = d * m + 0  BY <1>2, <1>3
  <2> HIDE DEF m
  <2>2. (d * m + 0) \div d = m  BY <2>1, Quotient
  <2> QED BY <2>1, <2>2
<1> QED BY <1>2, <1>3, <1>4

(* Whole blocks compare as their numbers of blocks do.                     *)
LEMMA Blocks ==
  ASSUME NEW d \in Nat \ {0}, NEW a \in Nat, NEW b \in Nat, a <= b
  PROVE  a \div d <= b \div d
<1> DEFINE p == a \div d  q == b \div d
<1>1. p \in Nat /\ q \in Nat /\ d * p <= a /\ b < d * (q + 1)
  BY Division
<1>2. ASSUME q < p PROVE FALSE
  <2>1. d * (q + 1) <= d * p  BY <1>1, <1>2
  <2> QED BY <1>1, <2>1
<1> QED BY <1>1, <1>2

(* The pairs are numbered from 0, and each is of one expert.               *)
LEMMA PairType ==
  ASSUME DestSortAssumption, TypeOK
  PROVE  /\ IsFiniteSet(Pair) /\ Pair \subseteq Nat
         /\ \A j \in Pair : recv_eid[j] \in 0 .. E
         /\ \A j \in Pair, i \in Nat : i <= j => i \in Pair
         /\ \A j \in Nat : j % Grid \in Cta
<1>1. recv_eid \in Inputs  BY DEF TypeOK
<1>2. IsFiniteSet(Pair) /\ recv_eid \in [0 .. Cardinality(Pair) - 1 -> 0 .. E]
  BY <1>1 DEF DestSortAssumption, Pair
<1>3. Cardinality(Pair) \in Nat  BY <1>2, FS_CardinalityType
<1>4. Pair = 0 .. Cardinality(Pair) - 1  BY <1>2 DEF Pair
<1>5. \A j \in Pair : recv_eid[j] \in 0 .. E  BY <1>2, <1>4
<1>6. \A j \in Nat : j % Grid \in Cta  BY Constants, Division DEF Cta
<1> QED BY <1>2, <1>3, <1>4, <1>5, <1>6

(* The counts of a set of pairs: finite, and one more with one pair more.  *)
LEMMA CountType ==
  ASSUME DestSortAssumption, TypeOK, NEW S \in SUBSET Pair, NEW e
  PROVE  count(e, S) \in Nat
<1> DEFINE A == {j \in S : recv_eid[j] = e}
<1>1. IsFiniteSet(A)  BY PairType, FS_Subset
<1> QED BY <1>1, FS_CardinalityType DEF count
-----------------------------------------------------------------------------
(* Where the threads can be together: only thread 0 plans, no thread leaves*)
(* a barrier before the others have come to it, and a thread walks its own *)
(* indices.                                                                *)
Late == {"pad", "scatter", "store", "done"}
PlaceInv ==
  /\ \A c \in Cta : pc[c] \in {"reduce", "add", "scan"} => c = 0
  /\ pc[0] = "add" => hierarchical
  /\ ~hierarchical => past({"count", "bar1"})
  /\ (\E c \in Cta : pc[c] \notin {"count", "bar1"}) => past({"count"})
  /\ (\E c \in Cta : pc[c] \in Late) => \A c \in Cta : pc[c] \in {"bar2"} \cup Late
  /\ launch = 0 => \A c \in Cta : pc[c] = "done"
  /\ \A c \in Cta : pc[c] \in {"pad", "scatter", "store"} => idx[c] % Grid = c

Label == {"count", "bar1", "reduce", "add", "scan", "bar2", "pad", "scatter", "store",
          "done"}

(* The places of the threads after a step of one of them.                  *)
LEMMA GotoType ==
  ASSUME TypeOK, NEW c \in Cta, NEW l \in Label, goto(c, l)
  PROVE  /\ pc' \in [Cta -> Label]
         /\ \A d \in Cta : pc'[d] = IF d = c THEN l ELSE pc[d]
BY DEF TypeOK, goto, Label

(* The initial values are of their types.                                  *)
LEMMA TypeInit == ASSUME DestSortAssumption, Init PROVE TypeOK
BY Constants DEF Init, TypeOK, Expert

(* A step keeps the types.                                                 *)
LEMMA TypeStep == ASSUME DestSortAssumption, TypeOK, [Next]_vars PROVE TypeOK'
<1>1. CASE Launch  BY <1>1, Constants DEF Launch, TypeOK, scratch
<1>2. CASE Reduce
  <2>1. \A e \in Expert : count(e, Pair) \in Nat  BY CountType
  <2>2. pc' \in [Cta -> Label]
    BY <1>2, Constants, GotoType DEF Reduce, Label
  <2>3. erb' \in [0 .. E -> Nat]  BY <1>2, Constants DEF Reduce, TypeOK
  <2> QED BY <1>2, <2>1, <2>2, <2>3 DEF Reduce, TypeOK, input, Label
<1>3. CASE AddColumn
  <2>1. e_next \in Cta /\ e_next' \in Nat  BY <1>3, Constants DEF AddColumn, TypeOK, Cta
  <2>2. cnt' \in [Expert -> Nat]
    <3>1. \A e \in Expert : hcnt[e][e_next] \in Nat /\ cnt[e] \in Nat
      BY <2>1 DEF TypeOK
    <3> QED BY <1>3, <3>1 DEF AddColumn
  <2> QED BY <1>3, <2>1, <2>2 DEF AddColumn, TypeOK, input
<1>4. CASE EndReduce
  <2>1. pc' \in [Cta -> Label]
    BY <1>4, Constants, GotoType DEF EndReduce, Label
  <2> QED BY <1>4, <2>1 DEF EndReduce, TypeOK, input, scratch, Label
<1>5. CASE Scan
  <2>1. e_next \in Expert /\ e_next \in 0 .. E /\ e_next + 1 \in 0 .. E
    BY <1>5, Constants DEF Scan, TypeOK, Expert
  <2>2. cnt[e_next] \in Nat /\ erb[e_next] \in Nat  BY <2>1 DEF TypeOK
  <2>3. padded(cnt[e_next]) \in Nat  BY <2>2, PaddedType
  <2>4. erb' \in [0 .. E -> Nat]  BY <1>5, <2>1, <2>2, <2>3 DEF Scan, TypeOK
  <2> QED BY <1>5, <2>1, <2>4 DEF Scan, TypeOK, input
<1>6. CASE Cursors
  <2>1. pc' \in [Cta -> Label]
    BY <1>6, Constants, GotoType DEF Cursors, Label
  <2>2. cur' \in [Expert -> Nat] /\ nvi' \in Nat
    BY <1>6, Constants DEF Cursors, TypeOK, Expert
  <2>3. sei' \in [0 .. PADMAX \div BlockM - 1 -> [launch : Nat, val : Expert \cup {Padding}]]
    <3>1. launch \in Nat  BY Constants DEF TypeOK
    <3>2. \A b : (\E e \in Expert : b \in blocks_of(e)) =>
                 (CHOOSE e \in Expert : b \in blocks_of(e)) \in Expert
      OBVIOUS
    <3> QED BY <1>6, <3>1, <3>2 DEF Cursors, TypeOK, stamp
  <2> QED BY <1>6, <2>1, <2>2, <2>3 DEF Cursors, TypeOK, input, Label
<1>7. ASSUME NEW c \in Cta, CountPartial(c) PROVE TypeOK'
  <2>1. pc' \in [Cta -> Label]  BY <1>7, GotoType DEF CountPartial, Label
  <2>2. \A e \in Expert : count(e, slice(c)) \in Nat  BY CountType DEF slice
  <2>3. hcnt' \in [Expert -> [Cta -> Nat]]
    BY <1>7, <2>2 DEF CountPartial, publish, TypeOK
  <2> QED BY <1>7, <2>1, <2>3 DEF CountPartial, TypeOK, input, scratch, Label
<1>8. ASSUME NEW c \in Cta, CrossCount(c) \/ CrossPlan(c) \/ PadEnd(c) \/ Exit(c)
      PROVE  TypeOK'
  <2>1. pc' \in [Cta -> Label]
    BY <1>8, GotoType DEF CrossCount, CrossPlan, PadEnd, Exit, Label
  <2>2. idx' \in [Cta -> Nat]
    BY <1>8, Constants DEF CrossCount, CrossPlan, PadEnd, Exit, TypeOK
  <2> QED BY <1>8, <2>1, <2>2
          DEF CrossCount, CrossPlan, PadEnd, Exit, TypeOK, input, scratch, Label
<1>9. ASSUME NEW c \in Cta, Pad(c) \/ Skip(c) PROVE TypeOK'
  <2>1. idx' \in [Cta -> Nat]
    <3>1. idx' = [idx EXCEPT ![c] = @ + Grid]  BY <1>9 DEF Pad, Skip
    <3> QED BY <3>1, Constants DEF TypeOK
  <2>2. sti' \in [Position -> [launch : Nat, val : Nat \cup {Padding}]]
    <3>1. stamp(Padding) \in [launch : Nat, val : Nat \cup {Padding}]
      BY Constants DEF TypeOK, stamp
    <3> QED BY <1>9, <3>1 DEF Pad, Skip, TypeOK
  <2>3. pperr' \subseteq {PadBit, ScatterBit}  BY <1>9 DEF Pad, Skip, TypeOK
  <2> QED BY <1>9, <2>1, <2>2, <2>3 DEF Pad, Skip, TypeOK, input, scratch
<1>10. ASSUME NEW c \in Cta, Claim(c) PROVE TypeOK'
  <2>1. pc' \in [Cta -> Label]  BY <1>10, GotoType DEF Claim, Label
  <2>2. cur' \in [Expert -> Nat] /\ pos' \in [Cta -> Nat]
    BY <1>10 DEF Claim, advance, TypeOK
  <2> QED BY <1>10, <2>1, <2>2 DEF Claim, TypeOK, input, Label
<1>11. ASSUME NEW c \in Cta, Store(c) PROVE TypeOK'
  <2>1. pc' \in [Cta -> Label]  BY <1>11, GotoType DEF Store, Label
  <2>2. idx' \in [Cta -> Nat]
    <3>1. idx' = [idx EXCEPT ![c] = @ + Grid]  BY <1>11 DEF Store
    <3> QED BY <3>1, Constants DEF TypeOK
  <2>3. sti' \in [Position -> [launch : Nat, val : Nat \cup {Padding}]]
    <3>1. stamp(idx[c]) \in [launch : Nat, val : Nat \cup {Padding}]
      BY Constants DEF TypeOK, stamp
    <3> QED BY <1>11, <3>1 DEF Store, TypeOK
  <2>4. pperr' \subseteq {PadBit, ScatterBit}  BY <1>11 DEF Store, TypeOK
  <2> QED BY <1>11, <2>1, <2>2, <2>3, <2>4 DEF Store, TypeOK, input, scratch, Label
<1>12. CASE UNCHANGED vars  BY <1>12 DEF vars, input, scratch, TypeOK
<1> QED BY <1>1, <1>2, <1>3, <1>4, <1>5, <1>6, <1>7, <1>8, <1>9, <1>10, <1>11, <1>12
        DEF Next

-----------------------------------------------------------------------------
(* The threads stay together.                                              *)
LEMMA PlaceInit == ASSUME DestSortAssumption, Init PROVE PlaceInv
BY Constants DEF Init, PlaceInv, past, Late

(* What a step of thread c may do to the places: c goes on to a place that *)
(* the others allow, with an index of its own.                             *)
LEMMA PlaceMove ==
  ASSUME DestSortAssumption, TypeOK, PlaceInv, NEW c \in Cta, NEW l \in Label,
         goto(c, l), UNCHANGED <<launch, hierarchical>>,
         pc[c] # "done", \A d \in Cta \ {c} : idx'[d] = idx[d],
         l \in {"reduce", "add", "scan"} => c = 0,
         l = "add" => hierarchical,
         l # "count",
         ~hierarchical => l # "bar1",
         l # "bar1" => \A d \in Cta \ {c} : pc[d] # "count",
         l \in Late => \A d \in Cta : pc[d] \in {"bar2"} \cup Late,
         pc[c] \in {"bar2"} \cup Late => l \in Late,
         l \in {"pad", "scatter", "store"} => idx'[c] % Grid = c
  PROVE  PlaceInv'
<1>1. \A d \in Cta : pc'[d] = IF d = c THEN l ELSE pc[d]  BY GotoType
<1>2. \A d \in Cta : pc'[d] \in {"reduce", "add", "scan"} => d = 0
  BY <1>1 DEF PlaceInv
<1>3. pc'[0] = "add" => hierarchical  BY <1>1, Constants DEF PlaceInv
<1>4. ~hierarchical => \A d \in Cta : pc'[d] \notin {"count", "bar1"}
  BY <1>1 DEF PlaceInv, past
<1>5. (\E d \in Cta : pc'[d] \notin {"count", "bar1"}) =>
        \A d \in Cta : pc'[d] # "count"
  BY <1>1 DEF PlaceInv, past
<1>6. (\E d \in Cta : pc'[d] \in Late) => \A d \in Cta : pc'[d] \in {"bar2"} \cup Late
  BY <1>1 DEF PlaceInv
<1>7. \A d \in Cta : pc'[d] \in {"pad", "scatter", "store"} => idx'[d] % Grid = d
  BY <1>1 DEF PlaceInv
<1> QED BY <1>2, <1>3, <1>4, <1>5, <1>6, <1>7 DEF PlaceInv, past

(* Each step keeps the threads together.                                   *)
LEMMA PlaceStep == ASSUME DestSortAssumption, TypeOK, PlaceInv, [Next]_vars PROVE PlaceInv'
<1> USE DEF Label, Late
<1>1. CASE Launch
  <2>1. /\ launch' # 0 /\ UNCHANGED <<hierarchical, idx>>
        /\ \A c \in Cta : pc'[c] = IF hierarchical THEN "count"
                                   ELSE IF c = 0 THEN "reduce" ELSE "bar2"
    BY <1>1, Constants DEF Launch, TypeOK
  <2> QED BY <2>1, Constants DEF PlaceInv, past
<1>2. CASE Reduce
  <2> DEFINE l == IF hierarchical THEN "add" ELSE "scan"
  <2>1. goto(0, l) /\ pc[0] = "reduce" /\ UNCHANGED <<launch, hierarchical, idx>>
    BY <1>2 DEF Reduce, input
  <2>2. \A d \in Cta : pc[d] # "count" /\ pc[d] \notin Late
    BY <2>1, Constants DEF PlaceInv, past
  <2> QED BY <2>1, <2>2, Constants, PlaceMove
<1>3. CASE AddColumn  BY <1>3 DEF AddColumn, PlaceInv, past, input
<1>4. CASE EndReduce
  <2>1. goto(0, "scan") /\ pc[0] = "add" /\ UNCHANGED <<launch, hierarchical, idx>>
    BY <1>4 DEF EndReduce, input
  <2>2. \A d \in Cta : pc[d] # "count" /\ pc[d] \notin Late
    BY <2>1, Constants DEF PlaceInv, past
  <2> QED BY <2>1, <2>2, Constants, PlaceMove
<1>5. CASE Scan  BY <1>5 DEF Scan, PlaceInv, past, input
<1>6. CASE Cursors
  <2>1. goto(0, "bar2") /\ pc[0] = "scan" /\ UNCHANGED <<launch, hierarchical, idx>>
    BY <1>6 DEF Cursors, input
  <2>2. \A d \in Cta : pc[d] # "count" /\ pc[d] \notin Late
    BY <2>1, Constants DEF PlaceInv, past
  <2> QED BY <2>1, <2>2, Constants, PlaceMove
<1>7. ASSUME NEW c \in Cta, CountPartial(c) PROVE PlaceInv'
  <2>1. goto(c, "bar1") /\ pc[c] = "count" /\ UNCHANGED <<launch, hierarchical, idx>>
    BY <1>7 DEF CountPartial, input
  <2>2. hierarchical  BY <2>1 DEF PlaceInv, past
  <2> QED BY <2>1, <2>2, PlaceMove
<1>8. ASSUME NEW c \in Cta, CrossCount(c) PROVE PlaceInv'
  <2> DEFINE l == IF c = 0 THEN "reduce" ELSE "bar2"
  <2>1. goto(c, l) /\ pc[c] = "bar1" /\ UNCHANGED <<launch, hierarchical, idx>>
    BY <1>8 DEF CrossCount, input
  <2>2. \A d \in Cta : pc[d] # "count"
    BY <1>8 DEF CrossCount, past
  <2> QED BY <2>1, <2>2, PlaceMove
<1>9. ASSUME NEW c \in Cta, CrossPlan(c) PROVE PlaceInv'
  <2>1. goto(c, "pad") /\ pc[c] = "bar2" /\ UNCHANGED <<launch, hierarchical>>
    BY <1>9 DEF CrossPlan, input
  <2>2. idx' = [idx EXCEPT ![c] = c]  BY <1>9 DEF CrossPlan
  <2>3. c % Grid = c  BY Constants DEF Cta
  <2>4. \A d \in Cta : pc[d] \in {"bar2"} \cup Late
    BY <1>9 DEF CrossPlan, planned, past, TypeOK
  <2> QED BY <2>1, <2>2, <2>3, <2>4, PlaceMove DEF TypeOK
<1>10. ASSUME NEW c \in Cta, PadEnd(c) PROVE PlaceInv'
  <2>1. goto(c, "scatter") /\ pc[c] = "pad" /\ UNCHANGED <<launch, hierarchical>>
    BY <1>10 DEF PadEnd, input
  <2>2. idx' = [idx EXCEPT ![c] = c]  BY <1>10 DEF PadEnd
  <2>3. c % Grid = c  BY Constants DEF Cta
  <2>4. \A d \in Cta : pc[d] \in {"bar2"} \cup Late  BY <2>1 DEF PlaceInv
  <2> QED BY <2>1, <2>2, <2>3, <2>4, PlaceMove DEF TypeOK
<1>11. ASSUME NEW c \in Cta, Pad(c) \/ Skip(c) PROVE PlaceInv'
  <2>1. /\ pc[c] \in {"pad", "scatter"} /\ UNCHANGED <<pc, launch, hierarchical>>
        /\ idx' = [idx EXCEPT ![c] = @ + Grid]
    BY <1>11 DEF Pad, Skip, input
  <2>2. \A d \in Cta : idx'[d] = IF d = c THEN idx[c] + Grid ELSE idx[d]
    BY <2>1 DEF TypeOK
  <2>3. (idx[c] + Grid) % Grid = idx[c] % Grid  BY Constants, Stride DEF TypeOK
  <2>4. \A d \in Cta : pc[d] \in {"pad", "scatter", "store"} => idx'[d] % Grid = d
    BY <2>1, <2>2, <2>3 DEF PlaceInv
  <2> QED BY <2>1, <2>4 DEF PlaceInv, past
<1>12. ASSUME NEW c \in Cta, Claim(c) PROVE PlaceInv'
  <2>1. goto(c, "store") /\ pc[c] = "scatter" /\ UNCHANGED <<launch, hierarchical, idx>>
    BY <1>12 DEF Claim, input
  <2>2. \A d \in Cta : pc[d] \in {"bar2"} \cup Late  BY <2>1 DEF PlaceInv
  <2>3. idx'[c] % Grid = c  BY <2>1 DEF PlaceInv
  <2> QED BY <2>1, <2>2, <2>3, PlaceMove
<1>13. ASSUME NEW c \in Cta, Store(c) PROVE PlaceInv'
  <2>1. /\ goto(c, "scatter") /\ pc[c] = "store" /\ UNCHANGED <<launch, hierarchical>>
        /\ idx' = [idx EXCEPT ![c] = @ + Grid]
    BY <1>13 DEF Store, input
  <2>2. \A d \in Cta : idx'[d] = IF d = c THEN idx[c] + Grid ELSE idx[d]
    BY <2>1 DEF TypeOK
  <2>3. (idx[c] + Grid) % Grid = idx[c] % Grid  BY Constants, Stride DEF TypeOK
  <2>4. idx'[c] % Grid = c  BY <2>1, <2>2, <2>3 DEF PlaceInv
  <2>5. \A d \in Cta : pc[d] \in {"bar2"} \cup Late  BY <2>1 DEF PlaceInv
  <2> QED BY <2>1, <2>2, <2>4, <2>5, PlaceMove
<1>14. ASSUME NEW c \in Cta, Exit(c) PROVE PlaceInv'
  <2>1. goto(c, "done") /\ pc[c] = "scatter" /\ UNCHANGED <<launch, hierarchical, idx>>
    BY <1>14 DEF Exit, input
  <2>2. \A d \in Cta : pc[d] \in {"bar2"} \cup Late  BY <2>1 DEF PlaceInv
  <2> QED BY <2>1, <2>2, PlaceMove
<1>15. CASE UNCHANGED vars  BY <1>15 DEF vars, input, PlaceInv, past
<1> QED BY <1>1, <1>2, <1>3, <1>4, <1>5, <1>6, <1>7, <1>8, <1>9, <1>10, <1>11, <1>12,
           <1>13, <1>14, <1>15 DEF Next

-----------------------------------------------------------------------------
(* What is counted when: the columns once published, the columns added so  *)
(* far, and from the scan on the pairs of each expert.                     *)
of(e) == {j \in Pair : recv_eid[j] = e}
before(n) == {j \in Pair : j % Grid < n}
counted == launch > 0 /\ pc[0] \in {"scan", "bar2"} \cup Late

CountInv ==
  /\ hierarchical /\ launch > 0 =>
       \A c \in Cta, e \in Expert : pc[c] # "count" => hcnt[e][c] = count(e, slice(c))
  /\ pc[0] = "add" =>
       e_next <= Grid /\ \A e \in Expert : cnt[e] = count(e, before(e_next))
  /\ counted => \A e \in Expert : cnt[e] = count(e, Pair)

(* One more column.                                                        *)
LEMMA CountColumn ==
  ASSUME DestSortAssumption, TypeOK, NEW n \in Cta, NEW e
  PROVE  count(e, before(n + 1)) = count(e, before(n)) + count(e, slice(n))
<1> DEFINE A == {j \in before(n) : recv_eid[j] = e}
           B == {j \in slice(n) : recv_eid[j] = e}
           C == {j \in before(n + 1) : recv_eid[j] = e}
<1>1. n \in Nat  BY Constants
<1>2. \A j \in Pair : j % Grid \in Nat  BY PairType, Constants
<1>3. C = A \cup B /\ A \cap B = {}
  BY <1>1, <1>2 DEF before, slice
<1>4. IsFiniteSet(A) /\ IsFiniteSet(B)
  BY PairType, FS_Subset DEF before, slice
<1>5. Cardinality(A) \in Nat /\ Cardinality(B) \in Nat  BY <1>4, FS_CardinalityType
<1>6. Cardinality(A \cup B) = Cardinality(A) + Cardinality(B) - Cardinality(A \cap B)
  <2> HIDE DEF A, B
  <2> QED BY <1>4, FS_Union
<1>7. Cardinality(A \cap B) = 0  BY <1>3, FS_EmptySet
<1>8. Cardinality(C) = Cardinality(A) + Cardinality(B)
  <2> HIDE DEF A, B, C
  <2> QED BY <1>3, <1>5, <1>6, <1>7
<1> QED BY <1>8 DEF count

(* No column, and all of them.                                             *)
LEMMA CountEnds ==
  ASSUME DestSortAssumption, TypeOK, NEW e
  PROVE  count(e, before(0)) = 0 /\ count(e, before(Grid)) = count(e, Pair)
<1>1. \A j \in Pair : j % Grid \in Nat /\ j % Grid < Grid
  BY PairType, Constants
<1>2. before(0) = {} /\ before(Grid) = Pair  BY <1>1 DEF before
<1>3. {j \in before(0) : recv_eid[j] = e} = {}  BY <1>2
<1>4. count(e, before(0)) = 0  BY <1>3, FS_EmptySet DEF count
<1> QED BY <1>2, <1>4

(* The counts are those of the launch.                                     *)
LEMMA CountInit == ASSUME DestSortAssumption, Init PROVE CountInv
BY Constants DEF Init, CountInv, counted

(* Each step keeps them so.                                                *)
LEMMA CountStep ==
  ASSUME DestSortAssumption, TypeOK, PlaceInv, CountInv, [Next]_vars
  PROVE  CountInv'
<1>1. CASE Launch
  <2>1. \A c \in Cta : pc'[c] = IF hierarchical THEN "count"
                                ELSE IF c = 0 THEN "reduce" ELSE "bar2"
    BY <1>1 DEF Launch
  <2>2. hierarchical' = hierarchical  BY <1>1 DEF Launch
  <2> QED BY <2>1, <2>2, Constants DEF CountInv, counted, Late
<1>2. ASSUME UNCHANGED <<launch, input, hcnt, cnt, e_next>>,
             \A c \in Cta : pc'[c] = "count" <=> pc[c] = "count",
             (pc[0] = "add")' => pc[0] = "add", counted' => counted
      PROVE  CountInv'
  BY <1>2 DEF CountInv, counted, count, slice, before, input, Pair
<1>3. CASE Reduce
  <2> DEFINE l == IF hierarchical THEN "add" ELSE "scan"
  <2>1. pc[0] = "reduce" /\ \A d \in Cta : pc'[d] = IF d = 0 THEN l ELSE pc[d]
    BY <1>3, Constants, GotoType DEF Reduce, Label
  <2>2. \A e \in Expert : cnt'[e] = IF hierarchical THEN 0 ELSE count(e, Pair)
    BY <1>3 DEF Reduce
  <2>3. \A e \in Expert : cnt'[e] = IF hierarchical THEN count(e, before(0))
                                    ELSE count(e, Pair)
    BY <2>2, CountEnds
  <2>4. e_next' = 0 /\ UNCHANGED <<launch, recv_eid, hierarchical, hcnt>>
    BY <1>3 DEF Reduce, input
  <2>5. \A c \in Cta, e \in Expert : count(e, slice(c))' = count(e, slice(c))
    BY <2>4 DEF count, slice, Pair
  <2>6. \A c \in Cta, e \in Expert :
          hierarchical' /\ launch' > 0 /\ pc'[c] # "count" =>
            hcnt'[e][c] = count(e, slice(c))'
    BY <2>1, <2>4, <2>5 DEF CountInv
  <2>7. hierarchical => \A e \in Expert : cnt'[e] = count(e, before(e_next))'
    BY <2>3, <2>4 DEF count, before, Pair
  <2>8. ~hierarchical => \A e \in Expert : cnt'[e] = count(e, Pair)'
    BY <2>3, <2>4 DEF count, Pair
  <2>9. pc'[0] = l  BY <2>1, Constants
  <2> QED BY <2>4, <2>6, <2>7, <2>8, <2>9, Constants DEF CountInv, counted, Late
<1>4. CASE AddColumn
  <2>1. /\ pc[0] = "add" /\ e_next \in Cta /\ e_next' = e_next + 1
        /\ UNCHANGED <<pc, launch, recv_eid, hierarchical, hcnt>>
    BY <1>4, Constants DEF AddColumn, input, TypeOK, Cta
  <2>2. hierarchical /\ launch > 0 /\ pc[e_next] # "count"
    BY <2>1, Constants DEF PlaceInv, past, TypeOK
  <2>3. \A e \in Expert : cnt'[e] = count(e, before(e_next)) + count(e, slice(e_next))
    BY <1>4, <2>1, <2>2 DEF AddColumn, CountInv
  <2>4. \A e \in Expert : cnt'[e] = count(e, before(e_next + 1))
    BY <2>1, <2>3, CountColumn
  <2>5. e_next + 1 <= Grid  BY <2>1, Constants DEF Cta
  <2> QED BY <2>1, <2>4, <2>5 DEF CountInv, counted, count, slice, before, Pair, Late
<1>5. CASE EndReduce
  <2>1. pc[0] = "add" /\ \A d \in Cta : pc'[d] = IF d = 0 THEN "scan" ELSE pc[d]
    BY <1>5, Constants, GotoType DEF EndReduce, Label
  <2>2. e_next = Grid /\ UNCHANGED <<launch, recv_eid, hierarchical, hcnt, cnt>>
    BY <1>5 DEF EndReduce, input, scratch
  <2>3. \A e \in Expert : cnt[e] = count(e, Pair)
    BY <2>1, <2>2, CountEnds DEF CountInv
  <2> QED BY <2>1, <2>2, <2>3, Constants
          DEF CountInv, counted, count, slice, before, Pair, Late
<1>6. CASE Scan \/ Cursors
  <2>1. UNCHANGED <<launch, input, hcnt, cnt>> /\ pc[0] = "scan"
    BY <1>6 DEF Scan, Cursors
  <2>2. \A d \in Cta : pc'[d] = pc[d] \/ (d = 0 /\ pc'[d] = "bar2")
    <3>1. CASE Scan  BY <3>1 DEF Scan
    <3>2. CASE Cursors  BY <3>2, Constants, GotoType DEF Cursors, Label
    <3> QED BY <1>6, <3>1, <3>2
  <2>3. pc'[0] # "add" /\ counted
    <3>1. launch \in Nat /\ launch # 0
      BY <2>1, Constants DEF PlaceInv, TypeOK
    <3> QED BY <2>1, <2>2, <3>1, Constants DEF counted
  <2>4. \A d \in Cta : pc'[d] = "count" <=> pc[d] = "count"  BY <2>1, <2>2
  <2> QED BY <2>1, <2>3, <2>4
          DEF CountInv, counted, count, slice, before, input, Pair
<1>7. ASSUME NEW c \in Cta, CountPartial(c) PROVE CountInv'
  <2>1. /\ pc[c] = "count" /\ UNCHANGED <<launch, recv_eid, hierarchical, cnt, e_next>>
        /\ \A d \in Cta : pc'[d] = IF d = c THEN "bar1" ELSE pc[d]
    BY <1>7, GotoType DEF CountPartial, Label, input, scratch
  <2>2. \A d \in Cta, e \in Expert :
          hcnt'[e][d] = IF d = c THEN count(e, slice(c)) ELSE hcnt[e][d]
    BY <1>7 DEF CountPartial, publish, TypeOK
  <2>3. \A d \in Cta : pc'[d] \in {"count", "bar1"}
    BY <2>1 DEF PlaceInv, past
  <2>4. pc'[0] # "add" /\ ~counted'  BY <2>3, Constants DEF counted, Late
  <2>5. \A d \in Cta, e \in Expert : count(e, slice(d))' = count(e, slice(d))
    BY <2>1 DEF count, slice, Pair
  <2>6. \A d \in Cta, e \in Expert :
          hierarchical' /\ launch' > 0 /\ pc'[d] # "count" =>
            hcnt'[e][d] = count(e, slice(d))'
    BY <2>1, <2>2, <2>5 DEF CountInv
  <2> QED BY <2>4, <2>6 DEF CountInv
<1>8. ASSUME NEW c \in Cta, NEW l \in Label \ {"count", "add", "scan"},
             goto(c, l), pc[c] # "count", l \in {"bar2"} \cup Late /\ c = 0 => counted,
             UNCHANGED <<launch, input, hcnt, cnt, e_next>>
      PROVE  CountInv'
  <2>1. \A d \in Cta : pc'[d] = IF d = c THEN l ELSE pc[d]  BY <1>8, GotoType
  <2>2. (pc[0] = "add")' => pc[0] = "add"  BY <1>8, <2>1, Constants
  <2>3. counted' => counted  BY <1>8, <2>1, Constants DEF counted
  <2> QED BY <1>2, <1>8, <2>1, <2>2, <2>3
<1>9. ASSUME NEW c \in Cta, CrossCount(c) PROVE CountInv'
  BY <1>8, <1>9 DEF CrossCount, Label, input, scratch, Late
<1>10. ASSUME NEW c \in Cta, CrossPlan(c) \/ PadEnd(c) \/ Claim(c) \/ Store(c) \/ Exit(c)
       PROVE  CountInv'
  <2>1. /\ UNCHANGED <<launch, input, hcnt, cnt, e_next>>
        /\ pc[c] \in {"bar2", "pad", "scatter", "store"}
        /\ \E l \in Late : goto(c, l)
    BY <1>10 DEF CrossPlan, PadEnd, Claim, Store, Exit, input, scratch, Late
  <2>2. launch > 0  BY <2>1 DEF PlaceInv, TypeOK
  <2>3. c = 0 => counted  BY <2>1, <2>2 DEF counted, Late
  <2> QED BY <1>8, <2>1, <2>3 DEF Label, Late
<1>11. ASSUME NEW c \in Cta, Pad(c) \/ Skip(c) PROVE CountInv'
  <2>1. UNCHANGED <<pc, launch, input, hcnt, cnt, e_next>>
    BY <1>11 DEF Pad, Skip, scratch
  <2> QED BY <1>2, <2>1 DEF counted
<1>12. CASE UNCHANGED vars  BY <1>2, <1>12 DEF vars, scratch, counted
<1> QED BY <1>1, <1>3, <1>4, <1>5, <1>6, <1>7, <1>9, <1>10, <1>11, <1>12 DEF Next

-----------------------------------------------------------------------------
(* What the scan has laid out: segments one behind the other, in whole     *)
(* blocks, with no block left out.                                         *)
scanned == IF pc[0] = "scan" THEN e_next ELSE E

ScanInv ==
  /\ pc[0] = "add" => erb[0] = 0
  /\ counted =>
       /\ scanned <= E /\ erb[0] = 0
       /\ \A k \in 0 .. scanned - 1 : erb[k + 1] = erb[k] + padded(cnt[k])
       /\ \A k \in 0 .. scanned, i \in 0 .. scanned : i <= k => erb[i] <= erb[k]
       /\ \A k \in 0 .. scanned : erb[k] = BlockM * (erb[k] \div BlockM)
       /\ \A k \in 0 .. scanned : \A b \in 0 .. erb[k] \div BlockM - 1 :
            \E e \in 0 .. k - 1 : b \in blocks_of(e)

(* Nothing is laid out before the first launch.                            *)
LEMMA ScanInit == ASSUME DestSortAssumption, Init PROVE ScanInv
BY Constants DEF Init, ScanInv, counted

(* Nothing is laid out yet: the scan starts at expert 0.                   *)
LEMMA ScanStart ==
  ASSUME DestSortAssumption, pc'[0] = "scan", e_next' = 0, erb'[0] = 0
  PROVE  ScanInv'
<1>1. 0 \div BlockM = 0 /\ BlockM * (0 \div BlockM) = 0
  <2> DEFINE a == 0 \div BlockM
  <2>1. a \in Nat /\ 0 % BlockM \in Nat /\ 0 = BlockM * a + (0 % BlockM)
    BY Constants, Division
  <2> HIDE DEF a
  <2>2. ASSUME a # 0 PROVE FALSE
    <3>1. PICK x \in Nat : a = x + 1  BY <2>1, <2>2
    <3>2. BlockM * (x + 1) = BlockM * x + BlockM /\ BlockM * x \in Nat
      BY Constants
    <3> QED BY <2>1, <3>1, <3>2, Constants
  <2> QED BY <2>2, Constants DEF a
<1> QED BY <1>1, Constants DEF ScanInv, scanned

(* One more segment.                                                       *)
LEMMA ScanTurn ==
  ASSUME DestSortAssumption, TypeOK, PlaceInv, CountInv, ScanInv, Scan
  PROVE  ScanInv'
<1>0. PICK n \in Nat : n = e_next  BY DEF TypeOK
<1> DEFINE top == erb[n] + padded(cnt[n])
<1>1. /\ pc[0] = "scan" /\ n = e_next /\ n \in Nat /\ n < E /\ n \in Expert
      /\ UNCHANGED <<pc, launch, cnt>> /\ e_next' = n + 1
  BY <1>0, Constants DEF Scan, TypeOK, Expert
<1>2. counted /\ scanned = n /\ scanned' = n + 1
  BY <1>1, Constants DEF counted, scanned, PlaceInv, TypeOK
<1>3. cnt[n] \in Nat /\ erb[n] \in Nat /\ \A k \in 0 .. E : erb[k] \in Nat
  BY <1>1, Constants DEF TypeOK
<1>4. top \in Nat /\ erb[n] <= top  BY <1>3, PaddedType
<1>5. \A k \in 0 .. n + 1 : erb'[k] = IF k = n + 1 THEN top ELSE erb[k]
  BY <1>1, Constants DEF Scan, TypeOK
<1>6. top = BlockM * (top \div BlockM) /\ top \div BlockM >= erb[n] \div BlockM
  <2>1. erb[n] = BlockM * (erb[n] \div BlockM)  BY <1>1, <1>2 DEF ScanInv
  <2> QED BY <2>1, <1>3, Constants, PaddedType, Whole
<1>7. \A k \in 0 .. n : /\ erb'[k + 1] = erb'[k] + padded(cnt'[k])
                        /\ erb'[k] <= top
                        /\ erb'[k] = BlockM * (erb'[k] \div BlockM)
  <2> SUFFICES ASSUME NEW k \in 0 .. n
               PROVE  /\ erb'[k + 1] = erb'[k] + padded(cnt'[k])
                      /\ erb'[k] <= top
                      /\ erb'[k] = BlockM * (erb'[k] \div BlockM)
    OBVIOUS
  <2>1. erb[k] <= erb[n] /\ erb[k] = BlockM * (erb[k] \div BlockM)
    BY <1>1, <1>2 DEF ScanInv
  <2>2. k < n => erb[k + 1] = erb[k] + padded(cnt[k])
    BY <1>1, <1>2 DEF ScanInv
  <2>3. erb'[k] = erb[k] /\ erb'[k + 1] = IF k = n THEN top ELSE erb[k + 1]
    BY <1>1, <1>5
  <2>4. erb[k] <= top
    <3> HIDE DEF top
    <3> QED BY <2>1, <1>1, <1>3, <1>4, Constants
  <2> QED BY <2>1, <2>2, <2>3, <2>4, <1>1
<1> DEFINE block(b, e) == b \in erb'[e] \div BlockM .. erb'[e + 1] \div BlockM - 1
<1>8. \A e \in 0 .. n - 1 : \A b \in blocks_of(e) : block(b, e)
  <2> SUFFICES ASSUME NEW e \in 0 .. n - 1, NEW b \in blocks_of(e) PROVE block(b, e)
    OBVIOUS
  <2>1. erb'[e] = erb[e] /\ erb'[e + 1] = erb[e + 1]  BY <1>1, <1>5
  <2> QED BY <2>1 DEF blocks_of
<1>9. \A b \in erb[n] \div BlockM .. top \div BlockM - 1 : block(b, n)
  <2>1. erb'[n] = erb[n] /\ erb'[n + 1] = top  BY <1>1, <1>5
  <2> QED BY <2>1
<1>10. \A k \in 0 .. n : \A b \in 0 .. erb[k] \div BlockM - 1 :
         \E e \in 0 .. k - 1 : block(b, e)
  <2> HIDE DEF block
  <2> QED BY <1>1, <1>2, <1>8 DEF ScanInv
<1>11. \A b \in 0 .. top \div BlockM - 1 : \E e \in 0 .. n : block(b, e)
  <2> HIDE DEF block
  <2> SUFFICES ASSUME NEW b \in 0 .. top \div BlockM - 1
               PROVE  \E e \in 0 .. n : block(b, e)
    OBVIOUS
  <2>1. erb[n] \div BlockM \in Nat /\ top \div BlockM \in Nat
    BY <1>3, <1>4, Constants, Division
  <2>2. CASE b < erb[n] \div BlockM  BY <1>1, <1>10, <2>1, <2>2
  <2>3. CASE b >= erb[n] \div BlockM
    <3>1. b \in erb[n] \div BlockM .. top \div BlockM - 1  BY <2>1, <2>3
    <3> QED BY <1>1, <1>9, <3>1
  <2> QED BY <2>1, <2>2, <2>3
<1> HIDE DEF top
<1>12. \A k \in 0 .. n + 1, i \in 0 .. n + 1 : i <= k => erb'[i] <= erb'[k]
  <2>1. \A k \in 0 .. n, i \in 0 .. n : i <= k => erb[i] <= erb[k]
    BY <1>2 DEF ScanInv
  <2> QED BY <2>1, <1>1, <1>4, <1>5, <1>7
<1>13. \A k \in 0 .. n + 1 : \A b \in 0 .. erb'[k] \div BlockM - 1 :
         \E e \in 0 .. k - 1 : block(b, e)
  <2> SUFFICES ASSUME NEW k \in 0 .. n + 1, NEW b \in 0 .. erb'[k] \div BlockM - 1
               PROVE  \E e \in 0 .. k - 1 : block(b, e)
    OBVIOUS
  <2> HIDE DEF block
  <2>1. CASE k = n + 1  BY <1>1, <1>5, <1>11, <2>1
  <2>2. CASE k \in 0 .. n  BY <1>1, <1>5, <1>10, <2>2
  <2> QED BY <1>1, <2>1, <2>2
<1>14. \A k \in 0 .. n + 1 : erb'[k] = BlockM * (erb'[k] \div BlockM)
  BY <1>1, <1>5, <1>6, <1>7
<1>15. erb'[0] = 0  BY <1>1, <1>2, <1>5 DEF ScanInv
<1>16. \A k \in 0 .. n : erb'[k + 1] = erb'[k] + padded(cnt[k])'
  BY <1>7 DEF padded
<1>17. n + 1 <= E /\ (n + 1) - 1 = n /\ pc'[0] # "add"  BY <1>1, Constants
<1>18. \A k \in 0 .. scanned' : \A b \in 0 .. erb'[k] \div BlockM - 1 :
         \E e \in 0 .. k - 1 : b \in blocks_of(e)'
  BY <1>2, <1>13 DEF blocks_of
<1> QED BY <1>2, <1>12, <1>14, <1>15, <1>16, <1>17, <1>18 DEF ScanInv

(* The plan is made and the barrier behind it reached; the steps before.   *)
plan_done == launch > 0 /\ pc[0] \in {"bar2"} \cup Late
Planning == Launch \/ Reduce \/ AddColumn \/ EndReduce \/ Scan \/ Cursors

(* The counting and planning of thread 0 apart, no step changes what they  *)
(* use or brings thread 0 to a place of theirs.                            *)
LEMMA OtherSteps ==
  ASSUME DestSortAssumption, TypeOK, PlaceInv, [Next]_vars, ~Planning
  PROVE  /\ UNCHANGED <<launch, recv_eid, hierarchical, cnt, erb, nvi, sei, e_next>>
         /\ pperr \subseteq pperr'
         /\ pc'[0] \in {"add", "scan"} => pc'[0] = pc[0]
         /\ plan_done' <=> plan_done
<1> DEFINE Goal == /\ UNCHANGED <<launch, recv_eid, hierarchical, cnt, erb, nvi, sei,
                                  e_next>>
                   /\ pperr \subseteq pperr'
                   /\ pc'[0] \in {"add", "scan"} => pc'[0] = pc[0]
                   /\ plan_done' <=> plan_done
           Still == /\ UNCHANGED <<launch, recv_eid, hierarchical, cnt, erb, nvi, sei,
                                   e_next>>
                    /\ pperr \subseteq pperr'
<1>1. ASSUME NEW c \in Cta, NEW l \in Label \ {"count", "add", "scan"}, goto(c, l), Still,
             c = 0 => (plan_done <=> l \in {"bar2"} \cup Late)
      PROVE  Goal
  <2>1. pc'[0] = IF c = 0 THEN l ELSE pc[0]  BY <1>1, Constants, GotoType
  <2> QED BY <1>1, <2>1 DEF plan_done
<1>2. ASSUME NEW c \in Cta, CountPartial(c) \/ CrossCount(c) PROVE Goal
  <2>1. Still  BY <1>2 DEF CountPartial, CrossCount, input, scratch
  <2> DEFINE l == IF CountPartial(c) THEN "bar1" ELSE IF c = 0 THEN "reduce" ELSE "bar2"
  <2>2. goto(c, l) /\ pc[c] \in {"count", "bar1"}
    BY <1>2 DEF CountPartial, CrossCount
  <2>3. l \in {"bar1", "reduce", "bar2"} /\ (c = 0 => l # "bar2")  OBVIOUS
  <2>4. c = 0 => ~plan_done /\ l \notin {"bar2"} \cup Late
    BY <2>2, <2>3 DEF plan_done, Late
  <2>5. l \in Label \ {"count", "add", "scan"}  BY <2>3 DEF Label
  <2> HIDE DEF l, Goal, Still
  <2> QED BY <1>1, <2>1, <2>2, <2>4, <2>5
<1>3. ASSUME NEW c \in Cta,
             CrossPlan(c) \/ PadEnd(c) \/ Claim(c) \/ Store(c) \/ Exit(c)
      PROVE  Goal
  <2>1. /\ pc[c] \in {"bar2", "pad", "scatter", "store"}
        /\ \E l \in Late : goto(c, l)
    BY <1>3 DEF CrossPlan, PadEnd, Claim, Store, Exit, Late
  <2>2. Still
    BY <1>3 DEF CrossPlan, PadEnd, Claim, Store, Exit, input, scratch
  <2>3. launch > 0  BY <2>1 DEF PlaceInv, TypeOK
  <2> QED BY <1>1, <2>1, <2>2, <2>3 DEF plan_done, Label, Late
<1>4. ASSUME NEW c \in Cta, Pad(c) \/ Skip(c) PROVE Goal
  BY <1>4 DEF Pad, Skip, input, scratch, plan_done
<1>5. CASE UNCHANGED vars  BY <1>5 DEF vars, input, scratch, plan_done
<1> QED BY <1>2, <1>3, <1>4, <1>5 DEF Next, Planning

(* Each step keeps to the layout.                                          *)
LEMMA ScanStep ==
  ASSUME DestSortAssumption, TypeOK, PlaceInv, CountInv, ScanInv, [Next]_vars
  PROVE  ScanInv'
<1>1. CASE Launch
  <2>1. pc'[0] \in {"count", "reduce"}  BY <1>1, Constants DEF Launch
  <2> QED BY <2>1 DEF ScanInv, counted, Late
<1>2. ASSUME UNCHANGED <<cnt, erb>>, (pc[0] = "add")' => pc[0] = "add",
             counted' => counted /\ scanned' = scanned
      PROVE  ScanInv'
  BY <1>2 DEF ScanInv, blocks_of, padded
<1>3. CASE Reduce
  <2> DEFINE l == IF hierarchical THEN "add" ELSE "scan"
  <2>1. pc'[0] = l  BY <1>3, Constants, GotoType DEF Reduce, Label
  <2>2. e_next' = 0 /\ erb'[0] = 0  BY <1>3, Constants DEF Reduce, TypeOK
  <2>3. CASE hierarchical
    BY <2>1, <2>2, <2>3 DEF ScanInv, counted, Late
  <2>4. CASE ~hierarchical  BY <2>1, <2>2, <2>4, ScanStart
  <2> QED BY <2>3, <2>4
<1>4. CASE AddColumn
  <2>1. pc'[0] = "add" /\ pc[0] = "add" /\ UNCHANGED erb  BY <1>4 DEF AddColumn
  <2> QED BY <2>1 DEF ScanInv, counted, Late
<1>5. CASE EndReduce
  <2>1. pc'[0] = "scan" /\ pc[0] = "add" /\ UNCHANGED erb /\ e_next' = 0
    BY <1>5, Constants, GotoType DEF EndReduce, Label, scratch
  <2> QED BY <2>1, ScanStart DEF ScanInv
<1>6. CASE Scan  BY <1>6, ScanTurn
<1>7. CASE Cursors
  <2>1. /\ pc'[0] = "bar2" /\ pc[0] = "scan" /\ UNCHANGED <<launch, cnt, erb>>
        /\ e_next = E
    BY <1>7, Constants, GotoType DEF Cursors, Label
  <2>2. launch > 0  BY <2>1, Constants DEF PlaceInv, TypeOK
  <2> QED BY <1>2, <2>1, <2>2 DEF counted, scanned
<1>8. CASE ~Planning
  <2>1. /\ UNCHANGED <<launch, cnt, erb, e_next>>
        /\ plan_done' => plan_done
        /\ pc'[0] \in {"add", "scan"} => pc'[0] = pc[0]
    BY <1>8, OtherSteps
  <2>2. pc[0] = "scan" /\ launch > 0 => counted  BY DEF counted
  <2>3. plan_done => counted /\ scanned = E  BY DEF plan_done, counted, scanned, Late
  <2>4. pc'[0] = "scan" => scanned' = scanned  BY <2>1 DEF scanned
  <2>5. counted' => IF pc'[0] = "scan" THEN launch > 0 ELSE plan_done'
    BY <2>1 DEF counted, plan_done
  <2>6. pc'[0] # "scan" => scanned' = E  BY DEF scanned
  <2>7. counted' => counted /\ scanned' = scanned
    BY <2>1, <2>2, <2>3, <2>4, <2>5, <2>6
  <2> QED BY <1>2, <2>1, <2>7
<1> QED BY <1>1, <1>3, <1>4, <1>5, <1>6, <1>7, <1>8 DEF Planning

-----------------------------------------------------------------------------
(* The segments of the plan: as long as the pairs of the expert and less   *)
(* than a block more, one behind the other.                                *)
LEMMA Segments ==
  ASSUME DestSortAssumption, TypeOK, ScanInv, plan_done
  PROVE  /\ erb[E] \in Nat
         /\ \A e \in Expert :
              /\ erb[e] \in Nat /\ erb[e + 1] \in Nat /\ cnt[e] \in Nat
              /\ erb[e] + cnt[e] <= erb[e + 1] /\ erb[e + 1] <= erb[E]
              /\ erb[e + 1] < erb[e] + cnt[e] + BlockM
         /\ \A e \in Expert, f \in Expert : e < f => erb[e + 1] <= erb[f]
<1>1. counted /\ scanned = E  BY DEF plan_done, counted, scanned, Late
<1>2. \A k \in 0 .. E : erb[k] \in Nat  BY DEF TypeOK
<1>3. \A e \in Expert : cnt[e] \in Nat  BY DEF TypeOK
<1>4. \A k \in 0 .. E, i \in 0 .. E : i <= k => erb[i] <= erb[k]
  BY <1>1 DEF ScanInv
<1>5. \A e \in Expert : erb[e + 1] = erb[e] + padded(cnt[e])
  BY <1>1 DEF ScanInv, Expert
<1>6. \A e \in Expert : e \in 0 .. E /\ e + 1 \in 0 .. E  BY Constants DEF Expert
<1>7. ASSUME NEW e \in Expert
      PROVE  /\ erb[e] + cnt[e] <= erb[e + 1]
             /\ erb[e + 1] < erb[e] + cnt[e] + BlockM
  <2>1. /\ padded(cnt[e]) \in Nat /\ cnt[e] <= padded(cnt[e])
        /\ padded(cnt[e]) < cnt[e] + BlockM
    BY <1>3, PaddedType
  <2> QED BY <2>1, <1>2, <1>3, <1>5, <1>6, Constants
<1>8. \A e \in Expert, f \in Expert : e < f => erb[e + 1] <= erb[f]
  BY <1>4, <1>6, Constants DEF Expert
<1>9. E \in 0 .. E /\ \A e \in Expert : e + 1 <= E  BY Constants DEF Expert
<1> QED BY <1>2, <1>3, <1>4, <1>6, <1>7, <1>8, <1>9

(* A position, and a block, is in one segment.                             *)
LEMMA Apart ==
  ASSUME DestSortAssumption, TypeOK, ScanInv, plan_done \/ (counted /\ scanned = E),
         NEW e \in Expert, NEW f \in Expert
  PROVE  /\ \A p \in segment(e) : p \in segment(f) => e = f
         /\ \A b \in blocks_of(e) : b \in blocks_of(f) => e = f
<1>1. counted /\ scanned = E  BY DEF plan_done, counted, scanned, Late
<1>2. \A k \in 0 .. E : erb[k] \in Nat  BY DEF TypeOK
<1>3. \A k \in 0 .. E, i \in 0 .. E : i <= k => erb[i] <= erb[k]
  BY <1>1 DEF ScanInv
<1>4. ASSUME NEW g \in Expert, NEW h \in Expert, g < h
      PROVE  /\ \A p \in segment(g) : p \notin segment(h)
             /\ \A b \in blocks_of(g) : b \notin blocks_of(h)
  <2>1. /\ g \in 0 .. E /\ g + 1 \in 0 .. E /\ h \in 0 .. E /\ h + 1 \in 0 .. E
        /\ g + 1 <= h
    BY <1>4, Constants DEF Expert
  <2>2. erb[g + 1] <= erb[h]  BY <1>3, <2>1
  <2>3. erb[g + 1] \div BlockM <= erb[h] \div BlockM
    BY <1>2, <2>1, <2>2, Blocks, Constants
  <2>4. /\ erb[g + 1] \div BlockM \in Nat /\ erb[h] \div BlockM \in Nat
        /\ erb[g] \div BlockM \in Nat /\ erb[h + 1] \div BlockM \in Nat
    BY <1>2, <2>1, Division, Constants
  <2>5. \A b \in blocks_of(g) : b \notin blocks_of(h)  BY <2>3, <2>4 DEF blocks_of
  <2> QED BY <1>2, <2>1, <2>2, <2>5 DEF segment
<1>5. e \in Int /\ f \in Int  BY Constants DEF Expert
<1>6. e < f \/ f < e \/ e = f  BY <1>5
<1> QED BY <1>4, <1>6

(* What thread 0 hands over: the number of positions, the labels of the    *)
(* blocks, and the report of segments that do not fit.                     *)
PlanInv ==
  plan_done =>
    /\ nvi = erb[E]
    /\ \A e \in Expert : \A b \in blocks_of(e) : b \in DOMAIN sei => sei[b] = stamp(e)
    /\ nvi > PADMAX => PadBit \in pperr

(* Only the end of the scan hands over a plan.                             *)
LEMMA NotPlanned ==
  ASSUME DestSortAssumption, TypeOK, Planning, ~Cursors PROVE ~plan_done'
<1>1. CASE Launch
  <2>1. pc'[0] \in {"count", "reduce"}  BY <1>1, Constants DEF Launch
  <2> QED BY <2>1 DEF plan_done, Late
<1>2. CASE Reduce \/ EndReduce
  <2>1. \E l \in {"add", "scan"} : goto(0, l)  BY <1>2 DEF Reduce, EndReduce
  <2>2. pc'[0] \in {"add", "scan"}  BY <2>1, Constants, GotoType DEF Label
  <2> QED BY <2>2 DEF plan_done, Late
<1>3. CASE AddColumn \/ Scan
  <2>1. pc'[0] \in {"add", "scan"}  BY <1>3 DEF AddColumn, Scan
  <2> QED BY <2>1 DEF plan_done, Late
<1> QED BY <1>1, <1>2, <1>3 DEF Planning

(* Each step keeps to the plan.                                            *)
LEMMA PlanStep ==
  ASSUME DestSortAssumption, TypeOK, PlaceInv, ScanInv, PlanInv, [Next]_vars
  PROVE  PlanInv'
<1>1. CASE Planning /\ ~Cursors  BY <1>1, NotPlanned DEF PlanInv
<1>2. CASE Cursors
  <2>1. /\ pc[0] = "scan" /\ e_next = E /\ nvi' = erb[E]
        /\ UNCHANGED <<launch, erb>>
    BY <1>2 DEF Cursors
  <2>2. counted /\ scanned = E
    BY <2>1, Constants DEF counted, scanned, PlaceInv, TypeOK
  <2>3. ASSUME NEW e \in Expert, NEW b \in blocks_of(e), b \in DOMAIN sei
        PROVE  sei'[b] = stamp(e)
    <3>1. \A f \in Expert : b \in blocks_of(f) => f = e
      BY <2>2, <2>3, Apart
    <3>2. (CHOOSE f \in Expert : b \in blocks_of(f)) = e  BY <2>3, <3>1
    <3> QED BY <1>2, <2>3, <3>2 DEF Cursors
  <2>4. \A e \in Expert : stamp(e)' = stamp(e) /\ blocks_of(e)' = blocks_of(e)
    BY <2>1 DEF stamp, blocks_of
  <2>5. DOMAIN sei' = DOMAIN sei  BY <1>2 DEF Cursors
  <2>6. ASSUME erb[E] > PADMAX PROVE PadBit \in pperr'
    <3> DEFINE m == erb[E] \div BlockM  b == PADMAX \div BlockM
    <3>1. /\ erb[E] \in Nat /\ erb[E] = BlockM * m
          /\ \A x \in 0 .. m - 1 : \E e \in 0 .. E - 1 : x \in blocks_of(e)
      BY <2>2, Constants DEF ScanInv, TypeOK
    <3>2. m \in Nat /\ b \in Nat /\ BlockM * b <= PADMAX
      <4>1. m \in Nat  BY <3>1, Constants, Division
      <4> DEFINE r == PADMAX % BlockM
      <4>2. b \in Nat /\ r \in 0 .. BlockM - 1 /\ PADMAX = BlockM * b + r
        <5>1. PADMAX \in Nat /\ BlockM \in Nat \ {0}  BY Constants
        <5> QED BY <5>1, Division
      <4> HIDE DEF b, r
      <4> QED BY <4>1, <4>2, Constants
    <3>3. b < m
      <4> HIDE DEF b, m
      <4>1. ASSUME m <= b PROVE FALSE
        <5>1. BlockM * m <= BlockM * b  BY <3>2, <4>1, Constants
        <5> QED BY <5>1, <3>1, <3>2, <2>6, Constants
      <4> QED BY <3>2, <4>1
    <3>4. PICK e \in Expert : b \in blocks_of(e)
      BY <3>1, <3>2, <3>3 DEF Expert
    <3>5. misfits(e)  BY <3>2, <3>4 DEF misfits
    <3> QED BY <1>2, <3>5 DEF Cursors
  <2> QED BY <2>1, <2>3, <2>4, <2>5, <2>6 DEF PlanInv
<1>3. CASE ~Planning
  <2>1. /\ UNCHANGED <<launch, erb, nvi, sei>>
        /\ pperr \subseteq pperr'
        /\ plan_done' => plan_done
    BY <1>3, OtherSteps
  <2>2. \A e \in Expert : stamp(e)' = stamp(e) /\ blocks_of(e)' = blocks_of(e)
    BY <2>1 DEF stamp, blocks_of
  <2> QED BY <2>1, <2>2 DEF PlanInv
<1> QED BY <1>1, <1>2, <1>3

-----------------------------------------------------------------------------
(* A pair of thread c is stored once c is past it, and held between its    *)
(* claim and its store.                                                    *)
stored(c, j) == pc[c] = "done" \/ (pc[c] \in {"scatter", "store"} /\ j < idx[c])
holds(c, j) == pc[c] = "store" /\ j = idx[c]
claimed(e) == {j \in of(e) : stored(j % Grid, j) \/ holds(j % Grid, j)}

(* A cursor has passed as many positions as pairs are claimed; what threads*)
(* hold are positions of their pairs' segments, each of its own.           *)
ClaimInv ==
  plan_done =>
    /\ \A e \in Expert : cur[e] = erb[e] + Cardinality(claimed(e))
    /\ \A c \in Cta : pc[c] = "store" =>
         /\ idx[c] \in Pair /\ recv_eid[idx[c]] \in Expert
         /\ erb[recv_eid[idx[c]]] <= pos[c] /\ pos[c] < cur[recv_eid[idx[c]]]
    /\ \A c \in Cta, d \in Cta :
         pc[c] = "store" /\ pc[d] = "store" /\ pos[c] = pos[d] => c = d

(* The claims are finite, and no more than the pairs.                      *)
LEMMA ClaimBound ==
  ASSUME DestSortAssumption, TypeOK, CountInv, ClaimInv, plan_done, NEW e \in Expert
  PROVE  /\ IsFiniteSet(claimed(e)) /\ Cardinality(claimed(e)) \in Nat
         /\ erb[e] <= cur[e] /\ cur[e] <= erb[e] + cnt[e]
         /\ \A j \in of(e) : j \notin claimed(e) =>
              /\ Cardinality(claimed(e) \cup {j}) = Cardinality(claimed(e)) + 1
              /\ cur[e] < erb[e] + cnt[e]
<1>1. IsFiniteSet(of(e)) /\ claimed(e) \subseteq of(e)
  BY PairType, FS_Subset DEF of, claimed
<1>2. IsFiniteSet(claimed(e)) /\ Cardinality(claimed(e)) <= Cardinality(of(e))
  BY <1>1, FS_Subset
<1>3. Cardinality(of(e)) \in Nat /\ Cardinality(claimed(e)) \in Nat
  BY <1>1, <1>2, FS_CardinalityType
<1>4. cnt[e] = Cardinality(of(e))
  BY DEF CountInv, counted, plan_done, count, of, Late
<1>5. cur[e] = erb[e] + Cardinality(claimed(e)) /\ erb[e] \in Nat
  BY Constants DEF ClaimInv, TypeOK, Expert
<1>6. ASSUME NEW j \in of(e), j \notin claimed(e)
      PROVE  /\ Cardinality(claimed(e) \cup {j}) = Cardinality(claimed(e)) + 1
             /\ cur[e] < erb[e] + cnt[e]
  <2>1. Cardinality(claimed(e) \cup {j}) = Cardinality(claimed(e)) + 1
    BY <1>2, <1>6, FS_AddElement
  <2>2. Cardinality(claimed(e) \cup {j}) <= Cardinality(of(e))
    <3>1. claimed(e) \cup {j} \in SUBSET of(e)  BY <1>1, <1>6
    <3> QED BY <1>1, <3>1, FS_Subset
  <2> QED BY <2>1, <2>2, <1>3, <1>4, <1>5
<1> QED BY <1>2, <1>3, <1>4, <1>5, <1>6

(* A pair is stored by its store and held by its claim only.               *)
LEMMA Progress ==
  ASSUME DestSortAssumption, TypeOK, PlaceInv, [Next]_vars, ~Planning,
         NEW j \in Pair, recv_eid[j] \in Expert
  PROVE  /\ stored(j % Grid, j)' <=> \/ stored(j % Grid, j)
                                     \/ \E c \in Cta : Store(c) /\ j = idx[c]
         /\ holds(j % Grid, j)' <=> \/ \E c \in Cta : Claim(c) /\ j = idx[c]
                                    \/ /\ holds(j % Grid, j)
                                       /\ \A c \in Cta : ~(Store(c) /\ j = idx[c])
<1> DEFINE d == j % Grid
<1>1. d \in Cta /\ j \in Nat /\ d <= j
  <2>1. j \in Nat /\ j % Grid \in Cta  BY PairType
  <2> DEFINE q == j \div Grid  r == j % Grid
  <2>2. q \in Nat /\ r \in 0 .. Grid - 1 /\ j = Grid * q + r
    BY <2>1, Constants, Division
  <2> HIDE DEF q, r
  <2>3. Grid * q \in Nat  BY <2>2, Constants
  <2>4. r <= j  BY <2>2, <2>3, Constants
  <2> QED BY <2>1, <2>4 DEF r
<1>2. \A c \in Cta : idx[c] \in Nat  BY DEF TypeOK
<1>3. \A c \in Cta : pc[c] \in {"scatter", "store"} /\ j = idx[c] => c = d
  BY DEF PlaceInv
<1>4. \A c \in Cta : Claim(c) \/ Store(c) => pc[c] \in {"scatter", "store"}
  BY DEF Claim, Store
<1>5. ASSUME NEW c \in Cta, pc[c] \in {"scatter", "store"}, d = c
      PROVE  j < idx[c] + Grid <=> j <= idx[c]
  <2>1. idx[c] % Grid = c /\ j % Grid = c  BY <1>5 DEF PlaceInv
  <2>2. idx[c] < j => idx[c] + Grid <= j  BY <2>1, <1>1, <1>2, Constants, Stride
  <2> QED BY <2>2, <1>1, <1>2, Constants
<1> HIDE DEF d
<1> DEFINE S == \E c \in Cta : Store(c) /\ j = idx[c]
           C == \E c \in Cta : Claim(c) /\ j = idx[c]
           Goal == /\ stored(d, j)' <=> stored(d, j) \/ S
                   /\ holds(d, j)' <=> C \/ (holds(d, j) /\ ~S)
<1>6. ASSUME NEW c \in Cta, pc[c] = "store", pc'[c] = "scatter", S <=> j = idx[c], ~C,
             \A b \in Cta : b # c => pc'[b] = pc[b] /\ idx'[b] = idx[b],
             idx'[c] = idx[c] + Grid
      PROVE  Goal
  <2>1. CASE d = c
    <3>1. j < idx[c] + Grid <=> j <= idx[c]  BY <1>5, <1>6, <2>1
    <3>2. j <= idx[c] <=> j < idx[c] \/ j = idx[c]  BY <1>1, <1>2
    <3> HIDE DEF S, C
    <3> QED BY <1>1, <1>6, <2>1, <3>1, <3>2 DEF stored, holds
  <2>2. CASE d # c
    <3>1. j # idx[c]  BY <1>3, <1>6, <2>2
    <3> HIDE DEF S, C
    <3> QED BY <1>1, <1>6, <2>2, <3>1 DEF stored, holds
  <2> QED BY <2>1, <2>2
<1>7. ASSUME NEW c \in Cta, pc[c] = "scatter", pc'[c] = "store", C <=> j = idx[c], ~S,
             \A b \in Cta : b # c => pc'[b] = pc[b], UNCHANGED idx
      PROVE  Goal
  <2>1. d # c => j # idx[c]  BY <1>3, <1>7
  <2> HIDE DEF S, C
  <2> QED BY <1>1, <1>7, <2>1 DEF stored, holds
<1>8. ASSUME NEW c \in Cta, ~S, ~C, pc[c] # "store", pc'[c] # "store",
             \A b \in Cta : b # c => pc'[b] = pc[b] /\ idx'[b] = idx[b],
             d = c => (stored(c, j)' <=> stored(c, j))
      PROVE  Goal
  <2> HIDE DEF S, C
  <2>1. CASE d = c  BY <1>8, <2>1 DEF holds
  <2>2. CASE d # c  BY <1>1, <1>8, <2>2 DEF stored, holds
  <2> QED BY <2>1, <2>2
<1>9. ASSUME NEW c \in Cta, Store(c) PROVE Goal
  <2>1. /\ goto(c, "scatter") /\ pc[c] = "store"
        /\ idx' = [idx EXCEPT ![c] = @ + Grid]
    BY <1>9 DEF Store
  <2>2. \A b \in Cta : idx'[b] = IF b = c THEN idx[c] + Grid ELSE idx[b]
    BY <2>1 DEF TypeOK
  <2>3. \A b \in Cta : pc'[b] = IF b = c THEN "scatter" ELSE pc[b]
    BY <2>1, GotoType DEF Label
  <2>4. \A b \in Cta : Claim(b) => FALSE
    <3>1. \A b \in Cta : Claim(b) => UNCHANGED idx  BY DEF Claim
    <3>2. idx'[c] # idx[c]  BY <1>2, <2>2, Constants
    <3> QED BY <3>1, <3>2
  <2>5. \A b \in Cta : Store(b) => b = c
    <3>1. \A b \in Cta : Store(b) => idx' = [idx EXCEPT ![b] = @ + Grid]  BY DEF Store
    <3>2. \A b \in Cta : Store(b) => idx'[b] = idx[b] + Grid
      BY <3>1 DEF TypeOK
    <3> QED BY <1>2, <2>2, <3>2, Constants
  <2>6. ~C /\ (S <=> j = idx[c])  BY <1>9, <2>4, <2>5
  <2> HIDE DEF S, C, Goal
  <2> QED BY <1>6, <2>1, <2>2, <2>3, <2>6
<1>10. ASSUME NEW c \in Cta, Claim(c) PROVE Goal
  <2>1. goto(c, "store") /\ pc[c] = "scatter" /\ UNCHANGED idx  BY <1>10 DEF Claim
  <2>2. \A b \in Cta : pc'[b] = IF b = c THEN "store" ELSE pc[b]
    BY <2>1, GotoType DEF Label
  <2>3. \A b \in Cta : Store(b) => FALSE
    <3>1. \A b \in Cta : Store(b) => idx' = [idx EXCEPT ![b] = @ + Grid]  BY DEF Store
    <3>2. \A b \in Cta : Store(b) => idx'[b] = idx[b] + Grid
      BY <3>1 DEF TypeOK
    <3> QED BY <1>2, <2>1, <3>2, Constants
  <2>4. \A b \in Cta : Claim(b) => b = c
    <3>1. \A b \in Cta : Claim(b) => goto(b, "store") /\ pc[b] = "scatter"
      BY DEF Claim
    <3>2. \A b \in Cta : Claim(b) => pc'[b] = "store" /\ pc[b] = "scatter"
      BY <3>1, GotoType DEF Label
    <3> QED BY <2>2, <3>2
  <2>5. ~S /\ (C <=> j = idx[c])  BY <1>10, <2>3, <2>4
  <2> HIDE DEF S, C, Goal
  <2> QED BY <1>7, <2>1, <2>2, <2>5
<1>11. ASSUME ~S, ~C, NEW c \in Cta, CountPartial(c) \/ CrossCount(c) PROVE Goal
  <2>1. /\ UNCHANGED idx /\ pc[c] \in {"count", "bar1"}
        /\ \E l \in {"bar1", "bar2", "reduce"} : goto(c, l)
    BY <1>11 DEF CountPartial, CrossCount
  <2>2. PICK l \in {"bar1", "bar2", "reduce"} : goto(c, l)  BY <2>1
  <2>3. \A b \in Cta : pc'[b] = IF b = c THEN l ELSE pc[b]
    BY <2>2, GotoType DEF Label
  <2>4. ~stored(c, j)' /\ ~stored(c, j)  BY <2>1, <2>2, <2>3 DEF stored
  <2> HIDE DEF S, C, Goal
  <2> QED BY <1>8, <1>11, <2>1, <2>2, <2>3, <2>4
<1>12. ASSUME ~S, ~C, NEW c \in Cta, CrossPlan(c) \/ PadEnd(c) PROVE Goal
  <2>1. pc[c] \in {"bar2", "pad"} /\ idx' = [idx EXCEPT ![c] = c]
    BY <1>12 DEF CrossPlan, PadEnd
  <2>2. PICK l \in {"pad", "scatter"} : goto(c, l)  BY <1>12 DEF CrossPlan, PadEnd
  <2>3. \A b \in Cta : pc'[b] = IF b = c THEN l ELSE pc[b]
    BY <2>2, GotoType DEF Label
  <2>4. \A b \in Cta : idx'[b] = IF b = c THEN c ELSE idx[b]  BY <2>1 DEF TypeOK
  <2>5. d = c => ~(j < c)  BY <1>1, Constants DEF Cta
  <2>6. d = c => ~stored(c, j)' /\ ~stored(c, j)
    BY <2>1, <2>2, <2>3, <2>4, <2>5 DEF stored
  <2> HIDE DEF S, C, Goal
  <2> QED BY <1>8, <1>12, <2>1, <2>2, <2>3, <2>4, <2>6
<1>13. ASSUME ~S, ~C, NEW c \in Cta, Pad(c) PROVE Goal
  <2>1. UNCHANGED pc /\ pc[c] = "pad" /\ idx' = [idx EXCEPT ![c] = @ + Grid]
    BY <1>13 DEF Pad
  <2>2. \A b \in Cta : b # c => idx'[b] = idx[b]  BY <2>1 DEF TypeOK
  <2>3. ~stored(c, j)' /\ ~stored(c, j)  BY <2>1 DEF stored
  <2> HIDE DEF S, C, Goal
  <2> QED BY <1>8, <1>13, <2>1, <2>2, <2>3
<1>14. ASSUME ~S, ~C, NEW c \in Cta, Skip(c) PROVE Goal
  <2>1. /\ UNCHANGED pc /\ pc[c] = "scatter" /\ recv_eid[idx[c]] \notin Expert
        /\ idx' = [idx EXCEPT ![c] = @ + Grid]
    BY <1>14 DEF Skip
  <2>2. \A b \in Cta : idx'[b] = IF b = c THEN idx[c] + Grid ELSE idx[b]
    BY <2>1 DEF TypeOK
  <2>3. d = c => (j < idx[c] + Grid <=> j < idx[c])
    <3>1. j # idx[c]  BY <2>1
    <3> QED BY <1>1, <1>2, <1>5, <2>1, <3>1
  <2>4. d = c => (stored(c, j)' <=> stored(c, j))
    BY <2>1, <2>2, <2>3 DEF stored
  <2> HIDE DEF S, C, Goal
  <2> QED BY <1>8, <1>14, <2>1, <2>2, <2>4
<1>15. ASSUME ~S, ~C, NEW c \in Cta, Exit(c) PROVE Goal
  <2>1. goto(c, "done") /\ pc[c] = "scatter" /\ UNCHANGED idx /\ idx[c] \notin Pair
    BY <1>15 DEF Exit
  <2>2. \A b \in Cta : pc'[b] = IF b = c THEN "done" ELSE pc[b]
    BY <2>1, GotoType DEF Label
  <2>3. j < idx[c]  BY <2>1, <1>1, <1>2, PairType
  <2>4. stored(c, j)' /\ stored(c, j)  BY <2>1, <2>2, <2>3 DEF stored
  <2> HIDE DEF S, C, Goal
  <2> QED BY <1>8, <1>15, <2>1, <2>2, <2>4
<1>16. ASSUME UNCHANGED vars PROVE Goal
  <2>1. UNCHANGED <<pc, idx>>  BY <1>16 DEF vars
  <2>2. \A c \in Cta : Store(c) => FALSE
    <3>1. \A b \in Cta : Store(b) => idx' = [idx EXCEPT ![b] = @ + Grid]  BY DEF Store
    <3>2. \A b \in Cta : Store(b) => idx'[b] = idx[b] + Grid
      BY <3>1 DEF TypeOK
    <3> QED BY <1>2, <2>1, <3>2, Constants
  <2>3. \A c \in Cta : Claim(c) => FALSE
    <3>1. \A b \in Cta : Claim(b) => goto(b, "store") /\ pc[b] = "scatter"
      BY DEF Claim
    <3>2. \A b \in Cta : Claim(b) => pc'[b] = "store" /\ pc[b] = "scatter"
      BY <3>1, GotoType DEF Label
    <3> QED BY <2>1, <3>2
  <2>4. ~S /\ ~C  BY <2>2, <2>3
  <2> HIDE DEF S, C
  <2> QED BY <2>1, <2>4 DEF stored, holds
<1>17. S => \E c \in Cta : Store(c)  OBVIOUS
<1>18. C => \E c \in Cta : Claim(c)  OBVIOUS
<1>19. Goal
  <2> HIDE DEF S, C, Goal
  <2> QED BY <1>9, <1>10, <1>11, <1>12, <1>13, <1>14, <1>15, <1>16, <1>17, <1>18
          DEF Next, Planning
<1> QED BY <1>19 DEF d

(* No step but a claim changes what is claimed.                            *)
LEMMA ClaimedSame ==
  ASSUME DestSortAssumption, TypeOK, PlaceInv, [Next]_vars, ~Planning,
         \A c \in Cta : ~Claim(c)
  PROVE  \A e \in Expert : claimed(e)' = claimed(e)
<1>1. recv_eid' = recv_eid  BY OtherSteps
<1>2. \A c \in Cta : \A j : Store(c) /\ j = idx[c] => holds(j % Grid, j)
  BY DEF Store, PlaceInv, holds
<1>3. \A j \in Pair : recv_eid[j] \in Expert =>
        ((stored(j % Grid, j)' \/ holds(j % Grid, j)')
         <=> (stored(j % Grid, j) \/ holds(j % Grid, j)))
  BY <1>2, Progress
<1> QED BY <1>1, <1>3 DEF claimed, of, Pair

(* A claim adds the pair it is for.                                        *)
LEMMA ClaimGrows ==
  ASSUME DestSortAssumption, TypeOK, PlaceInv, [Next]_vars, ~Planning,
         NEW c \in Cta, Claim(c), NEW i, i = idx[c], NEW e, e = recv_eid[i]
  PROVE  /\ i \in of(e) /\ i \notin claimed(e)
         /\ \A f \in Expert : claimed(f)' = IF f = e THEN claimed(f) \cup {i}
                                            ELSE claimed(f)
<1>1. /\ pc[c] = "scatter" /\ i \in Pair /\ e \in Expert /\ goto(c, "store")
      /\ UNCHANGED <<idx, recv_eid>>
  BY DEF Claim, input
<1>2. i \in Nat /\ i % Grid = c  BY <1>1, PairType DEF PlaceInv
<1>3. i \in of(e) /\ i \notin claimed(e)
  BY <1>1, <1>2 DEF of, claimed, stored, holds
<1>4. \A b \in Cta : pc'[b] = IF b = c THEN "store" ELSE pc[b]
  BY <1>1, GotoType DEF Label
<1>5. \A b \in Cta : Claim(b) => b = c
  <2>1. \A b \in Cta : Claim(b) => goto(b, "store") /\ pc[b] = "scatter"
    BY DEF Claim
  <2>2. \A b \in Cta : Claim(b) => pc'[b] = "store" /\ pc[b] = "scatter"
    BY <2>1, GotoType DEF Label
  <2> QED BY <1>4, <2>2
<1>6. \A b \in Cta : ~Store(b)
  <2>1. \A b \in Cta : Store(b) => idx' = [idx EXCEPT ![b] = @ + Grid]  BY DEF Store
  <2>2. \A b \in Cta : Store(b) => idx'[b] = idx[b] + Grid /\ idx[b] \in Nat
    BY <2>1 DEF TypeOK
  <2> QED BY <1>1, <2>2, Constants
<1>7. \A j \in Pair : recv_eid[j] \in Expert =>
        ((stored(j % Grid, j)' \/ holds(j % Grid, j)')
         <=> (stored(j % Grid, j) \/ holds(j % Grid, j) \/ j = i))
  BY <1>5, <1>6, Progress
<1>8. \A f \in Expert : claimed(f)' = IF f = e THEN claimed(f) \cup {i} ELSE claimed(f)
  <2> SUFFICES ASSUME NEW f \in Expert
               PROVE  claimed(f)' = IF f = e THEN claimed(f) \cup {i} ELSE claimed(f)
    OBVIOUS
  <2>1. of(f)' = of(f) /\ \A j \in of(f) : j \in Pair /\ recv_eid[j] = f
    BY <1>1 DEF of, Pair
  <2>2. claimed(f)' = {j \in of(f) : stored(j % Grid, j)' \/ holds(j % Grid, j)'}
    BY <2>1 DEF claimed
  <2>3. claimed(f) = {j \in of(f) : stored(j % Grid, j) \/ holds(j % Grid, j)}
    BY DEF claimed
  <2> QED BY <1>3, <1>7, <2>1, <2>2, <2>3
<1> QED BY <1>3, <1>8

(* Each step keeps the claims apart.                                       *)
LEMMA ClaimStep ==
  ASSUME DestSortAssumption, TypeOK, PlaceInv, CountInv, ScanInv, ClaimInv, [Next]_vars
  PROVE  ClaimInv'
<1>1. CASE Planning /\ ~Cursors  BY <1>1, NotPlanned DEF ClaimInv
<1>2. CASE Cursors
  <2>1. \A c \in Cta : pc[c] \notin Late
    <3>1. pc[0] = "scan"  BY <1>2 DEF Cursors
    <3> QED BY <3>1, Constants DEF PlaceInv, Late
  <2>2. \A c \in Cta : pc'[c] \notin Late
    BY <1>2, <2>1, Constants, GotoType DEF Cursors, Label, Late
  <2>3. \A e \in Expert : claimed(e)' = {}
    <3>1. recv_eid' = recv_eid  BY <1>2 DEF Cursors, input
    <3>2. \A j \in Pair : ~stored(j % Grid, j)' /\ ~holds(j % Grid, j)'
      BY <2>2, PairType DEF stored, holds, Late
    <3> QED BY <3>1, <3>2 DEF claimed, of, Pair
  <2>4. \A e \in Expert : cur'[e] = erb'[e] + 0
    <3>1. \A e \in Expert : cur'[e] = erb[e] /\ erb[e] \in Nat
      BY <1>2, Constants DEF Cursors, TypeOK, Expert
    <3> QED BY <1>2, <3>1 DEF Cursors
  <2>5. \A e \in Expert : cur'[e] = erb'[e] + Cardinality(claimed(e))'
    BY <2>3, <2>4, FS_EmptySet
  <2>6. \A c \in Cta : pc'[c] # "store"  BY <2>2 DEF Late
  <2> QED BY <2>5, <2>6 DEF ClaimInv
<1>3. ASSUME ~Planning, ~plan_done PROVE ClaimInv'
  BY <1>3, OtherSteps DEF ClaimInv
<1>4. ASSUME ~Planning, plan_done, NEW c \in Cta, Claim(c) PROVE ClaimInv'
  <2>1. PICK i : i = idx[c]  OBVIOUS
  <2>2. PICK e : e = recv_eid[i]  OBVIOUS
  <2>3. /\ pc[c] = "scatter" /\ i \in Pair /\ e \in Expert /\ goto(c, "store")
        /\ UNCHANGED <<idx, recv_eid, erb, cnt>>
        /\ pos' = [pos EXCEPT ![c] = cur[e]]
        /\ cur' = [cur EXCEPT ![e] = @ + 1]
    BY <1>4, <2>1, <2>2 DEF Claim, input, advance
  <2>4. /\ i \in of(e) /\ i \notin claimed(e)
        /\ \A f \in Expert : claimed(f)' = IF f = e THEN claimed(f) \cup {i}
                                           ELSE claimed(f)
    BY <1>4, <2>1, <2>2, ClaimGrows
  <2>5. \A f \in Expert : /\ cur[f] \in Nat /\ Cardinality(claimed(f)) \in Nat
                          /\ erb[f] \in Nat /\ erb[f] <= cur[f]
                          /\ cur[f] <= erb[f] + cnt[f] /\ cur[f] <= erb[f + 1]
    <3> SUFFICES ASSUME NEW f \in Expert
                 PROVE  /\ cur[f] \in Nat /\ Cardinality(claimed(f)) \in Nat
                        /\ erb[f] \in Nat /\ erb[f] <= cur[f]
                        /\ cur[f] <= erb[f] + cnt[f] /\ cur[f] <= erb[f + 1]
      OBVIOUS
    <3>1. /\ Cardinality(claimed(f)) \in Nat
          /\ erb[f] <= cur[f] /\ cur[f] <= erb[f] + cnt[f]
      BY <1>4, ClaimBound
    <3>2. /\ erb[f] \in Nat /\ erb[f + 1] \in Nat /\ cnt[f] \in Nat
          /\ erb[f] + cnt[f] <= erb[f + 1]
      BY <1>4, Segments
    <3>3. cur[f] \in Nat  BY DEF TypeOK
    <3> QED BY <3>1, <3>2, <3>3
  <2>6. /\ Cardinality(claimed(e) \cup {i}) = Cardinality(claimed(e)) + 1
        /\ cur[e] < erb[e] + cnt[e] /\ cur[e] < erb[e + 1]
    <3>1. /\ Cardinality(claimed(e) \cup {i}) = Cardinality(claimed(e)) + 1
          /\ cur[e] < erb[e] + cnt[e]
      BY <1>4, <2>3, <2>4, ClaimBound
    <3>2. /\ erb[e] \in Nat /\ erb[e + 1] \in Nat /\ cnt[e] \in Nat
          /\ erb[e] + cnt[e] <= erb[e + 1]
      BY <1>4, <2>3, Segments
    <3> QED BY <2>3, <2>5, <3>1, <3>2
  <2>7. /\ \A f \in Expert : cur'[f] = IF f = e THEN cur[e] + 1 ELSE cur[f]
        /\ \A b \in Cta : pos'[b] = IF b = c THEN cur[e] ELSE pos[b]
        /\ \A b \in Cta : pc'[b] = IF b = c THEN "store" ELSE pc[b]
    <3>1. \A b \in Cta : pc'[b] = IF b = c THEN "store" ELSE pc[b]
      BY <2>3, GotoType DEF Label
    <3> QED BY <2>3, <3>1 DEF TypeOK
  <2>8. \A f \in Expert : cur'[f] = erb'[f] + Cardinality(claimed(f))'
    <3> SUFFICES ASSUME NEW f \in Expert
                 PROVE  cur'[f] = erb[f] + Cardinality(claimed(f)')
      BY <2>3
    <3>1. cur[f] = erb[f] + Cardinality(claimed(f))  BY <1>4 DEF ClaimInv
    <3>2. CASE f = e
      <4>1. cur'[f] = cur[f] + 1 /\ claimed(f)' = claimed(f) \cup {i}
        BY <2>4, <2>7, <3>2
      <4>2. Cardinality(claimed(f)') = Cardinality(claimed(f)) + 1
        BY <2>6, <3>2, <4>1
      <4>3. erb[f] \in Nat /\ Cardinality(claimed(f)) \in Nat  BY <2>5
      <4> QED BY <3>1, <4>1, <4>2, <4>3
    <3>3. CASE f # e  BY <2>4, <2>7, <3>1, <3>3
    <3> QED BY <3>2, <3>3
  <2>9. ASSUME NEW b \in Cta, pc'[b] = "store"
        PROVE  /\ idx'[b] \in Pair' /\ recv_eid'[idx'[b]] \in Expert
               /\ erb'[recv_eid'[idx'[b]]] <= pos'[b]
               /\ pos'[b] < cur'[recv_eid'[idx'[b]]]
    <3>1. Pair' = Pair  BY <2>3 DEF Pair
    <3>2. CASE b = c
      BY <2>1, <2>2, <2>3, <2>5, <2>7, <3>1, <3>2
    <3>3. CASE b # c
      <4> PICK f : f = recv_eid[idx[b]]  OBVIOUS
      <4>1. /\ idx[b] \in Pair /\ f \in Expert /\ erb[f] <= pos[b] /\ pos[b] < cur[f]
        BY <1>4, <2>7, <2>9, <3>3 DEF ClaimInv
      <4>2. pos[b] \in Nat /\ cur[f] \in Nat  BY <4>1 DEF TypeOK
      <4>3. pos[b] < cur'[f] /\ pos'[b] = pos[b]  BY <2>7, <3>3, <4>1, <4>2
      <4> QED BY <2>3, <3>1, <4>1, <4>3
    <3> QED BY <3>2, <3>3
  <2>10. ASSUME NEW b \in Cta, pc[b] = "store", b # c PROVE pos[b] # cur[e]
    <3> PICK f : f = recv_eid[idx[b]]  OBVIOUS
    <3>1. f \in Expert /\ erb[f] <= pos[b] /\ pos[b] < cur[f] /\ pos[b] \in Nat
      BY <1>4, <2>10 DEF ClaimInv, TypeOK
    <3>2. CASE f = e  BY <2>5, <3>1, <3>2
    <3>3. CASE f # e
      <4>1. erb[f + 1] \in Nat /\ erb[e + 1] \in Nat
        BY <1>4, <2>3, <3>1, Segments
      <4>2. pos[b] \in segment(f)  BY <2>5, <3>1, <4>1 DEF segment
      <4>3. cur[e] \in segment(e)  BY <2>3, <2>5, <2>6, <4>1 DEF segment
      <4> QED BY <1>4, <2>3, <3>1, <3>3, <4>2, <4>3, Apart
    <3> QED BY <3>2, <3>3
  <2>11. ASSUME NEW b \in Cta, NEW d \in Cta,
                pc'[b] = "store", pc'[d] = "store", pos'[b] = pos'[d]
         PROVE  b = d
    <3>1. b # c /\ d # c => b = d  BY <1>4, <2>7, <2>11 DEF ClaimInv
    <3> QED BY <2>7, <2>10, <2>11, <3>1
  <2> QED BY <2>8, <2>9, <2>11 DEF ClaimInv
<1>5. ASSUME ~Planning, plan_done, \A c \in Cta : ~Claim(c) PROVE ClaimInv'
  <2>1. UNCHANGED <<recv_eid, erb, cnt>>  BY <1>5, OtherSteps
  <2>2. \A e \in Expert : claimed(e)' = claimed(e)  BY <1>5, ClaimedSame
  <2>3. UNCHANGED cur /\ \A c \in Cta : pc'[c] = "store" =>
                           /\ pc[c] = "store" /\ idx'[c] = idx[c] /\ pos'[c] = pos[c]
    <3> DEFINE Goal == UNCHANGED cur /\ \A c \in Cta : pc'[c] = "store" =>
                         /\ pc[c] = "store" /\ idx'[c] = idx[c] /\ pos'[c] = pos[c]
    <3>1. ASSUME NEW c \in Cta, NEW l \in Label \ {"store"}, goto(c, l),
                 UNCHANGED <<cur, pos>>, \A b \in Cta : b # c => idx'[b] = idx[b]
          PROVE  Goal
      <4>1. \A b \in Cta : pc'[b] = IF b = c THEN l ELSE pc[b]  BY <3>1, GotoType
      <4> QED BY <3>1, <4>1
    <3>2. ASSUME NEW c \in Cta, CountPartial(c) \/ CrossCount(c) \/ Exit(c) PROVE Goal
      BY <3>1, <3>2 DEF CountPartial, CrossCount, Exit, scratch, Label
    <3>3. ASSUME NEW c \in Cta, CrossPlan(c) \/ PadEnd(c) \/ Store(c) PROVE Goal
      <4>1. UNCHANGED <<cur, pos>>  BY <3>3 DEF CrossPlan, PadEnd, Store, scratch
      <4>2. \E x : idx' = [idx EXCEPT ![c] = x]  BY <3>3 DEF CrossPlan, PadEnd, Store
      <4>3. \E l \in {"pad", "scatter"} : goto(c, l)
        BY <3>3 DEF CrossPlan, PadEnd, Store
      <4>4. \A b \in Cta : b # c => idx'[b] = idx[b]  BY <4>2 DEF TypeOK
      <4> QED BY <3>1, <4>1, <4>3, <4>4 DEF Label
    <3>4. ASSUME NEW c \in Cta, Pad(c) \/ Skip(c) PROVE Goal
      <4>1. /\ UNCHANGED <<pc, cur, pos>> /\ pc[c] # "store"
            /\ idx' = [idx EXCEPT ![c] = @ + Grid]
        BY <3>4 DEF Pad, Skip, scratch
      <4>2. \A b \in Cta : b # c => idx'[b] = idx[b]  BY <4>1 DEF TypeOK
      <4> QED BY <4>1, <4>2
    <3>5. ASSUME UNCHANGED vars PROVE Goal  BY <3>5 DEF vars, scratch
    <3>6. Goal
      <4> HIDE DEF Goal
      <4> QED BY <1>5, <3>2, <3>3, <3>4, <3>5 DEF Next, Planning
    <3> QED BY <3>6
  <2>4. \A e \in Expert : Cardinality(claimed(e))' = Cardinality(claimed(e))
    BY <2>2
  <2> QED BY <1>5, <2>1, <2>3, <2>4 DEF ClaimInv, Pair
<1> QED BY <1>1, <1>2, <1>3, <1>4, <1>5

-----------------------------------------------------------------------------
(* The rows that the threads pad: BlockM candidates per expert, of which   *)
(* those inside the expert's segment are written.                          *)
PadIndex == 0 .. E * BlockM - 1
inside(i) == pad_row(i) < erb[i \div BlockM + 1]

(* A row to pad is of its expert's segment, behind the expert's pairs.     *)
LEMMA PadRow ==
  ASSUME DestSortAssumption, TypeOK, ScanInv, plan_done, NEW i \in PadIndex
  PROVE  /\ i \in Nat /\ i \div BlockM \in Expert /\ pad_row(i) \in Nat
         /\ erb[i \div BlockM] + cnt[i \div BlockM] <= pad_row(i)
         /\ inside(i) => pad_row(i) \in segment(i \div BlockM)
<1> DEFINE e == i \div BlockM  r == i % BlockM
<1>1. i \in Nat /\ i < E * BlockM /\ E \in Nat /\ BlockM \in Nat \ {0}
  BY Constants DEF PadIndex
<1>2. e \in Nat /\ r \in 0 .. BlockM - 1 /\ i = BlockM * e + r
  BY <1>1, Division
<1>3. pad_row(i) = erb[e] + cnt[e] + r  BY DEF pad_row
<1>4. inside(i) <=> pad_row(i) < erb[e + 1]  BY DEF inside
<1> HIDE DEF e, r
<1>5. e \in Expert
  <2>1. ASSUME E <= e PROVE FALSE
    <3>1. BlockM * E <= BlockM * e  BY <1>1, <1>2, <2>1
    <3>2. E * BlockM = BlockM * E  BY <1>1
    <3>3. BlockM * e \in Nat /\ BlockM * E \in Nat  BY <1>1, <1>2
    <3> QED BY <1>1, <1>2, <3>1, <3>2, <3>3
  <2> QED BY <1>1, <1>2, <2>1 DEF Expert
<1>6. erb[e] \in Nat /\ erb[e + 1] \in Nat /\ cnt[e] \in Nat  BY <1>5, Segments
<1>7. pad_row(i) \in Nat /\ erb[e] + cnt[e] <= pad_row(i)
  BY <1>1, <1>2, <1>3, <1>6
<1>8. inside(i) => pad_row(i) \in segment(e)
  BY <1>4, <1>6, <1>7 DEF segment
<1> QED BY <1>1, <1>5, <1>7, <1>8 DEF e

(* No row is padded twice.                                                 *)
LEMMA PadApart ==
  ASSUME DestSortAssumption, TypeOK, ScanInv, plan_done,
         NEW i \in PadIndex, NEW j \in PadIndex, inside(i), inside(j),
         pad_row(i) = pad_row(j)
  PROVE  i = j
<1> DEFINE e == i \div BlockM  r == i % BlockM  f == j \div BlockM  s == j % BlockM
<1>1. /\ i \in Nat /\ e \in Expert /\ pad_row(i) \in segment(e)
      /\ j \in Nat /\ f \in Expert /\ pad_row(j) \in segment(f)
  BY PadRow
<1>2. /\ e \in Nat /\ r \in 0 .. BlockM - 1 /\ i = BlockM * e + r
      /\ f \in Nat /\ s \in 0 .. BlockM - 1 /\ j = BlockM * f + s
  BY <1>1, Constants, Division
<1>3. pad_row(i) = erb[e] + cnt[e] + r /\ pad_row(j) = erb[f] + cnt[f] + s
  BY DEF pad_row
<1> HIDE DEF e, r, f, s
<1>4. e = f  BY <1>1, Apart
<1>5. erb[e] \in Nat /\ cnt[e] \in Nat  BY <1>1, Segments
<1>6. r = s  BY <1>2, <1>3, <1>4, <1>5, Constants
<1> QED BY <1>2, <1>4, <1>6

(* Every row of a segment behind the pairs is padded.                      *)
LEMMA PadCovers ==
  ASSUME DestSortAssumption, TypeOK, ScanInv, plan_done, NEW e \in Expert,
         NEW p \in segment(e), erb[e] + cnt[e] <= p
  PROVE  \E i \in PadIndex : inside(i) /\ pad_row(i) = p
<1> DEFINE r == p - (erb[e] + cnt[e])
           i == BlockM * e + r
<1>1. /\ erb[e] \in Nat /\ cnt[e] \in Nat /\ erb[e + 1] \in Nat
      /\ erb[e + 1] < erb[e] + cnt[e] + BlockM
  BY Segments
<1>2. p \in Int /\ p < erb[e + 1]  BY <1>1 DEF segment
<1>3. r \in 0 .. BlockM - 1  BY <1>1, <1>2, Constants
<1>4. e \in Nat /\ e + 1 <= E  BY Constants DEF Expert
<1>5. i \div BlockM = e /\ i % BlockM = r
  <2> HIDE DEF r
  <2> QED BY <1>3, <1>4, Constants, Quotient
<1>6. i \in PadIndex
  <2> HIDE DEF r
  <2>1. BlockM * (e + 1) <= BlockM * E  BY <1>4, Constants
  <2>2. BlockM * (e + 1) = BlockM * e + BlockM /\ BlockM * e \in Nat
    BY <1>4, Constants
  <2>3. BlockM * E = E * BlockM /\ E * BlockM \in Nat  BY Constants
  <2> QED BY <2>1, <2>2, <2>3, <1>3, Constants DEF PadIndex
<1>7. pad_row(i) = erb[e] + cnt[e] + r  BY <1>5 DEF pad_row
<1>8. pad_row(i) = p  BY <1>1, <1>2, <1>7
<1>9. inside(i)  BY <1>2, <1>5, <1>8 DEF inside
<1> QED BY <1>6, <1>8, <1>9

-----------------------------------------------------------------------------
(* Row i still waits for thread c to pad it.                               *)
waits(c, i) == pc[c] \notin Late \/ (pc[c] = "pad" /\ idx[c] <= i)

(* A row waits until its thread pads it.                                   *)
LEMMA Waits ==
  ASSUME DestSortAssumption, TypeOK, PlaceInv, [Next]_vars, ~Planning,
         NEW i \in PadIndex
  PROVE  waits(i % Grid, i)' <=> /\ waits(i % Grid, i)
                                 /\ \A c \in Cta : ~(Pad(c) /\ i = idx[c])
<1> DEFINE d == i % Grid
<1>0. i \in Nat /\ i < E * BlockM  BY Constants DEF PadIndex
<1>1. d \in Cta /\ d <= i
  <2> DEFINE q == i \div Grid
  <2>1. q \in Nat /\ d \in 0 .. Grid - 1 /\ i = Grid * q + d
    BY <1>0, Constants, Division
  <2> HIDE DEF q, d
  <2>2. Grid * q \in Nat  BY <2>1, Constants
  <2> QED BY <2>1, <2>2, Constants DEF Cta
<1>2. \A c \in Cta : idx[c] \in Nat  BY DEF TypeOK
<1>3. \A c \in Cta : pc[c] = "pad" /\ i = idx[c] => c = d  BY DEF PlaceInv
<1> HIDE DEF d
<1> DEFINE P == \E c \in Cta : Pad(c) /\ i = idx[c]
           Goal == waits(d, i)' <=> waits(d, i) /\ ~P
<1>4. ASSUME ~P, NEW c \in Cta, \A b \in Cta : b # c => pc'[b] = pc[b] /\ idx'[b] = idx[b],
             d = c => (waits(c, i)' <=> waits(c, i))
      PROVE  Goal
  <2> HIDE DEF P
  <2>1. CASE d = c  BY <1>4, <2>1
  <2>2. CASE d # c  BY <1>1, <1>4, <2>2 DEF waits
  <2> QED BY <2>1, <2>2
<1>5. ASSUME NEW c \in Cta, Pad(c) PROVE Goal
  <2>1. pc[c] = "pad" /\ UNCHANGED pc /\ idx' = [idx EXCEPT ![c] = @ + Grid]
    BY <1>5 DEF Pad
  <2>2. \A b \in Cta : idx'[b] = IF b = c THEN idx[c] + Grid ELSE idx[b]
    BY <2>1 DEF TypeOK
  <2>3. \A b \in Cta : Pad(b) => b = c
    <3>1. \A b \in Cta : Pad(b) => idx' = [idx EXCEPT ![b] = @ + Grid]  BY DEF Pad
    <3>2. \A b \in Cta : Pad(b) => idx'[b] = idx[b] + Grid  BY <3>1 DEF TypeOK
    <3> QED BY <1>2, <2>2, <3>2, Constants
  <2>4. P <=> i = idx[c]  BY <1>5, <2>3
  <2> HIDE DEF P
  <2>5. CASE d = c
    <3>1. idx[c] % Grid = c /\ i % Grid = c  BY <2>1, <2>5 DEF PlaceInv, d
    <3>2. idx[c] < i => idx[c] + Grid <= i  BY <3>1, <1>0, <1>2, Constants, Stride
    <3>3. idx[c] + Grid <= i <=> idx[c] <= i /\ i # idx[c]
      BY <3>2, <1>0, <1>2, Constants
    <3>4. waits(c, i) <=> idx[c] <= i  BY <2>1 DEF waits, Late
    <3>5. waits(c, i)' <=> idx[c] + Grid <= i  BY <2>1, <2>2 DEF waits, Late
    <3> QED BY <2>4, <2>5, <3>3, <3>4, <3>5
  <2>6. CASE d # c
    <3>1. i # idx[c]  BY <1>3, <2>1, <2>6
    <3> QED BY <1>1, <2>1, <2>2, <2>4, <2>6, <3>1 DEF waits
  <2> QED BY <2>5, <2>6
<1>6. ASSUME ~P, NEW c \in Cta, CountPartial(c) \/ CrossCount(c) PROVE Goal
  <2>1. UNCHANGED idx /\ pc[c] \in {"count", "bar1"}
    BY <1>6 DEF CountPartial, CrossCount
  <2>2. PICK l \in {"bar1", "bar2", "reduce"} : goto(c, l)
    BY <1>6 DEF CountPartial, CrossCount
  <2>3. \A b \in Cta : pc'[b] = IF b = c THEN l ELSE pc[b]
    BY <2>2, GotoType DEF Label
  <2>4. waits(c, i)' /\ waits(c, i)  BY <2>1, <2>2, <2>3 DEF waits, Late
  <2> HIDE DEF P, Goal
  <2> QED BY <1>4, <1>6, <2>1, <2>3, <2>4
<1>7. ASSUME ~P, NEW c \in Cta, CrossPlan(c) PROVE Goal
  <2>1. pc[c] = "bar2" /\ idx' = [idx EXCEPT ![c] = c] /\ goto(c, "pad")
    BY <1>7 DEF CrossPlan
  <2>2. \A b \in Cta : pc'[b] = IF b = c THEN "pad" ELSE pc[b]
    BY <2>1, GotoType DEF Label
  <2>3. \A b \in Cta : idx'[b] = IF b = c THEN c ELSE idx[b]  BY <2>1 DEF TypeOK
  <2>4. d = c => waits(c, i)' /\ waits(c, i)
    BY <1>1, <2>1, <2>2, <2>3 DEF waits, Late
  <2> HIDE DEF P, Goal
  <2> QED BY <1>4, <1>7, <2>2, <2>3, <2>4
<1>8. ASSUME ~P, NEW c \in Cta, PadEnd(c) PROVE Goal
  <2>1. /\ pc[c] = "pad" /\ idx' = [idx EXCEPT ![c] = c] /\ goto(c, "scatter")
        /\ idx[c] >= E * BlockM
    BY <1>8 DEF PadEnd
  <2>2. \A b \in Cta : pc'[b] = IF b = c THEN "scatter" ELSE pc[b]
    BY <2>1, GotoType DEF Label
  <2>3. \A b \in Cta : idx'[b] = IF b = c THEN c ELSE idx[b]  BY <2>1 DEF TypeOK
  <2>4. ~(idx[c] <= i)
    <3>1. E * BlockM \in Nat  BY Constants
    <3> QED BY <1>0, <1>2, <2>1, <3>1
  <2>5. ~waits(c, i)' /\ ~waits(c, i)
    BY <2>1, <2>2, <2>4 DEF waits, Late
  <2> HIDE DEF P, Goal
  <2> QED BY <1>4, <1>8, <2>2, <2>3, <2>5
<1>9. ASSUME ~P, NEW c \in Cta, Skip(c) \/ Claim(c) \/ Store(c) \/ Exit(c) PROVE Goal
  <2>1. /\ pc[c] \in {"scatter", "store"}
        /\ UNCHANGED idx \/ idx' = [idx EXCEPT ![c] = @ + Grid]
    BY <1>9 DEF Skip, Claim, Store, Exit
  <2>2. UNCHANGED pc \/ \E l \in {"scatter", "store", "done"} : goto(c, l)
    BY <1>9 DEF Skip, Claim, Store, Exit
  <2>3. /\ pc'[c] \in {"scatter", "store", "done"}
        /\ \A b \in Cta : b # c => pc'[b] = pc[b]
    BY <2>1, <2>2, GotoType DEF Label
  <2>4. \A b \in Cta : b # c => idx'[b] = idx[b]  BY <2>1 DEF TypeOK
  <2>5. ~waits(c, i)' /\ ~waits(c, i)  BY <2>1, <2>3 DEF waits, Late
  <2> HIDE DEF P, Goal
  <2> QED BY <1>4, <1>9, <2>3, <2>4, <2>5
<1>10. ASSUME ~P, UNCHANGED vars PROVE Goal
  <2>1. UNCHANGED <<pc, idx>>  BY <1>10 DEF vars
  <2> HIDE DEF P
  <2> QED BY <1>10, <2>1 DEF waits
<1>11. P => \E c \in Cta : Pad(c)  OBVIOUS
<1>12. Goal
  <2> HIDE DEF P, Goal
  <2> QED BY <1>5, <1>6, <1>7, <1>8, <1>9, <1>10, <1>11 DEF Next, Planning
<1> QED BY <1>12 DEF d

(* A thread holds its position from its claim to its store; cursors only   *)
(* go up, by the claims.                                                   *)
LEMMA Holding ==
  ASSUME DestSortAssumption, TypeOK, [Next]_vars, ~Planning
  PROVE  /\ \A c \in Cta : pc[c] = "store" /\ ~Store(c) =>
              pc'[c] = "store" /\ idx'[c] = idx[c] /\ pos'[c] = pos[c]
         /\ \A c \in Cta : pc'[c] = "store" =>
              Claim(c) \/ (pc[c] = "store" /\ idx'[c] = idx[c] /\ pos'[c] = pos[c])
         /\ cur' = cur \/ \E c \in Cta : Claim(c)
<1> DEFINE Goal == /\ \A c \in Cta : pc[c] = "store" /\ ~Store(c) =>
                        pc'[c] = "store" /\ idx'[c] = idx[c] /\ pos'[c] = pos[c]
                   /\ \A c \in Cta : pc'[c] = "store" =>
                        Claim(c) \/ (pc[c] = "store" /\ idx'[c] = idx[c]
                                     /\ pos'[c] = pos[c])
                   /\ cur' = cur \/ \E c \in Cta : Claim(c)
<1>1. ASSUME NEW c \in Cta, Store(c) \/ pc[c] # "store", Claim(c) \/ pc'[c] # "store",
             UNCHANGED cur \/ Claim(c),
             \A b \in Cta : b # c => pc'[b] = pc[b] /\ idx'[b] = idx[b] /\ pos'[b] = pos[b]
      PROVE  Goal
  BY <1>1
<1>2. ASSUME NEW c \in Cta,
             CountPartial(c) \/ CrossCount(c) \/ CrossPlan(c) \/ PadEnd(c) \/ Store(c) \/ Exit(c)
      PROVE  Goal
  <2>1. /\ Store(c) \/ pc[c] # "store"
        /\ UNCHANGED <<cur, pos>>
        /\ UNCHANGED idx \/ \E x : idx' = [idx EXCEPT ![c] = x]
        /\ \E l \in Label \ {"store"} : goto(c, l)
    BY <1>2 DEF CountPartial, CrossCount, CrossPlan, PadEnd, Store, Exit, scratch, Label
  <2>2. pc'[c] # "store" /\ \A b \in Cta : b # c => pc'[b] = pc[b]
    BY <2>1, GotoType
  <2>3. \A b \in Cta : b # c => idx'[b] = idx[b]  BY <2>1 DEF TypeOK
  <2> QED BY <1>1, <2>1, <2>2, <2>3
<1>3. ASSUME NEW c \in Cta, Pad(c) \/ Skip(c) PROVE Goal
  <2>1. /\ UNCHANGED <<pc, cur, pos>> /\ pc[c] # "store"
        /\ idx' = [idx EXCEPT ![c] = @ + Grid]
    BY <1>3 DEF Pad, Skip, scratch
  <2>2. \A b \in Cta : b # c => idx'[b] = idx[b]  BY <2>1 DEF TypeOK
  <2> QED BY <1>1, <2>1, <2>2
<1>4. ASSUME NEW c \in Cta, Claim(c) PROVE Goal
  <2>1. /\ pc[c] = "scatter" /\ goto(c, "store") /\ UNCHANGED idx
        /\ \E x : pos' = [pos EXCEPT ![c] = x]
    BY <1>4 DEF Claim
  <2>2. \A b \in Cta : b # c => pc'[b] = pc[b]  BY <2>1, GotoType DEF Label
  <2>3. \A b \in Cta : b # c => pos'[b] = pos[b]  BY <2>1 DEF TypeOK
  <2> QED BY <1>1, <1>4, <2>1, <2>2, <2>3
<1>5. ASSUME UNCHANGED vars PROVE Goal  BY <1>5 DEF vars, scratch
<1>6. Goal
  <2> HIDE DEF Goal
  <2> QED BY <1>2, <1>3, <1>4, <1>5 DEF Next, Planning
<1> QED BY <1>6

(* Only padding and stores write positions.                                *)
LEMMA Writes ==
  ASSUME DestSortAssumption, TypeOK, [Next]_vars
  PROVE  \/ sti' = sti
         \/ \E c \in Cta : /\ Pad(c) /\ idx[c] \in PadIndex /\ inside(idx[c])
                           /\ pad_row(idx[c]) \in Position
                           /\ sti' = [sti EXCEPT ![pad_row(idx[c])] = stamp(Padding)]
         \/ \E c \in Cta : /\ Store(c) /\ pos[c] \in Position
                           /\ sti' = [sti EXCEPT ![pos[c]] = stamp(idx[c])]
<1>1. ASSUME NEW c \in Cta, Pad(c), sti' # sti
      PROVE  /\ idx[c] \in PadIndex /\ inside(idx[c]) /\ pad_row(idx[c]) \in Position
             /\ sti' = [sti EXCEPT ![pad_row(idx[c])] = stamp(Padding)]
  <2>1. idx[c] < E * BlockM /\ idx[c] \in Nat /\ E * BlockM \in Nat
    BY <1>1, Constants DEF Pad, TypeOK
  <2>2. idx[c] \in PadIndex  BY <2>1 DEF PadIndex
  <2> QED BY <1>1, <2>2 DEF Pad, inside
<1>2. ASSUME NEW c \in Cta, Store(c), sti' # sti
      PROVE  pos[c] \in Position /\ sti' = [sti EXCEPT ![pos[c]] = stamp(idx[c])]
  BY <1>2 DEF Store
<1>3. ASSUME Planning PROVE sti' = sti
  BY <1>3 DEF Planning, Launch, Reduce, AddColumn, EndReduce, Scan, Cursors
<1>4. ASSUME NEW c \in Cta,
             CountPartial(c) \/ CrossCount(c) \/ CrossPlan(c) \/ PadEnd(c) \/ Skip(c)
               \/ Claim(c) \/ Exit(c)
      PROVE  sti' = sti
  BY <1>4 DEF CountPartial, CrossCount, CrossPlan, PadEnd, Skip, Claim, Exit
<1>5. UNCHANGED vars => sti' = sti  BY DEF vars
<1> QED BY <1>1, <1>2, <1>3, <1>4, <1>5 DEF Next, Planning

-----------------------------------------------------------------------------
(* Which positions this launch has not written yet: all of them until the  *)
(* plan is made; then the ones no cursor has passed, the ones that threads *)
(* hold, and the rows that wait for padding.                               *)
old(p) == sti[p].launch < launch

FreshInv ==
  /\ \A p \in Position : sti[p].launch <= launch
  /\ launch > 0 /\ ~plan_done => \A p \in Position : old(p)
  /\ plan_done =>
       /\ \A e \in Expert, p \in Position : cur[e] <= p /\ p < erb[e] + cnt[e] => old(p)
       /\ \A c \in Cta : pc[c] = "store" /\ pos[c] \in Position => old(pos[c])
       /\ \A i \in PadIndex : inside(i) /\ pad_row(i) \in Position =>
            IF waits(i % Grid, i) THEN old(pad_row(i))
            ELSE sti[pad_row(i)] = stamp(Padding)

(* A position between a segment's first and its last pair is no padding of *)
(* any segment.                                                            *)
LEMMA PairsApart ==
  ASSUME DestSortAssumption, TypeOK, ScanInv, plan_done, NEW e \in Expert,
         NEW p \in Int, erb[e] <= p, p < erb[e] + cnt[e]
  PROVE  /\ p \in segment(e)
         /\ \A i \in PadIndex : inside(i) => pad_row(i) # p
<1>1. /\ erb[e] \in Nat /\ cnt[e] \in Nat /\ erb[e + 1] \in Nat
      /\ erb[e] + cnt[e] <= erb[e + 1]
  BY Segments
<1>2. p \in segment(e)  BY <1>1 DEF segment
<1>3. ASSUME NEW i \in PadIndex, inside(i), pad_row(i) = p PROVE FALSE
  <2>1. PICK f : f = i \div BlockM  OBVIOUS
  <2>2. f \in Expert /\ erb[f] + cnt[f] <= p /\ p \in segment(f)
    BY <1>3, <2>1, PadRow
  <2>3. e = f  BY <1>2, <2>2, Apart
  <2> QED BY <1>1, <2>2, <2>3
<1> QED BY <1>2, <1>3

(* What a thread holds is one of its expert's positions.                   *)
LEMMA HeldRow ==
  ASSUME DestSortAssumption, TypeOK, CountInv, ScanInv, ClaimInv, plan_done,
         NEW c \in Cta, pc[c] = "store"
  PROVE  \E e \in Expert :
           /\ e = recv_eid[idx[c]] /\ erb[e] <= pos[c] /\ pos[c] < cur[e]
           /\ pos[c] < erb[e] + cnt[e] /\ pos[c] \in segment(e) /\ pos[c] < erb[E]
<1>1. PICK e : e = recv_eid[idx[c]]  OBVIOUS
<1>2. e \in Expert /\ erb[e] <= pos[c] /\ pos[c] < cur[e]  BY <1>1 DEF ClaimInv
<1>3. cur[e] <= erb[e] + cnt[e]  BY <1>2, ClaimBound
<1>4. /\ erb[e] \in Nat /\ cnt[e] \in Nat /\ erb[e + 1] \in Nat /\ erb[E] \in Nat
      /\ erb[e] + cnt[e] <= erb[e + 1] /\ erb[e + 1] <= erb[E]
  BY <1>2, Segments
<1>5. pos[c] \in Nat /\ cur[e] \in Nat  BY <1>2 DEF TypeOK
<1>6. pos[c] < erb[e] + cnt[e] /\ pos[c] < erb[E]  BY <1>2, <1>3, <1>4, <1>5
<1>7. pos[c] \in segment(e)  BY <1>2, <1>4, <1>5, <1>6 DEF segment
<1> QED BY <1>1, <1>2, <1>6, <1>7

(* What a step writes was not written in this launch.                      *)
LEMMA FreshWrites ==
  ASSUME DestSortAssumption, TypeOK, PlaceInv, FreshInv, [Next]_vars
  PROVE  WritesOnce
<1>1. SUFFICES ASSUME NEW p \in Position, sti'[p] # sti[p]
               PROVE  old(p)
  BY DEF WritesOnce, old
<1>2. ASSUME NEW c \in Cta, pc[c] \in {"pad", "store"} PROVE plan_done
  <2>1. launch > 0  BY <1>2 DEF PlaceInv, TypeOK
  <2> QED BY <1>2, <2>1, Constants DEF plan_done, PlaceInv, Late
<1>3. ASSUME NEW c \in Cta, Pad(c), idx[c] \in PadIndex, inside(idx[c]),
             pad_row(idx[c]) \in Position,
             sti' = [sti EXCEPT ![pad_row(idx[c])] = stamp(Padding)]
      PROVE  old(p)
  <2>1. p = pad_row(idx[c])  BY <1>1, <1>3 DEF TypeOK
  <2>2. pc[c] = "pad" /\ idx[c] % Grid = c /\ idx[c] \in Nat
    BY <1>3 DEF Pad, PlaceInv, TypeOK
  <2>3. waits(idx[c] % Grid, idx[c])  BY <2>2 DEF waits
  <2> QED BY <1>2, <1>3, <2>1, <2>2, <2>3 DEF FreshInv
<1>4. ASSUME NEW c \in Cta, Store(c), pos[c] \in Position,
             sti' = [sti EXCEPT ![pos[c]] = stamp(idx[c])]
      PROVE  old(p)
  <2>1. p = pos[c]  BY <1>1, <1>4 DEF TypeOK
  <2>2. pc[c] = "store"  BY <1>4 DEF Store
  <2> QED BY <1>2, <1>4, <2>1, <2>2 DEF FreshInv
<1> QED BY <1>1, <1>3, <1>4, Writes

(* Nothing is written before the first launch.                             *)
LEMMA FreshInit == ASSUME DestSortAssumption, Init PROVE FreshInv
BY Constants DEF Init, FreshInv, plan_done

(* Each step keeps track of what is written.                               *)
LEMMA FreshStep ==
  ASSUME DestSortAssumption, TypeOK, PlaceInv, CountInv, ScanInv, ClaimInv, FreshInv,
         [Next]_vars
  PROVE  FreshInv'
<1>0. launch \in Nat /\ \A p \in Position : sti[p].launch \in Nat
  BY Constants DEF TypeOK
<1>1. CASE Launch
  <2>1. launch' = launch + 1 /\ UNCHANGED sti  BY <1>1 DEF Launch
  <2>2. \A p \in Position : old(p)' /\ sti'[p].launch <= launch'
    BY <1>0, <2>1 DEF FreshInv, old
  <2>3. ~plan_done'
    <3>1. ~Cursors  BY <1>0, <2>1 DEF Cursors
    <3> QED BY <1>1, <3>1, NotPlanned DEF Planning
  <2> QED BY <2>2, <2>3 DEF FreshInv
<1>2. CASE Reduce \/ AddColumn \/ EndReduce \/ Scan
  <2>1. UNCHANGED <<launch, sti>> /\ pc[0] \in {"reduce", "add", "scan"}
    BY <1>2 DEF Reduce, AddColumn, EndReduce, Scan
  <2>2. launch > 0 /\ ~plan_done
    BY <1>0, <2>1, Constants DEF PlaceInv, plan_done, Late
  <2>3. ~plan_done'
    <3>1. ~Cursors
      <4>1. Cursors => e_next = E /\ pc[0] = "scan" /\ goto(0, "bar2")  BY DEF Cursors
      <4>2. Cursors => pc'[0] = "bar2" /\ pc[0] = "scan" /\ e_next = E
        BY <4>1, Constants, GotoType DEF Label
      <4>3. Reduce \/ AddColumn \/ EndReduce => pc[0] # "scan"
        BY DEF Reduce, AddColumn, EndReduce
      <4>4. Scan => UNCHANGED pc  BY DEF Scan
      <4> QED BY <1>2, <4>2, <4>3, <4>4
    <3> QED BY <1>2, <3>1, NotPlanned DEF Planning
  <2> QED BY <2>1, <2>2, <2>3 DEF FreshInv, old
<1>3. CASE Cursors
  <2>1. UNCHANGED <<launch, sti>> /\ pc[0] = "scan" /\ goto(0, "bar2")
    BY <1>3 DEF Cursors
  <2>2. launch > 0 /\ ~plan_done
    BY <1>0, <2>1, Constants DEF PlaceInv, plan_done, Late
  <2>3. \A p \in Position : old(p)' /\ sti'[p].launch <= launch'
    BY <2>1, <2>2 DEF FreshInv, old
  <2>4. \A c \in Cta : pc'[c] \notin Late
    <3>1. \A c \in Cta : pc[c] \notin Late  BY <2>1, Constants DEF PlaceInv, Late
    <3> QED BY <2>1, <3>1, Constants, GotoType DEF Label, Late
  <2>5. \A i \in PadIndex : waits(i % Grid, i)'
    <3>1. \A i \in PadIndex : i % Grid \in Cta
      <4>1. \A i \in PadIndex : i \in Nat  BY DEF PadIndex
      <4> QED BY <4>1, Constants, Division DEF Cta
    <3> QED BY <2>4, <3>1 DEF waits
  <2>6. \A c \in Cta : pc'[c] # "store"  BY <2>4 DEF Late
  <2>7. \A i \in PadIndex : pad_row(i)' \in Position => old(pad_row(i))'
    BY <2>3 DEF old
  <2> QED BY <2>3, <2>5, <2>6, <2>7 DEF FreshInv
<1>4. ASSUME ~Planning, ~plan_done PROVE FreshInv'
  <2>1. launch' = launch /\ ~plan_done'  BY <1>4, OtherSteps
  <2>2. \A c \in Cta : ~Pad(c) /\ ~Store(c)
    <3> SUFFICES ASSUME NEW c \in Cta, Pad(c) \/ Store(c) PROVE FALSE
      OBVIOUS
    <3>1. pc[c] \in {"pad", "store"}  BY DEF Pad, Store
    <3>2. launch > 0  BY <3>1 DEF PlaceInv, TypeOK
    <3> QED BY <1>4, <3>1, <3>2, Constants DEF plan_done, PlaceInv, Late
  <2>3. sti' = sti  BY <2>2, Writes
  <2> QED BY <1>4, <2>1, <2>3 DEF FreshInv, old
<1>5. ASSUME ~Planning, plan_done PROVE FreshInv'
  <2>1. UNCHANGED <<launch, cnt, erb>>  BY <1>5, OtherSteps
  <2>2. \A i \in PadIndex : /\ pad_row(i)' = pad_row(i) /\ inside(i)' = inside(i)
                            /\ stamp(Padding)' = stamp(Padding)
    BY <2>1 DEF pad_row, inside, stamp
  <2> DEFINE unwritten(p) == sti'[p] = sti[p]
  <2>3. \A p \in Position : unwritten(p) => (sti'[p].launch < launch' <=> old(p))
    BY <2>1 DEF old
  <2>4. \A p \in Position : sti'[p].launch <= launch'
    <3>1. \A v : stamp(v).launch = launch  BY DEF stamp
    <3>2. \A p \in Position : sti'[p] = sti[p] \/ \E v : sti'[p] = stamp(v)
      BY Writes DEF TypeOK
    <3>3. \A p \in Position : sti[p].launch <= launch  BY DEF FreshInv
    <3> QED BY <1>0, <2>1, <3>1, <3>2, <3>3
  (* The step may change the position of a claim or a row to pad only.     *)
  <2>5. ASSUME NEW p \in Position, ~unwritten(p)
        PROVE  \/ \E c \in Cta : Store(c) /\ p = pos[c]
               \/ \E c \in Cta : /\ Pad(c) /\ idx[c] \in PadIndex /\ inside(idx[c])
                                 /\ p = pad_row(idx[c]) /\ sti'[p] = stamp(Padding)
    BY <2>5, Writes DEF TypeOK
  <2> HIDE DEF unwritten
  <2>6. ASSUME NEW e \in Expert, NEW p \in Position,
               erb[e] <= p, p < erb[e] + cnt[e], \A c \in Cta : Store(c) => pos[c] # p
        PROVE  unwritten(p)
    <3>1. p \in Int  BY Constants DEF Position
    <3> QED BY <1>5, <2>5, <2>6, <3>1, PairsApart
  <2>7. ASSUME NEW e \in Expert PROVE erb[e] <= cur[e] /\ cur[e] <= cur'[e]
    <3>1. erb[e] <= cur[e]  BY <1>5, <2>7, ClaimBound
    <3>2. cur[e] <= cur'[e]
      <4>1. cur[e] \in Nat  BY <2>7 DEF TypeOK
      <4>2. ASSUME NEW c \in Cta, Claim(c) PROVE cur[e] <= cur'[e]
        <5>1. cur' = [cur EXCEPT ![recv_eid[idx[c]]] = @ + 1]  BY <4>2 DEF Claim, advance
        <5> QED BY <2>7, <4>1, <5>1 DEF TypeOK
      <4> QED BY <1>5, <4>1, <4>2, Holding
    <3> QED BY <3>1, <3>2
  <2>8. ASSUME NEW e \in Expert, NEW p \in Position, cur'[e] <= p, p < erb[e] + cnt[e]
        PROVE  sti'[p].launch < launch'
    <3>0. /\ p \in Int /\ cur[e] \in Nat /\ cur'[e] \in Nat /\ erb[e] \in Nat
      <4>1. cur'[e] \in Nat  BY TypeStep DEF TypeOK
      <4> QED BY <1>5, <2>8, <4>1, Constants, Segments DEF TypeOK, Position
    <3>1. cur[e] <= p /\ erb[e] <= p  BY <2>7, <2>8, <3>0
    <3>2. old(p)  BY <1>5, <2>8, <3>1 DEF FreshInv
    <3>3. ASSUME NEW c \in Cta, Store(c) PROVE pos[c] # p
      <4>1. pc[c] = "store"  BY <3>3 DEF Store
      <4>2. PICK f \in Expert : pos[c] < cur[f] /\ pos[c] \in segment(f)
        BY <1>5, <4>1, HeldRow
      <4>3. p \in segment(e)  BY <1>5, <2>8, <3>0, <3>1, PairsApart
      <4>4. pos[c] = p => e = f  BY <1>5, <4>2, <4>3, Apart
      <4>5. pos[c] \in Nat  BY DEF TypeOK
      <4> QED BY <3>0, <3>1, <4>2, <4>4, <4>5
    <3>4. unwritten(p)  BY <2>6, <2>8, <3>1, <3>3
    <3> QED BY <2>3, <3>2, <3>4
  <2>9. ASSUME NEW c \in Cta, pc'[c] = "store", pos'[c] \in Position
        PROVE  sti'[pos'[c]].launch < launch'
    <3>1. PICK p : p = pos'[c]  OBVIOUS
    <3>2. CASE Claim(c)
      <4>1. PICK e : e = recv_eid[idx[c]]  OBVIOUS
      <4>2. PICK i : i = idx[c]  OBVIOUS
      <4>3. /\ e \in Expert /\ p = cur[e] /\ cur' = [cur EXCEPT ![e] = @ + 1]
            /\ goto(c, "store") /\ pc[c] = "scatter"
        BY <3>1, <3>2, <4>1 DEF Claim, advance, TypeOK
      <4>4. i \in of(e) /\ i \notin claimed(e)
        BY <1>5, <3>2, <4>1, <4>2, ClaimGrows
      <4>5. p < erb[e] + cnt[e] /\ erb[e] <= p
        BY <1>5, <4>3, <4>4, ClaimBound
      <4>6. p \in Position /\ p \in Nat  BY <2>9, <3>1, Constants DEF Position
      <4>7. old(p)  BY <1>5, <4>3, <4>5, <4>6 DEF FreshInv
      <4>8. \A d \in Cta : ~Store(d)
        <5>1. \A d \in Cta : Store(d) => UNCHANGED cur  BY DEF Store, scratch
        <5>2. cur'[e] = cur[e] + 1 /\ cur[e] \in Nat  BY <4>3 DEF TypeOK
        <5> QED BY <5>1, <5>2
      <4>9. unwritten(p)  BY <2>6, <4>3, <4>5, <4>6, <4>8
      <4> QED BY <2>3, <3>1, <4>6, <4>7, <4>9
    <3>3. CASE pc[c] = "store" /\ pos'[c] = pos[c] /\ ~Store(c)
      <4>1. p \in Position /\ old(p)  BY <1>5, <2>9, <3>1, <3>3 DEF FreshInv
      <4>2. PICK e \in Expert : erb[e] <= p /\ p < erb[e] + cnt[e]
        BY <1>5, <3>1, <3>3, HeldRow
      <4>3. ASSUME NEW d \in Cta, Store(d) PROVE pos[d] # p
        <5>1. pc[d] = "store"  BY <4>3 DEF Store
        <5> QED BY <1>5, <3>1, <3>3, <4>3, <5>1 DEF ClaimInv
      <4>4. unwritten(p)  BY <2>6, <4>1, <4>2, <4>3
      <4> QED BY <2>3, <3>1, <4>1, <4>4
    <3>4. Store(c) => pc'[c] # "store"
      <4>1. Store(c) => goto(c, "scatter")  BY DEF Store
      <4> QED BY <4>1, GotoType DEF Label
    <3> QED BY <1>5, <2>9, <3>2, <3>3, <3>4, Holding
  <2>10. ASSUME NEW i \in PadIndex, inside(i), pad_row(i) \in Position
         PROVE  IF waits(i % Grid, i)' THEN sti'[pad_row(i)].launch < launch'
                ELSE sti'[pad_row(i)] = stamp(Padding)
    <3>1. PICK p : p = pad_row(i)  OBVIOUS
    <3>2. PICK w : w = (i % Grid)  OBVIOUS
    <3>3. waits(w, i)' <=> waits(w, i) /\ \A c \in Cta : ~(Pad(c) /\ i = idx[c])
      BY <1>5, <2>10, <3>2, Waits
    <3>4. IF waits(w, i) THEN old(p) ELSE sti[p] = stamp(Padding)
      BY <1>5, <2>10, <3>1, <3>2 DEF FreshInv
    <3>5. \A c \in Cta : Store(c) => pos[c] # p
      <4> SUFFICES ASSUME NEW c \in Cta, Store(c) PROVE pos[c] # p
        OBVIOUS
      <4>1. pc[c] = "store"  BY DEF Store
      <4>2. PICK e \in Expert : erb[e] <= pos[c] /\ pos[c] < erb[e] + cnt[e]
        BY <1>5, <4>1, HeldRow
      <4>3. pos[c] \in Int  BY DEF TypeOK
      <4> QED BY <1>5, <2>10, <3>1, <4>2, <4>3, PairsApart
    <3>6. CASE unwritten(p)
      <4>1. \A c \in Cta : Pad(c) /\ i = idx[c] => sti'[p] = stamp(Padding)
        <5> SUFFICES ASSUME NEW c \in Cta, Pad(c), i = idx[c]
                     PROVE  sti'[p] = stamp(Padding)
          OBVIOUS
        <5>1. sti' = [sti EXCEPT ![p] = stamp(Padding)]
          BY <2>10, <3>1 DEF Pad, inside
        <5> QED BY <2>10, <3>1, <5>1 DEF TypeOK
      <4>2. CASE waits(w, i)'
        BY <2>3, <2>10, <3>1, <3>2, <3>3, <3>4, <3>6, <4>2
      <4>3. CASE ~waits(w, i)' /\ waits(w, i)  BY <3>1, <3>2, <3>3, <4>1, <4>3
      <4>4. CASE ~waits(w, i)' /\ ~waits(w, i)
        BY <3>1, <3>2, <3>4, <3>6, <4>4 DEF unwritten
      <4> QED BY <4>2, <4>3, <4>4
    <3>7. CASE ~unwritten(p)
      <4>1. PICK c \in Cta : /\ Pad(c) /\ idx[c] \in PadIndex /\ inside(idx[c])
                             /\ p = pad_row(idx[c]) /\ sti'[p] = stamp(Padding)
        BY <2>5, <2>10, <3>1, <3>5, <3>7
      <4>2. i = idx[c]  BY <1>5, <2>10, <3>1, <4>1, PadApart
      <4> QED BY <3>1, <3>2, <3>3, <4>1, <4>2
    <3> QED BY <3>6, <3>7
  <2>11. plan_done'  BY <1>5, OtherSteps
  <2> QED BY <2>1, <2>2, <2>4, <2>8, <2>9, <2>10, <2>11 DEF FreshInv, old
<1> QED BY <1>1, <1>2, <1>3, <1>4, <1>5 DEF Planning

-----------------------------------------------------------------------------
(* What stands in the positions: only pairs that are stored, each behind   *)
(* its expert's first position and before its cursor, and each once; the   *)
(* stored pairs, if the segments fit; and below a cursor nothing but what  *)
(* threads still hold and pairs of the expert.                             *)
written(p) == sti[p].launch = launch /\ sti[p].val # Padding
row_of(e, p) == erb[e] <= p /\ p < cur[e]

StoreInv ==
  plan_done =>
    /\ \A p \in Position : written(p) =>
         /\ sti[p].val \in Pair /\ recv_eid[sti[p].val] \in Expert
         /\ stored(sti[p].val % Grid, sti[p].val)
         /\ row_of(recv_eid[sti[p].val], p)
    /\ \A p \in Position, q \in Position : written(p) /\ sti[p] = sti[q] => p = q
    /\ nvi <= PADMAX =>
         \A e \in Expert : \A j \in of(e) : stored(j % Grid, j) =>
           \E p \in Position : sti[p] = stamp(j)
    /\ \A e \in Expert, p \in Position : row_of(e, p) =>
         \/ \E c \in Cta : pc[c] = "store" /\ pos[c] = p
         \/ sti[p].launch = launch /\ sti[p].val \in of(e)

(* A store puts a pair that is not there yet into a position of its expert.*)
LEMMA StoreEntry ==
  ASSUME DestSortAssumption, TypeOK, PlaceInv, CountInv, ScanInv, ClaimInv, plan_done,
         NEW c \in Cta, Store(c)
  PROVE  /\ pc[c] = "store" /\ idx[c] \in Pair /\ recv_eid[idx[c]] \in Expert
         /\ idx[c] \in Nat /\ idx[c] % Grid = c /\ ~stored(c, idx[c])
         /\ pos[c] \in Nat /\ row_of(recv_eid[idx[c]], pos[c])
         /\ pos[c] \in segment(recv_eid[idx[c]])
         /\ nvi = erb[E] /\ nvi <= PADMAX => pos[c] \in Position
<1>1. pc[c] = "store"  BY DEF Store
<1>2. /\ idx[c] \in Pair /\ recv_eid[idx[c]] \in Expert
      /\ row_of(recv_eid[idx[c]], pos[c]) /\ pos[c] \in Nat /\ idx[c] \in Nat
  BY <1>1 DEF ClaimInv, row_of, TypeOK
<1>3. pos[c] \in segment(recv_eid[idx[c]]) /\ pos[c] < erb[E]  BY <1>1, HeldRow
<1>4. idx[c] % Grid = c  BY <1>1 DEF PlaceInv
<1>5. ~stored(c, idx[c])  BY <1>1, <1>2 DEF stored
<1>6. erb[E] \in Nat  BY Segments
<1>7. nvi = erb[E] /\ nvi <= PADMAX => pos[c] \in Position
  BY <1>2, <1>3, <1>6, Constants DEF Position
<1> QED BY <1>1, <1>2, <1>3, <1>4, <1>5, <1>7

(* Each step keeps to that.                                                *)
LEMMA StoreStep ==
  ASSUME DestSortAssumption, TypeOK, PlaceInv, CountInv, ScanInv, PlanInv, ClaimInv,
         FreshInv, StoreInv, [Next]_vars
  PROVE  StoreInv'
<1>0. /\ launch \in Nat /\ Position \subseteq Nat
      /\ \A p \in Position : sti[p].launch \in Nat
  <2>1. launch \in Nat  BY Constants DEF TypeOK
  <2>2. \A p \in Position : sti[p].launch \in Nat  BY DEF TypeOK
  <2>3. Position \subseteq Nat  BY Constants DEF Position
  <2> QED BY <2>1, <2>2, <2>3
<1>1. CASE Planning /\ ~Cursors  BY <1>1, NotPlanned DEF StoreInv
<1>2. CASE Cursors
  <2>1. /\ UNCHANGED <<launch, sti, erb>> /\ pc[0] = "scan" /\ goto(0, "bar2")
        /\ cur' = [e \in Expert |-> erb[e]]
    BY <1>2 DEF Cursors
  <2>2. launch > 0 /\ ~plan_done
    BY <1>0, <2>1, Constants DEF PlaceInv, plan_done, Late
  <2>3. \A p \in Position : ~written(p)'
    BY <1>0, <2>1, <2>2 DEF FreshInv, old, written
  <2>4. \A c \in Cta : pc'[c] \notin Late
    <3>1. \A c \in Cta : pc[c] \notin Late  BY <2>1, Constants DEF PlaceInv, Late
    <3> QED BY <2>1, <3>1, Constants, GotoType DEF Label, Late
  <2>5. \A j \in Pair : ~stored(j % Grid, j)'
    BY <2>4, PairType DEF stored, Late
  <2>6. \A e \in Expert : of(e)' \subseteq Pair
    BY <1>2 DEF Cursors, input, of, Pair
  <2>7. \A e \in Expert : erb[e] \in Nat  BY Constants DEF TypeOK, Expert
  <2>8. \A e \in Expert, p \in Position : ~row_of(e, p)'
    <3>1. \A e \in Expert : cur'[e] = erb[e] /\ erb'[e] = erb[e]  BY <2>1
    <3>2. \A e \in Expert, p \in Position : ~(erb[e] <= p /\ p < erb[e])
      BY <1>0, <2>7
    <3> QED BY <3>1, <3>2 DEF row_of
  <2> QED BY <2>3, <2>5, <2>6, <2>8 DEF StoreInv
<1>3. ASSUME ~Planning, ~plan_done PROVE StoreInv'
  BY <1>3, OtherSteps DEF StoreInv
<1>4. ASSUME ~Planning, plan_done PROVE StoreInv'
  <2>1. UNCHANGED <<launch, recv_eid, erb, nvi>> /\ nvi = erb[E]
    BY <1>4, OtherSteps DEF PlanInv
  <2>2. /\ \A e : of(e)' = of(e)
        /\ \A j : stamp(j)' = stamp(j)
        /\ Pair' = Pair
    BY <2>1 DEF of, stamp, Pair
  <2>3. WritesOnce  BY FreshWrites
  <2>4. \A p \in Position : sti[p].launch = launch => sti'[p] = sti[p]
    <3>1. ~(launch < launch)  BY <1>0
    <3> QED BY <2>3, <3>1 DEF WritesOnce
  <2>5. \A e \in Expert : cur[e] \in Nat /\ cur'[e] \in Nat /\ cur[e] <= cur'[e]
                          /\ erb[e] \in Nat
    <3> SUFFICES ASSUME NEW e \in Expert
                 PROVE  cur[e] \in Nat /\ cur'[e] \in Nat /\ cur[e] <= cur'[e]
                        /\ erb[e] \in Nat
      OBVIOUS
    <3>1. cur[e] \in Nat /\ erb[e] \in Nat  BY Constants DEF TypeOK, Expert
    <3>2. cur' = cur \/ \E f : cur' = [cur EXCEPT ![f] = @ + 1]
      BY <1>4, Holding DEF Claim, advance
    <3>3. cur'[e] = cur[e] \/ cur'[e] = cur[e] + 1  BY <3>2 DEF TypeOK
    <3> QED BY <3>1, <3>3
  <2> DEFINE now_stored(c, j) == \/ pc'[c] = "done"
                                 \/ pc'[c] \in {"scatter", "store"} /\ j < idx'[c]
             now_row_of(e, p) == erb'[e] <= p /\ p < cur'[e]
  <2>6. \A e \in Expert, p \in Position : row_of(e, p) => now_row_of(e, p)
    <3> SUFFICES ASSUME NEW e \in Expert, NEW p \in Position, row_of(e, p)
                 PROVE  now_row_of(e, p)
      OBVIOUS
    <3>1. p \in Nat /\ cur[e] \in Nat /\ cur'[e] \in Nat /\ cur[e] <= cur'[e]
      BY <1>0, <2>5
    <3> QED BY <2>1, <3>1 DEF row_of
  <2>7. \A j \in Pair : recv_eid[j] \in Expert =>
          (now_stored(j % Grid, j) <=> \/ stored(j % Grid, j)
                                       \/ \E c \in Cta : Store(c) /\ j = idx[c])
    BY <1>4, Progress DEF stored
  <2> HIDE DEF now_stored, now_row_of
  (* The positions that hold pairs after the step.                         *)
  <2>8. ASSUME NEW p \in Position, written(p)'
        PROVE  \/ written(p) /\ sti'[p] = sti[p]
               \/ \E c \in Cta : Store(c) /\ p = pos[c] /\ sti'[p] = stamp(idx[c])
    <3>1. CASE sti'[p] = sti[p]  BY <2>1, <2>8, <3>1 DEF written
    <3>2. CASE sti'[p] # sti[p]
      <4>1. sti'[p] # stamp(Padding)  BY <2>8 DEF written, stamp
      <4> QED BY <3>2, <4>1, Writes DEF TypeOK
    <3> QED BY <3>1, <3>2
  <2>9. ASSUME NEW c \in Cta, Store(c), pos[c] \in Position
        PROVE  sti'[pos[c]] = stamp(idx[c])
    <3>1. sti' = [sti EXCEPT ![pos[c]] = stamp(idx[c])]  BY <2>9 DEF Store
    <3> QED BY <2>9, <3>1 DEF TypeOK
  <2>10. ASSUME NEW p \in Position, written(p)'
         PROVE  /\ sti'[p].val \in Pair /\ recv_eid[sti'[p].val] \in Expert
                /\ now_stored(sti'[p].val % Grid, sti'[p].val)
                /\ now_row_of(recv_eid[sti'[p].val], p)
    <3> PICK v : v = sti'[p].val  OBVIOUS
    <3>1. CASE written(p) /\ sti'[p] = sti[p]
      <4>1. /\ v \in Pair /\ recv_eid[v] \in Expert /\ stored(v % Grid, v)
            /\ row_of(recv_eid[v], p)
        BY <1>4, <2>10, <3>1 DEF StoreInv
      <4> QED BY <2>6, <2>7, <2>10, <4>1
    <3>2. ASSUME NEW c \in Cta, Store(c), p = pos[c], sti'[p] = stamp(idx[c])
          PROVE  /\ v \in Pair /\ recv_eid[v] \in Expert
                 /\ now_stored(v % Grid, v) /\ now_row_of(recv_eid[v], p)
      <4>1. v = idx[c]  BY <3>2 DEF stamp
      <4>2. v \in Pair /\ recv_eid[v] \in Expert /\ row_of(recv_eid[v], p)
        BY <1>4, <3>2, <4>1, StoreEntry
      <4> QED BY <2>6, <2>7, <2>10, <3>2, <4>1, <4>2
    <3> QED BY <2>8, <2>10, <3>1, <3>2
  <2>11. ASSUME NEW p \in Position, NEW q \in Position, written(p)', sti'[p] = sti'[q]
         PROVE  p = q
    <3>0. written(q)'  BY <2>11 DEF written
    <3>1. CASE written(p) /\ sti'[p] = sti[p] /\ written(q) /\ sti'[q] = sti[q]
      BY <1>4, <2>11, <3>1 DEF StoreInv
    <3>2. ASSUME NEW c \in Cta, Store(c), NEW r \in Position, written(r),
                 sti[r] = stamp(idx[c])
          PROVE  FALSE
      <4>1. sti[r].val = idx[c]  BY <3>2 DEF stamp
      <4>2. stored(idx[c] % Grid, idx[c])  BY <1>4, <3>2, <4>1 DEF StoreInv
      <4> QED BY <1>4, <3>2, <4>2, StoreEntry
    <3>3. ASSUME NEW c \in Cta, Store(c), NEW d \in Cta, Store(d) PROVE c = d
      <4>1. \A b \in Cta : Store(b) => idx' = [idx EXCEPT ![b] = @ + Grid]  BY DEF Store
      <4>2. \A b \in Cta : Store(b) => idx'[b] = idx[b] + Grid /\ idx[b] \in Nat
        BY <4>1 DEF TypeOK
      <4>3. c # d => idx'[d] = idx[d]  BY <3>3, <4>1 DEF TypeOK
      <4> QED BY <3>3, <4>2, <4>3, Constants
    <3>4. ASSUME NEW c \in Cta, Store(c), p = pos[c], sti'[p] = stamp(idx[c])
          PROVE  p = q
      <4>1. CASE written(q) /\ sti'[q] = sti[q]  BY <2>11, <3>2, <3>4, <4>1
      <4>2. CASE \E d \in Cta : Store(d) /\ q = pos[d]  BY <3>3, <3>4, <4>2
      <4> QED BY <2>8, <3>0, <4>1, <4>2
    <3>5. ASSUME NEW c \in Cta, Store(c), q = pos[c], sti'[q] = stamp(idx[c])
          PROVE  p = q
      <4>1. CASE written(p) /\ sti'[p] = sti[p]  BY <2>11, <3>2, <3>5, <4>1
      <4>2. CASE \E d \in Cta : Store(d) /\ p = pos[d]  BY <3>3, <3>5, <4>2
      <4> QED BY <2>8, <2>11, <4>1, <4>2
    <3> QED BY <2>8, <2>11, <3>0, <3>1, <3>4, <3>5
  <2>12. ASSUME nvi <= PADMAX, NEW e \in Expert, NEW j \in of(e), now_stored(j % Grid, j)
         PROVE  \E p \in Position : sti'[p] = stamp(j)
    <3>1. j \in Pair /\ recv_eid[j] \in Expert  BY <2>12 DEF of
    <3>2. CASE stored(j % Grid, j)
      <4>1. PICK p \in Position : sti[p] = stamp(j)
        BY <1>4, <2>12, <3>2 DEF StoreInv
      <4>2. sti[p].launch = launch  BY <4>1 DEF stamp
      <4> QED BY <2>4, <4>1, <4>2
    <3>3. ASSUME NEW c \in Cta, Store(c), j = idx[c]
          PROVE  \E p \in Position : sti'[p] = stamp(j)
      <4>1. pos[c] \in Position  BY <1>4, <2>1, <2>12, <3>3, StoreEntry
      <4> QED BY <2>9, <3>3, <4>1
    <3> QED BY <2>7, <2>12, <3>1, <3>2, <3>3
  <2>13. ASSUME NEW e \in Expert, NEW p \in Position, now_row_of(e, p)
         PROVE  \/ \E c \in Cta : pc'[c] = "store" /\ pos'[c] = p
                \/ sti'[p].launch = launch /\ sti'[p].val \in of(e)
    <3>1. CASE row_of(e, p)
      <4>1. CASE sti[p].launch = launch /\ sti[p].val \in of(e)
        BY <2>4, <4>1
      <4>2. ASSUME NEW c \in Cta, pc[c] = "store", pos[c] = p, ~Store(c)
            PROVE  \E d \in Cta : pc'[d] = "store" /\ pos'[d] = p
        BY <1>4, <4>2, Holding
      <4>3. ASSUME NEW c \in Cta, Store(c), pos[c] = p
            PROVE  sti'[p].launch = launch /\ sti'[p].val \in of(e)
        <5>1. PICK f : f = recv_eid[idx[c]]  OBVIOUS
        <5>2. f \in Expert /\ p \in segment(f) /\ idx[c] \in of(f)
          BY <1>4, <4>3, <5>1, StoreEntry DEF of
        <5>3. p \in segment(e)
          <6>1. p \in Int /\ cur[e] \in Nat /\ erb[e] \in Nat /\ cnt[e] \in Nat
            BY <1>0, <1>4, <2>5, Segments
          <6>2. erb[e] <= p /\ p < erb[e] + cnt[e]
            BY <1>4, <3>1, <6>1, ClaimBound DEF row_of
          <6> QED BY <1>4, <6>1, <6>2, PairsApart
        <5>4. e = f  BY <1>4, <5>2, <5>3, Apart
        <5>5. sti'[p] = stamp(idx[c])  BY <2>9, <2>13, <4>3
        <5> QED BY <5>2, <5>4, <5>5 DEF stamp
      <4> QED BY <1>4, <3>1, <4>1, <4>2, <4>3 DEF StoreInv
    <3>2. CASE ~row_of(e, p)
      <4>1. cur'[e] # cur[e]  BY <2>1, <2>13, <3>2 DEF row_of, now_row_of
      <4>2. PICK c \in Cta : Claim(c)  BY <1>4, <4>1, Holding
      <4>3. PICK f : f = recv_eid[idx[c]]  OBVIOUS
      <4>4. /\ cur' = [cur EXCEPT ![f] = @ + 1] /\ pos' = [pos EXCEPT ![c] = cur[f]]
            /\ goto(c, "store")
        BY <4>2, <4>3 DEF Claim, advance
      <4>5. f = e /\ cur'[e] = cur[e] + 1  BY <4>1, <4>4 DEF TypeOK
      <4>6. p = cur[e]
        BY <1>0, <2>1, <2>5, <2>13, <3>2, <4>5 DEF row_of, now_row_of
      <4>7. pos'[c] = p  BY <4>4, <4>5, <4>6 DEF TypeOK
      <4>8. pc'[c] = "store"  BY <4>4, GotoType DEF Label
      <4> QED BY <4>7, <4>8
    <3> QED BY <3>1, <3>2
  <2> QED BY <2>1, <2>2, <2>10, <2>11, <2>12, <2>13
          DEF StoreInv, stored, row_of, now_stored, now_row_of
<1> QED BY <1>1, <1>2, <1>3, <1>4 DEF Planning

-----------------------------------------------------------------------------
(* The inductive invariant: types, places, counts, layout, plan, claims,   *)
(* and what is written when and where.                                     *)
IInv == /\ TypeOK /\ PlaceInv /\ CountInv /\ ScanInv /\ PlanInv
        /\ ClaimInv /\ FreshInv /\ StoreInv

(* It holds from the first launch on, whatever the threads' order.         *)
THEOREM IInvHolds == ASSUME DestSortAssumption PROVE Spec => []IInv
<1>1. Init => IInv
  <2> SUFFICES ASSUME Init PROVE IInv
    OBVIOUS
  <2>1. TypeOK /\ PlaceInv /\ CountInv /\ ScanInv /\ FreshInv
    BY TypeInit, PlaceInit, CountInit, ScanInit, FreshInit
  <2>2. ~plan_done  BY DEF Init, plan_done
  <2> QED BY <2>1, <2>2 DEF IInv, PlanInv, ClaimInv, StoreInv
<1>2. IInv /\ [Next]_vars => IInv'
  <2> SUFFICES ASSUME IInv, [Next]_vars PROVE IInv'
    OBVIOUS
  <2> USE DEF IInv
  <2>1. TypeOK'  BY TypeStep
  <2>2. PlaceInv'  BY PlaceStep
  <2>3. CountInv'  BY CountStep
  <2>4. ScanInv'  BY ScanStep
  <2>5. PlanInv'  BY PlanStep
  <2>6. ClaimInv'  BY ClaimStep
  <2>7. FreshInv'  BY FreshStep
  <2>8. StoreInv'  BY StoreStep
  <2> QED BY <2>1, <2>2, <2>3, <2>4, <2>5, <2>6, <2>7, <2>8
<1> QED BY <1>1, <1>2, PTL DEF Spec

(* Every thread of the sort works on values of the declared kinds.         *)
THEOREM SortTypeCorrect == ASSUME DestSortAssumption PROVE Spec => []TypeOK
<1>1. IInv => TypeOK  BY DEF IInv
<1> QED BY <1>1, IInvHolds, PTL

(* Once all threads are through, every claim is made and stored.           *)
LEMMA AllStored ==
  ASSUME DestSortAssumption, IInv, sorted, NEW e \in Expert
  PROVE  /\ plan_done /\ cur[e] = erb[e] + cnt[e]
         /\ \A j \in of(e) : stored(j % Grid, j)
<1>1. plan_done  BY Constants DEF sorted, plan_done, Late
<1>2. \A j \in of(e) : stored(j % Grid, j)
  BY PairType DEF sorted, stored, of, IInv
<1>3. claimed(e) = of(e)  BY <1>2 DEF claimed
<1>4. cnt[e] = Cardinality(of(e))
  BY <1>1 DEF IInv, CountInv, counted, plan_done, count, of, Late
<1> QED BY <1>1, <1>2, <1>3, <1>4 DEF IInv, ClaimInv

(* Segments that fit are made of positions, and their blocks have labels.  *)
LEMMA Fits ==
  ASSUME DestSortAssumption, IInv, plan_done, nvi <= PADMAX, NEW e \in Expert
  PROVE  segment(e) \subseteq Position /\ blocks_of(e) \subseteq DOMAIN sei
<1>1. /\ erb[e] \in Nat /\ erb[e + 1] \in Nat /\ erb[E] \in Nat
      /\ erb[e + 1] <= erb[E] /\ erb[E] <= PADMAX
  BY Segments DEF IInv, PlanInv
<1>2. PADMAX \in Nat /\ erb[e + 1] <= PADMAX  BY <1>1, Constants
<1>3. segment(e) \subseteq Position  BY <1>1, <1>2 DEF segment, Position
<1>4. erb[e + 1] \div BlockM <= PADMAX \div BlockM  BY <1>1, <1>2, Constants, Blocks
<1>5. /\ erb[e] \div BlockM \in Nat /\ erb[e + 1] \div BlockM \in Nat
      /\ PADMAX \div BlockM \in Nat
  BY <1>1, <1>2, Constants, Division
<1>6. DOMAIN sei = 0 .. PADMAX \div BlockM - 1  BY DEF IInv, TypeOK
<1>7. blocks_of(e) \subseteq DOMAIN sei
  <2> SUFFICES ASSUME NEW b \in blocks_of(e) PROVE b \in DOMAIN sei
    OBVIOUS
  <2> QED BY <1>4, <1>5, <1>6 DEF blocks_of
<1> QED BY <1>3, <1>7

(* After a launch whose segments fit, the GEMM finds each pair of an expert*)
(* exactly once in the expert's segment, padding elsewhere in it, nothing  *)
(* of another launch, and the expert on each of its blocks (hkp_sort.hpp). *)
THEOREM SortExact == ASSUME DestSortAssumption PROVE Spec => []SegmentsExact
<1>1. IInv => SegmentsExact
  <2> SUFFICES ASSUME IInv, sorted, nvi <= PADMAX, NEW e \in Expert
               PROVE  /\ \A p \in segment(e) :
                           /\ sti[p].launch = launch
                           /\ sti[p].val = Padding \/ recv_eid[sti[p].val] = e
                      /\ \A j \in Pair :
                           recv_eid[j] = e =>
                             Cardinality({p \in segment(e) : sti[p] = stamp(j)}) = 1
                      /\ \A b \in blocks_of(e) : sei[b] = stamp(e)
    BY DEF SegmentsExact
  <2> USE DEF IInv
  <2>1. plan_done /\ cur[e] = erb[e] + cnt[e] /\ \A j \in of(e) : stored(j % Grid, j)
    BY AllStored
  <2>2. segment(e) \subseteq Position /\ blocks_of(e) \subseteq DOMAIN sei
    BY <2>1, Fits
  <2>3. /\ erb[e] \in Nat /\ cnt[e] \in Nat /\ erb[e + 1] \in Nat
        /\ erb[e] + cnt[e] <= erb[e + 1]
    BY <2>1, Segments
  <2>4. ASSUME NEW p \in segment(e)
        PROVE  /\ sti[p].launch = launch
               /\ sti[p].val = Padding \/ recv_eid[sti[p].val] = e
    <3>1. p \in Int /\ erb[e] <= p /\ p \in Position  BY <2>2, <2>3 DEF segment
    <3>2. CASE p < erb[e] + cnt[e]
      <4>1. row_of(e, p)  BY <2>1, <3>1, <3>2 DEF row_of
      <4>2. \A c \in Cta : pc[c] # "store"  BY DEF sorted
      <4>3. sti[p].launch = launch /\ sti[p].val \in of(e)
        BY <2>1, <3>1, <4>1, <4>2 DEF StoreInv
      <4> QED BY <4>3 DEF of
    <3>3. CASE erb[e] + cnt[e] <= p
      <4>1. PICK i \in PadIndex : inside(i) /\ pad_row(i) = p
        BY <2>1, <3>3, PadCovers
      <4>2. i % Grid \in Cta  BY <2>1, PadRow, PairType
      <4>3. ~waits(i % Grid, i)  BY <4>2 DEF sorted, waits, Late
      <4>4. sti[p] = stamp(Padding)  BY <2>1, <3>1, <4>1, <4>3 DEF FreshInv
      <4> QED BY <4>4 DEF stamp
    <3> QED BY <2>3, <3>1, <3>2, <3>3
  <2>5. ASSUME NEW j \in Pair, recv_eid[j] = e
        PROVE  Cardinality({p \in segment(e) : sti[p] = stamp(j)}) = 1
    <3>1. PICK p \in Position : sti[p] = stamp(j)
      BY <2>1, <2>5 DEF StoreInv, of
    <3>2. j # Padding
      <4>1. j \in Nat  BY <2>5, PairType
      <4> QED BY <4>1 DEF Padding
    <3>3. written(p) /\ sti[p].val = j  BY <3>1, <3>2 DEF written, stamp
    <3>4. row_of(e, p)  BY <2>1, <2>5, <3>3 DEF StoreInv
    <3>5. p \in segment(e)
      <4>1. p \in Int  BY Constants DEF Position
      <4> QED BY <2>1, <2>3, <3>4, <4>1 DEF row_of, segment
    <3>6. \A q \in segment(e) : sti[q] = stamp(j) => q = p
      BY <2>1, <2>2, <3>1, <3>3 DEF StoreInv
    <3>7. {q \in segment(e) : sti[q] = stamp(j)} = {p}  BY <3>1, <3>5, <3>6
    <3> QED BY <3>7, FS_Singleton
  <2>6. \A b \in blocks_of(e) : sei[b] = stamp(e)  BY <2>1, <2>2 DEF PlanInv
  <2> QED BY <2>4, <2>5, <2>6
<1> QED BY <1>1, IInvHolds, PTL

(* Segments that do not fit are reported by the end of the launch          *)
(* (cursors_sei), wherever their pairs fell.                               *)
THEOREM SortReports == ASSUME DestSortAssumption PROVE Spec => []OverflowReported
<1>1. IInv => OverflowReported
  <2> SUFFICES ASSUME IInv, sorted, nvi > PADMAX PROVE PadBit \in pperr
    BY DEF OverflowReported
  <2>1. plan_done  BY Constants DEF sorted, plan_done, Late
  <2> QED BY <2>1 DEF IInv, PlanInv
<1> QED BY <1>1, IInvHolds, PTL

(* No position is written twice in a launch (hkp_sort.hpp:104).            *)
THEOREM SortWritesOnce == ASSUME DestSortAssumption PROVE Spec => [][WritesOnce]_vars
<1>1. IInv /\ [Next]_vars => [WritesOnce]_vars
  <2> SUFFICES ASSUME IInv, [Next]_vars PROVE WritesOnce
    OBVIOUS
  <2> QED BY FreshWrites DEF IInv
<1> QED BY <1>1, IInvHolds, PTL DEF Spec

(* An overflow bit is raised only in a launch whose segments do not fit.   *)
THEOREM SortNoAlarm == ASSUME DestSortAssumption PROVE Spec => [][NoAlarm]_vars
<1>1. IInv /\ [Next]_vars => [NoAlarm]_vars
  <2> SUFFICES ASSUME IInv, [Next]_vars, pperr' # pperr PROVE erb[E] > PADMAX
    BY DEF NoAlarm
  <2> USE DEF IInv
  <2>0. PADMAX \in Nat /\ BlockM \in Nat \ {0}  BY Constants
  <2>1. CASE Cursors
    <3>1. pc[0] = "scan" /\ e_next = E  BY <2>1 DEF Cursors
    <3>2. launch > 0  BY <3>1, Constants DEF PlaceInv, TypeOK
    <3>3. counted /\ scanned = E  BY <3>1, <3>2 DEF counted, scanned
    <3>4. PICK e \in Expert : misfits(e)  BY <2>1 DEF Cursors
    <3>5. /\ e \in 0 .. E /\ e + 1 \in 0 .. E /\ E \in 0 .. E /\ e + 1 <= E
      BY Constants DEF Expert
    <3>6. /\ erb[e] \in Nat /\ erb[e + 1] \in Nat /\ erb[E] \in Nat
          /\ erb[e + 1] <= erb[E]
      BY <3>3, <3>5 DEF TypeOK, ScanInv
    <3> DEFINE m == PADMAX \div BlockM  t == erb[e + 1] \div BlockM
               r == PADMAX % BlockM
    <3>7. m \in Nat /\ r \in 0 .. BlockM - 1 /\ PADMAX = BlockM * m + r
      BY <2>0, Division
    <3>8. t \in Nat /\ BlockM * t <= erb[e + 1]
      <4>1. erb[e + 1] = BlockM * t  BY <3>3, <3>5 DEF ScanInv
      <4>2. t \in Nat  BY <2>0, <3>6, Division
      <4> HIDE DEF t
      <4>3. BlockM * t \in Nat  BY <2>0, <4>2
      <4> QED BY <3>6, <4>1, <4>2, <4>3
    <3>9. erb[e] \div BlockM \in Nat  BY <2>0, <3>6, Division
    <3>10. m + 1 <= t
      <4>1. PICK b \in erb[e] \div BlockM .. t - 1 : b >= m
        BY <3>4 DEF misfits, blocks_of
      <4> HIDE DEF m, t
      <4> QED BY <3>7, <3>8, <3>9, <4>1
    <3> HIDE DEF m, t, r
    <3>11. BlockM * (m + 1) <= BlockM * t  BY <2>0, <3>7, <3>8, <3>10
    <3>12. BlockM * (m + 1) = BlockM * m + BlockM /\ BlockM * m \in Nat
           /\ BlockM * t \in Nat
      BY <2>0, <3>7, <3>8
    <3> QED BY <2>0, <3>6, <3>7, <3>8, <3>11, <3>12
  <2>2. ASSUME NEW c \in Cta, pc[c] \in {"pad", "store"} PROVE plan_done
    <3>1. launch > 0  BY <2>2 DEF PlaceInv, TypeOK
    <3> QED BY <2>2, <3>1, Constants DEF plan_done, PlaceInv, Late
  <2>3. ASSUME NEW c \in Cta, Pad(c) PROVE erb[E] > PADMAX
    <3>1. PICK i : i = idx[c]  OBVIOUS
    <3>2. /\ pc[c] = "pad" /\ i \in Nat /\ i < E * BlockM /\ inside(i)
          /\ pad_row(i) >= PADMAX
      BY <2>3, <3>1 DEF Pad, inside, TypeOK
    <3>3. i \in PadIndex
      <4>1. E * BlockM \in Nat  BY Constants
      <4> QED BY <3>2, <4>1 DEF PadIndex
    <3>4. plan_done  BY <2>2, <3>2
    <3>5. PICK e : e = i \div BlockM  OBVIOUS
    <3>6. e \in Expert /\ pad_row(i) \in Nat /\ pad_row(i) < erb[e + 1]
      BY <3>2, <3>3, <3>4, <3>5, PadRow DEF inside
    <3>7. erb[e + 1] \in Nat /\ erb[E] \in Nat /\ erb[e + 1] <= erb[E]
      BY <3>4, <3>6, Segments
    <3> QED BY <2>0, <3>2, <3>6, <3>7
  <2>4. ASSUME NEW c \in Cta, Store(c) PROVE erb[E] > PADMAX
    <3>1. pc[c] = "store" /\ pos[c] \notin Position  BY <2>4 DEF Store
    <3>2. plan_done  BY <2>2, <3>1
    <3>3. pos[c] \in Nat /\ erb[E] \in Nat  BY <3>2, Segments DEF TypeOK
    <3>4. pos[c] < erb[E]  BY <3>1, <3>2, HeldRow
    <3>5. pos[c] >= PADMAX  BY <2>0, <3>1, <3>3 DEF Position
    <3> QED BY <2>0, <3>3, <3>4, <3>5
  <2>5. Launch \/ Reduce \/ AddColumn \/ EndReduce \/ Scan => UNCHANGED pperr
    BY DEF Launch, Reduce, AddColumn, EndReduce, Scan
  <2>6. \A c \in Cta : CountPartial(c) \/ CrossCount(c) \/ CrossPlan(c) \/ PadEnd(c)
                         \/ Skip(c) \/ Claim(c) \/ Exit(c) => UNCHANGED pperr
    BY DEF CountPartial, CrossCount, CrossPlan, PadEnd, Skip, Claim, Exit
  <2>7. UNCHANGED vars => UNCHANGED pperr  BY DEF vars
  <2> QED BY <2>1, <2>3, <2>4, <2>5, <2>6, <2>7 DEF Next
<1> QED BY <1>1, IInvHolds, PTL DEF Spec

=============================================================================
