-------------------------- MODULE CcoBarriersProofs --------------------------
(* Proofs about CcoBarriers: types, the separation of the barriers, and    *)
(* that the data written before one is seen after it, for every number of  *)
(* ranks and of barriers, every width of the epoch and every number of     *)
(* waits given up.                                                         *)
EXTENDS CcoBarriers, TLAPS

-----------------------------------------------------------------------------
(* The invariant.  Where a rank is, and what its epoch stands for.         *)
Place == {"closed", "open", "fence", "arrive", "wait"}
Message == {"put", "signal", "store"} \X Nat

TypeInv ==
  /\ kind \in {"lsa", "lsa_timeout", "gda"}
  /\ pc \in [Rank -> Place] /\ todo \in [Rank -> SUBSET Rank]
  /\ epoch \in [Rank -> 0 .. Word - 1] /\ state \in [Rank -> 0 .. Word - 1]
  /\ inbox \in [Rank -> [Rank -> Nat]] /\ shadow \in [Rank -> [Rank -> Nat]]
  /\ visible \in [Rank -> [Rank -> Nat]]
  /\ pending \in [Rank -> [Rank -> Seq(Message)]]
  /\ entered \in [Rank -> 0 .. MaxRound] /\ exited \in [Rank -> 0 .. MaxRound]
  /\ given_up \in [Rank -> Nat]

inside(r) == pc[r] \in {"fence", "arrive", "wait"}
PlaceInv ==
  \A r \in Rank :
    /\ entered[r] = exited[r] + IF inside(r) THEN 1 ELSE 0
    /\ IF pc[r] = "closed" THEN state[r] = exited[r] % Word
                           ELSE epoch[r] = exited[r] % Word
    /\ pc[r] = "fence" => kind # "gda"
    /\ inbox[r][r] = 0 /\ visible[r][r] = 0

(* The barriers in which r has seen p arrive.                              *)
seen(r, p) == exited[r] + IF pc[r] = "wait" /\ p \notin todo[r] THEN 1 ELSE 0

(* LSA.  How many barriers ago r stored the value v, and the barrier that  *)
(* what stands in its slot at p is of.  Slots and stores on their way are  *)
(* of barriers that p has not gone past and that r has fenced, later ones  *)
(* behind earlier ones.                                                    *)
back(r, v) == (entered[r] - v) % Word
level(r, p) == entered[r] - back(r, inbox[p][r])
told(r, p, i) == entered[r] - back(r, pending[r][p][i][2])

FencedInv ==
  \A r \in Rank : \A p \in other(r) :
    /\ visible[r][p] <= entered[r] /\ entered[r] <= visible[r][p] + 1
    /\ pc[r] # "fence" => visible[r][p] = entered[r]
SlotInv ==
  \A r \in Rank : \A p \in other(r) :
    /\ inbox[p][r] \in 0 .. Word - 1
    /\ seen(p, r) <= level(r, p) /\ level(r, p) <= visible[r][p]
StoreInv ==
  \A r \in Rank : \A p \in other(r) : \A i \in 1 .. Len(pending[r][p]) :
    /\ pending[r][p][i][1] = "store" /\ pending[r][p][i][2] \in 0 .. Word - 1
    /\ level(r, p) <= told(r, p, i) /\ told(r, p, i) <= visible[r][p]
    /\ \A j \in 1 .. i : told(r, p, j) <= told(r, p, i)

(* GDA.  The n-th request that a rank posts to a peer, and how many have   *)
(* been carried out.                                                       *)
request(n) == IF n % 2 = 1 THEN <<"put", (n + 1) \div 2>> ELSE <<"signal", 1>>
posted(r, p) == 2 * entered[r] - IF pc[r] = "arrive" /\ p \in todo[r] THEN 1 ELSE 0
carried(r, p) == posted(r, p) - Len(pending[r][p])

QueueInv ==
  \A r \in Rank : \A p \in other(r) :
    /\ 0 <= carried(r, p)
    /\ \A i \in 1 .. Len(pending[r][p]) :
         pending[r][p][i] = request(carried(r, p) + i)
    /\ inbox[p][r] = carried(r, p) \div 2
    /\ visible[r][p] = (carried(r, p) + 1) \div 2
SignalInv ==
  \A r \in Rank : \A p \in other(r) :
    shadow[r][p] = seen(r, p) /\ shadow[r][p] <= inbox[r][p]

IInv == /\ TypeInv /\ PlaceInv
        /\ IF kind = "gda" THEN QueueInv /\ SignalInv
                           ELSE FencedInv /\ SlotInv /\ StoreInv

-----------------------------------------------------------------------------
(* The remainder of an integer.                                            *)
LEMMA Remainder ==
  ASSUME NEW a \in Int, NEW d \in Nat \ {0}
  PROVE  /\ a \div d \in Int /\ a % d \in 0 .. d - 1
         /\ a = d * (a \div d) + (a % d)
OBVIOUS

(* There is but one.                                                       *)
LEMMA Unique ==
  ASSUME NEW d \in Nat \ {0}, NEW p \in Int, NEW q \in Int,
         NEW r \in 0 .. d - 1, NEW s \in 0 .. d - 1, d * q + r = d * p + s
  PROVE  q = p /\ r = s
<1>1. ASSUME p < q PROVE FALSE
  <2>1. d * p + d <= d * q
    <3>1. p + 1 <= q  BY <1>1
    <3>2. d * (p + 1) <= d * q  BY <3>1
    <3> QED BY <3>2
  <2> QED BY <2>1
<1>2. ASSUME q < p PROVE FALSE
  <2>1. d * q + d <= d * p
    <3>1. q + 1 <= p  BY <1>2
    <3>2. d * (q + 1) <= d * p  BY <3>1
    <3> QED BY <3>2
  <2> QED BY <2>1
<1> QED BY <1>1, <1>2

(* A remainder is known by its range.                                      *)
LEMMA RemainderIs ==
  ASSUME NEW d \in Nat \ {0}, NEW q \in Int, NEW r \in 0 .. d - 1
  PROVE  (d * q + r) % d = r
<1>1. d * q + r \in Int  OBVIOUS
<1> DEFINE a == d * q + r
<1>2. a \div d \in Int /\ a % d \in 0 .. d - 1 /\ a = d * (a \div d) + (a % d)
  BY <1>1, Remainder
<1> DEFINE x == a \div d  y == a % d
<1>3. d * q + r = d * x + y  BY <1>2
<1>4. x \in Int /\ y \in 0 .. d - 1 BY <1>2
<1> HIDE DEF x, y
<1>5. r = y BY <1>3, <1>4, Unique
<1> QED BY <1>5 DEF y

(* The constants, and the ranks other than one.                            *)
LEMMA Constants ==
  ASSUME CcoBarriersAssumption
  PROVE  /\ Ranks \in Nat \ {0} /\ MaxRound \in Nat /\ Word \in Nat \ {0}
         /\ Word >= 4 /\ Kinds \subseteq {"lsa", "lsa_timeout", "gda"}
         /\ \A r \in Rank : /\ other(r) \subseteq Rank
                            /\ \A p \in Rank : p \in other(r) <=> p # r
BY DEF CcoBarriersAssumption, other

(* Epochs: the one of now is no barrier back, those before are one more    *)
(* back than before, and the next epoch is that of the next barrier.       *)
LEMMA Epochs ==
  ASSUME CcoBarriersAssumption
  PROVE  /\ \A n \in Nat : /\ n % Word \in 0 .. Word - 1
                           /\ (n - (n % Word)) % Word = 0
                           /\ ((n % Word) + 1) % Word = (n + 1) % Word
         /\ \A n, v \in Nat : /\ (n - v) % Word \in 0 .. Word - 1
                              /\ ((n - v) % Word) + 1 < Word =>
                                   (n + 1 - v) % Word = ((n - v) % Word) + 1
<1>0. Word \in Nat \ {0} /\ Word >= 4  BY Constants
<1> USE <1>0
<1>1. ASSUME NEW n \in Nat
      PROVE  /\ n % Word \in 0 .. Word - 1
             /\ (n - (n % Word)) % Word = 0
             /\ ((n % Word) + 1) % Word = (n + 1) % Word
  <2> DEFINE q == n \div Word  r == n % Word
  <2>0. n \in Int  OBVIOUS
  <2>1. q \in Int /\ r \in 0 .. Word - 1 /\ n = Word * q + r
    BY <2>0, Remainder
  <2> HIDE DEF q, r
  <2>2. (n - r) % Word = 0
    <3>1. n - r = Word * q + 0  BY <2>1
    <3>2. (Word * q + 0) % Word = 0  BY <2>1, RemainderIs
    <3> QED BY <3>1, <3>2
  <2>3. (r + 1) % Word = (n + 1) % Word
    <3>1. CASE r + 1 = Word
      <4>1. q + 1 \in Int /\ n + 1 = Word * (q + 1) + 0 /\ r + 1 = Word * 1 + 0
        BY <2>1, <3>1
      <4>2. 0 \in 0 .. Word - 1  OBVIOUS
      <4>3. (Word * (q + 1) + 0) % Word = 0  BY <4>1, <4>2, RemainderIs
      <4>4. (Word * 1 + 0) % Word = 0  BY <4>2, RemainderIs
      <4> QED BY <4>1, <4>3, <4>4
    <3>2. CASE r + 1 # Word
      <4>1. /\ r + 1 \in 0 .. Word - 1 /\ n + 1 = Word * q + (r + 1)
            /\ r + 1 = Word * 0 + (r + 1)
        BY <2>1, <3>2
      <4>2. (Word * q + (r + 1)) % Word = r + 1  BY <4>1, <2>1, RemainderIs
      <4>3. (Word * 0 + (r + 1)) % Word = r + 1  BY <4>1, RemainderIs
      <4>4. (r + 1) % Word = r + 1  BY <4>1, <4>3
      <4> QED BY <4>1, <4>2, <4>4
    <3> QED BY <3>1, <3>2
  <2> QED BY <2>1, <2>2, <2>3 DEF r
<1>2. ASSUME NEW n \in Nat, NEW v \in Nat
      PROVE  /\ (n - v) % Word \in 0 .. Word - 1
             /\ ((n - v) % Word) + 1 < Word => (n + 1 - v) % Word = ((n - v) % Word) + 1
  <2> DEFINE q == (n - v) \div Word  r == (n - v) % Word
  <2>0. n - v \in Int  OBVIOUS
  <2>1. q \in Int /\ r \in 0 .. Word - 1 /\ n - v = Word * q + r
    BY <2>0, Remainder
  <2> HIDE DEF q, r
  <2>2. ASSUME r + 1 < Word PROVE (n + 1 - v) % Word = r + 1
    <3>1. r + 1 \in 0 .. Word - 1 /\ n + 1 - v = Word * q + (r + 1)
      BY <2>1, <2>2
    <3>2. (Word * q + (r + 1)) % Word = r + 1  BY <2>1, <3>1, RemainderIs
    <3> QED BY <3>1, <3>2
  <2> QED BY <2>1, <2>2 DEF r
<1> QED BY <1>1, <1>2

(* waitInternal is not taken in by the arrival at the barrier just passed. *)
LEMMA Ahead ==
  ASSUME CcoBarriersAssumption, NEW n \in Nat, NEW v \in Nat, NEW e \in Nat,
         n - ((n - v) % Word) = e
  PROVE  ~((v - ((e + 1) % Word)) % Word < Word \div 2)
<1>0. Word \in Nat \ {0} /\ Word >= 4  BY Constants
<1> USE <1>0
<1> DEFINE q == (n - v) \div Word  b == (n - v) % Word
           p == (e + 1) \div Word  c == (e + 1) % Word
<1>1. q \in Int /\ b \in 0 .. Word - 1 /\ n - v = Word * q + b
  <2>1. n - v \in Int  OBVIOUS
  <2> QED BY <2>1, Remainder
<1>2. p \in Int /\ c \in 0 .. Word - 1 /\ e + 1 = Word * p + c
  <2>1. e + 1 \in Int  OBVIOUS
  <2> QED BY <2>1, Remainder
<1>3. n - b = e  OBVIOUS
<1> HIDE DEF q, b, p, c
<1>4. v - c = Word * (p - q - 1) + (Word - 1)
  <2>0. Word * q \in Int /\ Word * p \in Int  BY <1>1, <1>2
  <2>1. v = e - Word * q /\ c = e + 1 - Word * p  BY <1>1, <1>2, <1>3, <2>0
  <2>2. v - c = Word * p - Word * q - 1  BY <2>0, <2>1
  <2>3. Word * (p - q - 1) = Word * p - Word * q - Word  BY <1>1, <1>2
  <2> QED BY <2>2, <2>3, <1>1, <1>2
<1>5. (Word * (p - q - 1) + (Word - 1)) % Word = Word - 1
  <2>1. p - q - 1 \in Int /\ Word - 1 \in 0 .. Word - 1  BY <1>1, <1>2
  <2> QED BY <2>1, RemainderIs
<1>6. (v - c) % Word = Word - 1  BY <1>4, <1>5
<1>7. ~(Word - 1 < Word \div 2)  OBVIOUS
<1> QED BY <1>6, <1>7 DEF c

-----------------------------------------------------------------------------
(* Facts of the types that the steps below keep needing.                   *)
LEMMA Types ==
  ASSUME CcoBarriersAssumption, TypeInv, NEW r \in Rank
  PROVE  /\ pc[r] \in Place /\ todo[r] \subseteq Rank
         /\ epoch[r] \in 0 .. Word - 1 /\ state[r] \in 0 .. Word - 1
         /\ entered[r] \in Nat /\ exited[r] \in Nat
         /\ entered[r] <= MaxRound /\ exited[r] <= MaxRound
         /\ \A p \in Rank : /\ inbox[p][r] \in Nat /\ shadow[p][r] \in Nat
                            /\ visible[r][p] \in Nat /\ visible[p][r] \in Nat
                            /\ inbox[r][p] \in Nat /\ shadow[r][p] \in Nat
                            /\ pending[r][p] \in Seq(Message)
                            /\ Len(pending[r][p]) \in Nat
                            /\ \A i \in 1 .. Len(pending[r][p]) :
                                 /\ pending[r][p][i] \in Message
                                 /\ pending[r][p][i][2] \in Nat
                            /\ seen(r, p) \in Nat
<1>1. /\ pc[r] \in Place /\ todo[r] \subseteq Rank
      /\ epoch[r] \in 0 .. Word - 1 /\ state[r] \in 0 .. Word - 1
      /\ entered[r] \in Nat /\ exited[r] \in Nat
      /\ entered[r] <= MaxRound /\ exited[r] <= MaxRound
  BY Constants DEF TypeInv
<1>2. ASSUME NEW p \in Rank
      PROVE  /\ inbox[p][r] \in Nat /\ shadow[p][r] \in Nat
             /\ visible[r][p] \in Nat /\ visible[p][r] \in Nat
             /\ inbox[r][p] \in Nat /\ shadow[r][p] \in Nat
             /\ pending[r][p] \in Seq(Message) /\ Len(pending[r][p]) \in Nat
             /\ \A i \in 1 .. Len(pending[r][p]) :
                  pending[r][p][i] \in Message /\ pending[r][p][i][2] \in Nat
             /\ seen(r, p) \in Nat
  <2>1. pending[r][p] \in Seq(Message)  BY DEF TypeInv
  <2>2. Len(pending[r][p]) \in Nat  BY <2>1
  <2>3. ASSUME NEW i \in 1 .. Len(pending[r][p])
        PROVE  pending[r][p][i] \in Message /\ pending[r][p][i][2] \in Nat
    <3>1. pending[r][p][i] \in Message  BY <2>1, <2>3
    <3>2. \A m \in Message : m[2] \in Nat  BY DEF Message
    <3> QED BY <3>1, <3>2
  <2>4. seen(r, p) \in Nat  BY <1>1 DEF seen
  <2>5. inbox[p][r] \in Nat /\ shadow[p][r] \in Nat
        /\ visible[r][p] \in Nat /\ visible[p][r] \in Nat
        /\ inbox[r][p] \in Nat /\ shadow[r][p] \in Nat
    BY DEF TypeInv
  <2> QED BY <2>1, <2>2, <2>3, <2>4, <2>5
<1> QED BY <1>1, <1>2

(* One entry of a table of the ranks is replaced.                          *)
LEMMA Entry ==
  ASSUME NEW S, NEW f \in [Rank -> [Rank -> S]], NEW r \in Rank, NEW p \in Rank,
         NEW v \in S
  PROVE  /\ [f EXCEPT ![r][p] = v] \in [Rank -> [Rank -> S]]
         /\ [f EXCEPT ![r][p] = v][r][p] = v
         /\ \A a, b \in Rank : (a # r \/ b # p) =>
              [f EXCEPT ![r][p] = v][a][b] = f[a][b]
OBVIOUS

LsaInv == FencedInv /\ SlotInv /\ StoreInv
GdaInv == QueueInv /\ SignalInv

(* LSA: nobody is more than two barriers ahead of what a peer has passed,  *)
(* so that no value is more than two barriers back.                        *)
LEMMA Window ==
  ASSUME CcoBarriersAssumption, TypeInv, PlaceInv, LsaInv,
         NEW r \in Rank, NEW p \in other(r)
  PROVE  /\ exited[r] <= entered[p] /\ entered[r] <= exited[p] + 2
         /\ back(r, inbox[p][r]) \in 0 .. 2
         /\ \A i \in 1 .. Len(pending[r][p]) : back(r, pending[r][p][i][2]) \in 0 .. 2
<1>0. p \in Rank /\ p # r /\ r \in other(p)  BY Constants
<1>1. /\ entered[r] \in Nat /\ exited[r] \in Nat /\ entered[p] \in Nat
      /\ exited[p] \in Nat /\ inbox[p][r] \in Nat /\ inbox[r][p] \in Nat
      /\ \A i \in 1 .. Len(pending[r][p]) : pending[r][p][i][2] \in Nat
  BY <1>0, Types
<1>2. /\ back(r, inbox[p][r]) \in Nat /\ back(p, inbox[r][p]) \in Nat
      /\ \A i \in 1 .. Len(pending[r][p]) : back(r, pending[r][p][i][2]) \in Nat
  <2>1. Word \in Nat \ {0}  BY Constants
  <2>2. ASSUME NEW n \in Nat, NEW v \in Nat PROVE (n - v) % Word \in Nat
    <3>1. (n - v) % Word \in 0 .. Word - 1  BY Epochs
    <3> QED BY <2>1, <3>1
  <2> QED BY <1>1, <2>2 DEF back
<1>3. seen(r, p) <= level(p, r) /\ seen(p, r) <= level(r, p)
  BY <1>0 DEF LsaInv, SlotInv
<1>4. exited[r] <= seen(r, p) /\ exited[p] <= seen(p, r)
      /\ seen(r, p) \in Nat /\ seen(p, r) \in Nat
  BY <1>1 DEF seen
<1>5. exited[r] <= entered[p]
  BY <1>1, <1>2, <1>3, <1>4 DEF level
<1>6. entered[r] <= exited[r] + 1 /\ entered[p] <= exited[p] + 1
  BY <1>0, <1>1 DEF PlaceInv
<1>7. back(r, inbox[p][r]) <= 2
  BY <1>1, <1>2, <1>3, <1>4, <1>5, <1>6 DEF level
<1>8. ASSUME NEW i \in 1 .. Len(pending[r][p])
      PROVE  back(r, pending[r][p][i][2]) \in 0 .. 2
  <2>1. level(r, p) <= told(r, p, i)  BY <1>0, <1>8 DEF LsaInv, StoreInv
  <2>2. back(r, pending[r][p][i][2]) \in Nat  BY <1>2, <1>8
  <2>3. entered[r] - back(r, inbox[p][r]) <= entered[r] - back(r, pending[r][p][i][2])
    BY <2>1 DEF level, told
  <2>4. back(r, pending[r][p][i][2]) <= back(r, inbox[p][r])
    BY <2>2, <2>3, <1>1, <1>2
  <2> QED BY <1>2, <1>7, <2>2, <2>4
<1>9. entered[r] <= exited[p] + 2  BY <1>1, <1>5, <1>6
<1>10. back(r, inbox[p][r]) \in 0 .. 2  BY <1>2, <1>7
<1> QED BY <1>5, <1>8, <1>9, <1>10

-----------------------------------------------------------------------------
(* Most steps leave the slots, the signals, what is posted and the data as *)
(* they are.                                                               *)
Same == UNCHANGED <<kind, inbox, pending, visible, entered>>

(* Then the invariant of LSA is kept when no peer is told of a barrier     *)
(* that has not come to it, and who is past the fence has fenced.          *)
LEMMA LsaStill ==
  ASSUME LsaInv, Same,
         \A r \in Rank : \A p \in other(r) :
           /\ seen(p, r)' <= level(r, p)
           /\ pc'[r] # "fence" => visible[r][p] = entered[r]
  PROVE  LsaInv'
<1>1. FencedInv'  BY DEF LsaInv, FencedInv, Same
<1>2. ASSUME NEW r \in Rank, NEW p \in Rank
      PROVE  level(r, p)' = level(r, p) /\ \A i : told(r, p, i)' = told(r, p, i)
  BY DEF level, told, back, Same
<1>3. SlotInv'
  <2> SUFFICES ASSUME NEW r \in Rank, NEW p \in other(r)
               PROVE  /\ inbox'[p][r] \in 0 .. Word - 1
                      /\ seen(p, r)' <= level(r, p)' /\ level(r, p)' <= visible'[r][p]
    BY DEF SlotInv, other
  <2>1. p \in Rank  BY DEF other
  <2> QED BY <1>2, <2>1 DEF LsaInv, SlotInv, Same
<1>4. StoreInv'
  <2> SUFFICES ASSUME NEW r \in Rank, NEW p \in other(r),
                      NEW i \in 1 .. Len(pending[r][p])
               PROVE  /\ pending[r][p][i][1] = "store"
                      /\ pending[r][p][i][2] \in 0 .. Word - 1
                      /\ level(r, p)' <= told(r, p, i)' /\ told(r, p, i)' <= visible[r][p]
                      /\ \A j \in 1 .. i : told(r, p, j)' <= told(r, p, i)'
    BY DEF StoreInv, other, Same
  <2>1. p \in Rank  BY DEF other
  <2> QED BY <1>2, <2>1 DEF LsaInv, StoreInv
<1> QED BY <1>1, <1>3, <1>4 DEF LsaInv

(* That of GDA, when the shadows too stay.                                 *)
LEMMA GdaStill ==
  ASSUME GdaInv, Same, shadow' = shadow,
         \A r \in Rank : \A p \in other(r) :
           seen(r, p)' = seen(r, p) /\ posted(r, p)' = posted(r, p)
  PROVE  GdaInv'
<1>1. ASSUME NEW r \in Rank, NEW p \in other(r)
      PROVE  carried(r, p)' = carried(r, p)
  BY DEF carried, Same
<1>2. QueueInv'
  BY <1>1 DEF GdaInv, QueueInv, Same, other
<1>3. SignalInv'
  BY DEF GdaInv, SignalInv, Same, other
<1> QED BY <1>2, <1>3 DEF GdaInv

-----------------------------------------------------------------------------
(* The types, and where a rank is, through every step.                     *)
LEMMA OpenPlace ==
  ASSUME CcoBarriersAssumption, TypeInv, PlaceInv, NEW r \in Rank, Open(r)
  PROVE  TypeInv' /\ PlaceInv'
<1>1. TypeInv'  BY DEF TypeInv, Open, goto, Place
<1>2. PlaceInv'  BY DEF TypeInv, PlaceInv, inside, Open, goto
<1> QED BY <1>1, <1>2

(* The same of Close.                                                      *)
LEMMA ClosePlace ==
  ASSUME CcoBarriersAssumption, TypeInv, PlaceInv, NEW r \in Rank, Close(r)
  PROVE  TypeInv' /\ PlaceInv'
<1>0. Word \in Nat \ {0}  BY Constants
<1>1. TypeInv'
  <2>1. epoch' \in [Rank -> 0 .. Word - 1]  BY <1>0 DEF TypeInv, Close
  <2>2. state' \in [Rank -> 0 .. Word - 1]  BY DEF TypeInv, Close, kept
  <2>3. pc' \in [Rank -> Place]  BY DEF TypeInv, Close, goto, Place
  <2> QED BY <2>1, <2>2, <2>3 DEF TypeInv, Close
<1>2. PlaceInv'  BY DEF TypeInv, PlaceInv, inside, Close, kept, goto
<1> QED BY <1>1, <1>2

(* The same of Enter.                                                      *)
LEMMA EnterPlace ==
  ASSUME CcoBarriersAssumption, TypeInv, PlaceInv, NEW r \in Rank, Enter(r)
  PROVE  TypeInv' /\ PlaceInv'
<1>0. MaxRound \in Nat /\ other(r) \subseteq Rank  BY Constants
<1>1. entered[r] + 1 \in 0 .. MaxRound /\ entered[r] + 1 \in Nat
  <2>1. entered[r] \in 0 .. MaxRound /\ entered[r] < MaxRound
    BY DEF TypeInv, Enter
  <2> QED BY <1>0, <2>1
<1>2. entered' \in [Rank -> 0 .. MaxRound] /\ entered'[r] = entered[r] + 1
  BY <1>1 DEF TypeInv, Enter
<1>3. pending' \in [Rank -> [Rank -> Seq(Message)]]
  <2>1. CASE kind = "gda"
    <3>1. <<"put", entered'[r]>> \in Message  BY <1>1, <1>2 DEF Message
    <3>2. ASSUME NEW p \in Rank
          PROVE  (IF p = r THEN <<>> ELSE Append(pending[r][p], <<"put", entered'[r]>>))
                   \in Seq(Message)
      BY <3>1, <3>2 DEF TypeInv
    <3>3. [p \in Rank |-> IF p = r THEN <<>>
                                   ELSE Append(pending[r][p], <<"put", entered'[r]>>)]
            \in [Rank -> Seq(Message)]
      BY <3>2
    <3> QED BY <2>1, <3>3 DEF TypeInv, Enter
  <2>2. CASE kind # "gda"  BY <2>2 DEF TypeInv, Enter
  <2> QED BY <2>1, <2>2
<1>4. pc' \in [Rank -> Place] /\ pc' = [pc EXCEPT ![r] = IF kind = "gda" THEN "arrive" ELSE "fence"]
  BY DEF TypeInv, Enter, goto, Place
<1>5. TypeInv'  BY <1>0, <1>2, <1>3, <1>4 DEF TypeInv, Enter
<1>6. PlaceInv'
  <2> SUFFICES ASSUME NEW q \in Rank
               PROVE  (/\ entered[q] = exited[q] + IF inside(q) THEN 1 ELSE 0
                       /\ IF pc[q] = "closed" THEN state[q] = exited[q] % Word
                                              ELSE epoch[q] = exited[q] % Word
                       /\ pc[q] = "fence" => kind # "gda"
                       /\ inbox[q][q] = 0 /\ visible[q][q] = 0)'
    BY DEF PlaceInv
  <2>0. UNCHANGED <<kind, epoch, state, inbox, visible, exited>>  BY DEF Enter
  <2>1. CASE q = r
    <3>1. pc[r] = "open" /\ entered[r] = exited[r] + 0 /\ epoch[r] = exited[r] % Word
          /\ inbox[r][r] = 0 /\ visible[r][r] = 0
      BY DEF Enter, PlaceInv, inside
    <3>2. exited[r] \in Nat  BY Types
    <3>3. pc'[r] = IF kind = "gda" THEN "arrive" ELSE "fence"  BY <1>4 DEF TypeInv
    <3>4. entered'[r] = exited[r] + 1  BY <1>2, <3>1, <3>2
    <3> QED BY <2>0, <2>1, <3>1, <3>3, <3>4 DEF inside
  <2>2. CASE q # r
    <3>1. pc'[q] = pc[q] /\ entered'[q] = entered[q]  BY <2>2, <1>4 DEF Enter, TypeInv
    <3> QED BY <2>0, <3>1 DEF PlaceInv, inside
  <2> QED BY <2>1, <2>2
<1> QED BY <1>5, <1>6

(* The same of the steps that only move a rank to its next place.          *)
LEMMA MovePlace ==
  ASSUME CcoBarriersAssumption, TypeInv, PlaceInv, NEW r \in Rank,
         Fence(r) \/ Arrived(r) \/ TimeOut(r)
  PROVE  TypeInv' /\ PlaceInv'
<1>0. other(r) \subseteq Rank  BY Constants
<1>1. TypeInv'
  <2>1. CASE Fence(r)  BY <2>1 DEF TypeInv, Fence, goto, Place
  <2>2. CASE Arrived(r)
    <3>1. pc' \in [Rank -> Place]  BY <2>2 DEF TypeInv, Arrived, goto, Place
    <3>2. todo' \in [Rank -> SUBSET Rank]  BY <1>0, <2>2 DEF TypeInv, Arrived
    <3> QED BY <2>2, <3>1, <3>2 DEF TypeInv, Arrived
  <2>3. CASE TimeOut(r)
    <3>1. pc' \in [Rank -> Place]  BY <2>3 DEF TypeInv, TimeOut, goto, Place
    <3>2. todo' \in [Rank -> SUBSET Rank]  BY <1>0, <2>3 DEF TypeInv, TimeOut
    <3>3. given_up' \in [Rank -> Nat]
      <4>1. given_up \in [Rank -> Nat]  BY DEF TypeInv
      <4>2. given_up[r] \in Nat /\ given_up[r] + 1 \in Nat  BY <4>1
      <4>3. given_up' = [given_up EXCEPT ![r] = given_up[r] + 1]  BY <2>3 DEF TimeOut
      <4> QED BY <4>1, <4>2, <4>3
    <3> QED BY <2>3, <3>1, <3>2, <3>3 DEF TypeInv, TimeOut
  <2> QED BY <2>1, <2>2, <2>3
<1>2. /\ \E l \in {"fence", "arrive", "wait"} : pc' = [pc EXCEPT ![r] = l]
      /\ pc'[r] = "fence" => kind # "gda"
      /\ inside(r)
  BY DEF TypeInv, inside, Fence, Arrived, TimeOut, goto
<1>3. UNCHANGED <<kind, epoch, state, inbox, visible, entered, exited>>
  BY DEF Fence, Arrived, TimeOut
<1>4. PlaceInv'  BY <1>2, <1>3 DEF TypeInv, PlaceInv, inside
<1> QED BY <1>1, <1>4

(* The same of Arrive, Take and Land.                                      *)
LEMMA PeerPlace ==
  ASSUME CcoBarriersAssumption, TypeInv, PlaceInv, NEW r \in Rank,
         NEW p \in other(r), Arrive(r, p) \/ Take(r, p) \/ Land(r, p)
  PROVE  TypeInv' /\ PlaceInv'
<1>0. p \in Rank /\ p # r /\ Word \in Nat \ {0}  BY Constants
<1>1. TypeInv'
  <2>1. CASE Arrive(r, p)
    <3>1. next_epoch(r) \in Nat
      <4>1. epoch[r] + 1 \in Int  BY <1>0 DEF TypeInv
      <4>2. (epoch[r] + 1) % Word \in 0 .. Word - 1  BY <4>1, <1>0, Remainder
      <4> QED BY <1>0, <4>2 DEF next_epoch
    <3>2. <<"store", next_epoch(r)>> \in Message /\ <<"signal", 1>> \in Message
      BY <3>1 DEF Message
    <3>3. ASSUME NEW m \in Message
          PROVE  [pending EXCEPT ![r][p] = Append(@, m)] \in [Rank -> [Rank -> Seq(Message)]]
      <4>1. pending \in [Rank -> [Rank -> Seq(Message)]]
            /\ Append(pending[r][p], m) \in Seq(Message)
        BY <1>0 DEF TypeInv
      <4>2. [pending EXCEPT ![r][p] = Append(pending[r][p], m)]
              \in [Rank -> [Rank -> Seq(Message)]]
        BY <1>0, <4>1, Entry
      <4> QED BY <4>2
    <3>4. \/ pending' = pending
          \/ \E m \in Message : pending' = [pending EXCEPT ![r][p] = Append(@, m)]
      BY <2>1, <3>2 DEF Arrive, post
    <3>5. pending' \in [Rank -> [Rank -> Seq(Message)]]
      <4>1. CASE pending' = pending  BY <4>1 DEF TypeInv
      <4>2. CASE \E m \in Message : pending' = [pending EXCEPT ![r][p] = Append(@, m)]
        BY <4>2, <3>3
      <4> QED BY <3>4, <4>1, <4>2
    <3> QED BY <1>0, <2>1, <3>5 DEF TypeInv, Arrive
  <2>2. CASE Take(r, p)
    <3>0. shadow \in [Rank -> [Rank -> Nat]]  BY DEF TypeInv
    <3>1. shadow[r][p] \in Nat /\ shadow[r][p] + 1 \in Nat  BY <1>0, <3>0
    <3>2. [shadow EXCEPT ![r][p] = shadow[r][p] + 1] \in [Rank -> [Rank -> Nat]]
      BY <1>0, <3>0, <3>1, Entry
    <3>3. shadow' \in [Rank -> [Rank -> Nat]]  BY <2>2, <3>0, <3>2 DEF Take
    <3> QED BY <1>0, <2>2, <3>3 DEF TypeInv, Take
  <2>3. CASE Land(r, p)
    <3>1. entered[r] \in Nat  BY Types
    <3>2. visible' \in [Rank -> [Rank -> Nat]]  BY <1>0, <2>3, <3>1 DEF TypeInv, Land
    <3> QED BY <2>3, <3>2 DEF TypeInv, Land
  <2> QED BY <2>1, <2>2, <2>3
<1>2. UNCHANGED <<kind, pc, epoch, state, inbox, entered, exited>>
  BY DEF Arrive, Take, Land
<1>3. \A q \in Rank : visible'[q][q] = visible[q][q]
  <2>1. visible' = visible \/ visible' = [visible EXCEPT ![r][p] = entered[r]]
    BY DEF Arrive, Take, Land
  <2>2. visible \in [Rank -> [Rank -> Nat]]  BY DEF TypeInv
  <2>3. ASSUME NEW q \in Rank, NEW v
        PROVE  [visible EXCEPT ![r][p] = v][q][q] = visible[q][q]
    BY <1>0, <2>2
  <2> QED BY <2>1, <2>3
<1>4. PlaceInv'  BY <1>2, <1>3 DEF PlaceInv, inside
<1> QED BY <1>1, <1>4

(* The same of Pass.                                                       *)
LEMMA PassPlace ==
  ASSUME CcoBarriersAssumption, TypeInv, PlaceInv, NEW r \in Rank, Pass(r)
  PROVE  TypeInv' /\ PlaceInv'
<1>0. Word \in Nat \ {0} /\ MaxRound \in Nat  BY Constants
<1>1. entered[r] = exited[r] + 1 /\ epoch[r] = exited[r] % Word
  BY DEF PlaceInv, inside, Pass
<1>2. exited[r] \in Nat /\ exited[r] + 1 \in 0 .. MaxRound
  BY <1>0, <1>1 DEF TypeInv
<1>3. next_epoch(r) = (exited[r] + 1) % Word /\ next_epoch(r) \in 0 .. Word - 1
  <2>1. exited[r] + 1 \in Nat  BY <1>2
  <2> QED BY <1>1, <1>2, <2>1, Epochs DEF next_epoch
<1>4. TypeInv'  BY <1>2, <1>3 DEF TypeInv, Pass, goto, Place
<1>5. PlaceInv'
  <2> SUFFICES ASSUME NEW q \in Rank
               PROVE  (/\ entered[q] = exited[q] + IF inside(q) THEN 1 ELSE 0
                       /\ IF pc[q] = "closed" THEN state[q] = exited[q] % Word
                                              ELSE epoch[q] = exited[q] % Word
                       /\ pc[q] = "fence" => kind # "gda"
                       /\ inbox[q][q] = 0 /\ visible[q][q] = 0)'
    BY DEF PlaceInv
  <2>1. CASE q = r
    <3>1. pc'[r] = "open" /\ exited'[r] = exited[r] + 1 /\ epoch'[r] = next_epoch(r)
          /\ entered' = entered /\ inbox' = inbox /\ visible' = visible
      BY DEF Pass, goto, TypeInv
    <3>2. inbox[r][r] = 0 /\ visible[r][r] = 0  BY DEF PlaceInv
    <3> QED BY <1>1, <1>2, <1>3, <2>1, <3>1, <3>2 DEF inside
  <2>2. CASE q # r
    <3>1. pc'[q] = pc[q] /\ exited'[q] = exited[q] /\ epoch'[q] = epoch[q]
          /\ UNCHANGED <<entered, inbox, visible, state, kind>>
      BY <2>2 DEF Pass, goto, TypeInv
    <3> QED BY <3>1 DEF PlaceInv, inside
  <2> QED BY <2>1, <2>2
<1> QED BY <1>4, <1>5

(* The same of Deliver.                                                    *)
LEMMA DeliverPlace ==
  ASSUME CcoBarriersAssumption, TypeInv, PlaceInv, NEW r \in Rank,
         NEW p \in other(r), Deliver(r, p)
  PROVE  TypeInv' /\ PlaceInv'
<1>0. p \in Rank /\ p # r  BY Constants
<1>1. pending[r][p] \in Seq(Message) /\ pending[r][p] # <<>>
  BY <1>0 DEF TypeInv, Deliver
<1>2. Head(pending[r][p]) \in Message /\ Tail(pending[r][p]) \in Seq(Message)
  BY <1>1
<1> DEFINE m == Head(pending[r][p])
<1>3. m[2] \in Nat  BY <1>2 DEF Message
<1>4. /\ inbox' = IF m[1] = "put" THEN inbox
                 ELSE [inbox EXCEPT ![p][r] = IF m[1] = "signal" THEN @ + 1 ELSE m[2]]
      /\ visible' = IF m[1] = "put" THEN [visible EXCEPT ![r][p] = m[2]] ELSE visible
      /\ pending' = [pending EXCEPT ![r][p] = Tail(@)]
      /\ UNCHANGED <<kind, pc, todo, epoch, state, shadow, entered, exited, given_up>>
  BY DEF Deliver
<1> HIDE DEF m
<1>5. inbox' \in [Rank -> [Rank -> Nat]]
  <2>0. inbox \in [Rank -> [Rank -> Nat]]  BY DEF TypeInv
  <2>1. inbox[p][r] \in Nat /\ inbox[p][r] + 1 \in Nat  BY <1>0, <2>0
  <2>2. \A n \in Nat : [inbox EXCEPT ![p][r] = n] \in [Rank -> [Rank -> Nat]]
    BY <1>0, <2>0, Entry
  <2>3. \/ inbox' = inbox \/ inbox' = [inbox EXCEPT ![p][r] = inbox[p][r] + 1]
        \/ inbox' = [inbox EXCEPT ![p][r] = m[2]]
    BY <1>4
  <2> QED BY <1>3, <2>0, <2>1, <2>2, <2>3
<1>6. visible' \in [Rank -> [Rank -> Nat]]  BY <1>0, <1>3, <1>4 DEF TypeInv
<1>7. pending' \in [Rank -> [Rank -> Seq(Message)]]  BY <1>0, <1>2, <1>4 DEF TypeInv
<1>8. TypeInv'  BY <1>4, <1>5, <1>6, <1>7 DEF TypeInv
<1>9. \A q \in Rank : inbox'[q][q] = inbox[q][q] /\ visible'[q][q] = visible[q][q]
  BY <1>0, <1>4 DEF TypeInv
<1>10. PlaceInv'  BY <1>4, <1>9 DEF PlaceInv, inside
<1> QED BY <1>8, <1>10

-----------------------------------------------------------------------------
(* Opening and closing leave where the other ranks are, and nobody waits.  *)
LEMMA SessionSteps ==
  ASSUME CcoBarriersAssumption, TypeInv, PlaceInv, NEW r \in Rank,
         Open(r) \/ Close(r)
  PROVE  (LsaInv => LsaInv') /\ (GdaInv => GdaInv')
<1>1. Same /\ shadow' = shadow /\ todo' = todo /\ exited' = exited
  BY DEF Open, Close, Same
<1>2. /\ pc[r] \in {"closed", "open"} /\ pc'[r] \in {"closed", "open"}
      /\ \A q \in Rank : q # r => pc'[q] = pc[q]
  BY DEF Open, Close, goto, TypeInv
<1>3. ASSUME NEW q \in Rank, NEW p \in Rank
      PROVE  seen(q, p)' = seen(q, p) /\ posted(q, p)' = posted(q, p)
  <2>1. CASE q = r  BY <1>1, <1>2, <2>1 DEF seen, posted, Same
  <2>2. CASE q # r  BY <1>1, <1>2, <2>2 DEF seen, posted, Same
  <2> QED BY <2>1, <2>2
<1>4. ASSUME LsaInv PROVE LsaInv'
  <2> SUFFICES ASSUME NEW q \in Rank, NEW p \in other(q)
               PROVE  /\ seen(p, q)' <= level(q, p)
                      /\ pc'[q] # "fence" => visible[q][p] = entered[q]
    BY <1>1, <1>4, LsaStill
  <2>1. p \in Rank  BY DEF other
  <2>2. pc'[q] # "fence" => pc[q] # "fence"  BY <1>2
  <2> QED BY <1>3, <1>4, <2>1, <2>2 DEF LsaInv, FencedInv, SlotInv
<1>5. ASSUME GdaInv PROVE GdaInv'
  BY <1>1, <1>3, <1>5, GdaStill DEF other
<1> QED BY <1>4, <1>5

(* Fence, the end of the arrivals, Pass and the end of a wait.             *)
LEMMA MoveSteps ==
  ASSUME CcoBarriersAssumption, TypeInv, PlaceInv, NEW r \in Rank,
         Fence(r) \/ Arrived(r) \/ Pass(r) \/ TimeOut(r)
  PROVE  (kind # "gda" /\ LsaInv => LsaInv') /\ (kind = "gda" /\ GdaInv => GdaInv')
<1>1. Same /\ shadow' = shadow  BY DEF Fence, Arrived, Pass, TimeOut, Same
<1>2. \A q \in Rank : q # r => /\ pc'[q] = pc[q] /\ todo'[q] = todo[q]
                               /\ exited'[q] = exited[q]
  BY DEF Fence, Arrived, Pass, TimeOut, goto, TypeInv
<1>3. exited[r] \in Nat /\ todo[r] \subseteq Rank  BY Types
<1>4. \/ /\ pc[r] = "fence" /\ pc'[r] = "arrive" /\ Fence(r) /\ exited'[r] = exited[r]
      \/ /\ pc[r] = "arrive" /\ pc'[r] = "wait" /\ exited'[r] = exited[r]
         /\ todo[r] = {} /\ todo'[r] = other(r)
      \/ /\ pc[r] = "wait" /\ pc'[r] = "open" /\ exited'[r] = exited[r] + 1
         /\ todo[r] = {}
      \/ /\ pc[r] = "wait" /\ pc'[r] = "fence" /\ exited'[r] = exited[r]
         /\ kind # "gda"
  BY DEF Fence, Arrived, Pass, TimeOut, goto, TypeInv
<1>5. ASSUME NEW p \in other(r)
      PROVE  /\ seen(r, p)' <= seen(r, p)
             /\ kind = "gda" => (seen(r, p)' = seen(r, p) /\ posted(r, p)' = posted(r, p))
  <2>0. entered'[r] = entered[r]  BY <1>1 DEF Same
  <2>1. CASE pc[r] = "fence" /\ Fence(r)
    <3>1. kind # "gda"  BY <2>1 DEF PlaceInv
    <3> QED BY <1>3, <1>4, <2>1, <3>1 DEF seen
  <2>2. CASE pc[r] = "arrive"  BY <1>3, <1>4, <1>5, <2>0, <2>2 DEF seen, posted
  <2>3. CASE pc[r] = "wait" /\ pc'[r] = "open"
    BY <1>3, <1>4, <1>5, <2>0, <2>3 DEF seen, posted
  <2>4. CASE pc[r] = "wait" /\ pc'[r] = "fence"
    BY <1>3, <1>4, <1>5, <2>4 DEF seen
  <2> QED BY <1>4, <2>1, <2>2, <2>3, <2>4
<1>6. ASSUME NEW q \in Rank, NEW p \in other(q), q # r
      PROVE  seen(q, p)' = seen(q, p) /\ posted(q, p)' = posted(q, p)
  BY <1>1, <1>2, <1>6 DEF seen, posted, Same
<1>7. ASSUME kind # "gda", LsaInv PROVE LsaInv'
  <2>1. ASSUME NEW q \in Rank, NEW p \in other(q)
        PROVE  seen(p, q)' <= level(q, p)
    <3>1. p \in Rank /\ q \in other(p)  BY DEF other
    <3>2. seen(p, q)' <= seen(p, q)
      <4>1. CASE p = r  BY <1>5, <3>1, <4>1
      <4>2. CASE p # r
        <5>1. seen(p, q) \in Nat  BY <3>1, Types
        <5> QED BY <1>6, <3>1, <4>2, <5>1
      <4> QED BY <4>1, <4>2
    <3>3. seen(p, q) <= level(q, p)  BY <1>7 DEF LsaInv, SlotInv
    <3>4. seen(p, q) \in Nat  BY <3>1, Types
    <3>5. seen(p, q)' \in Nat
      <4>1. exited'[p] \in Nat
        <5>1. exited[p] \in Nat  BY <3>1, Types
        <5> QED BY <1>2, <1>4, <3>1, <5>1
      <4> QED BY <4>1 DEF seen
    <3>6. level(q, p) \in Int
      <4>1. entered[q] \in Nat /\ inbox[p][q] \in Nat  BY <3>1, Types
      <4>2. Word \in Nat \ {0}  BY Constants
      <4>3. (entered[q] - inbox[p][q]) % Word \in 0 .. Word - 1  BY <4>1, Epochs
      <4> QED BY <4>1, <4>2, <4>3 DEF level, back
    <3> QED BY <3>2, <3>3, <3>4, <3>5, <3>6
  <2>2. ASSUME NEW q \in Rank, NEW p \in other(q), pc'[q] # "fence"
        PROVE  visible[q][p] = entered[q]
    <3>1. CASE q = r /\ Fence(r)  BY <3>1 DEF Fence, fenced
    <3>2. CASE pc[q] # "fence"  BY <1>7, <3>2 DEF LsaInv, FencedInv
    <3> QED BY <1>2, <1>4, <2>2, <3>1, <3>2
  <2> QED BY <1>1, <1>7, <2>1, <2>2, LsaStill
<1>8. ASSUME kind = "gda", GdaInv PROVE GdaInv'
  <2>1. ASSUME NEW q \in Rank, NEW p \in other(q)
        PROVE  seen(q, p)' = seen(q, p) /\ posted(q, p)' = posted(q, p)
    BY <1>5, <1>6, <1>8
  <2> QED BY <1>1, <1>8, <2>1, GdaStill
<1> QED BY <1>7, <1>8

-----------------------------------------------------------------------------
(* Enter.  LSA: every value is one barrier further back.                   *)
LEMMA EnterLsa ==
  ASSUME CcoBarriersAssumption, TypeInv, PlaceInv, LsaInv, NEW r \in Rank,
         Enter(r), kind # "gda"
  PROVE  LsaInv'
<1>0. Word \in Nat \ {0} /\ Word >= 4  BY Constants
<1>1. /\ UNCHANGED <<kind, inbox, pending, visible, exited>>
      /\ pc[r] = "open" /\ pc'[r] = "fence" /\ entered'[r] = entered[r] + 1
      /\ \A q \in Rank : q # r => /\ pc'[q] = pc[q] /\ todo'[q] = todo[q]
                                  /\ entered'[q] = entered[q]
  BY DEF Enter, goto, TypeInv
<1>2. ASSUME NEW q \in Rank, NEW p \in other(q)
      PROVE  /\ level(q, p)' = level(q, p)
             /\ \A i \in 1 .. Len(pending[q][p]) : told(q, p, i)' = told(q, p, i)
  <2>1. CASE q # r  BY <1>1, <2>1 DEF level, told, back
  <2>2. CASE q = r
    <3>1. p \in Rank  BY Constants
    <3>2. /\ entered[r] \in Nat /\ inbox[p][r] \in Nat
          /\ \A i \in 1 .. Len(pending[r][p]) : pending[r][p][i][2] \in Nat
      BY <3>1, Types
    <3>3. /\ back(r, inbox[p][r]) \in 0 .. 2
          /\ \A i \in 1 .. Len(pending[r][p]) : back(r, pending[r][p][i][2]) \in 0 .. 2
      BY <2>2, Window
    <3>4. ASSUME NEW v \in Nat, back(r, v) \in 0 .. 2
          PROVE  entered'[r] - ((entered'[r] - v) % Word) = entered[r] - ((entered[r] - v) % Word)
      <4>1. (entered[r] - v) % Word \in 0 .. 2  BY <3>4 DEF back
      <4>2. ((entered[r] - v) % Word) + 1 < Word  BY <1>0, <4>1
      <4>3. (entered[r] + 1 - v) % Word = ((entered[r] - v) % Word) + 1
        BY <3>2, <4>2, Epochs
      <4>4. entered'[r] - v = entered[r] + 1 - v
        <5>1. entered'[r] = entered[r] + 1  BY <1>1
        <5>2. entered'[r] - v = (entered[r] + 1) - v  BY <5>1
        <5>3. \A a \in Nat : (a + 1) - v = a + 1 - v  OBVIOUS
        <5> QED BY <3>2, <5>2, <5>3
      <4>5. (entered'[r] - v) % Word = ((entered[r] - v) % Word) + 1  BY <4>3, <4>4
      <4>6. \A e \in Nat, b \in 0 .. 2 : (e + 1) - (b + 1) = e - b  OBVIOUS
      <4> QED BY <1>1, <3>2, <4>1, <4>5, <4>6
    <3>5. level(r, p)' = level(r, p)
      <4>1. level(r, p)' = entered'[r] - ((entered'[r] - inbox[p][r]) % Word)
        BY <1>1 DEF level, back
      <4>2. level(r, p) = entered[r] - ((entered[r] - inbox[p][r]) % Word)
        BY DEF level, back
      <4> QED BY <3>2, <3>3, <3>4, <4>1, <4>2
    <3>6. ASSUME NEW i \in 1 .. Len(pending[r][p])
          PROVE  told(r, p, i)' = told(r, p, i)
      <4>1. told(r, p, i)' = entered'[r] - ((entered'[r] - pending[r][p][i][2]) % Word)
        BY <1>1 DEF told, back
      <4>2. told(r, p, i) = entered[r] - ((entered[r] - pending[r][p][i][2]) % Word)
        BY DEF told, back
      <4>3. pending[r][p][i][2] \in Nat /\ back(r, pending[r][p][i][2]) \in 0 .. 2
        BY <3>2, <3>3, <3>6
      <4> QED BY <3>4, <4>1, <4>2, <4>3
    <3> QED BY <2>2, <3>5, <3>6
  <2> QED BY <2>1, <2>2
<1>3. ASSUME NEW q \in Rank, NEW p \in Rank
      PROVE  seen(q, p)' = seen(q, p)
  BY <1>1 DEF seen
<1>4. FencedInv'
  <2> SUFFICES ASSUME NEW q \in Rank, NEW p \in other(q)
               PROVE  /\ visible[q][p] <= entered'[q] /\ entered'[q] <= visible[q][p] + 1
                      /\ pc'[q] # "fence" => visible[q][p] = entered'[q]
    BY <1>1 DEF FencedInv, other
  <2>1. p \in Rank  BY Constants
  <2>2. entered[q] \in Nat /\ visible[q][p] \in Nat  BY <2>1, Types
  <2>3. CASE q = r
    <3>1. visible[r][p] = entered[r]  BY <1>1, <2>3 DEF LsaInv, FencedInv
    <3> QED BY <1>1, <2>2, <2>3, <3>1
  <2>4. CASE q # r  BY <1>1, <2>4 DEF LsaInv, FencedInv
  <2> QED BY <2>3, <2>4
<1>5. SlotInv'
  <2> SUFFICES ASSUME NEW q \in Rank, NEW p \in other(q)
               PROVE  /\ inbox[p][q] \in 0 .. Word - 1
                      /\ seen(p, q)' <= level(q, p)' /\ level(q, p)' <= visible[q][p]
    BY <1>1 DEF SlotInv, other
  <2>1. p \in Rank  BY Constants
  <2> QED BY <1>2, <1>3, <2>1 DEF LsaInv, SlotInv
<1>6. StoreInv'
  <2> SUFFICES ASSUME NEW q \in Rank, NEW p \in other(q),
                      NEW i \in 1 .. Len(pending[q][p])
               PROVE  /\ pending[q][p][i][1] = "store"
                      /\ pending[q][p][i][2] \in 0 .. Word - 1
                      /\ level(q, p)' <= told(q, p, i)' /\ told(q, p, i)' <= visible[q][p]
                      /\ \A j \in 1 .. i : told(q, p, j)' <= told(q, p, i)'
    BY <1>1 DEF StoreInv, other
  <2>1. p \in Rank  BY Constants
  <2>2. Len(pending[q][p]) \in Nat  BY <2>1, Types
  <2>3. \A j \in 1 .. i : j \in 1 .. Len(pending[q][p])  BY <2>2
  <2> QED BY <1>2, <2>3 DEF LsaInv, StoreInv
<1> QED BY <1>4, <1>5, <1>6 DEF LsaInv

(* GDA: the put of the new barrier is the next request.                    *)
LEMMA EnterGda ==
  ASSUME CcoBarriersAssumption, TypeInv, PlaceInv, GdaInv, NEW r \in Rank,
         Enter(r), kind = "gda"
  PROVE  GdaInv'
<1>1. /\ UNCHANGED <<kind, inbox, shadow, visible, exited>>
      /\ pc[r] = "open" /\ pc'[r] = "arrive" /\ entered'[r] = entered[r] + 1
      /\ todo'[r] = other(r)
      /\ \A q \in Rank : q # r => /\ pc'[q] = pc[q] /\ todo'[q] = todo[q]
                                  /\ entered'[q] = entered[q]
  BY DEF Enter, goto, TypeInv
<1>2. /\ \A q \in Rank : q # r => pending'[q] = pending[q]
      /\ \A p \in other(r) :
           pending'[r][p] = Append(pending[r][p], <<"put", entered[r] + 1>>)
  <2>1. pending' = [pending EXCEPT ![r] = [p \in Rank |->
               IF p = r THEN <<>> ELSE Append(@[p], <<"put", entered'[r]>>)]]
    BY DEF Enter
  <2> QED BY <1>1, <2>1 DEF TypeInv, other
<1>3. ASSUME NEW q \in Rank, NEW p \in Rank
      PROVE  seen(q, p)' = seen(q, p)
  BY <1>1 DEF seen
<1>4. SignalInv'  BY <1>1, <1>3 DEF GdaInv, SignalInv, other
<1>5. QueueInv'
  <2> SUFFICES ASSUME NEW q \in Rank, NEW p \in other(q)
               PROVE  (/\ 0 <= carried(q, p)
                       /\ \A i \in 1 .. Len(pending[q][p]) :
                            pending[q][p][i] = request(carried(q, p) + i)
                       /\ inbox[p][q] = carried(q, p) \div 2
                       /\ visible[q][p] = (carried(q, p) + 1) \div 2)'
    BY DEF QueueInv, other
  <2>0. p \in Rank /\ pending[q][p] \in Seq(Message) /\ entered[q] \in Nat
        /\ Len(pending[q][p]) \in Nat
    BY Types, Constants
  <2>1. CASE q # r
    <3>1. carried(q, p)' = carried(q, p) /\ pending'[q][p] = pending[q][p]
      BY <1>1, <1>2, <2>1 DEF carried, posted
    <3> QED BY <1>1, <3>1 DEF GdaInv, QueueInv
  <2>2. CASE q = r
    <3>1. posted(r, p) = 2 * entered[r] /\ posted(r, p)' = 2 * entered[r] + 1
      <4>1. posted(r, p) = 2 * entered[r] - 0  BY <1>1 DEF posted
      <4>2. posted(r, p)' = 2 * (entered[r] + 1) - 1  BY <1>1, <2>2 DEF posted
      <4> QED BY <2>0, <2>2, <4>1, <4>2
    <3>2. pending'[r][p] = Append(pending[r][p], <<"put", entered[r] + 1>>)
          /\ Len(pending'[r][p]) = Len(pending[r][p]) + 1
      BY <1>2, <2>0, <2>2
    <3>3. carried(r, p)' = carried(r, p) /\ carried(r, p) + Len(pending[r][p]) + 1 = 2 * entered[r] + 1
          /\ carried(r, p) \in Int
      BY <2>0, <2>2, <3>1, <3>2 DEF carried
    <3>4. <<"put", entered[r] + 1>> = request(2 * entered[r] + 1)
      <4>1. (2 * entered[r] + 1) % 2 = 1 /\ (2 * entered[r] + 1 + 1) \div 2 = entered[r] + 1
        BY <2>0, <2>2
      <4> QED BY <4>1 DEF request
    <3>5. ASSUME NEW i \in 1 .. Len(pending'[r][p])
          PROVE  pending'[r][p][i] = request(carried(r, p) + i)
      <4>1. CASE i \in 1 .. Len(pending[r][p])
        <5>1. pending'[r][p][i] = pending[r][p][i]  BY <2>0, <2>2, <3>2, <4>1
        <5> QED BY <2>2, <4>1, <5>1 DEF GdaInv, QueueInv
      <4>2. CASE i = Len(pending[r][p]) + 1
        <5>1. pending'[r][p][i] = <<"put", entered[r] + 1>>  BY <2>0, <2>2, <3>2, <4>2
        <5>2. carried(r, p) + i = 2 * entered[r] + 1  BY <2>0, <2>2, <3>3, <4>2
        <5> QED BY <3>4, <5>1, <5>2
      <4> QED BY <2>0, <2>2, <3>2, <4>1, <4>2
    <3>6. /\ 0 <= carried(r, p) /\ inbox[p][r] = carried(r, p) \div 2
          /\ visible[r][p] = (carried(r, p) + 1) \div 2
      BY <2>2 DEF GdaInv, QueueInv
    <3> QED BY <1>1, <2>2, <3>3, <3>5, <3>6
  <2> QED BY <2>1, <2>2
<1> QED BY <1>4, <1>5 DEF GdaInv

(* Arrive.  LSA: a store of the barrier of now, behind those of before.    *)
LEMMA ArriveLsa ==
  ASSUME CcoBarriersAssumption, TypeInv, PlaceInv, LsaInv, NEW r \in Rank,
         NEW p \in other(r), Arrive(r, p), kind # "gda"
  PROVE  LsaInv'
<1>0. Word \in Nat \ {0} /\ p \in Rank  BY Constants
<1>1. /\ UNCHANGED <<kind, pc, inbox, visible, entered, exited>>
      /\ pc[r] = "arrive"
      /\ \A q \in Rank : q # r => todo'[q] = todo[q]
  BY DEF Arrive, TypeInv
<1>2. ASSUME NEW q \in Rank, NEW o \in Rank
      PROVE  seen(q, o)' = seen(q, o) /\ level(q, o)' = level(q, o)
  BY <1>1 DEF seen, level, back
<1>3. FencedInv' /\ SlotInv'
  BY <1>1, <1>2 DEF LsaInv, FencedInv, SlotInv, other
<1>4. entered[r] \in Nat /\ exited[r] \in Nat /\ pending[r][p] \in Seq(Message)
      /\ Len(pending[r][p]) \in Nat
  BY <1>0, Types
<1>5. next_epoch(r) = entered[r] % Word /\ next_epoch(r) \in 0 .. Word - 1
      /\ (entered[r] - next_epoch(r)) % Word = 0
  <2>1. entered[r] = exited[r] + 1 /\ epoch[r] = exited[r] % Word
    BY <1>1, <1>4 DEF PlaceInv, inside
  <2>2. ((exited[r] % Word) + 1) % Word = (exited[r] + 1) % Word  BY <1>4, Epochs
  <2>3. next_epoch(r) = entered[r] % Word  BY <2>1, <2>2 DEF next_epoch
  <2> QED BY <1>4, <2>3, Epochs
<1>6. visible[r][p] = entered[r]  BY <1>1 DEF LsaInv, FencedInv
<1>7. CASE pending' = pending
  <2>1. \A q, o, i : told(q, o, i)' = told(q, o, i)  BY <1>1, <1>7 DEF told, back
  <2> QED BY <1>1, <1>2, <1>3, <1>7, <2>1 DEF LsaInv, StoreInv, other
<1>8. CASE pending' = [pending EXCEPT ![r][p] = Append(@, <<"store", next_epoch(r)>>)]
  <2>1. /\ pending'[r][p] = Append(pending[r][p], <<"store", next_epoch(r)>>)
        /\ \A q, o \in Rank : q # r \/ o # p => pending'[q][o] = pending[q][o]
    BY <1>0, <1>8 DEF TypeInv
  <2>2. Len(pending'[r][p]) = Len(pending[r][p]) + 1  BY <1>4, <2>1
  <2>3. ASSUME NEW i \in 1 .. Len(pending[r][p])
        PROVE  pending'[r][p][i] = pending[r][p][i] /\ told(r, p, i)' = told(r, p, i)
    <3>1. pending'[r][p][i] = pending[r][p][i]  BY <1>4, <2>1, <2>3
    <3> QED BY <1>1, <3>1 DEF told, back
  <2>7. PICK n \in Nat : n = Len(pending[r][p]) + 1  BY <1>4
  <2>4. pending'[r][p][n] = <<"store", next_epoch(r)>> /\ told(r, p, n)' = entered[r]
    <3>1. pending'[r][p][n] = <<"store", next_epoch(r)>>  BY <1>4, <2>1, <2>7
    <3>2. told(r, p, n)' = entered'[r] - ((entered'[r] - pending'[r][p][n][2]) % Word)
      BY DEF told, back
    <3> QED BY <1>1, <1>4, <1>5, <3>1, <3>2
  <2>5. \A i \in 1 .. Len(pending[r][p]) : told(r, p, i) <= entered[r]
    BY <1>6 DEF LsaInv, StoreInv
  <2>6. StoreInv'
    <3> SUFFICES ASSUME NEW q \in Rank, NEW o \in other(q),
                        NEW i \in 1 .. Len(pending'[q][o])
                 PROVE  /\ pending'[q][o][i][1] = "store"
                        /\ pending'[q][o][i][2] \in 0 .. Word - 1
                        /\ level(q, o) <= told(q, o, i)' /\ told(q, o, i)' <= visible[q][o]
                        /\ \A j \in 1 .. i : told(q, o, j)' <= told(q, o, i)'
      BY <1>1, <1>2 DEF StoreInv, other
    <3>0. o \in Rank  BY Constants
    <3>1. CASE q # r \/ o # p
      <4>1. pending'[q][o] = pending[q][o]  BY <2>1, <3>0, <3>1
      <4>2. \A j : told(q, o, j)' = told(q, o, j)  BY <1>1, <4>1 DEF told, back
      <4> QED BY <4>1, <4>2 DEF LsaInv, StoreInv
    <3>2. CASE q = r /\ o = p /\ i \in 1 .. Len(pending[r][p])
      <4>1. \A j \in 1 .. i : j \in 1 .. Len(pending[r][p])  BY <1>4, <3>2
      <4>2. \A j \in 1 .. i : told(r, p, j)' = told(r, p, j)  BY <2>3, <4>1
      <4>3. pending'[r][p][i] = pending[r][p][i] /\ told(r, p, i)' = told(r, p, i)
        BY <2>3, <3>2
      <4> QED BY <3>2, <4>2, <4>3 DEF LsaInv, StoreInv
    <3>3. CASE q = r /\ o = p /\ i = n
      <4>1. level(r, p) <= entered[r]  BY <1>6 DEF LsaInv, SlotInv
      <4>2. \A j \in 1 .. i : told(r, p, j)' <= entered[r]
        <5> SUFFICES ASSUME NEW j \in 1 .. i PROVE told(r, p, j)' <= entered[r]
          OBVIOUS
        <5>1. j \in 1 .. Len(pending[r][p]) \/ j = n  BY <1>4, <2>7, <3>3
        <5>2. CASE j \in 1 .. Len(pending[r][p])  BY <2>3, <2>5, <5>2
        <5>3. CASE j = n  BY <1>4, <2>4, <5>3
        <5> QED BY <5>1, <5>2, <5>3
      <4>3. told(r, p, i)' = entered[r] /\ pending'[r][p][i] = <<"store", next_epoch(r)>>
        BY <2>4, <3>3
      <4>4. told(r, p, i)' <= visible[r][p]  BY <1>4, <1>6, <4>3
      <4> QED BY <1>5, <3>3, <4>1, <4>2, <4>3, <4>4
    <3>4. q = r /\ o = p => i \in 1 .. Len(pending[r][p]) \/ i = n
      BY <1>4, <2>2, <2>7
    <3> QED BY <3>1, <3>2, <3>3, <3>4
  <2> QED BY <1>3, <2>6 DEF LsaInv
<1> QED BY <1>7, <1>8 DEF Arrive, post

(* GDA: the signal is the request after the put.                           *)
LEMMA ArriveGda ==
  ASSUME CcoBarriersAssumption, TypeInv, PlaceInv, GdaInv, NEW r \in Rank,
         NEW p \in other(r), Arrive(r, p), kind = "gda"
  PROVE  GdaInv'
<1>0. p \in Rank  BY Constants
<1>1. /\ UNCHANGED <<kind, pc, inbox, shadow, visible, entered, exited>>
      /\ pc[r] = "arrive" /\ p \in todo[r]
      /\ todo' = [todo EXCEPT ![r] = @ \ {p}]
      /\ pending' = [pending EXCEPT ![r][p] = Append(@, <<"signal", 1>>)]
  BY DEF Arrive, post
<1>2. /\ todo'[r] = todo[r] \ {p} /\ \A q \in Rank : q # r => todo'[q] = todo[q]
      /\ pending'[r][p] = Append(pending[r][p], <<"signal", 1>>)
      /\ \A q, o \in Rank : q # r \/ o # p => pending'[q][o] = pending[q][o]
  BY <1>0, <1>1 DEF TypeInv
<1>3. ASSUME NEW q \in Rank, NEW o \in Rank
      PROVE  seen(q, o)' = seen(q, o)
  BY <1>1, <1>2 DEF seen
<1>4. SignalInv'  BY <1>1, <1>3 DEF GdaInv, SignalInv, other
<1>5. QueueInv'
  <2> SUFFICES ASSUME NEW q \in Rank, NEW o \in other(q)
               PROVE  (/\ 0 <= carried(q, o)
                       /\ \A i \in 1 .. Len(pending[q][o]) :
                            pending[q][o][i] = request(carried(q, o) + i)
                       /\ inbox[o][q] = carried(q, o) \div 2
                       /\ visible[q][o] = (carried(q, o) + 1) \div 2)'
    BY DEF QueueInv, other
  <2>0. o \in Rank  BY Constants
  <2>1. CASE q # r \/ o # p
    <3>1. posted(q, o)' = posted(q, o)  BY <1>1, <1>2, <2>0, <2>1 DEF posted
    <3>2. carried(q, o)' = carried(q, o) /\ pending'[q][o] = pending[q][o]
      BY <1>2, <2>0, <2>1, <3>1 DEF carried
    <3> QED BY <1>1, <3>2 DEF GdaInv, QueueInv
  <2>2. CASE q = r /\ o = p
    <3>0. entered[r] \in Nat /\ pending[r][p] \in Seq(Message)
          /\ Len(pending[r][p]) \in Nat
      BY <1>0, Types
    <3>1. posted(r, p) = 2 * entered[r] - 1 /\ posted(r, p)' = 2 * entered[r]
      <4>1. posted(r, p) = 2 * entered[r] - 1  BY <1>1 DEF posted
      <4>2. posted(r, p)' = 2 * entered[r] - 0  BY <1>1, <1>2 DEF posted
      <4> QED BY <3>0, <4>1, <4>2
    <3>2. Len(pending'[r][p]) = Len(pending[r][p]) + 1  BY <1>2, <3>0
    <3>3. carried(r, p)' = carried(r, p) /\ carried(r, p) \in Int
          /\ carried(r, p) + Len(pending[r][p]) + 1 = 2 * entered[r]
      <4>1. carried(r, p) = 2 * entered[r] - 1 - Len(pending[r][p])
        BY <3>1 DEF carried
      <4>2. carried(r, p)' = 2 * entered[r] - (Len(pending[r][p]) + 1)
        BY <3>1, <3>2 DEF carried
      <4>3. \A e, l \in Nat : /\ 2 * e - 1 - l = 2 * e - (l + 1)
                            /\ 2 * e - 1 - l \in Int /\ 2 * e - 1 - l + l + 1 = 2 * e
        OBVIOUS
      <4> QED BY <3>0, <4>1, <4>2, <4>3
    <3>4. <<"signal", 1>> = request(2 * entered[r])
      <4>1. (2 * entered[r]) % 2 = 0  BY <3>0
      <4> QED BY <4>1 DEF request
    <3>5. ASSUME NEW i \in 1 .. Len(pending'[r][p])
          PROVE  pending'[r][p][i] = request(carried(r, p) + i)
      <4>1. CASE i \in 1 .. Len(pending[r][p])
        <5>1. pending'[r][p][i] = pending[r][p][i]  BY <1>2, <3>0, <4>1
        <5> QED BY <4>1, <5>1 DEF GdaInv, QueueInv
      <4>2. CASE i = Len(pending[r][p]) + 1
        <5>1. pending'[r][p][i] = <<"signal", 1>>  BY <1>2, <3>0, <4>2
        <5>2. carried(r, p) + i = 2 * entered[r]  BY <3>0, <3>3, <4>2
        <5> QED BY <3>4, <5>1, <5>2
      <4> QED BY <3>0, <3>2, <4>1, <4>2
    <3>6. /\ 0 <= carried(r, p) /\ inbox[p][r] = carried(r, p) \div 2
          /\ visible[r][p] = (carried(r, p) + 1) \div 2
      BY DEF GdaInv, QueueInv
    <3> QED BY <1>1, <2>2, <3>3, <3>5, <3>6
  <2> QED BY <2>1, <2>2
<1> QED BY <1>4, <1>5 DEF GdaInv

-----------------------------------------------------------------------------
(* Take.  LSA: the slot shows the barrier of the wait, or a later one.     *)
LEMMA TakeLsa ==
  ASSUME CcoBarriersAssumption, TypeInv, PlaceInv, LsaInv, NEW r \in Rank,
         NEW p \in other(r), Take(r, p), kind # "gda"
  PROVE  LsaInv'
<1>0. p \in Rank /\ p # r /\ r \in other(p) /\ Word \in Nat \ {0}  BY Constants
<1>1. /\ Same /\ UNCHANGED <<pc, exited>> /\ pc[r] = "wait" /\ p \in todo[r]
      /\ (inbox[r][p] - next_epoch(r)) % Word < Word \div 2
  BY DEF Take, Same, reached
<1>2. /\ todo'[r] = todo[r] \ {p} /\ \A q \in Rank : q # r => todo'[q] = todo[q]
  BY DEF Take, TypeInv
<1>3. exited[r] \in Nat /\ entered[p] \in Nat /\ inbox[r][p] \in Nat
  BY <1>0, Types
<1>4. exited[r] + 1 <= level(p, r)
  <2>1. seen(r, p) = exited[r]
    <3>1. seen(r, p) = exited[r] + 0  BY <1>1 DEF seen
    <3> QED BY <1>3, <3>1
  <2>2. exited[r] <= level(p, r)  BY <1>0, <2>1 DEF LsaInv, SlotInv
  <2>3. next_epoch(r) = (exited[r] + 1) % Word
    <3>1. epoch[r] = exited[r] % Word  BY <1>1 DEF PlaceInv
    <3> QED BY <1>3, <3>1, Epochs DEF next_epoch
  <2>4. level(p, r) # exited[r]
    <3> SUFFICES ASSUME level(p, r) = exited[r] PROVE FALSE
      OBVIOUS
    <3>1. entered[p] - ((entered[p] - inbox[r][p]) % Word) = exited[r]
      BY DEF level, back
    <3>2. ~((inbox[r][p] - ((exited[r] + 1) % Word)) % Word < Word \div 2)
      BY <1>3, <3>1, Ahead
    <3> QED BY <1>1, <2>3, <3>2
  <2>5. level(p, r) \in Int
    <3>1. (entered[p] - inbox[r][p]) % Word \in 0 .. Word - 1  BY <1>3, Epochs
    <3> QED BY <1>0, <1>3, <3>1 DEF level, back
  <2> QED BY <1>3, <2>2, <2>4, <2>5
<1>5. ASSUME NEW q \in Rank, NEW o \in other(q)
      PROVE  seen(o, q)' <= level(q, o)
  <2>0. o \in Rank  BY Constants
  <2>1. CASE o = r /\ q = p
    <3>1. seen(r, p)' = exited[r] + 1  BY <1>1, <1>2 DEF seen
    <3> QED BY <1>4, <2>1, <3>1
  <2>2. CASE ~(o = r /\ q = p)
    <3>1. seen(o, q)' = seen(o, q)  BY <1>1, <1>2, <2>0, <2>2 DEF seen
    <3> QED BY <3>1 DEF LsaInv, SlotInv
  <2> QED BY <2>1, <2>2
<1>6. ASSUME NEW q \in Rank, NEW o \in other(q), pc'[q] # "fence"
      PROVE  visible[q][o] = entered[q]
  BY <1>1, <1>6 DEF LsaInv, FencedInv
<1> QED BY <1>1, <1>5, <1>6, LsaStill

(* GDA: one signal is consumed.                                            *)
LEMMA TakeGda ==
  ASSUME CcoBarriersAssumption, TypeInv, PlaceInv, GdaInv, NEW r \in Rank,
         NEW p \in other(r), Take(r, p), kind = "gda"
  PROVE  GdaInv'
<1>0. p \in Rank  BY Constants
<1>1. /\ Same /\ UNCHANGED <<pc, exited>> /\ pc[r] = "wait" /\ p \in todo[r]
      /\ inbox[r][p] - shadow[r][p] >= 1
      /\ shadow' = [shadow EXCEPT ![r][p] = @ + 1]
  BY DEF Take, Same, reached
<1>2. /\ todo'[r] = todo[r] \ {p} /\ \A q \in Rank : q # r => todo'[q] = todo[q]
  BY DEF Take, TypeInv
<1>3. exited[r] \in Nat /\ inbox[r][p] \in Nat /\ shadow[r][p] \in Nat
  BY <1>0, Types
<1>4. /\ shadow'[r][p] = shadow[r][p] + 1
      /\ \A q, o \in Rank : q # r \/ o # p => shadow'[q][o] = shadow[q][o]
  BY <1>0, <1>1 DEF TypeInv
<1>5. QueueInv'
  <2>1. ASSUME NEW q \in Rank, NEW o \in Rank
        PROVE  carried(q, o)' = carried(q, o)
    <3>1. posted(q, o)' = posted(q, o)
      BY <1>1, <1>2 DEF posted, Same
    <3> QED BY <1>1, <3>1 DEF carried, Same
  <2> QED BY <1>1, <2>1 DEF GdaInv, QueueInv, Same, other
<1>6. SignalInv'
  <2> SUFFICES ASSUME NEW q \in Rank, NEW o \in other(q)
               PROVE  shadow'[q][o] = seen(q, o)' /\ shadow'[q][o] <= inbox'[q][o]
    BY DEF SignalInv, other
  <2>0. o \in Rank /\ inbox' = inbox  BY <1>1, Constants DEF Same
  <2>1. CASE q = r /\ o = p
    <3>1. seen(r, p) = exited[r] + 0 /\ seen(r, p)' = exited[r] + 1
      BY <1>1, <1>2 DEF seen
    <3>2. shadow[r][p] = seen(r, p)  BY DEF GdaInv, SignalInv
    <3>3. shadow[r][p] + 1 <= inbox[r][p]  BY <1>1, <1>3
    <3> QED BY <1>3, <1>4, <2>0, <2>1, <3>1, <3>2, <3>3
  <2>2. CASE ~(q = r /\ o = p)
    <3>1. seen(q, o)' = seen(q, o)  BY <1>1, <1>2, <2>0, <2>2 DEF seen
    <3> QED BY <1>4, <2>0, <2>2, <3>1 DEF GdaInv, SignalInv
  <2> QED BY <2>1, <2>2
<1> QED BY <1>5, <1>6 DEF GdaInv

-----------------------------------------------------------------------------
(* Land: what was fenced stays fenced.                                     *)
LEMMA LandLsa ==
  ASSUME CcoBarriersAssumption, TypeInv, PlaceInv, LsaInv, NEW r \in Rank,
         NEW p \in other(r), Land(r, p)
  PROVE  LsaInv'
<1>0. p \in Rank  BY Constants
<1>1. /\ UNCHANGED <<kind, pc, todo, inbox, pending, entered, exited>>
      /\ visible' = [visible EXCEPT ![r][p] = entered[r]]
      /\ visible[r][p] < entered[r]
  BY DEF Land
<1>2. ASSUME NEW q \in Rank, NEW o \in Rank
      PROVE  /\ visible'[q][o] \in {visible[q][o], entered[q]}
             /\ (q # r \/ o # p) => visible'[q][o] = visible[q][o]
             /\ visible[q][o] \in Nat /\ entered[q] \in Nat
  <2>1. visible[q][o] \in Nat /\ entered[q] \in Nat  BY Types
  <2> QED BY <1>0, <1>1, <2>1 DEF TypeInv
<1>3. ASSUME NEW q \in Rank, NEW o \in Rank
      PROVE  /\ seen(q, o)' = seen(q, o) /\ level(q, o)' = level(q, o)
             /\ \A i : told(q, o, i)' = told(q, o, i)
  BY <1>1 DEF seen, level, told, back
<1>4. ASSUME NEW q \in Rank, NEW o \in other(q)
      PROVE  /\ visible[q][o] <= visible'[q][o]
             /\ visible'[q][o] <= entered[q] /\ entered[q] <= visible'[q][o] + 1
             /\ pc[q] # "fence" => visible'[q][o] = entered[q]
  <2>1. o \in Rank  BY Constants
  <2>2. /\ visible[q][o] <= entered[q] /\ entered[q] <= visible[q][o] + 1
        /\ pc[q] # "fence" => visible[q][o] = entered[q]
    BY DEF LsaInv, FencedInv
  <2> QED BY <1>2, <2>1, <2>2
<1>5. FencedInv'  BY <1>1, <1>4 DEF FencedInv, other
<1>6. ASSUME NEW q \in Rank, NEW o \in Rank
      PROVE  level(q, o) \in Int /\ \A i \in 1 .. Len(pending[q][o]) : told(q, o, i) \in Int
  <2>1. entered[q] \in Nat /\ inbox[o][q] \in Nat
        /\ \A i \in 1 .. Len(pending[q][o]) : pending[q][o][i][2] \in Nat
    BY Types
  <2>2. Word \in Nat \ {0}  BY Constants
  <2>3. ASSUME NEW v \in Nat
        PROVE  entered[q] - ((entered[q] - v) % Word) \in Int
    <3>1. (entered[q] - v) % Word \in 0 .. Word - 1  BY <2>1, Epochs
    <3> QED BY <2>1, <2>2, <3>1
  <2> QED BY <2>1, <2>3 DEF level, told, back
<1>7. SlotInv'
  <2> SUFFICES ASSUME NEW q \in Rank, NEW o \in other(q)
               PROVE  /\ inbox[o][q] \in 0 .. Word - 1
                      /\ seen(o, q) <= level(q, o) /\ level(q, o) <= visible'[q][o]
    BY <1>1, <1>3 DEF SlotInv, other
  <2>1. o \in Rank  BY Constants
  <2>2. /\ inbox[o][q] \in 0 .. Word - 1
        /\ seen(o, q) <= level(q, o) /\ level(q, o) <= visible[q][o]
    BY DEF LsaInv, SlotInv
  <2>3. visible[q][o] \in Nat /\ visible'[q][o] \in Nat  BY <1>2, <2>1
  <2> QED BY <1>4, <1>6, <2>1, <2>2, <2>3
<1>8. StoreInv'
  <2> SUFFICES ASSUME NEW q \in Rank, NEW o \in other(q),
                      NEW i \in 1 .. Len(pending[q][o])
               PROVE  /\ pending[q][o][i][1] = "store"
                      /\ pending[q][o][i][2] \in 0 .. Word - 1
                      /\ level(q, o) <= told(q, o, i) /\ told(q, o, i) <= visible'[q][o]
                      /\ \A j \in 1 .. i : told(q, o, j) <= told(q, o, i)
    BY <1>1, <1>3 DEF StoreInv, other
  <2>1. o \in Rank  BY Constants
  <2>2. /\ pending[q][o][i][1] = "store"
        /\ pending[q][o][i][2] \in 0 .. Word - 1
        /\ level(q, o) <= told(q, o, i) /\ told(q, o, i) <= visible[q][o]
        /\ \A j \in 1 .. i : told(q, o, j) <= told(q, o, i)
    BY DEF LsaInv, StoreInv
  <2>3. visible[q][o] \in Nat /\ visible'[q][o] \in Nat  BY <1>2, <2>1
  <2>4. told(q, o, i) \in Int  BY <1>6, <2>1
  <2>5. told(q, o, i) <= visible'[q][o]  BY <1>4, <2>2, <2>3, <2>4
  <2> QED BY <2>2, <2>5
<1> QED BY <1>5, <1>7, <1>8 DEF LsaInv

-----------------------------------------------------------------------------
(* What Deliver takes off the front of a sequence.                         *)
LEMMA FirstTaken ==
  ASSUME NEW S, NEW s \in Seq(S), s # <<>>
  PROVE  /\ Len(s) \in Nat /\ Len(s) >= 1 /\ Head(s) = s[1] /\ Tail(s) \in Seq(S)
         /\ Len(Tail(s)) = Len(s) - 1
         /\ \A i \in 1 .. Len(Tail(s)) : Tail(s)[i] = s[i + 1] /\ i + 1 \in 1 .. Len(s)
OBVIOUS

(* Deliver.  LSA: the slot shows the barrier of the first store.           *)
LEMMA DeliverLsa ==
  ASSUME CcoBarriersAssumption, TypeInv, PlaceInv, LsaInv, NEW r \in Rank,
         NEW p \in other(r), Deliver(r, p)
  PROVE  LsaInv'
<1>0. p \in Rank /\ p # r  BY Constants
<1>1. /\ pending[r][p] \in Seq(Message) /\ pending[r][p] # <<>>
      /\ Head(pending[r][p]) = pending[r][p][1] /\ Len(pending[r][p]) \in Nat
      /\ 1 \in 1 .. Len(pending[r][p])
  BY <1>0, FirstTaken DEF TypeInv, Deliver
<1>2. /\ pending[r][p][1][1] = "store" /\ pending[r][p][1][2] \in 0 .. Word - 1
  BY <1>1 DEF LsaInv, StoreInv
<1>3. /\ inbox' = [inbox EXCEPT ![p][r] = pending[r][p][1][2]]
      /\ pending' = [pending EXCEPT ![r][p] = Tail(@)]
      /\ UNCHANGED <<kind, pc, todo, visible, entered, exited>>
  BY <1>1, <1>2 DEF Deliver
<1>4. /\ inbox'[p][r] = pending[r][p][1][2]
      /\ \A q, o \in Rank : q # p \/ o # r => inbox'[q][o] = inbox[q][o]
      /\ pending'[r][p] = Tail(pending[r][p])
      /\ \A q, o \in Rank : q # r \/ o # p => pending'[q][o] = pending[q][o]
  BY <1>0, <1>3 DEF TypeInv
<1>5. ASSUME NEW q \in Rank, NEW o \in Rank, q # r \/ o # p
      PROVE  /\ level(q, o)' = level(q, o)
             /\ \A i : told(q, o, i)' = told(q, o, i)
  BY <1>3, <1>4, <1>5 DEF level, told, back
<1>6. ASSUME NEW q \in Rank, NEW o \in Rank
      PROVE  seen(q, o)' = seen(q, o)
  BY <1>3 DEF seen
<1>7. level(r, p)' = told(r, p, 1)  BY <1>3, <1>4 DEF level, told, back
<1>8. ASSUME NEW i \in 1 .. Len(pending'[r][p])
      PROVE  /\ i \in Nat /\ i + 1 \in 1 .. Len(pending[r][p])
             /\ pending'[r][p][i] = pending[r][p][i + 1]
             /\ told(r, p, i)' = told(r, p, i + 1)
  <2>1. /\ i + 1 \in 1 .. Len(pending[r][p])
        /\ pending'[r][p][i] = pending[r][p][i + 1]
    BY <1>1, <1>4, <1>8, FirstTaken
  <2>2. Len(pending'[r][p]) \in Nat  BY <1>1, <1>4, FirstTaken
  <2> QED BY <1>3, <1>8, <2>1, <2>2 DEF told, back
<1>9. level(r, p) <= told(r, p, 1) /\ told(r, p, 1) <= visible[r][p]
      /\ seen(p, r) <= level(r, p)
  BY <1>1 DEF LsaInv, StoreInv, SlotInv
<1>10. level(r, p) \in Int /\ told(r, p, 1) \in Int /\ seen(p, r) \in Nat
  <2>1. entered[r] \in Nat /\ inbox[p][r] \in Nat /\ pending[r][p][1][2] \in Nat
        /\ seen(p, r) \in Nat
    BY <1>0, <1>1, Types
  <2>2. Word \in Nat \ {0}  BY Constants
  <2>3. ASSUME NEW v \in Nat
        PROVE  entered[r] - ((entered[r] - v) % Word) \in Int
    <3>1. (entered[r] - v) % Word \in 0 .. Word - 1  BY <2>1, Epochs
    <3> QED BY <2>1, <2>2, <3>1
  <2> QED BY <2>1, <2>3 DEF level, told, back
<1>11. seen(p, r) <= told(r, p, 1)  BY <1>9, <1>10
<1>12. FencedInv'  BY <1>3 DEF LsaInv, FencedInv, other
<1>13. SlotInv'
  <2> SUFFICES ASSUME NEW q \in Rank, NEW o \in other(q)
               PROVE  /\ inbox'[o][q] \in 0 .. Word - 1
                      /\ seen(o, q)' <= level(q, o)' /\ level(q, o)' <= visible[q][o]
    BY <1>3 DEF SlotInv, other
  <2>1. o \in Rank  BY Constants
  <2>2. CASE q = r /\ o = p
    BY <1>0, <1>2, <1>4, <1>6, <1>7, <1>9, <1>11, <2>2
  <2>3. CASE q # r \/ o # p
    BY <1>4, <1>5, <1>6, <2>1, <2>3 DEF LsaInv, SlotInv
  <2> QED BY <2>2, <2>3
<1>14. StoreInv'
  <2> SUFFICES ASSUME NEW q \in Rank, NEW o \in other(q),
                      NEW i \in 1 .. Len(pending'[q][o])
               PROVE  /\ pending'[q][o][i][1] = "store"
                      /\ pending'[q][o][i][2] \in 0 .. Word - 1
                      /\ level(q, o)' <= told(q, o, i)' /\ told(q, o, i)' <= visible[q][o]
                      /\ \A j \in 1 .. i : told(q, o, j)' <= told(q, o, i)'
    BY <1>3 DEF StoreInv, other
  <2>1. o \in Rank  BY Constants
  <2>2. CASE q = r /\ o = p
    <3>1. /\ i \in Nat /\ i + 1 \in 1 .. Len(pending[r][p])
          /\ pending'[r][p][i] = pending[r][p][i + 1]
          /\ told(r, p, i)' = told(r, p, i + 1)
      BY <1>8, <2>2
    <3>2. \A j \in 1 .. i + 1 : told(r, p, j) <= told(r, p, i + 1)
      BY <3>1 DEF LsaInv, StoreInv
    <3>3. told(r, p, 1) <= told(r, p, i + 1)  BY <3>1, <3>2
    <3>4. ASSUME NEW j \in 1 .. i PROVE told(r, p, j)' <= told(r, p, i)'
      <4>1. j \in 1 .. Len(pending'[r][p])
        <5>1. Len(pending'[r][p]) \in Nat  BY <1>1, <1>4, FirstTaken
        <5> QED BY <2>2, <3>1, <5>1
      <4>2. told(r, p, j)' = told(r, p, j + 1)  BY <1>8, <4>1
      <4>3. j + 1 \in 1 .. i + 1  BY <3>1
      <4> QED BY <3>1, <3>2, <4>2, <4>3
    <3>5. /\ pending[r][p][i + 1][1] = "store"
          /\ pending[r][p][i + 1][2] \in 0 .. Word - 1
          /\ told(r, p, i + 1) <= visible[r][p]
      BY <3>1 DEF LsaInv, StoreInv
    <3> QED BY <1>7, <2>2, <3>1, <3>3, <3>4, <3>5
  <2>3. CASE q # r \/ o # p
    <3>1. pending'[q][o] = pending[q][o]  BY <1>4, <2>1, <2>3
    <3> QED BY <1>5, <2>1, <2>3, <3>1 DEF LsaInv, StoreInv
  <2> QED BY <2>2, <2>3
<1> QED BY <1>12, <1>13, <1>14 DEF LsaInv

(* GDA: one more request is carried out.                                   *)
LEMMA DeliverGda ==
  ASSUME CcoBarriersAssumption, TypeInv, PlaceInv, GdaInv, NEW r \in Rank,
         NEW p \in other(r), Deliver(r, p)
  PROVE  GdaInv'
<1>0. p \in Rank /\ p # r  BY Constants
<1>1. /\ pending[r][p] \in Seq(Message) /\ pending[r][p] # <<>>
      /\ Head(pending[r][p]) = pending[r][p][1] /\ Len(pending[r][p]) \in Nat
      /\ 1 \in 1 .. Len(pending[r][p])
  BY <1>0, FirstTaken DEF TypeInv, Deliver
<1>2. PICK c \in Nat : c = carried(r, p)
  <2>1. 0 <= carried(r, p)  BY DEF GdaInv, QueueInv
  <2>2. carried(r, p) \in Int
    <3>1. entered[r] \in Nat  BY Types
    <3>2. posted(r, p) \in Int  BY <3>1 DEF posted
    <3> QED BY <1>1, <3>2 DEF carried
  <2> QED BY <2>1, <2>2
<1>3. /\ pending[r][p][1] = request(c + 1)
      /\ inbox[p][r] = c \div 2 /\ visible[r][p] = (c + 1) \div 2
  BY <1>1, <1>2 DEF GdaInv, QueueInv
<1>4. /\ pending' = [pending EXCEPT ![r][p] = Tail(@)]
      /\ UNCHANGED <<kind, pc, todo, shadow, entered, exited>>
  BY DEF Deliver
<1>5. /\ pending'[r][p] = Tail(pending[r][p])
      /\ \A q, o \in Rank : q # r \/ o # p => pending'[q][o] = pending[q][o]
  BY <1>0, <1>4 DEF TypeInv
<1>6. /\ inbox'[p][r] = (c + 1) \div 2 /\ visible'[r][p] = (c + 1 + 1) \div 2
      /\ \A q, o \in Rank : q # r \/ o # p =>
           inbox'[o][q] = inbox[o][q] /\ visible'[q][o] = visible[q][o]
  <2> DEFINE m == Head(pending[r][p])
  <2>0. /\ inbox' = IF m[1] = "put" THEN inbox
                   ELSE [inbox EXCEPT ![p][r] = IF m[1] = "signal" THEN @ + 1 ELSE m[2]]
        /\ visible' = IF m[1] = "put" THEN [visible EXCEPT ![r][p] = m[2]] ELSE visible
        /\ m = request(c + 1)
    BY <1>1, <1>3 DEF Deliver
  <2> HIDE DEF m
  <2>1. CASE (c + 1) % 2 = 1
    <3>1. m[1] = "put" /\ m[2] = (c + 1 + 1) \div 2  BY <2>0, <2>1 DEF request
    <3>2. c \div 2 = (c + 1) \div 2  BY <2>1
    <3>3. inbox' = inbox /\ visible' = [visible EXCEPT ![r][p] = (c + 1 + 1) \div 2]
      BY <2>0, <3>1
    <3> QED BY <1>0, <1>3, <3>2, <3>3 DEF TypeInv
  <2>2. CASE (c + 1) % 2 # 1
    <3>1. m = <<"signal", 1>>  BY <2>0, <2>2 DEF request
    <3>2. (c \div 2) + 1 = (c + 1) \div 2 /\ (c + 1) \div 2 = (c + 1 + 1) \div 2
      BY <2>2
    <3>3. m[1] = "signal"  BY <3>1
    <3>4. visible' = visible  BY <2>0, <3>3
    <3>5. inbox' = [inbox EXCEPT ![p][r] = @ + 1]  BY <2>0, <3>3
    <3>6. inbox \in [Rank -> [Rank -> Nat]] /\ visible \in [Rank -> [Rank -> Nat]]
      BY DEF TypeInv
    <3>7. inbox'[p][r] = inbox[p][r] + 1
          /\ \A q, o \in Rank : q # r \/ o # p => inbox'[o][q] = inbox[o][q]
      BY <1>0, <3>5, <3>6
    <3> QED BY <1>3, <3>2, <3>4, <3>7
  <2> QED BY <2>1, <2>2
<1>7. ASSUME NEW q \in Rank, NEW o \in Rank
      PROVE  seen(q, o)' = seen(q, o) /\ posted(q, o)' = posted(q, o)
  BY <1>4 DEF seen, posted
<1>8. carried(r, p)' = c + 1
  <2>1. Len(pending'[r][p]) = Len(pending[r][p]) - 1  BY <1>1, <1>5, FirstTaken
  <2>2. posted(r, p) \in Int
    <3>1. entered[r] \in Nat  BY Types
    <3> QED BY <3>1 DEF posted
  <2>3. carried(r, p)' = posted(r, p) - (Len(pending[r][p]) - 1)
    BY <1>0, <1>7, <2>1 DEF carried
  <2>4. c = posted(r, p) - Len(pending[r][p])  BY <1>2 DEF carried
  <2>5. \A x \in Int, l \in Nat : x - (l - 1) = (x - l) + 1  OBVIOUS
  <2>6. carried(r, p)' = (posted(r, p) - Len(pending[r][p])) + 1
    BY <1>1, <2>2, <2>3, <2>5
  <2> QED BY <2>4, <2>6
<1>9. QueueInv'
  <2> SUFFICES ASSUME NEW q \in Rank, NEW o \in other(q)
               PROVE  (/\ 0 <= carried(q, o)
                       /\ \A i \in 1 .. Len(pending[q][o]) :
                            pending[q][o][i] = request(carried(q, o) + i)
                       /\ inbox[o][q] = carried(q, o) \div 2
                       /\ visible[q][o] = (carried(q, o) + 1) \div 2)'
    BY DEF QueueInv, other
  <2>0. o \in Rank  BY Constants
  <2>1. CASE q # r \/ o # p
    <3>1. carried(q, o)' = carried(q, o) /\ pending'[q][o] = pending[q][o]
      BY <1>5, <1>7, <2>0, <2>1 DEF carried
    <3> QED BY <1>6, <2>0, <2>1, <3>1 DEF GdaInv, QueueInv
  <2>2. CASE q = r /\ o = p
    <3>1. ASSUME NEW i \in 1 .. Len(pending'[r][p])
          PROVE  pending'[r][p][i] = request(c + 1 + i)
      <4>1. /\ pending'[r][p][i] = pending[r][p][i + 1]
            /\ i + 1 \in 1 .. Len(pending[r][p])
        BY <1>1, <1>5, <3>1, FirstTaken
      <4>2. pending[r][p][i + 1] = request(c + (i + 1))
        BY <1>2, <4>1 DEF GdaInv, QueueInv
      <4>3. c + (i + 1) = c + 1 + i
        <5>1. Len(pending'[r][p]) \in Nat  BY <1>1, <1>5, FirstTaken
        <5>2. i \in Nat  BY <5>1
        <5> QED BY <5>2
      <4> QED BY <4>1, <4>2, <4>3
    <3>2. 0 <= c + 1  OBVIOUS
    <3> QED BY <1>6, <1>8, <2>2, <3>1, <3>2
  <2> QED BY <2>1, <2>2
<1>10. SignalInv'
  <2> SUFFICES ASSUME NEW q \in Rank, NEW o \in other(q)
               PROVE  shadow'[q][o] = seen(q, o)' /\ shadow'[q][o] <= inbox'[q][o]
    BY DEF SignalInv, other
  <2>0. o \in Rank  BY Constants
  <2>1. shadow'[q][o] = seen(q, o)' /\ shadow'[q][o] <= inbox[q][o]
    BY <1>4, <1>7, <2>0 DEF GdaInv, SignalInv
  <2>2. CASE q = p /\ o = r
    <3>1. inbox[p][r] <= inbox'[p][r]  BY <1>3, <1>6
    <3>2. inbox[p][r] \in Nat /\ inbox'[p][r] \in Nat /\ shadow'[p][r] \in Nat
      BY <1>0, <1>3, <1>4, <1>6, Types
    <3> QED BY <2>1, <2>2, <3>1, <3>2
  <2>3. CASE ~(q = p /\ o = r)
    <3>1. inbox'[q][o] = inbox[q][o]  BY <1>6, <2>0, <2>3
    <3> QED BY <2>1, <3>1
  <2> QED BY <2>2, <2>3
<1> QED BY <1>9, <1>10 DEF GdaInv

-----------------------------------------------------------------------------
(* Nothing has been entered.                                               *)
LEMMA Initially ==
  ASSUME CcoBarriersAssumption, Init
  PROVE  IInv
<1>0. Word \in Nat \ {0} /\ MaxRound \in Nat /\ 0 % Word = 0
  <2>1. Word \in Nat \ {0} /\ MaxRound \in Nat  BY Constants
  <2>2. 0 \in 0 .. Word - 1 /\ Word * 0 + 0 = 0  BY <2>1
  <2>3. (Word * 0 + 0) % Word = 0  BY <2>1, <2>2, RemainderIs
  <2> QED BY <2>1, <2>2, <2>3
<1>1. kind \in {"lsa", "lsa_timeout", "gda"}  BY Constants DEF Init
<1>2. /\ \A r \in Rank : /\ pc[r] = "closed" /\ todo[r] = {} /\ epoch[r] = 0
                         /\ state[r] = 0 /\ entered[r] = 0 /\ exited[r] = 0
      /\ \A r, p \in Rank : /\ inbox[r][p] = 0 /\ shadow[r][p] = 0
                            /\ visible[r][p] = 0 /\ pending[r][p] = <<>>
  BY DEF Init
<1>3. TypeInv  BY <1>0, <1>1 DEF TypeInv, Init, Place
<1>4. PlaceInv  BY <1>0, <1>2 DEF PlaceInv, inside
<1>5. ASSUME NEW r \in Rank, NEW p \in other(r)
      PROVE  /\ seen(r, p) = 0 /\ seen(p, r) = 0 /\ level(r, p) = 0
             /\ carried(r, p) = 0 /\ Len(pending[r][p]) = 0
  <2>1. p \in Rank  BY Constants
  <2>2. seen(r, p) = 0 /\ seen(p, r) = 0
    <3>1. seen(r, p) = 0 + 0 /\ seen(p, r) = 0 + 0  BY <1>2, <2>1 DEF seen
    <3> QED BY <3>1
  <2>3. level(r, p) = 0
    <3>1. level(r, p) = 0 - ((0 - 0) % Word)  BY <1>2, <2>1 DEF level, back
    <3>2. 0 - 0 = 0  OBVIOUS
    <3> QED BY <1>0, <3>1, <3>2
  <2>4. Len(pending[r][p]) = 0  BY <1>2, <2>1
  <2>5. carried(r, p) = 0
    <3>1. posted(r, p) = 2 * 0 - 0  BY <1>2 DEF posted
    <3>2. carried(r, p) = (2 * 0 - 0) - 0  BY <2>4, <3>1 DEF carried
    <3> QED BY <3>2
  <2> QED BY <2>2, <2>3, <2>4, <2>5
<1>6. FencedInv /\ SlotInv /\ StoreInv
  BY <1>0, <1>2, <1>5, Constants DEF FencedInv, SlotInv, StoreInv, other
<1>7. QueueInv /\ SignalInv
  BY <1>2, <1>5, Constants DEF QueueInv, SignalInv, other
<1> QED BY <1>3, <1>4, <1>6, <1>7 DEF IInv

(* Every step keeps the invariant.                                         *)
LEMMA Inductive ==
  ASSUME CcoBarriersAssumption, IInv, [Next]_vars
  PROVE  IInv'
<1>0. /\ TypeInv /\ PlaceInv
      /\ (kind # "gda" => LsaInv) /\ (kind = "gda" => GdaInv)
  BY DEF IInv, LsaInv, GdaInv
<1>1. SUFFICES /\ TypeInv' /\ PlaceInv' /\ kind' = kind
               /\ kind # "gda" => LsaInv'
               /\ kind = "gda" => GdaInv'
  BY DEF IInv, LsaInv, GdaInv
<1>2. CASE UNCHANGED vars
  <2>1. TypeInv' /\ PlaceInv' /\ kind' = kind
    BY <1>0, <1>2 DEF vars, TypeInv, PlaceInv, inside
  <2>2. ASSUME NEW r \in Rank, NEW p \in Rank
        PROVE  seen(r, p)' = seen(r, p) /\ posted(r, p)' = posted(r, p)
    BY <1>2 DEF vars, seen, posted
  <2>3. Same /\ shadow' = shadow /\ pc' = pc  BY <1>2 DEF vars, Same
  <2>4. ASSUME LsaInv PROVE LsaInv'
    <3>1. \A r \in Rank : \A p \in other(r) :
            seen(p, r)' <= level(r, p) /\ (pc'[r] # "fence" => visible[r][p] = entered[r])
      BY <2>2, <2>3, <2>4, Constants DEF LsaInv, FencedInv, SlotInv
    <3> QED BY <2>3, <2>4, <3>1, LsaStill
  <2>5. ASSUME GdaInv PROVE GdaInv'
    BY <2>2, <2>3, <2>5, GdaStill, Constants
  <2> QED BY <1>0, <2>1, <2>4, <2>5
<1>3. ASSUME NEW r \in Rank, Open(r) \/ Close(r)
      PROVE  /\ TypeInv' /\ PlaceInv' /\ kind' = kind
             /\ kind # "gda" => LsaInv'
             /\ kind = "gda" => GdaInv'
  <2>1. kind' = kind  BY <1>3 DEF Open, Close
  <2> QED BY <1>0, <1>3, <2>1, OpenPlace, ClosePlace, SessionSteps
<1>4. ASSUME NEW r \in Rank, Enter(r)
      PROVE  /\ TypeInv' /\ PlaceInv' /\ kind' = kind
             /\ kind # "gda" => LsaInv'
             /\ kind = "gda" => GdaInv'
  <2>1. kind' = kind  BY <1>4 DEF Enter
  <2> QED BY <1>0, <1>4, <2>1, EnterPlace, EnterLsa, EnterGda
<1>5. ASSUME NEW r \in Rank, Fence(r) \/ Arrived(r) \/ Pass(r) \/ TimeOut(r)
      PROVE  /\ TypeInv' /\ PlaceInv' /\ kind' = kind
             /\ kind # "gda" => LsaInv'
             /\ kind = "gda" => GdaInv'
  <2>1. kind' = kind  BY <1>5 DEF Fence, Arrived, Pass, TimeOut
  <2>2. TypeInv' /\ PlaceInv'  BY <1>0, <1>5, MovePlace, PassPlace
  <2> QED BY <1>0, <1>5, <2>1, <2>2, MoveSteps
<1>6. ASSUME NEW r \in Rank, NEW p \in other(r),
             Arrive(r, p) \/ Take(r, p) \/ Land(r, p) \/ Deliver(r, p)
      PROVE  /\ TypeInv' /\ PlaceInv' /\ kind' = kind
             /\ kind # "gda" => LsaInv'
             /\ kind = "gda" => GdaInv'
  <2>1. kind' = kind  BY <1>6 DEF Arrive, Take, Land, Deliver
  <2>2. TypeInv' /\ PlaceInv'  BY <1>0, <1>6, PeerPlace, DeliverPlace
  <2>3. CASE Arrive(r, p)  BY <1>0, <2>1, <2>2, <2>3, ArriveLsa, ArriveGda
  <2>4. CASE Take(r, p)  BY <1>0, <2>1, <2>2, <2>4, TakeLsa, TakeGda
  <2>5. CASE Land(r, p)
    <3>1. kind # "gda"  BY <2>5 DEF Land
    <3> QED BY <1>0, <2>1, <2>2, <2>5, <3>1, LandLsa
  <2>6. CASE Deliver(r, p)  BY <1>0, <2>1, <2>2, <2>6, DeliverLsa, DeliverGda
  <2> QED BY <1>6, <2>3, <2>4, <2>5, <2>6
<1> QED BY <1>2, <1>3, <1>4, <1>5, <1>6 DEF Next, Step

(* The invariant holds.                                                    *)
THEOREM CcoInvariance == ASSUME CcoBarriersAssumption PROVE Spec => []IInv
<1>1. Init => IInv  BY Initially
<1>2. IInv /\ [Next]_vars => IInv'  BY Inductive
<1> QED BY <1>1, <1>2, PTL DEF Spec

-----------------------------------------------------------------------------
(* What the invariant says of two ranks, whichever barrier it is.          *)
LEMMA Apart ==
  ASSUME CcoBarriersAssumption, IInv, NEW r \in Rank, NEW p \in other(r)
  PROVE  /\ entered[p] >= exited[r] /\ visible[p][r] >= exited[r]
         /\ visible[p][r] <= entered[p]
         /\ inbox[r][p] <= IF kind = "gda" THEN MaxRound ELSE Word - 1
<1>0. p \in Rank /\ r \in other(p) /\ Word \in Nat \ {0} /\ MaxRound \in Nat
  BY Constants
<1>1. TypeInv /\ PlaceInv  BY DEF IInv
<1>2. /\ entered[p] \in Nat /\ entered[p] <= MaxRound /\ exited[r] \in Nat
      /\ inbox[r][p] \in Nat /\ visible[p][r] \in Nat /\ shadow[r][p] \in Nat
      /\ seen(r, p) \in Nat /\ Len(pending[p][r]) \in Nat
  BY <1>0, <1>1, Types
<1>3. exited[r] <= seen(r, p)  BY <1>2 DEF seen
<1>4. CASE kind # "gda"
  <2>1. FencedInv /\ SlotInv  BY <1>4 DEF IInv
  <2>2. /\ seen(r, p) <= level(p, r) /\ level(p, r) <= visible[p][r]
        /\ visible[p][r] <= entered[p] /\ inbox[r][p] \in 0 .. Word - 1
    BY <1>0, <2>1 DEF FencedInv, SlotInv
  <2>3. level(p, r) \in Int
    <3>1. (entered[p] - inbox[r][p]) % Word \in 0 .. Word - 1  BY <1>2, Epochs
    <3> QED BY <1>0, <1>2, <3>1 DEF level, back
  <2> QED BY <1>0, <1>2, <1>3, <1>4, <2>2, <2>3
<1>5. CASE kind = "gda"
  <2>1. QueueInv /\ SignalInv  BY <1>5 DEF IInv
  <2>2. /\ 0 <= carried(p, r) /\ inbox[r][p] = carried(p, r) \div 2
        /\ visible[p][r] = (carried(p, r) + 1) \div 2
        /\ shadow[r][p] = seen(r, p) /\ shadow[r][p] <= inbox[r][p]
    BY <1>0, <2>1 DEF QueueInv, SignalInv
  <2>3. carried(p, r) \in Int /\ carried(p, r) <= 2 * entered[p]
    <3>1. posted(p, r) \in Int /\ posted(p, r) <= 2 * entered[p]
      BY <1>2 DEF posted
    <3> QED BY <1>2, <3>1 DEF carried
  <2>4. /\ carried(p, r) \div 2 <= entered[p]
        /\ (carried(p, r) + 1) \div 2 <= entered[p]
        /\ carried(p, r) \div 2 <= (carried(p, r) + 1) \div 2
    BY <1>2, <2>2, <2>3
  <2>5. exited[r] <= inbox[r][p]  BY <1>2, <1>3, <2>2
  <2>6. inbox[r][p] <= visible[p][r] /\ visible[p][r] <= entered[p]
        /\ inbox[r][p] <= entered[p]
    BY <2>2, <2>4
  <2>7. /\ entered[p] >= exited[r] /\ visible[p][r] >= exited[r]
        /\ inbox[r][p] <= MaxRound
    BY <1>0, <1>2, <2>5, <2>6
  <2> QED BY <1>5, <2>6, <2>7
<1> QED BY <1>4, <1>5

(* TypeOK: epochs stay in their word, nobody is more than one barrier in,  *)
(* and data and signals are of barriers that were entered.                 *)
THEOREM CcoTypeCorrect == ASSUME CcoBarriersAssumption PROVE Spec => []TypeOK
<1>1. IInv => TypeOK
  <2> SUFFICES ASSUME IInv, NEW r \in Rank
               PROVE  /\ {epoch[r], state[r]} \subseteq 0 .. Word - 1
                      /\ entered[r] <= MaxRound /\ entered[r] - exited[r] \in {0, 1}
                      /\ \A p \in Rank : /\ visible[r][p] <= entered[r]
                                         /\ inbox[r][p] <= IF kind = "gda" THEN MaxRound
                                                                           ELSE Word - 1
    BY DEF TypeOK
  <2>0. TypeInv /\ PlaceInv /\ Word \in Nat \ {0} /\ MaxRound \in Nat
    BY Constants DEF IInv
  <2>1. /\ epoch[r] \in 0 .. Word - 1 /\ state[r] \in 0 .. Word - 1
        /\ entered[r] \in Nat /\ entered[r] <= MaxRound /\ exited[r] \in Nat
    BY <2>0, Types
  <2>2. entered[r] - exited[r] \in {0, 1}  BY <2>0, <2>1 DEF PlaceInv
  <2>3. ASSUME NEW p \in Rank
        PROVE  /\ visible[r][p] <= entered[r]
               /\ inbox[r][p] <= IF kind = "gda" THEN MaxRound ELSE Word - 1
    <3>1. CASE p = r
      <4>1. visible[r][r] = 0 /\ inbox[r][r] = 0  BY <2>0 DEF PlaceInv
      <4> QED BY <2>0, <2>1, <3>1, <4>1
    <3>2. CASE p # r
      <4>1. r \in other(p) /\ p \in other(r)  BY <3>2, Constants
      <4> QED BY <4>1, Apart
    <3> QED BY <3>1, <3>2
  <2> QED BY <2>1, <2>2, <2>3
<1> QED BY <1>1, CcoInvariance, PTL

(* Nobody passes a barrier that a peer has not entered, however the epoch  *)
(* wraps and however often sessions are opened and waits given up          *)
(* (waitInternal, ~Session).                                               *)
THEOREM CcoSeparates == ASSUME CcoBarriersAssumption PROVE Spec => []Separation
<1>1. IInv => Separation
  <2> SUFFICES ASSUME IInv, NEW r \in Rank, NEW p \in Rank
               PROVE  entered[p] >= exited[r]
    BY DEF Separation
  <2>1. CASE p = r
    <3>1. TypeInv /\ PlaceInv  BY DEF IInv
    <3>2. entered[r] \in Nat /\ exited[r] \in Nat  BY <3>1, Types
    <3> QED BY <2>1, <3>1, <3>2 DEF PlaceInv
  <2>2. CASE p # r
    <3>1. p \in other(r)  BY <2>2, Constants
    <3> QED BY <3>1, Apart
  <2> QED BY <2>1, <2>2
<1> QED BY <1>1, CcoInvariance, PTL

(* What a rank wrote before a barrier its peers see after it: behind the   *)
(* fence of arrive, or ahead of the signal on its queue pair.              *)
THEOREM CcoDataSeen == ASSUME CcoBarriersAssumption PROVE Spec => []DataSeen
<1>1. IInv => DataSeen
  <2> SUFFICES ASSUME IInv, NEW r \in Rank, NEW p \in other(r)
               PROVE  visible[p][r] >= exited[r]
    BY DEF DataSeen
  <2> QED BY Apart
<1> QED BY <1>1, CcoInvariance, PTL

(* Both, which is what the barriers promise to their callers.              *)
THEOREM CcoBarrierHolds == ASSUME CcoBarriersAssumption PROVE Spec => []BarrierHolds
<1>1. Separation /\ DataSeen => BarrierHolds  BY DEF BarrierHolds
<1> QED BY <1>1, CcoSeparates, CcoDataSeen, PTL
==============================================================================
