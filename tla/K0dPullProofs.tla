---------------------------- MODULE K0dPullProofs ----------------------------
(* The pull arms of the decode layer, for every number of ranks, CTAs,     *)
(* tokens and replays, every routing and any order of arms.                *)
EXTENDS K0dPullInv, FiniteSetTheorems, TLAPS

-----------------------------------------------------------------------------
(* What the assumptions on the constants say.                              *)
LEMMA Constants ==
  ASSUME K0dPullAssumption
  PROVE  /\ World \in Nat \ {0} /\ Grid \in Nat \ {0} /\ T \in Nat \ {0}
         /\ Inputs \subseteq [Rank -> [Token -> SUBSET Rank]]
         /\ Arms \subseteq {"s", "b2f", "f"}
         /\ MaxTimeOut \in Nat /\ MaxReplay \in Nat /\ CounterMod \in Nat \ {0}
BY CounterModAssumption DEF K0dPullAssumption

(* CTA 0 and rank 0 exist.                                                 *)
LEMMA Zero == ASSUME K0dPullAssumption
              PROVE  0 \in Block /\ 0 \in Rank /\ Block # {}
<1>1. 0 \in Block /\ 0 \in Rank  BY Constants DEF Block, Rank
<1> QED BY <1>1

(* The global number of a token is a natural.                              *)
LEMMA Number ==
  ASSUME K0dPullAssumption, NEW g \in Gtok
  PROVE  g[1] * T + g[2] \in Nat
<1>1. g[1] \in Nat /\ g[2] \in Nat  BY Constants DEF Gtok, Rank, Token
<1>2. g[1] * T \in Nat  BY <1>1, Constants
<1> QED BY <1>1, <1>2

(* The global numbers of two tokens differ.                                *)
LEMMA Ordered ==
  ASSUME K0dPullAssumption, NEW g \in Gtok, NEW h \in Gtok, g # h
  PROVE  before(g, h) \/ before(h, g)
<1>1. /\ g = <<g[1], g[2]>> /\ h = <<h[1], h[2]>>
      /\ g[1] \in Rank /\ h[1] \in Rank /\ g[2] \in Token /\ h[2] \in Token
  BY DEF Gtok
<1>2. /\ g[1] \in Nat /\ h[1] \in Nat /\ g[2] \in 0 .. T - 1 /\ h[2] \in 0 .. T - 1
      /\ T \in Nat /\ T > 0
  BY <1>1, Constants DEF Rank, Token
<1>3. g[1] * T \in Nat /\ h[1] * T \in Nat  BY <1>2
<1>4. ASSUME NEW a \in Nat, NEW b \in Nat, a < b
      PROVE  a * T + T <= b * T
  <2>1. (a + 1) * T <= b * T  BY <1>4, <1>2
  <2>2. (a + 1) * T = a * T + T  BY <1>4, <1>2
  <2> QED BY <2>1, <2>2
<1>5. CASE g[1] < h[1]
  <2>1. g[1] * T + T <= h[1] * T  BY <1>5, <1>4, <1>2
  <2> QED BY <2>1, <1>2, <1>3 DEF before
<1>6. CASE h[1] < g[1]
  <2>1. h[1] * T + T <= g[1] * T  BY <1>6, <1>4, <1>2
  <2> QED BY <2>1, <1>2, <1>3 DEF before
<1>7. CASE g[1] = h[1]
  <2>1. g[2] # h[2]  BY <1>1, <1>7
  <2> QED BY <2>1, <1>7, <1>2, <1>3 DEF before
<1> QED BY <1>5, <1>6, <1>7, <1>2

(* A token's place in the list of an owner is a row, below the number of   *)
(* the owner's tokens, and its own (tof).                                  *)
LEMMA Places ==
  ASSUME K0dPullAssumption, NEW ids \in Inputs, NEW p \in Rank
  PROVE  /\ \A g \in own(ids, p) : /\ tof(ids, p, g) \in Row
                                   /\ tof(ids, p, g) < Cardinality(own(ids, p))
         /\ \A g, h \in own(ids, p) : tof(ids, p, g) = tof(ids, p, h) => g = h
<1> DEFINE below(g) == {h \in own(ids, p) : before(h, g)}
<1>1. IsFiniteSet(Gtok) /\ Cardinality(Gtok) = World * T
  <2>1. /\ IsFiniteSet(Rank) /\ Cardinality(Rank) = World
        /\ IsFiniteSet(Token) /\ Cardinality(Token) = T
    <3>1. World \in Nat \ {0} /\ T \in Nat \ {0}  BY Constants
    <3>2. 0 <= World - 1 /\ 0 <= T - 1 /\ World - 1 \in Int /\ T - 1 \in Int
      BY <3>1
    <3>3. /\ IsFiniteSet(0 .. World - 1) /\ Cardinality(0 .. World - 1) = World
          /\ IsFiniteSet(0 .. T - 1) /\ Cardinality(0 .. T - 1) = T
      BY <3>1, <3>2, FS_Interval
    <3> QED BY <3>3 DEF Rank, Token
  <2> QED BY <2>1, FS_Product DEF Gtok
<1>2. own(ids, p) \subseteq Gtok  BY DEF own
<1>3. IsFiniteSet(own(ids, p)) /\ Cardinality(own(ids, p)) <= World * T
  BY <1>1, <1>2, FS_Subset
<1>4. \A g \in Gtok : ~before(g, g)
  <2> SUFFICES ASSUME NEW g \in Gtok PROVE ~before(g, g)  OBVIOUS
  <2> QED BY Number DEF before
<1>5. ASSUME NEW g \in own(ids, p)
      PROVE  /\ IsFiniteSet(below(g)) /\ tof(ids, p, g) = Cardinality(below(g))
             /\ tof(ids, p, g) \in Nat /\ tof(ids, p, g) < Cardinality(own(ids, p))
  <2>1. below(g) \subseteq own(ids, p) /\ g \notin below(g)  BY <1>4, <1>2
  <2>2. IsFiniteSet(below(g)) /\ Cardinality(below(g)) <= Cardinality(own(ids, p))
    BY <2>1, <1>3, FS_Subset
  <2>3. Cardinality(below(g)) # Cardinality(own(ids, p))  BY <2>1, <1>3, FS_Subset
  <2>4. Cardinality(below(g)) \in Nat /\ Cardinality(own(ids, p)) \in Nat
    BY <2>2, <1>3, FS_CardinalityType
  <2>5. tof(ids, p, g) = Cardinality(below(g))  BY DEF tof
  <2> QED BY <2>2, <2>3, <2>4, <2>5
<1>6. ASSUME NEW g \in own(ids, p), NEW h \in own(ids, p), before(g, h)
      PROVE  tof(ids, p, g) # tof(ids, p, h)
  <2>1. below(g) \subseteq below(h)
    <3> SUFFICES ASSUME NEW k \in below(g) PROVE before(k, h)  OBVIOUS
    <3>1. g \in Gtok /\ h \in Gtok /\ k \in Gtok  BY <1>2
    <3>2. /\ g[1] * T + g[2] \in Nat /\ h[1] * T + h[2] \in Nat
          /\ k[1] * T + k[2] \in Nat
      BY <3>1, Number
    <3>3. k[1] * T + k[2] < g[1] * T + g[2] /\ g[1] * T + g[2] < h[1] * T + h[2]
      BY <1>6 DEF before
    <3> HIDE DEF below
    <3> QED BY <3>2, <3>3 DEF before
  <2>2. g \in below(h) /\ g \notin below(g)  BY <1>6, <1>4, <1>2
  <2>3. Cardinality(below(g)) # Cardinality(below(h))
    BY <2>1, <2>2, <1>5, FS_Subset
  <2> QED BY <2>3, <1>5
<1>7. World * T \in Nat /\ Cardinality(own(ids, p)) \in Nat
  BY Constants, <1>3, FS_CardinalityType
<1>8. \A g \in own(ids, p) : tof(ids, p, g) \in Row
  <2> SUFFICES ASSUME NEW g \in own(ids, p) PROVE tof(ids, p, g) \in Row
    OBVIOUS
  <2>1. tof(ids, p, g) \in Nat /\ tof(ids, p, g) < Cardinality(own(ids, p))
    BY <1>5
  <2>2. \A n, m, k \in Nat : n < m /\ m <= k => n < k  OBVIOUS
  <2>3. tof(ids, p, g) < World * T  BY <2>1, <2>2, <1>3, <1>7
  <2> QED BY <2>1, <2>3, <1>7 DEF Row
<1>9. \A g, h \in own(ids, p) : tof(ids, p, g) = tof(ids, p, h) => g = h
  BY <1>6, <1>2, Ordered
<1> QED BY <1>5, <1>8, <1>9

(* A table stays one of its type when an entry is replaced.                *)
LEMMA Update ==
  ASSUME NEW A, NEW B, NEW S, NEW f \in [A -> [B -> S]],
         NEW a \in A, NEW b \in B, NEW v \in S
  PROVE  [f EXCEPT ![a][b] = v] \in [A -> [B -> S]]
OBVIOUS

-----------------------------------------------------------------------------
(* Types and places, whatever gives up.                                    *)
LEMMA TypeInit == ASSUME K0dPullAssumption PROVE Init => TypeInv
<1> SUFFICES ASSUME Init PROVE TypeInv  OBVIOUS
<1>1. TypeOK  BY Constants DEF Init, TypeOK, ErrBits
<1>2. PlaceInv  BY DEF Init, PlaceInv, places, only_in
<1>3. ShapeInv  BY DEF Init, ShapeInv
<1> QED BY <1>1, <1>2, <1>3 DEF TypeInv

(* Launches, and the kernels without CTAs of their own.                    *)
LEMMA TypeBegin ==
  ASSUME K0dPullAssumption, TypeInv, NEW r \in Rank,
         NEW k \in {"fused", "b1", "gather", "gemm", "b2", "combine", "idle"},
         k = "b1" => arm # "f", k = "b2" => arm = "s",
         replay' \in [Rank -> 0 .. MaxReplay],
         \A q \in Rank \ {r} : replay'[q] = replay[q],
         k # "idle" => replay'[r] > 0,
         kernel' = [kernel EXCEPT ![r] = k],
         pc' = [pc EXCEPT ![r] = [c \in Block |-> IF c \in ctas(k) THEN "start"
                                                  ELSE "done"]],
         \/ k = "gather" /\ \E n : rows' = [rows EXCEPT ![r] =
                 [t \in Row |-> IF t < n THEN "clear" ELSE "done"]]
         \/ rows' = rows /\ \A t \in Row : rows[r][t] = "done",
         UNCHANGED <<host, sync, all_ids, pull_src, a_src, a_dst, out, pperr, expired>>,
         DOMAIN part' = Rank /\ \A q \in Rank : DOMAIN part'[q] = Row
  PROVE  TypeInv'
<1>1. TypeOK'
  <2>1. rows' \in [Rank -> [Row -> {"clear", "fetch", "done"}]]
    <3>1. CASE rows' = rows  BY <3>1 DEF TypeInv, TypeOK
    <3>2. ASSUME NEW n, rows' = [rows EXCEPT ![r] =
                   [t \in Row |-> IF t < n THEN "clear" ELSE "done"]]
          PROVE  rows' \in [Rank -> [Row -> {"clear", "fetch", "done"}]]
      <4> DEFINE row == [t \in Row |-> IF t < n THEN "clear" ELSE "done"]
      <4>1. row \in [Row -> {"clear", "fetch", "done"}]  OBVIOUS
      <4>2. rows' = [rows EXCEPT ![r] = row]  BY <3>2
      <4>3. rows \in [Rank -> [Row -> {"clear", "fetch", "done"}]]
        BY DEF TypeInv, TypeOK
      <4> HIDE DEF row
      <4> QED BY <4>1, <4>2, <4>3
    <3> QED BY <3>1, <3>2
  <2>2. pc' \in [Rank -> [Block -> {"start", "wait", "quant", "pull", "signal", "done"}]]
    BY DEF TypeInv, TypeOK
  <2>3. kernel' \in [Rank -> {"idle", "fused", "b1", "gather", "gemm", "b2", "combine"}]
    BY DEF TypeInv, TypeOK
  <2> QED BY <2>1, <2>2, <2>3 DEF TypeInv, TypeOK, host, sync
<1>2. PlaceInv'
  <2> SUFFICES ASSUME NEW q \in Rank
               PROVE  /\ kernel'[q] # "idle" => replay'[q] > 0
                      /\ kernel'[q] = "b1" => arm # "f"
                      /\ kernel'[q] = "b2" => arm = "s"
                      /\ kernel'[q] # "gather" => \A t \in Row : rows'[q][t] = "done"
                      /\ \A c \in Block : /\ pc'[q][c] \in places(kernel'[q])
                                          /\ only_in(pc'[q][c], kernel'[q])
                                          /\ c \notin ctas(kernel'[q]) => pc'[q][c] = "done"
    BY DEF PlaceInv, host, ctas, only_in
  <2>1. CASE q = r
    <3>1. kernel'[r] = k  BY DEF TypeInv, TypeOK
    <3>2. k # "gather" => \A t \in Row : rows'[r][t] = "done"
      BY DEF TypeInv, TypeOK
    <3>3. \A c \in Block : pc'[r][c] = IF c \in ctas(k) THEN "start" ELSE "done"
      BY DEF TypeInv, TypeOK
    <3>4. \A c \in Block : c \in ctas(k) => "start" \in places(k)
      BY DEF ctas, places
    <3>5. "done" \in places(k) /\ only_in("start", k) /\ only_in("done", k)
      BY DEF places, only_in
    <3> QED BY <2>1, <3>1, <3>2, <3>3, <3>4, <3>5
  <2>2. CASE q # r
    <3>1. kernel'[q] = kernel[q] /\ pc'[q] = pc[q] /\ replay'[q] = replay[q]
      BY <2>2 DEF TypeInv, TypeOK
    <3>2. rows'[q] = rows[q]  BY <2>2 DEF TypeInv, TypeOK
    <3> QED BY <3>1, <3>2 DEF TypeInv, PlaceInv
  <2> QED BY <2>1, <2>2
<1>3. ShapeInv'  BY DEF TypeInv, ShapeInv
<1> QED BY <1>1, <1>2, <1>3 DEF TypeInv

(* One CTA goes on within its kernel.                                      *)
LEMMA TypeGoto ==
  ASSUME TypeInv, NEW r \in Rank, NEW c \in Block, NEW l,
         l \in places(kernel[r]), only_in(l, kernel[r]), c \in ctas(kernel[r]),
         goto(r, c, l), UNCHANGED <<arm, kernel, replay, rows>>
  PROVE  /\ pc' \in [Rank -> [Block -> {"start", "wait", "quant", "pull", "signal", "done"}]]
         /\ PlaceInv'
<1>1. places(kernel[r]) \subseteq {"start", "wait", "quant", "pull", "signal", "done"}
  BY DEF places
<1>2. pc' \in [Rank -> [Block -> {"start", "wait", "quant", "pull", "signal", "done"}]]
  BY <1>1 DEF goto, TypeInv, TypeOK
<1>3. \A q \in Rank : \A b \in Block :
         pc'[q][b] = IF q = r /\ b = c THEN l ELSE pc[q][b]
  BY DEF goto, TypeInv, TypeOK
<1>4. PlaceInv'
  <2> SUFFICES ASSUME NEW q \in Rank, NEW b \in Block
               PROVE  /\ pc'[q][b] \in places(kernel[q])
                      /\ only_in(pc'[q][b], kernel[q])
                      /\ b \notin ctas(kernel[q]) => pc'[q][b] = "done"
    BY DEF TypeInv, PlaceInv, only_in, ctas
  <2> QED BY <1>3 DEF TypeInv, PlaceInv
<1> QED BY <1>2, <1>4

(* The words of a wait that gives up are error words.                      *)
LEMMA Raise ==
  ASSUME TypeOK, NEW r \in Rank, NEW bits \in SUBSET ErrBits, raise(r, bits)
  PROVE  pperr' \in [Rank -> SUBSET ErrBits]
BY DEF TypeOK, raise

(* Counters stay counters.                                                 *)
LEMMA BumpType == ASSUME NEW x \in Nat PROVE bump(x) \in 0 .. CounterMod - 1
BY CounterModAssumption DEF bump

(* Launches and ends of launches keep the types and places.                *)
LEMMA TypeStream ==
  ASSUME K0dPullAssumption, TypeInv, NEW r \in Rank,
         Launch(r) \/ KernelEnd(r) \/ Gemm(r)
  PROVE  TypeInv'
<1> USE DEF TypeInv
<1>1. CASE Launch(r)
  <2>1. replay' \in [Rank -> 0 .. MaxReplay] /\ replay'[r] > 0
    BY <1>1, Constants DEF Launch, TypeOK
  <2>2. /\ \A q \in Rank \ {r} : replay'[q] = replay[q]
        /\ kernel[r] = "idle" /\ begin(r, "fused")
        /\ UNCHANGED <<host, sync, all_ids, pull_src, a_src, a_dst, part, out,
                       pperr, expired>>
    BY <1>1 DEF Launch, TypeOK
  <2>3. \A t \in Row : rows[r][t] = "done"  BY <2>2 DEF PlaceInv
  <2>4. DOMAIN part' = Rank /\ \A q \in Rank : DOMAIN part'[q] = Row
    BY <2>2 DEF ShapeInv
  <2> QED BY <2>1, <2>2, <2>3, <2>4, TypeBegin DEF begin
<1>2. CASE KernelEnd(r)
  <2> DEFINE k == successor(kernel[r])
  <2>1. /\ kernel[r] \notin {"idle", "gemm"} /\ begin(r, k)
        /\ \A t \in Row : rows[r][t] = "done"
        /\ UNCHANGED <<replay, host, sync, all_ids, pull_src, a_src, a_dst,
                       part, out, pperr, expired>>
    BY <1>2 DEF KernelEnd
  <2>2. /\ k \in {"fused", "b1", "gather", "gemm", "b2", "combine", "idle"}
        /\ k = "b1" => arm # "f"
        /\ k # "b2"
    BY <2>1 DEF successor, TypeOK
  <2>3. replay[r] > 0 /\ replay' = replay  BY <2>1 DEF PlaceInv
  <2>4. DOMAIN part' = Rank /\ \A q \in Rank : DOMAIN part'[q] = Row
    BY <2>1 DEF ShapeInv
  <2>5. replay' \in [Rank -> 0 .. MaxReplay]  BY <2>3 DEF TypeOK
  <2>6. /\ kernel' = [kernel EXCEPT ![r] = k]
        /\ pc' = [pc EXCEPT ![r] = [c \in Block |-> IF c \in ctas(k) THEN "start"
                                                    ELSE "done"]]
        /\ \/ k = "gather" /\ \E n : rows' = [rows EXCEPT ![r] =
                [t \in Row |-> IF t < n THEN "clear" ELSE "done"]]
           \/ rows' = rows /\ \A t \in Row : rows[r][t] = "done"
    BY <2>1 DEF begin
  <2> HIDE DEF k, TypeInv
  <2> QED BY <2>1, <2>2, <2>3, <2>4, <2>5, <2>6, TypeBegin DEF TypeInv
<1>3. CASE Gemm(r)
  <2> DEFINE k == successor("gemm")
  <2>1. /\ kernel[r] = "gemm" /\ kernel' = [kernel EXCEPT ![r] = k]
        /\ pc' = [pc EXCEPT ![r] = [c \in Block |-> IF c \in ctas(k) THEN "start"
                                                    ELSE "done"]]
        /\ UNCHANGED <<replay, host, sync, all_ids, pull_src, a_src, rows, a_dst,
                       out, pperr, expired>>
    BY <1>3 DEF Gemm
  <2>2. /\ k \in {"fused", "b1", "gather", "gemm", "b2", "combine", "idle"}
        /\ k = "b2" => arm = "s"
        /\ k # "b1"
    BY DEF successor
  <2>3. replay[r] > 0 /\ replay' = replay  BY <2>1 DEF PlaceInv
  <2>4. DOMAIN part' = Rank /\ \A q \in Rank : DOMAIN part'[q] = Row
    BY <1>3 DEF ShapeInv, Gemm
  <2>5. \A t \in Row : rows[r][t] = "done"  BY <2>1 DEF PlaceInv
  <2>6. replay' \in [Rank -> 0 .. MaxReplay]  BY <2>3 DEF TypeOK
  <2> HIDE DEF k, TypeInv
  <2> QED BY <2>1, <2>2, <2>3, <2>4, <2>5, <2>6, TypeBegin DEF TypeInv
<1> QED BY <1>1, <1>2, <1>3

(* The steps of k0d_fused and k0d_barrier keep them too, ...               *)
LEMMA TypeWork ==
  ASSUME K0dPullAssumption, TypeInv, NEW r \in Rank,
         \/ Plan(r) \/ Combined(r) \/ CombinedTimeOut(r) \/ Quantise(r)
         \/ BarrierArrive(r) \/ BarrierPass(r) \/ BarrierTimeOut(r)
  PROVE  TypeInv'
<1> USE Zero DEF TypeInv
<1>0. {0} \subseteq Block /\ 0 \in ctas("fused") /\ 0 \in ctas("b1") /\ 0 \in ctas("b2")
  BY DEF ctas
<1>1. CASE Plan(r)
  <2> DEFINE l == IF arm = "f" THEN "wait" ELSE "quant"
  <2>1. /\ kernel[r] = "fused" /\ goto(r, 0, l)
        /\ UNCHANGED <<kernel, replay, host, sync, a_src, rows, a_dst, part, out, pperr,
                       expired>>
    BY <1>1 DEF Plan, at
  <2>2. l \in places("fused") /\ only_in(l, "fused")  BY DEF places, only_in
  <2>3. arm' = arm /\ UNCHANGED <<arm, kernel, replay, rows>>  BY <2>1 DEF host
  <2> HIDE DEF l
  <2>4. /\ pc' \in [Rank -> [Block -> {"start", "wait", "quant", "pull", "signal", "done"}]]
        /\ PlaceInv'
    BY <2>1, <2>2, <2>3, <1>0, TypeGoto
  <2>5. \A q, p \in Rank : \A tau \in Token :
           p \in my_ids[q][tau] => tof(my_ids, p, <<q, tau>>) \in Row
    <3> SUFFICES ASSUME NEW q \in Rank, NEW p \in Rank, NEW tau \in Token,
                        p \in my_ids[q][tau]
                 PROVE  tof(my_ids, p, <<q, tau>>) \in Row
      OBVIOUS
    <3>1. <<q, tau>> \in own(my_ids, p)  BY DEF own, Gtok
    <3>2. my_ids \in Inputs  BY DEF TypeOK
    <3> QED BY <3>1, <3>2, Places
  <2>6. pull_src' \in [Rank -> [Token -> SUBSET (Rank \X Row)]]
    <3>1. \A tau \in Token : my_ids[r][tau] \subseteq Rank
      BY Constants DEF TypeOK
    <3>2. [tau \in Token |-> {<<p, tof(my_ids, p, <<r, tau>>)>> : p \in my_ids[r][tau]}]
            \in [Token -> SUBSET (Rank \X Row)]
      BY <3>1, <2>5
    <3> QED BY <3>2, <1>1 DEF Plan, TypeOK
  <2>7. all_ids' \in [Rank -> Inputs]  BY <1>1 DEF Plan, TypeOK
  <2>8. TypeOK'  BY <2>1, <2>4, <2>6, <2>7 DEF TypeOK, host, sync
  <2>9. ShapeInv'  BY <2>1 DEF ShapeInv
  <2> QED BY <2>4, <2>8, <2>9
<1>2. CASE Combined(r) \/ CombinedTimeOut(r)
  <2>1. PICK bits \in SUBSET ErrBits : go_quantise(r, bits)
    BY <1>2 DEF Combined, CombinedTimeOut, ErrBits
  <2>2. kernel[r] = "fused"  BY <1>2 DEF Combined, CombinedTimeOut, at
  <2>3. "quant" \in places("fused") /\ only_in("quant", "fused")
    BY DEF places, only_in
  <2>4. expired' \in 0 .. MaxTimeOut
    BY <1>2, Constants DEF Combined, CombinedTimeOut, time_out, TypeOK
  <2>5. /\ pc' \in [Rank -> [Block -> {"start", "wait", "quant", "pull", "signal", "done"}]]
        /\ PlaceInv'
    BY <2>1, <2>2, <2>3, <1>0, TypeGoto DEF go_quantise, host, data
  <2>6. pperr' \in [Rank -> SUBSET ErrBits]  BY <2>1, Raise DEF go_quantise
  <2>7. TypeOK'  BY <2>1, <2>4, <2>5, <2>6 DEF TypeOK, go_quantise, host, sync, data
  <2>8. ShapeInv'  BY <2>1 DEF ShapeInv, go_quantise, data
  <2> QED BY <2>5, <2>7, <2>8
<1>3. CASE Quantise(r)
  <2>1. "done" \in places("fused") /\ only_in("done", "fused")
    BY DEF places, only_in
  <2>2. /\ pc' \in [Rank -> [Block -> {"start", "wait", "quant", "pull", "signal", "done"}]]
        /\ PlaceInv'
    BY <2>1, <1>3, <1>0, TypeGoto DEF Quantise, at, host
  <2>3. count' \in [Channel -> [Rank -> 0 .. CounterMod - 1]]
    <3>1. count["quant"][r] \in Nat  BY Constants DEF TypeOK, Channel
    <3>2. bump(count["quant"][r]) \in 0 .. CounterMod - 1  BY <3>1, BumpType
    <3>3. count \in [Channel -> [Rank -> 0 .. CounterMod - 1]] /\ "quant" \in Channel
      BY DEF TypeOK, Channel
    <3>4. \/ count' = [count EXCEPT !["quant"][r] = bump(count["quant"][r])]
          \/ count' = count
      BY <1>3 DEF Quantise
    <3> QED BY <3>2, <3>3, <3>4
  <2>4. a_src' \in [Rank -> [Token -> 0 .. MaxReplay]]
    BY <1>3 DEF Quantise, TypeOK
  <2>5. TypeOK'  BY <1>3, <2>2, <2>3, <2>4 DEF TypeOK, Quantise, host
  <2>6. ShapeInv'  BY <1>3 DEF ShapeInv, Quantise
  <2> QED BY <2>2, <2>5, <2>6
<1>4. CASE BarrierArrive(r)
  <2>1. kernel[r] \in {"b1", "b2"}  BY <1>4 DEF BarrierArrive
  <2>2. "wait" \in places(kernel[r]) /\ only_in("wait", kernel[r]) /\ 0 \in ctas(kernel[r])
    BY <2>1, <1>0 DEF places, only_in
  <2>3. /\ pc' \in [Rank -> [Block -> {"start", "wait", "quant", "pull", "signal", "done"}]]
        /\ PlaceInv'
    BY <2>2, <1>4, <1>0, TypeGoto DEF BarrierArrive, host, data
  <2>4. count[kernel[r]][r] \in Nat /\ kernel[r] \in Channel
    BY <2>1, Constants DEF TypeOK, Channel
  <2>5. bump(count[kernel[r]][r]) \in 0 .. CounterMod - 1  BY <2>4, BumpType
  <2>6. /\ count' = [count EXCEPT ![kernel[r]][r] = bump(@)]
        /\ epoch' = [epoch EXCEPT ![r][0] = bump(count[kernel[r]][r])]
        /\ UNCHANGED <<kernel, replay, host, flags, data, pperr, expired>>
    BY <1>4 DEF BarrierArrive, epoch_from_cell
  <2>7. count' \in [Channel -> [Rank -> 0 .. CounterMod - 1]]
    BY <2>4, <2>5, <2>6 DEF TypeOK
  <2>8. epoch' \in [Rank -> [Block -> Nat]]
    <3>1. bump(count[kernel[r]][r]) \in Nat  BY <2>5, Constants
    <3> QED BY <3>1, <2>6 DEF TypeOK
  <2>9. TypeOK'  BY <2>3, <2>6, <2>7, <2>8 DEF TypeOK, host, data
  <2>10. ShapeInv'  BY <2>6 DEF ShapeInv, data
  <2> QED BY <2>3, <2>9, <2>10
<1>5. CASE BarrierPass(r) \/ BarrierTimeOut(r)
  <2>1. PICK bits \in SUBSET ErrBits : barrier_leave(r, bits)
    BY <1>5 DEF BarrierPass, BarrierTimeOut, ErrBits
  <2>2. kernel[r] \in {"b1", "b2"}  BY <1>5 DEF BarrierPass, BarrierTimeOut
  <2>3. "done" \in places(kernel[r]) /\ only_in("done", kernel[r]) /\ 0 \in ctas(kernel[r])
    BY <2>2, <1>0 DEF places, only_in
  <2>4. expired' \in 0 .. MaxTimeOut
    BY <1>5, Constants DEF BarrierPass, BarrierTimeOut, time_out, TypeOK
  <2>5. /\ pc' \in [Rank -> [Block -> {"start", "wait", "quant", "pull", "signal", "done"}]]
        /\ PlaceInv'
    BY <2>1, <2>3, <1>0, TypeGoto DEF barrier_leave, host, data
  <2>6. pperr' \in [Rank -> SUBSET ErrBits]  BY <2>1, Raise DEF barrier_leave
  <2>7. TypeOK'  BY <2>1, <2>4, <2>5, <2>6 DEF TypeOK, barrier_leave, host, sync, data
  <2>8. ShapeInv'  BY <2>1 DEF ShapeInv, barrier_leave, data
  <2> QED BY <2>5, <2>7, <2>8
<1> QED BY <1>1, <1>2, <1>3, <1>4, <1>5

(* ... those of the rows ...                                               *)
LEMMA TypeRows ==
  ASSUME K0dPullAssumption, TypeInv, NEW r \in Rank, NEW t \in Row,
         ClearRow(r, t) \/ FetchRow(r, t) \/ FetchTimeOut(r, t)
  PROVE  TypeInv'
<1> USE DEF TypeInv
<1>1. CASE ClearRow(r, t)
  <2>1. TypeOK'
    <3>1. rows' \in [Rank -> [Row -> {"clear", "fetch", "done"}]]
      BY <1>1 DEF ClearRow, TypeOK
    <3> QED BY <1>1, <3>1 DEF ClearRow, TypeOK, stream, host, sync
  <2>2. PlaceInv'  BY <1>1 DEF ClearRow, PlaceInv, stream, host, only_in, ctas
  <2>3. ShapeInv'  BY <1>1 DEF ClearRow, ShapeInv
  <2> QED BY <2>1, <2>2, <2>3
<1>2. CASE FetchRow(r, t) \/ FetchTimeOut(r, t)
  <2>1. PICK bits \in SUBSET ErrBits : fetch(r, t, bits)
    BY <1>2 DEF FetchRow, FetchTimeOut, ErrBits
  <2>2. kernel[r] = "gather"  BY <1>2 DEF FetchRow, FetchTimeOut
  <2>3. expired' \in 0 .. MaxTimeOut
    BY <1>2, Constants DEF FetchRow, FetchTimeOut, time_out, TypeOK
  <2>4. rows' \in [Rank -> [Row -> {"clear", "fetch", "done"}]]
    BY <2>1 DEF fetch, TypeOK
  <2>5. pperr' \in [Rank -> SUBSET ErrBits]  BY <2>1, Raise DEF fetch
  <2>6. TypeOK'  BY <2>1, <2>3, <2>4, <2>5 DEF TypeOK, fetch, stream, host, sync
  <2>7. \A q \in Rank : q # r => rows'[q] = rows[q]  BY <2>1 DEF fetch, TypeOK
  <2>8. PlaceInv'
    BY <2>1, <2>2, <2>7 DEF fetch, PlaceInv, stream, host, only_in, ctas
  <2>9. ShapeInv'  BY <2>1 DEF fetch, ShapeInv
  <2> QED BY <2>6, <2>8, <2>9
<1> QED BY <1>1, <1>2

(* ... those of k0d_combine ...                                            *)
LEMMA TypeCombine ==
  ASSUME K0dPullAssumption, TypeInv, NEW r \in Rank, NEW c \in Block,
         Arrive(r, c) \/ Enter(r, c) \/ EnterTimeOut(r, c) \/ Pull(r, c) \/ SignalDone(r, c)
  PROVE  TypeInv'
<1> USE DEF TypeInv
<1>0. c \in ctas("combine")  BY DEF ctas
<1>1. CASE Arrive(r, c)
  <2>1. kernel[r] = "combine" /\ head # "none"  BY <1>1 DEF Arrive, at
  <2>2. head \in {"arr_f", "arr_b2f"} /\ arm # "s"  BY <2>1 DEF head
  <2>3. "wait" \in places("combine") /\ only_in("wait", "combine")
    BY <2>2 DEF places, only_in
  <2>4. /\ pc' \in [Rank -> [Block -> {"start", "wait", "quant", "pull", "signal", "done"}]]
        /\ PlaceInv'
    BY <2>1, <2>3, <1>0, <1>1, TypeGoto DEF Arrive, host, data
  <2>5. count[head][r] \in Nat /\ head \in Channel
    BY <2>2, Constants DEF TypeOK, Channel
  <2>6. bump(count[head][r]) \in 0 .. CounterMod - 1  BY <2>5, BumpType
  <2>7. /\ count' = [count EXCEPT ![head][r] = bump(@)]
        /\ epoch' = [epoch EXCEPT ![r][c] = (count[head][r] \div Grid) + 1]
        /\ UNCHANGED <<kernel, replay, host, flags, data, pperr, expired>>
    BY <1>1 DEF Arrive, epoch_from_cumulative
  <2>8. count' \in [Channel -> [Rank -> 0 .. CounterMod - 1]]
    BY <2>5, <2>6, <2>7 DEF TypeOK
  <2>9. epoch' \in [Rank -> [Block -> Nat]]
    <3>1. (count[head][r] \div Grid) + 1 \in Nat  BY <2>5, Constants
    <3> QED BY <3>1, <2>7 DEF TypeOK
  <2>10. TypeOK'  BY <2>4, <2>7, <2>8, <2>9 DEF TypeOK, host, data
  <2>11. ShapeInv'  BY <2>7 DEF ShapeInv, data
  <2> QED BY <2>4, <2>10, <2>11
<1>2. CASE Enter(r, c) \/ EnterTimeOut(r, c)
  <2>1. PICK bits \in SUBSET ErrBits : enter(r, c, bits)
    BY <1>2 DEF Enter, EnterTimeOut, ErrBits
  <2>2. kernel[r] = "combine"  BY <1>2 DEF Enter, EnterTimeOut, at
  <2>3. "pull" \in places("combine") /\ only_in("pull", "combine")
    BY DEF places, only_in
  <2>4. expired' \in 0 .. MaxTimeOut
    BY <1>2, Constants DEF Enter, EnterTimeOut, time_out, TypeOK
  <2>5. /\ pc' \in [Rank -> [Block -> {"start", "wait", "quant", "pull", "signal", "done"}]]
        /\ PlaceInv'
    BY <2>1, <2>2, <2>3, <1>0, TypeGoto DEF enter, host, data
  <2>6. pperr' \in [Rank -> SUBSET ErrBits]  BY <2>1, Raise DEF enter
  <2>7. TypeOK'  BY <2>1, <2>4, <2>5, <2>6 DEF TypeOK, enter, host, sync, data
  <2>8. ShapeInv'  BY <2>1 DEF ShapeInv, enter, data
  <2> QED BY <2>5, <2>7, <2>8
<1>3. CASE Pull(r, c)
  <2> DEFINE l == IF arm = "f" THEN "signal" ELSE "done"
  <2>1. /\ kernel[r] = "combine" /\ goto(r, c, l)
        /\ UNCHANGED <<kernel, replay, host, sync, all_ids, pull_src, a_src, rows, a_dst,
                       part, pperr, expired>>
    BY <1>3 DEF Pull, at
  <2>2. l \in places("combine") /\ only_in(l, "combine")  BY DEF places, only_in
  <2>3. UNCHANGED <<arm, kernel, replay, rows>>  BY <2>1 DEF host
  <2> HIDE DEF l
  <2>4. /\ pc' \in [Rank -> [Block -> {"start", "wait", "quant", "pull", "signal", "done"}]]
        /\ PlaceInv'
    BY <2>1, <2>2, <2>3, <1>0, TypeGoto
  <2>5. TypeOK'  BY <2>1, <2>4 DEF TypeOK, host, sync
  <2>6. ShapeInv'  BY <1>3 DEF ShapeInv, Pull
  <2> QED BY <2>4, <2>5, <2>6
<1>4. CASE SignalDone(r, c)
  <2>1. "done" \in places("combine") /\ only_in("done", "combine")
    BY DEF places, only_in
  <2>2. /\ pc' \in [Rank -> [Block -> {"start", "wait", "quant", "pull", "signal", "done"}]]
        /\ PlaceInv'
    BY <2>1, <1>4, <1>0, TypeGoto DEF SignalDone, at, host, data
  <2>3. count' \in [Channel -> [Rank -> 0 .. CounterMod - 1]]
    <3>1. count["comb"][r] \in Nat  BY Constants DEF TypeOK, Channel
    <3>2. bump(count["comb"][r]) \in 0 .. CounterMod - 1  BY <3>1, BumpType
    <3> QED BY <3>2, <1>4 DEF SignalDone, TypeOK, Channel
  <2>4. TypeOK'  BY <1>4, <2>2, <2>3 DEF TypeOK, SignalDone, host, data
  <2>5. ShapeInv'  BY <1>4 DEF ShapeInv, SignalDone, data
  <2> QED BY <2>2, <2>4, <2>5
<1> QED BY <1>1, <1>2, <1>3, <1>4

(* ... and what the fabric and the host do, if pokes are well formed.      *)
LEMMA TypeRest ==
  ASSUME K0dPullAssumption, TypeInv,
         Host \/ \E m \in posted : m \in [ch : Channel, from : Rank, to : Rank] /\ Deliver(m)
  PROVE  TypeInv'
<1> USE DEF TypeInv
<1>1. CASE Host
  <2>1. TypeOK'  BY <1>1 DEF Host, TypeOK, stream, sync
  <2>2. PlaceInv'
    <3>1. places("idle") = {"done"}  BY DEF places
    <3>2. \A r \in Rank : \A c \in Block : pc[r][c] = "done"
      BY <1>1, <3>1 DEF Host, PlaceInv
    <3>3. only_in("done", "idle")'  BY DEF only_in
    <3> QED BY <1>1, <3>1, <3>2, <3>3 DEF Host, PlaceInv, stream, ctas
  <2>3. ShapeInv'  BY <1>1 DEF Host, ShapeInv
  <2> QED BY <2>1, <2>2, <2>3
<1>2. ASSUME NEW m \in posted, m \in [ch : Channel, from : Rank, to : Rank], Deliver(m)
      PROVE  TypeInv'
  <2>1. flags[m.ch][m.to][m.from] \in Nat  BY <1>2, Constants DEF TypeOK
  <2>2. bump(flags[m.ch][m.to][m.from]) \in 0 .. CounterMod - 1  BY <2>1, BumpType
  <2>3. flags' \in [Channel -> [Rank -> [Rank -> 0 .. CounterMod - 1]]]
    BY <1>2, <2>2 DEF Deliver, TypeOK
  <2>4. TypeOK'  BY <1>2, <2>3 DEF Deliver, TypeOK, stream, host, data
  <2>5. PlaceInv'  BY <1>2 DEF Deliver, PlaceInv, stream, host, data, only_in, ctas
  <2>6. ShapeInv'  BY <1>2 DEF Deliver, ShapeInv, data
  <2> QED BY <2>4, <2>5, <2>6
<1> QED BY <1>1, <1>2

-----------------------------------------------------------------------------
(* Counters, flags and pokes.  A channel's members are CTAs; as many of    *)
(* them as its width.                                                      *)
LEMMA Widths ==
  ASSUME K0dPullAssumption, NEW ch \in Channel
  PROVE  /\ members(ch) \subseteq Block
         /\ IsFiniteSet(members(ch)) /\ Cardinality(members(ch)) = width(ch)
         /\ width(ch) \in Nat \ {0} /\ width(ch) <= Grid
<1>1. Grid \in Nat \ {0} /\ 0 <= Grid - 1 /\ Grid - 1 \in Int  BY Constants
<1>2. IsFiniteSet(Block) /\ Cardinality(Block) = Grid
  BY <1>1, FS_Interval DEF Block
<1>3. IsFiniteSet({0}) /\ Cardinality({0}) = 1  BY FS_Singleton
<1> QED BY <1>1, <1>2, <1>3, Zero DEF members, width

(* Those that have come are some of the members, all when they are as many.*)
LEMMA Presence ==
  ASSUME K0dPullAssumption, NEW ch \in Channel, NEW r \in Rank
  PROVE  /\ present(ch, r) \subseteq members(ch)
         /\ IsFiniteSet(present(ch, r))
         /\ Cardinality(present(ch, r)) \in 0 .. width(ch)
         /\ Cardinality(present(ch, r)) = width(ch) <=> present(ch, r) = members(ch)
<1>1. present(ch, r) \subseteq members(ch)  BY DEF present
<1>2. /\ IsFiniteSet(present(ch, r))
      /\ Cardinality(present(ch, r)) <= Cardinality(members(ch))
      /\ Cardinality(present(ch, r)) = Cardinality(members(ch)) =>
           present(ch, r) = members(ch)
  BY <1>1, Widths, FS_Subset
<1>3. Cardinality(present(ch, r)) \in Nat  BY <1>2, FS_CardinalityType
<1> QED BY <1>1, <1>2, <1>3, Widths

(* Levels are naturals, rounds replays.                                    *)
LEMMA Levels ==
  ASSUME K0dPullAssumption, TypeInv, NEW ch \in Channel, NEW r \in Rank
  PROVE  /\ level(ch, r) \in Nat /\ flags[ch][r][r] \in Nat
         /\ \A d \in Rank : sent(ch, r, d) \in {0, 1} /\ flags[ch][d][r] \in Nat
         /\ rounds(ch, r) \in Int /\ done(ch, r) \in Int
         /\ rounds(ch, r) <= MaxReplay /\ replay[r] \in Nat
         /\ ~told(ch, r) => rounds(ch, r) = replay[r] - 1
         /\ told(ch, r) => rounds(ch, r) = replay[r]
         /\ partial(ch, r) \in Nat /\ replay[r] <= MaxReplay
         /\ count[ch][r] \in Nat
<1>1. \A d \in Rank : sent(ch, r, d) \in {0, 1} /\ flags[ch][d][r] \in Nat
  BY Constants DEF sent, TypeInv, TypeOK
<1>2. replay[r] \in Nat /\ replay[r] <= MaxReplay /\ MaxReplay \in Nat
  BY Constants DEF TypeInv, TypeOK
<1>3. count[ch][r] \in Nat  BY Constants DEF TypeInv, TypeOK
<1>4. partial(ch, r) \in Nat
  <2>1. Cardinality(present(ch, r)) \in Nat  BY Presence, Widths
  <2> QED BY <2>1 DEF partial
<1>5. level(ch, r) \in Nat  BY <1>1 DEF level
<1>6. rounds(ch, r) \in Int /\ rounds(ch, r) <= MaxReplay  BY <1>2 DEF rounds
<1>7. done(ch, r) \in Int  BY <1>6 DEF done
<1> QED BY <1>1, <1>2, <1>3, <1>4, <1>5, <1>6, <1>7 DEF rounds

(* What a rank is at says which channels it has told.                      *)
LEMMA Frame ==
  ASSUME NEW r \in Rank, kernel'[r] = kernel[r], pc'[r] = pc[r], replay'[r] = replay[r]
  PROVE  \A ch \in Channel :
           /\ later(ch, r)' <=> later(ch, r)
           /\ present(ch, r)' = present(ch, r)
           /\ told(ch, r)' <=> told(ch, r)
           /\ rounds(ch, r)' = rounds(ch, r)
           /\ arm' = arm => /\ used(ch)' <=> used(ch)
                            /\ partial(ch, r)' = partial(ch, r)
                            /\ done(ch, r)' = done(ch, r)
<1> SUFFICES ASSUME NEW ch \in Channel
             PROVE  /\ later(ch, r)' <=> later(ch, r)
                    /\ present(ch, r)' = present(ch, r)
                    /\ told(ch, r)' <=> told(ch, r)
                    /\ rounds(ch, r)' = rounds(ch, r)
                    /\ arm' = arm => /\ used(ch)' <=> used(ch)
                                     /\ partial(ch, r)' = partial(ch, r)
                                     /\ done(ch, r)' = done(ch, r)
  OBVIOUS
<1>1. later(ch, r)' <=> later(ch, r)  BY DEF later, place
<1>2. present(ch, r)' = present(ch, r)  BY DEF present
<1>3. told(ch, r)' <=> told(ch, r)  BY <1>1, <1>2 DEF told
<1>4. rounds(ch, r)' = rounds(ch, r)  BY <1>3 DEF rounds
<1>5. arm' = arm => (used(ch)' <=> used(ch))  BY DEF used
<1> QED BY <1>1, <1>2, <1>3, <1>4, <1>5 DEF partial, done

(* Levels are those of flags and pokes.                                    *)
LEMMA FrameLevel ==
  ASSUME flags' = flags, posted' = posted
  PROVE  \A ch \in Channel : \A r, d \in Rank : /\ level(ch, r)' = level(ch, r)
                                                /\ sent(ch, r, d)' = sent(ch, r, d)
BY DEF level, sent

(* What a channel lacks or has over the replays agrees as long as it does  *)
(* not change.                                                             *)
LEMMA Steady ==
  ASSUME LevelInv, AgreeInv,
         \A ch \in Channel : \A r \in Rank :
           level(ch, r)' - done(ch, r)' = level(ch, r) - done(ch, r)
  PROVE  LevelInv' /\ AgreeInv'
<1>1. LevelInv'
  <2> SUFFICES ASSUME NEW ch \in Channel, NEW r \in Rank, NEW q \in Rank
               PROVE  level(ch, r)' - done(ch, r)' = level(ch, q)' - done(ch, q)'
    BY DEF LevelInv
  <2> QED BY DEF LevelInv
<1>2. AgreeInv'
  <2> SUFFICES ASSUME NEW r \in Rank, NEW ch \in {"comb", "arr_f"}
               PROVE  level("quant", r)' - done("quant", r)' = level(ch, r)' - done(ch, r)'
    BY DEF AgreeInv
  <2>1. ch \in Channel /\ "quant" \in Channel  BY DEF Channel
  <2> QED BY <2>1 DEF AgreeInv
<1> QED BY <1>1, <1>2

(* A combine waits on the channel of its arm only.                         *)
LEMMA HeadChannel ==
  ASSUME K0dPullAssumption, TypeInv, NEW r \in Rank, NEW c \in Block,
         kernel[r] = "combine", pc[r][c] = "wait" \/ head # "none"
  PROVE  /\ head \in {"arr_f", "arr_b2f"} /\ head \in Channel /\ used(head)
         /\ home(head) = "combine" /\ members(head) = Block /\ width(head) = Grid
         /\ arm = "f" => head = "arr_f"
         /\ arm = "b2f" => head = "arr_b2f"
<1>1. arm \in {"f", "b2f"}
  <2>1. only_in(pc[r][c], "combine")  BY DEF TypeInv, PlaceInv
  <2>2. pc[r][c] = "wait" => arm # "s"  BY <2>1 DEF only_in
  <2>3. head # "none" => arm \in {"f", "b2f"}  BY DEF head
  <2>4. arm \in {"s", "b2f", "f"}  BY Constants DEF TypeInv, TypeOK
  <2> QED BY <2>2, <2>3, <2>4
<1> QED BY <1>1 DEF head, used, home, members, width, Channel

(* A step of one rank that tells nobody anything keeps what the counters   *)
(* stand for if its channels stay as told as they were.                    *)
LEMMA Quiet ==
  ASSUME K0dPullAssumption, TypeInv, TypeInv', CountersInv, NEW r \in Rank,
         UNCHANGED <<arm, flags, count, posted, epoch>>,
         \A q \in Rank \ {r} : /\ kernel'[q] = kernel[q] /\ pc'[q] = pc[q]
                               /\ replay'[q] = replay[q],
         \A ch \in Channel : rounds(ch, r) <= rounds(ch, r)',
         \A ch \in Channel : used(ch) => /\ rounds(ch, r)' = rounds(ch, r)
                                         /\ partial(ch, r)' = partial(ch, r),
         \A m \in posted : m.from = r => /\ kernel'[r] = home(m.ch)
                                         /\ told(m.ch, r)',
         EpochAt(r)'
  PROVE  CountersInv' /\ Growth
<1> USE DEF CountersInv
<1>1. \A ch \in Channel : \A q, d \in Rank :
         level(ch, q)' = level(ch, q) /\ sent(ch, q, d)' = sent(ch, q, d)
  BY FrameLevel
<1>2. \A ch \in Channel : used(ch)' <=> used(ch)  BY DEF used
<1>3. \A ch \in Channel : \A q \in Rank :
         /\ done(ch, q)' = done(ch, q)
         /\ partial(ch, q)' = partial(ch, q)
         /\ rounds(ch, q) <= rounds(ch, q)'
  <2> SUFFICES ASSUME NEW ch \in Channel, NEW q \in Rank
               PROVE  /\ done(ch, q)' = done(ch, q)
                      /\ partial(ch, q)' = partial(ch, q)
                      /\ rounds(ch, q) <= rounds(ch, q)'
    OBVIOUS
  <2>1. CASE q = r
    <3>1. done(ch, r)' = done(ch, r)  BY <1>2 DEF done
    <3>2. partial(ch, r)' = partial(ch, r)
      <4>1. CASE used(ch)  BY <4>1
      <4>2. CASE ~used(ch)  BY <4>2, <1>2 DEF partial
      <4> QED BY <4>1, <4>2
    <3> QED BY <2>1, <3>1, <3>2
  <2>2. CASE q # r
    <3>1. rounds(ch, q) \in Int  BY Levels
    <3> QED BY <2>2, <3>1, Frame
  <2> QED BY <2>1, <2>2
<1>4. PostInv'
  <2> SUFFICES ASSUME NEW m \in posted
               PROVE  /\ m \in [ch : Channel, from : Rank, to : Rank]
                      /\ used(m.ch)' /\ kernel'[m.from] = home(m.ch)
                      /\ told(m.ch, m.from)'
    BY DEF PostInv, Channel, Rank
  <2>1. /\ m \in [ch : Channel, from : Rank, to : Rank] /\ used(m.ch)
        /\ kernel[m.from] = home(m.ch) /\ told(m.ch, m.from)
    BY DEF PostInv
  <2>2. used(m.ch)'  BY <2>1, <1>2
  <2>3. CASE m.from = r  BY <2>1, <2>2, <2>3
  <2>4. CASE m.from # r
    <3>1. told(m.ch, m.from)' <=> told(m.ch, m.from)  BY <2>1, <2>4, Frame
    <3> QED BY <2>1, <2>2, <2>4, <3>1
  <2> QED BY <2>3, <2>4
<1>5. SentInv'  BY <1>1 DEF SentInv
<1>6. CountInv'
  <2> SUFFICES ASSUME NEW ch \in Channel, NEW q \in Rank
               PROVE  count'[ch][q] = level(ch, q)' * width(ch) + partial(ch, q)'
    BY DEF CountInv, width
  <2>1. count'[ch][q] = count[ch][q]  OBVIOUS
  <2>2. level(ch, q)' = level(ch, q) /\ partial(ch, q)' = partial(ch, q)
    BY <1>1, <1>3
  <2>3. count[ch][q] = level(ch, q) * width(ch) + partial(ch, q)  BY DEF CountInv
  <2> QED BY <2>1, <2>2, <2>3
<1>7. LevelInv' /\ AgreeInv'  BY <1>1, <1>3, Steady
<1>8. BoundInv'
  <2> SUFFICES ASSUME NEW ch \in Channel, NEW q \in Rank
               PROVE  level(ch, q)' <= rounds(ch, q)'
    BY DEF BoundInv
  <2>1. level(ch, q) \in Nat /\ rounds(ch, q) \in Int  BY Levels
  <2>2. rounds(ch, q)' \in Int  BY Constants DEF rounds, TypeInv, TypeOK
  <2>3. level(ch, q) <= rounds(ch, q)  BY DEF BoundInv
  <2> QED BY <2>1, <2>2, <2>3, <1>1, <1>3
<1>9. EpochInv'
  <2>1. ASSUME NEW q \in Rank \ {r} PROVE EpochAt(q)'
    <3>1. head' = head  BY DEF head
    <3>2. \A ch \in Channel : /\ level(ch, q)' = level(ch, q)
                              /\ told(ch, q)' <=> told(ch, q)
      BY <1>1, Frame
    <3>3. EpochAt(q)  BY DEF EpochInv
    <3>4. kernel[q] = "combine" =>
            \A c \in Block : pc[q][c] = "wait" => head \in Channel
      BY HeadChannel
    <3>5. kernel[q] \in {"b1", "b2"} => kernel[q] \in Channel  BY DEF Channel
    <3> QED BY <3>1, <3>2, <3>3, <3>4, <3>5 DEF EpochAt
  <2> QED BY <2>1 DEF EpochInv
<1>10. Growth
  <2>1. \A ch \in Channel : \A q \in Rank : done(ch, q) \in Int  BY Levels
  <2> QED BY <2>1, <1>3 DEF Growth
<1> QED BY <1>4, <1>5, <1>6, <1>7, <1>8, <1>9, <1>10

(* A count of whole rounds and some arrivals gives them back.              *)
LEMMA Quotient ==
  ASSUME NEW n \in Nat \ {0}, NEW a \in Nat, NEW k \in Nat, k < n
  PROVE  (a * n + k) \div n = a /\ (a * n + k) % n = k
OBVIOUS

(* Below the bound no counter wraps.                                       *)
LEMMA BumpExact ==
  ASSUME NEW x \in Nat, x + 1 < CounterMod
  PROVE  bump(x) = x + 1
BY CounterModAssumption DEF bump

(* What a member that comes finds in the arrival counter of its channel.   *)
LEMMA Found ==
  ASSUME K0dPullAssumption, NoWrap, TypeInv, CountersInv, NEW r \in Rank,
         NEW ch \in Channel, NEW c \in members(ch), used(ch),
         kernel[r] = home(ch), ~come(ch, pc[r][c])
  PROVE  LET k == Cardinality(present(ch, r)) IN
         /\ ~told(ch, r) /\ k \in Nat /\ k < width(ch)
         /\ count[ch][r] = level(ch, r) * width(ch) + k
         /\ level(ch, r) + 1 <= replay[r]
         /\ bump(count[ch][r]) = count[ch][r] + 1
         /\ epoch_from_cumulative(count[ch][r], width(ch)) = level(ch, r) + 1
         /\ last_arrival(count[ch][r], width(ch)) <=> k + 1 = width(ch)
<1> DEFINE k == Cardinality(present(ch, r))
           w == width(ch)
           l == level(ch, r)
<1>1. ~later(ch, r)
  <2>1. place(home(ch)) = place(kernel[r])  OBVIOUS
  <2>2. place(kernel[r]) \in Nat  BY DEF place
  <2> QED BY <2>1, <2>2 DEF later
<1>2. present(ch, r) # members(ch)  BY DEF present
<1>3. ~told(ch, r)  BY <1>1, <1>2 DEF told
<1>4. k \in Nat /\ k < w /\ w \in Nat \ {0} /\ w <= Grid
  BY <1>2, Presence, Widths
<1>5. count[ch][r] = l * w + k  BY <1>3 DEF CountersInv, CountInv, partial
<1>6. l \in Nat /\ l <= replay[r] - 1 /\ replay[r] \in Nat /\ replay[r] <= MaxReplay
  <2>1. l <= rounds(ch, r)  BY DEF CountersInv, BoundInv
  <2> QED BY <2>1, <1>3, Levels
<1>7. count[ch][r] + 1 < CounterMod
  <2>1. \A a, m, x, g, y \in Nat :
           a + 1 <= m /\ x <= g /\ y + 1 <= x => a * x + y + 1 <= m * g
    <3> SUFFICES ASSUME NEW a \in Nat, NEW m \in Nat, NEW x \in Nat, NEW g \in Nat,
                        NEW y \in Nat, a + 1 <= m, x <= g, y + 1 <= x
                 PROVE  a * x + y + 1 <= m * g
      OBVIOUS
    <3>1. a * x + y + 1 <= (a + 1) * x /\ a * x \in Nat  OBVIOUS
    <3>2. (a + 1) * x <= m * x /\ m * x \in Nat  OBVIOUS
    <3>3. m * x <= m * g /\ m * g \in Nat  OBVIOUS
    <3>4. (a + 1) * x \in Nat  OBVIOUS
    <3> QED BY <3>1, <3>2, <3>3, <3>4
  <2>2. MaxReplay \in Nat /\ Grid \in Nat  BY Constants
  <2> HIDE DEF k, w, l
  <2>3. l + 1 <= MaxReplay /\ k + 1 <= w  BY <1>4, <1>6, <2>2
  <2>4. l * w + k + 1 <= MaxReplay * Grid  BY <2>1, <2>2, <2>3, <1>4, <1>6
  <2>5. l * w \in Nat /\ MaxReplay * Grid \in Nat /\ CounterMod \in Nat
    BY <1>4, <1>6, <2>2, Constants
  <2> QED BY <2>4, <2>5, <1>4, <1>5 DEF NoWrap
<1>8. bump(count[ch][r]) = count[ch][r] + 1
  <2>1. count[ch][r] \in Nat  BY Levels
  <2> QED BY <2>1, <1>7, BumpExact
<1>9. (l * w + k) \div w = l /\ (l * w + k) % w = k
  <2> HIDE DEF k, w, l
  <2> QED BY <1>4, <1>6, Quotient
<1>10. epoch_from_cumulative(count[ch][r], w) = l + 1
  BY <1>5, <1>9 DEF epoch_from_cumulative
<1>11. last_arrival(count[ch][r], w) <=> k + 1 = w
  BY <1>4, <1>5, <1>9 DEF last_arrival
<1> QED BY <1>3, <1>4, <1>5, <1>6, <1>8, <1>10, <1>11

(* A CTA that goes on leaves a channel as told as it was, unless it comes. *)
LEMMA Goes ==
  ASSUME K0dPullAssumption, NEW r \in Rank, replay[r] \in Nat, NEW x \in Channel, NEW c,
         \A b \in Block \ {c} : pc'[r][b] = pc[r][b],
         arm' = arm, kernel'[r] = kernel[r], replay'[r] = replay[r],
         kernel[r] = home(x) =>
           /\ come(x, pc[r][c]) => come(x, pc'[r][c])
           /\ used(x) => (come(x, pc'[r][c]) => come(x, pc[r][c]))
  PROVE  /\ used(x) => /\ told(x, r)' <=> told(x, r)
                       /\ partial(x, r)' = partial(x, r)
         /\ rounds(x, r) <= rounds(x, r)'
         /\ done(x, r)' = done(x, r)
<1>1. /\ later(x, r)' <=> later(x, r)
      /\ members(x)' = members(x) /\ members(x) \subseteq Block
  BY Widths DEF later, members
<1>2. present(x, r) \subseteq present(x, r)'
  <2> SUFFICES ASSUME NEW b \in present(x, r) PROVE b \in present(x, r)'
    OBVIOUS
  <2>1. b \in members(x) /\ kernel[r] = home(x) /\ come(x, pc[r][b]) /\ b \in Block
    BY <1>1 DEF present
  <2>2. come(x, pc'[r][b])
    <3>1. CASE b = c  BY <2>1, <3>1
    <3>2. CASE b # c  BY <2>1, <3>2
    <3> QED BY <3>1, <3>2
  <2> QED BY <1>1, <2>1, <2>2 DEF present
<1>3. used(x) => present(x, r)' \subseteq present(x, r)
  <2> SUFFICES ASSUME used(x), NEW b \in present(x, r)' PROVE b \in present(x, r)
    OBVIOUS
  <2>1. b \in members(x) /\ kernel[r] = home(x) /\ come(x, pc'[r][b]) /\ b \in Block
    BY <1>1 DEF present
  <2>2. come(x, pc[r][b])
    <3>1. CASE b = c  BY <2>1, <3>1
    <3>2. CASE b # c  BY <2>1, <3>2
    <3> QED BY <3>1, <3>2
  <2> QED BY <2>1, <2>2 DEF present
<1>4. told(x, r) => told(x, r)'
  BY <1>1, <1>2 DEF told, present
<1>5. used(x) => (told(x, r)' <=> told(x, r)) /\ present(x, r)' = present(x, r)
  BY <1>1, <1>2, <1>3 DEF told
<1>6. rounds(x, r) <= rounds(x, r)'
  BY <1>4 DEF rounds
<1>7. used(x)' <=> used(x)  BY DEF used
<1>8. used(x) => partial(x, r)' = partial(x, r)
  BY <1>5, <1>7 DEF partial
<1>9. done(x, r)' = done(x, r)
  BY <1>5, <1>7 DEF done, rounds
<1> QED BY <1>5, <1>6, <1>8, <1>9

(* A member that comes is counted; the last one tells everybody, and       *)
(* raises the level with the round.                                        *)
LEMMA Arrival ==
  ASSUME K0dPullAssumption, NoWrap, TypeInv, TypeInv', CountersInv, NEW r \in Rank,
         NEW ch \in Channel, NEW c \in members(ch), used(ch),
         kernel[r] = home(ch), ~come(ch, pc[r][c]), come(ch, pc'[r][c]),
         \A b \in Block \ {c} : pc'[r][b] = pc[r][b],
         \A q \in Rank \ {r} : pc'[q] = pc[q],
         UNCHANGED <<arm, kernel, replay, flags>>,
         \A x \in Channel \ {ch} : kernel[r] = home(x) =>
           /\ come(x, pc[r][c]) => come(x, pc'[r][c])
           /\ used(x) => (come(x, pc'[r][c]) => come(x, pc[r][c])),
         count' = [count EXCEPT ![ch][r] = bump(@)],
         posted' = IF last_arrival(count[ch][r], width(ch))
                   THEN posted \cup signal(ch, r) ELSE posted
  PROVE  /\ PostInv' /\ SentInv' /\ CountInv' /\ LevelInv' /\ AgreeInv' /\ BoundInv' /\ Growth
         /\ level(ch, r)' = level(ch, r) + IF told(ch, r)' THEN 1 ELSE 0
         /\ \A x \in Channel : \A q \in Rank : x # ch \/ q # r =>
              /\ level(x, q)' = level(x, q)
              /\ used(x) => (told(x, q)' <=> told(x, q))
<1> DEFINE k == Cardinality(present(ch, r))
<1>1. /\ ~told(ch, r) /\ k \in Nat /\ k < width(ch)
      /\ count[ch][r] = level(ch, r) * width(ch) + k
      /\ level(ch, r) + 1 <= replay[r]
      /\ bump(count[ch][r]) = count[ch][r] + 1
      /\ last_arrival(count[ch][r], width(ch)) <=> k + 1 = width(ch)
  BY Found
<1>2. present(ch, r)' = present(ch, r) \cup {c} /\ c \notin present(ch, r)
  <2>1. c \in Block /\ members(ch)' = members(ch) /\ members(ch) \subseteq Block
    BY Widths DEF members
  <2> QED BY <2>1 DEF present
<1>3. Cardinality(present(ch, r)') = k + 1
  BY <1>2, Presence, FS_AddElement
<1>4. ~later(ch, r)' /\ members(ch)' = members(ch) /\ width(ch)' = width(ch)
  <2>1. (later(ch, r)') <=> later(ch, r)  BY DEF later
  <2> QED BY <2>1, <1>1 DEF told, members, width
<1>5. told(ch, r)' <=> k + 1 = width(ch)
  <2>1. present(ch, r)' \subseteq members(ch)  BY <1>2, Presence
  <2>2. /\ IsFiniteSet(members(ch)) /\ Cardinality(members(ch)) = width(ch)
    BY Widths
  <2>3. Cardinality(present(ch, r)') = Cardinality(members(ch)) <=>
          present(ch, r)' = members(ch)
    BY <2>1, <2>2, FS_Subset
  <2> QED BY <2>2, <2>3, <1>3, <1>4 DEF told
<1>6. \A x \in Channel : used(x)' <=> used(x)  BY DEF used
<1>7. \A x \in Channel : \A q \in Rank : x # ch \/ q # r =>
         /\ used(x) => /\ told(x, q)' <=> told(x, q)
                       /\ partial(x, q)' = partial(x, q)
         /\ rounds(x, q) <= rounds(x, q)'
         /\ done(x, q)' = done(x, q)
  <2> SUFFICES ASSUME NEW x \in Channel, NEW q \in Rank, x # ch \/ q # r
               PROVE  /\ used(x) => /\ told(x, q)' <=> told(x, q)
                                    /\ partial(x, q)' = partial(x, q)
                      /\ rounds(x, q) <= rounds(x, q)'
                      /\ done(x, q)' = done(x, q)
    OBVIOUS
  <2>1. rounds(x, q) \in Int /\ replay[q] \in Nat /\ replay'[q] = replay[q]  BY Levels
  <2>2. CASE q # r
    <3>1. kernel'[q] = kernel[q] /\ pc'[q] = pc[q]  BY <2>2
    <3> QED BY <2>1, <3>1, Frame
  <2>3. CASE q = r /\ x # ch  BY <2>1, <2>3, Goes, Widths
  <2> QED BY <2>2, <2>3
<1>8. \A d \in Rank : sent(ch, r, d) = 0
  <2> SUFFICES ASSUME NEW d \in Rank, [ch |-> ch, from |-> r, to |-> d] \in posted
               PROVE  FALSE
    BY DEF sent
  <2>1. told(ch, r)  BY DEF CountersInv, PostInv
  <2> QED BY <2>1, <1>1
<1>9. posted' = IF told(ch, r)' THEN posted \cup signal(ch, r) ELSE posted
  BY <1>1, <1>5
<1>10. \A d \in Rank : sent(ch, r, d)' = IF told(ch, r)' THEN 1 ELSE 0
  BY <1>8, <1>9 DEF sent, signal
<1>11. \A x \in Channel : \A q, d \in Rank : x # ch \/ q # r =>
          sent(x, q, d)' = sent(x, q, d)
  BY <1>9 DEF sent, signal
<1>12. level(ch, r)' = level(ch, r) + IF told(ch, r)' THEN 1 ELSE 0
  BY <1>8, <1>10, Levels DEF level
<1>13. \A x \in Channel : \A q \in Rank : x # ch \/ q # r => level(x, q)' = level(x, q)
  BY <1>11 DEF level
<1>14. done(ch, r)' = done(ch, r) + IF told(ch, r)' THEN 1 ELSE 0
  <2>1. replay[r] \in Nat /\ replay'[r] = replay[r]  BY Levels
  <2> QED BY <2>1, <1>1, <1>6 DEF done, rounds
<1>15. PostInv'
  <2> SUFFICES ASSUME NEW m \in posted'
               PROVE  /\ m \in [ch : Channel, from : Rank, to : Rank]
                      /\ used(m.ch)' /\ kernel'[m.from] = home(m.ch)
                      /\ told(m.ch, m.from)'
    BY DEF PostInv, Channel, Rank
  <2>1. CASE m \in posted
    <3>1. /\ m \in [ch : Channel, from : Rank, to : Rank] /\ used(m.ch)
          /\ kernel[m.from] = home(m.ch) /\ told(m.ch, m.from)
      BY <2>1 DEF CountersInv, PostInv
    <3>2. ~(m.ch = ch /\ m.from = r)  BY <3>1, <1>1
    <3> QED BY <3>1, <3>2, <1>6, <1>7
  <2>2. CASE m \notin posted
    <3>1. told(ch, r)' /\ m \in signal(ch, r)  BY <2>2, <1>9
    <3>2. /\ m \in [ch : Channel, from : Rank, to : Rank]
          /\ m.ch = ch /\ m.from = r
      BY <3>1 DEF signal
    <3> QED BY <3>1, <3>2, <1>6
  <2> QED BY <2>1, <2>2
<1>16. SentInv'
  <2> SUFFICES ASSUME NEW x \in Channel, NEW q \in Rank, NEW d \in Rank
               PROVE  flags[x][d][q] + sent(x, q, d)' = level(x, q)'
    BY DEF SentInv
  <2>1. flags[x][d][q] + sent(x, q, d) = level(x, q)  BY DEF CountersInv, SentInv
  <2>2. CASE x = ch /\ q = r  BY <2>1, <2>2, <1>8, <1>10, <1>12, Levels
  <2>3. CASE ~(x = ch /\ q = r)  BY <2>1, <2>3, <1>11, <1>13
  <2> QED BY <2>2, <2>3
<1>17. CountInv'
  <2> SUFFICES ASSUME NEW x \in Channel, NEW q \in Rank
               PROVE  count'[x][q] = level(x, q)' * width(x) + partial(x, q)'
    BY DEF CountInv, width
  <2>1. CASE x = ch /\ q = r
    <3>1. count'[ch][r] = count[ch][r] + 1  BY <1>1 DEF TypeInv, TypeOK
    <3>2. width(ch) \in Nat /\ level(ch, r) \in Nat  BY Widths, Levels
    <3>3. (level(ch, r) + 1) * width(ch) = level(ch, r) * width(ch) + width(ch)
      BY <3>2
    <3>4. partial(ch, r)' = IF told(ch, r)' THEN 0 ELSE k + 1
      BY <1>3, <1>6 DEF partial
    <3>5. level(ch, r) * width(ch) \in Nat  BY <3>2
    <3>6. CASE told(ch, r)'
      <4>1. level(ch, r)' = level(ch, r) + 1 /\ partial(ch, r)' = 0
        BY <3>6, <3>4, <1>12
      <4>2. k + 1 = width(ch)  BY <3>6, <1>5
      <4>3. count'[ch][r] = level(ch, r) * width(ch) + width(ch) + 0
        BY <4>2, <3>1, <3>5, <1>1
      <4> QED BY <4>1, <4>3, <3>3, <3>5, <3>2, <2>1
    <3>7. CASE ~told(ch, r)'
      <4>1. level(ch, r)' = level(ch, r) /\ partial(ch, r)' = k + 1
        BY <3>7, <3>4, <3>2, <1>12
      <4> QED BY <4>1, <3>1, <3>5, <1>1, <2>1
    <3> QED BY <3>6, <3>7
  <2>2. CASE ~(x = ch /\ q = r)
    <3>1. count'[x][q] = count[x][q]  BY <2>2 DEF TypeInv, TypeOK
    <3>2. partial(x, q)' = partial(x, q)
      <4>1. CASE used(x)  BY <4>1, <2>2, <1>7
      <4>2. CASE ~used(x)  BY <4>2, <1>6 DEF partial
      <4> QED BY <4>1, <4>2
    <3>3. level(x, q)' = level(x, q)  BY <2>2, <1>13
    <3>4. count[x][q] = level(x, q) * width(x) + partial(x, q)
      BY DEF CountersInv, CountInv
    <3> QED BY <3>1, <3>2, <3>3, <3>4
  <2> QED BY <2>1, <2>2
<1>18. LevelInv' /\ AgreeInv'
  <2>1. \A x \in Channel : \A q \in Rank :
           level(x, q)' - done(x, q)' = level(x, q) - done(x, q)
    <3> SUFFICES ASSUME NEW x \in Channel, NEW q \in Rank
                 PROVE  level(x, q)' - done(x, q)' = level(x, q) - done(x, q)
      OBVIOUS
    <3>1. level(x, q) \in Nat /\ done(x, q) \in Int  BY Levels
    <3>2. CASE x = ch /\ q = r  BY <3>1, <3>2, <1>12, <1>14
    <3>3. CASE ~(x = ch /\ q = r)  BY <3>3, <1>7, <1>13
    <3> QED BY <3>2, <3>3
  <2> QED BY <2>1, Steady DEF CountersInv
<1>19. BoundInv'
  <2> SUFFICES ASSUME NEW x \in Channel, NEW q \in Rank
               PROVE  level(x, q)' <= rounds(x, q)'
    BY DEF BoundInv
  <2>1. level(x, q) \in Nat /\ rounds(x, q) \in Int /\ replay[q] \in Nat  BY Levels
  <2>2. level(x, q) <= rounds(x, q)  BY DEF CountersInv, BoundInv
  <2>3. CASE x = ch /\ q = r
    <3>1. rounds(ch, r)' = IF told(ch, r)' THEN replay[r] ELSE replay[r] - 1
      BY DEF rounds
    <3> QED BY <3>1, <2>1, <2>3, <1>1, <1>12
  <2>4. CASE ~(x = ch /\ q = r)
    <3>1. rounds(x, q)' \in Int  BY Constants DEF rounds, TypeInv, TypeOK
    <3>2. level(x, q)' = level(x, q) /\ rounds(x, q) <= rounds(x, q)'
      BY <2>4, <1>7, <1>13
    <3> QED BY <2>1, <2>2, <3>1, <3>2
  <2> QED BY <2>3, <2>4
<1>20. \A x \in Channel : \A q \in Rank : x # ch \/ q # r =>
              /\ level(x, q)' = level(x, q)
              /\ used(x) => (told(x, q)' <=> told(x, q))
  BY <1>7, <1>13
<1>21. Growth
  <2> SUFFICES ASSUME NEW x \in Channel, NEW q \in Rank
               PROVE  done(x, q) <= done(x, q)'
    BY DEF Growth
  <2>1. done(x, q) \in Int  BY Levels
  <2>2. CASE x = ch /\ q = r  BY <2>1, <2>2, <1>14
  <2>3. CASE ~(x = ch /\ q = r)  BY <2>1, <2>3, <1>7
  <2> QED BY <2>2, <2>3
<1> QED BY <1>21, <1>12, <1>15, <1>16, <1>17, <1>18, <1>19, <1>20

(* The registers of a rank that does not move hold what they did.          *)
LEMMA FrameEpoch ==
  ASSUME K0dPullAssumption, TypeInv, CountersInv, NEW q \in Rank,
         kernel'[q] = kernel[q], pc'[q] = pc[q], epoch'[q] = epoch[q], arm' = arm,
         \A x \in Channel : /\ level(x, q)' = level(x, q)
                            /\ used(x) => (told(x, q)' <=> told(x, q))
  PROVE  EpochAt(q)'
<1>1. head' = head  BY DEF head
<1>2. EpochAt(q)  BY DEF CountersInv, EpochInv
<1>3. ASSUME NEW c \in Block, kernel[q] = "combine", pc[q][c] = "wait"
      PROVE  head \in Channel /\ used(head)
  BY <1>3, HeadChannel
<1>4. kernel[q] \in {"b1", "b2"} => kernel[q] \in Channel  BY DEF Channel
<1> QED BY <1>1, <1>2, <1>3, <1>4 DEF EpochAt

(* Quantising in the folded arm, ...                                       *)
LEMMA CountersQuantise ==
  ASSUME K0dPullAssumption, NoWrap, TypeInv, TypeInv', CountersInv, NEW r \in Rank,
         Quantise(r), arm = "f"
  PROVE  CountersInv' /\ Growth
<1>1. /\ kernel[r] = "fused" /\ pc[r][0] = "quant"
      /\ count' = [count EXCEPT !["quant"][r] = bump(@)]
      /\ posted' = posted \cup signal("quant", r)
      /\ pc' = [pc EXCEPT ![r][0] = "done"]
      /\ UNCHANGED <<kernel, replay, arm, flags, epoch>>
  BY DEF Quantise, at, goto, host
<1>2. /\ "quant" \in Channel /\ 0 \in members("quant") /\ used("quant")
      /\ home("quant") = "fused" /\ width("quant") = 1
  BY DEF Channel, members, used, home, width
<1>3. ~come("quant", pc[r][0]) /\ come("quant", "done")  BY <1>1 DEF come
<1>4. /\ pc'[r][0] = "done"
      /\ \A b \in Block \ {0} : pc'[r][b] = pc[r][b]
      /\ \A q \in Rank \ {r} : pc'[q] = pc[q]
  BY <1>1, Zero DEF TypeInv, TypeOK
<1>5. \A x \in Channel \ {"quant"} : home(x) # "fused"  BY DEF Channel, home
<1>6. last_arrival(count["quant"][r], 1)
  <2>1. \A n \in Nat : n % 1 = 0  OBVIOUS
  <2>2. count["quant"][r] \in Nat  BY <1>2, Levels
  <2> QED BY <2>1, <2>2 DEF last_arrival
<1>7. /\ PostInv' /\ SentInv' /\ CountInv' /\ LevelInv' /\ AgreeInv' /\ BoundInv' /\ Growth
      /\ \A x \in Channel : \A q \in Rank : x # "quant" \/ q # r =>
           /\ level(x, q)' = level(x, q)
           /\ used(x) => (told(x, q)' <=> told(x, q))
  <2> DEFINE ch == "quant"
  <2>1. ch = "quant"  OBVIOUS
  <2> HIDE DEF ch
  <2>2. /\ ch \in Channel /\ 0 \in members(ch) /\ used(ch) /\ kernel[r] = home(ch)
        /\ ~come(ch, pc[r][0]) /\ come(ch, pc'[r][0])
        /\ count' = [count EXCEPT ![ch][r] = bump(@)]
        /\ posted' = IF last_arrival(count[ch][r], width(ch))
                     THEN posted \cup signal(ch, r) ELSE posted
        /\ \A x \in Channel \ {ch} : kernel[r] # home(x)
    BY <2>1, <1>1, <1>2, <1>3, <1>4, <1>5, <1>6
  <2> QED BY <2>1, <2>2, <1>1, <1>4, Arrival
<1>8. EpochInv'
  <2>1. ASSUME NEW q \in Rank \ {r} PROVE EpochAt(q)'
    BY <1>1, <1>4, <1>7, FrameEpoch
  <2>2. EpochAt(r)'  BY <1>1 DEF EpochAt
  <2> QED BY <2>1, <2>2 DEF EpochInv
<1> QED BY <1>7, <1>8 DEF CountersInv

(* ... arriving at a barrier, ...                                          *)
LEMMA CountersBarrier ==
  ASSUME K0dPullAssumption, NoWrap, TypeInv, TypeInv', CountersInv, NEW r \in Rank,
         BarrierArrive(r)
  PROVE  CountersInv' /\ Growth
<1> DEFINE ch == kernel[r]
<1>1. /\ ch \in {"b1", "b2"} /\ pc[r][0] = "start"
      /\ count' = [count EXCEPT ![ch][r] = bump(@)]
      /\ epoch' = [epoch EXCEPT ![r][0] = bump(count[ch][r])]
      /\ posted' = posted \cup signal(ch, r)
      /\ pc' = [pc EXCEPT ![r][0] = "wait"]
      /\ UNCHANGED <<kernel, replay, arm, flags>>
  BY DEF BarrierArrive, at, goto, host, epoch_from_cell
<1>2. /\ ch \in Channel /\ 0 \in members(ch) /\ members(ch) = {0}
      /\ home(ch) = ch /\ width(ch) = 1
  BY <1>1 DEF Channel, members, home, width
<1>3. used(ch)
  <2>1. arm \in {"s", "b2f", "f"}  BY Constants DEF TypeInv, TypeOK
  <2>2. (ch = "b1" => arm # "f") /\ (ch = "b2" => arm = "s")
    BY DEF TypeInv, PlaceInv
  <2> QED BY <1>1, <2>1, <2>2 DEF used
<1>4. ~come(ch, pc[r][0]) /\ come(ch, "wait")  BY <1>1 DEF come
<1>5. /\ pc'[r][0] = "wait"
      /\ \A b \in Block \ {0} : pc'[r][b] = pc[r][b]
      /\ \A q \in Rank \ {r} : pc'[q] = pc[q] /\ epoch'[q] = epoch[q]
      /\ epoch'[r][0] = bump(count[ch][r])
  BY <1>1, Zero DEF TypeInv, TypeOK
<1>6. \A x \in Channel \ {ch} : home(x) # ch  BY <1>1 DEF Channel, home
<1>7. last_arrival(count[ch][r], 1)
  <2>1. \A n \in Nat : n % 1 = 0  OBVIOUS
  <2>2. count[ch][r] \in Nat  BY <1>2, Levels
  <2> QED BY <2>1, <2>2 DEF last_arrival
<1> HIDE DEF ch
<1>8. kernel[r] = ch /\ kernel'[r] = ch  BY <1>1 DEF ch
<1>9. PICK h \in {"b1", "b2"} : h = ch  BY <1>1
<1>10. /\ PostInv' /\ SentInv' /\ CountInv' /\ LevelInv' /\ AgreeInv' /\ BoundInv' /\ Growth
       /\ level(h, r)' = level(h, r) + IF told(h, r)' THEN 1 ELSE 0
       /\ \A x \in Channel : \A q \in Rank : x # h \/ q # r =>
            /\ level(x, q)' = level(x, q)
            /\ used(x) => (told(x, q)' <=> told(x, q))
  <2>1. /\ h \in Channel /\ 0 \in members(h) /\ used(h) /\ kernel[r] = home(h)
        /\ ~come(h, pc[r][0]) /\ come(h, pc'[r][0])
        /\ count' = [count EXCEPT ![h][r] = bump(@)]
        /\ posted' = IF last_arrival(count[h][r], width(h))
                     THEN posted \cup signal(h, r) ELSE posted
        /\ \A x \in Channel \ {h} : kernel[r] # home(x)
    BY <1>1, <1>2, <1>3, <1>4, <1>5, <1>6, <1>7, <1>8, <1>9
  <2> QED BY <2>1, <1>1, <1>5, Arrival
<1>11. EpochInv'
  <2>1. ASSUME NEW q \in Rank \ {r} PROVE EpochAt(q)'
    BY <1>1, <1>5, <1>10, FrameEpoch
  <2>2. told(h, r)'
    <3>1. present(h, r)' = members(h)'
      BY <1>2, <1>4, <1>5, <1>8, <1>9 DEF present, members
    <3> QED BY <3>1 DEF told
  <2>3. bump(count[ch][r]) = level(h, r) + 1
    <3>1. LET k == Cardinality(present(h, r)) IN
          /\ k \in Nat /\ k < 1
          /\ count[h][r] = level(h, r) * 1 + k
          /\ bump(count[h][r]) = count[h][r] + 1
      BY <1>1, <1>2, <1>3, <1>4, <1>8, <1>9, Found
    <3>2. level(h, r) \in Nat  BY <1>2, <1>9, Levels
    <3> QED BY <3>1, <3>2, <1>9
  <2>4. EpochAt(r)'
    BY <2>2, <2>3, <1>1, <1>5, <1>8, <1>9, <1>10 DEF EpochAt
  <2> QED BY <2>1, <2>4 DEF EpochInv
<1> QED BY <1>10, <1>11 DEF CountersInv

(* ... arriving at the head of the combine ...                             *)
LEMMA CountersArrive ==
  ASSUME K0dPullAssumption, NoWrap, TypeInv, TypeInv', CountersInv, NEW r \in Rank,
         NEW c \in Block, Arrive(r, c)
  PROVE  CountersInv' /\ Growth
<1>1. /\ kernel[r] = "combine" /\ pc[r][c] = "start" /\ head # "none"
      /\ count' = [count EXCEPT ![head][r] = bump(@)]
      /\ epoch' = [epoch EXCEPT ![r][c] = epoch_from_cumulative(count[head][r], Grid)]
      /\ posted' = IF last_arrival(count[head][r], Grid)
                   THEN posted \cup signal(head, r) ELSE posted
      /\ pc' = [pc EXCEPT ![r][c] = "wait"]
      /\ UNCHANGED <<kernel, replay, arm, flags>>
  BY DEF Arrive, at, goto, host
<1>2. /\ head \in {"arr_f", "arr_b2f"} /\ head \in Channel /\ used(head)
      /\ home(head) = "combine" /\ members(head) = Block /\ width(head) = Grid
      /\ arm = "f" => head = "arr_f"
      /\ arm = "b2f" => head = "arr_b2f"
  BY <1>1, HeadChannel
<1>3. PICK h \in {"arr_f", "arr_b2f"} : h = head  BY <1>2
<1>4. /\ pc'[r][c] = "wait"
      /\ \A b \in Block \ {c} : pc'[r][b] = pc[r][b] /\ epoch'[r][b] = epoch[r][b]
      /\ \A q \in Rank \ {r} : pc'[q] = pc[q] /\ epoch'[q] = epoch[q]
      /\ epoch'[r][c] = epoch_from_cumulative(count[h][r], Grid)
  BY <1>1, <1>3 DEF TypeInv, TypeOK
<1>5. \A x \in Channel \ {h} : home(x) = "combine" =>
         /\ ~come(x, "start")
         /\ used(x) => ~come(x, "wait")
  BY <1>2, <1>3 DEF Channel, home, come, used
<1>6. ~come(h, pc[r][c]) /\ come(h, pc'[r][c])  BY <1>1, <1>4 DEF come
<1>7. /\ PostInv' /\ SentInv' /\ CountInv' /\ LevelInv' /\ AgreeInv' /\ BoundInv' /\ Growth
      /\ level(h, r)' = level(h, r) + IF told(h, r)' THEN 1 ELSE 0
      /\ \A x \in Channel : \A q \in Rank : x # h \/ q # r =>
           /\ level(x, q)' = level(x, q)
           /\ used(x) => (told(x, q)' <=> told(x, q))
  <2>1. /\ h \in Channel /\ c \in members(h) /\ used(h) /\ kernel[r] = home(h)
        /\ count' = [count EXCEPT ![h][r] = bump(@)]
        /\ posted' = IF last_arrival(count[h][r], width(h))
                     THEN posted \cup signal(h, r) ELSE posted
        /\ \A x \in Channel \ {h} : kernel[r] = home(x) =>
             /\ come(x, pc[r][c]) => come(x, pc'[r][c])
             /\ used(x) => (come(x, pc'[r][c]) => come(x, pc[r][c]))
    BY <1>1, <1>2, <1>3, <1>4, <1>5
  <2> QED BY <2>1, <1>1, <1>4, <1>6, Arrival
<1>8. EpochInv'
  <2>1. ASSUME NEW q \in Rank \ {r} PROVE EpochAt(q)'
    BY <1>1, <1>4, <1>7, FrameEpoch
  <2>2. /\ ~told(h, r)
        /\ epoch_from_cumulative(count[h][r], Grid) = level(h, r) + 1
    BY <1>1, <1>2, <1>3, <1>6, Found
  <2>3. head' = h  BY <1>1, <1>3 DEF head
  <2>4. level(h, r) \in Nat  BY <1>2, <1>3, Levels
  <2>5. \A b \in Block : pc'[r][b] = "wait" => epoch'[r][b] = level(h, r) + 1
    <3> SUFFICES ASSUME NEW b \in Block, pc'[r][b] = "wait"
                 PROVE  epoch'[r][b] = level(h, r) + 1
      OBVIOUS
    <3>1. CASE b = c  BY <3>1, <1>4, <2>2
    <3>2. CASE b # c
      <4>1. pc[r][b] = "wait" /\ epoch'[r][b] = epoch[r][b]  BY <3>2, <1>4
      <4>2. epoch[r][b] = level(head, r) + IF told(head, r) THEN 0 ELSE 1
        BY <4>1, <1>1 DEF CountersInv, EpochInv, EpochAt
      <4> QED BY <4>1, <4>2, <1>3, <2>2
    <3> QED BY <3>1, <3>2
  <2>6. level(h, r)' + (IF told(h, r)' THEN 0 ELSE 1) = level(h, r) + 1
    BY <2>4, <1>7
  <2>7. EpochAt(r)'
    <3>1. kernel'[r] = "combine"  BY <1>1
    <3>2. \A b \in Block : pc'[r][b] = "wait" =>
             epoch'[r][b] = level(h, r)' + IF told(h, r)' THEN 0 ELSE 1
      BY <2>5, <2>6
    <3> QED BY <3>1, <3>2, <2>3 DEF EpochAt
  <2> QED BY <2>1, <2>7 DEF EpochInv
<1> QED BY <1>7, <1>8 DEF CountersInv

(* ... and signalling that the combine is done.                            *)
LEMMA CountersSignal ==
  ASSUME K0dPullAssumption, NoWrap, TypeInv, TypeInv', CountersInv, NEW r \in Rank,
         NEW c \in Block, SignalDone(r, c)
  PROVE  CountersInv' /\ Growth
<1>1. /\ kernel[r] = "combine" /\ pc[r][c] = "signal"
      /\ count' = [count EXCEPT !["comb"][r] = bump(@)]
      /\ posted' = IF last_arrival(count["comb"][r], Grid)
                   THEN posted \cup signal("comb", r) ELSE posted
      /\ pc' = [pc EXCEPT ![r][c] = "done"]
      /\ UNCHANGED <<kernel, replay, arm, flags, epoch>>
  BY DEF SignalDone, combine_done, at, goto, host
<1>2. arm = "f"
  <2>1. only_in(pc[r][c], kernel[r])  BY DEF TypeInv, PlaceInv
  <2> QED BY <2>1, <1>1 DEF only_in
<1>3. PICK h \in {"comb"} : TRUE  OBVIOUS
<1>4. /\ h = "comb" /\ h \in Channel /\ used(h) /\ c \in members(h)
      /\ home(h) = "combine" /\ width(h) = Grid
  BY <1>2 DEF Channel, used, home, width, members
<1>5. /\ pc'[r][c] = "done"
      /\ \A b \in Block \ {c} : pc'[r][b] = pc[r][b]
      /\ \A q \in Rank \ {r} : pc'[q] = pc[q]
  BY <1>1 DEF TypeInv, TypeOK
<1>6. \A x \in Channel \ {h} : home(x) = "combine" => come(x, "signal") /\ come(x, "done")
  BY <1>4 DEF Channel, home, come
<1>7. ~come(h, pc[r][c]) /\ come(h, pc'[r][c])  BY <1>1, <1>4, <1>5 DEF come
<1>8. /\ PostInv' /\ SentInv' /\ CountInv' /\ LevelInv' /\ AgreeInv' /\ BoundInv' /\ Growth
      /\ \A x \in Channel : \A q \in Rank : x # h \/ q # r =>
           /\ level(x, q)' = level(x, q)
           /\ used(x) => (told(x, q)' <=> told(x, q))
  <2>1. /\ h \in Channel /\ c \in members(h) /\ used(h) /\ kernel[r] = home(h)
        /\ count' = [count EXCEPT ![h][r] = bump(@)]
        /\ posted' = IF last_arrival(count[h][r], width(h))
                     THEN posted \cup signal(h, r) ELSE posted
        /\ \A x \in Channel \ {h} : kernel[r] = home(x) =>
             /\ come(x, pc[r][c]) => come(x, pc'[r][c])
             /\ used(x) => (come(x, pc'[r][c]) => come(x, pc[r][c]))
    BY <1>1, <1>4, <1>5, <1>6
  <2> QED BY <2>1, <1>1, <1>5, <1>7, Arrival
<1>9. EpochInv'
  <2>1. ASSUME NEW q \in Rank \ {r} PROVE EpochAt(q)'
    BY <1>1, <1>5, <1>8, FrameEpoch
  <2>2. EpochAt(r)'
    <3>1. kernel'[r] = "combine" /\ head' = head  BY <1>1 DEF head
    <3>2. ASSUME NEW b \in Block, pc'[r][b] = "wait"
          PROVE  epoch'[r][b] = level(head, r)' + IF told(head, r)' THEN 0 ELSE 1
      <4>1. pc[r][b] = "wait"  BY <3>2, <1>5
      <4>2. head \in Channel /\ used(head) /\ head \in {"arr_f", "arr_b2f"}
        BY <4>1, <1>1, HeadChannel
      <4>3. PICK x \in {"arr_f", "arr_b2f"} : x = head  BY <4>2
      <4>4. epoch[r][b] = level(x, r) + IF told(x, r) THEN 0 ELSE 1
        BY <4>1, <4>3, <1>1 DEF CountersInv, EpochInv, EpochAt
      <4>5. level(x, r)' = level(x, r) /\ (told(x, r)' <=> told(x, r))
        BY <4>2, <4>3, <1>4, <1>8
      <4> QED BY <4>3, <4>4, <4>5, <3>1, <1>1
    <3> QED BY <3>1, <3>2 DEF EpochAt
  <2> QED BY <2>1, <2>2 DEF EpochInv
<1> QED BY <1>8, <1>9 DEF CountersInv

(* A CTA goes on within its kernel without coming to a channel in use.     *)
LEMMA CountersGoto ==
  ASSUME K0dPullAssumption, TypeInv, TypeInv', CountersInv, NEW r \in Rank,
         NEW c \in Block, NEW l, goto(r, c, l),
         UNCHANGED <<arm, kernel, replay, flags, count, posted, epoch>>,
         l # "wait" \/ kernel[r] = "fused",
         \A x \in Channel : kernel[r] = home(x) =>
           /\ come(x, pc[r][c]) => come(x, l)
           /\ used(x) => (come(x, l) => come(x, pc[r][c]))
  PROVE  CountersInv' /\ Growth
<1>1. /\ pc'[r][c] = l
      /\ \A b \in Block \ {c} : pc'[r][b] = pc[r][b]
      /\ \A q \in Rank \ {r} : pc'[q] = pc[q]
  BY DEF goto, TypeInv, TypeOK
<1>2. \A x \in Channel : /\ used(x) => /\ told(x, r)' <=> told(x, r)
                                       /\ partial(x, r)' = partial(x, r)
                         /\ rounds(x, r) <= rounds(x, r)'
                         /\ done(x, r)' = done(x, r)
  <2> SUFFICES ASSUME NEW x \in Channel
               PROVE  /\ used(x) => /\ told(x, r)' <=> told(x, r)
                                    /\ partial(x, r)' = partial(x, r)
                      /\ rounds(x, r) <= rounds(x, r)'
                      /\ done(x, r)' = done(x, r)
    OBVIOUS
  <2>1. replay[r] \in Nat  BY Levels
  <2> QED BY <2>1, <1>1, Goes
<1>3. \A x \in Channel : used(x) => rounds(x, r)' = rounds(x, r)
  BY <1>2 DEF rounds
<1>4. \A m \in posted : m.from = r => kernel'[r] = home(m.ch) /\ told(m.ch, r)'
  <2> SUFFICES ASSUME NEW m \in posted, m.from = r
               PROVE  kernel'[r] = home(m.ch) /\ told(m.ch, r)'
    OBVIOUS
  <2>1. /\ m.ch \in Channel /\ used(m.ch) /\ kernel[r] = home(m.ch) /\ told(m.ch, r)
    BY DEF CountersInv, PostInv
  <2> QED BY <2>1, <1>2
<1>5. EpochAt(r)'
  <2>1. CASE kernel[r] = "fused"  BY <2>1 DEF EpochAt
  <2>2. CASE l # "wait"
    <3>1. EpochAt(r) /\ head' = head  BY DEF CountersInv, EpochInv, head
    <3>2. \A b \in Block : pc'[r][b] = "wait" => b # c /\ pc[r][b] = "wait"
      BY <1>1, <2>2
    <3>3. \A x \in Channel : level(x, r)' = level(x, r)  BY FrameLevel
    <3>4. kernel[r] \in {"b1", "b2"} => kernel[r] \in Channel /\ 0 \in Block
      BY Zero DEF Channel
    <3>5. ASSUME NEW b \in Block, kernel[r] = "combine", pc'[r][b] = "wait"
          PROVE  epoch'[r][b] = level(head, r)' + IF told(head, r)' THEN 0 ELSE 1
      <4>1. pc[r][b] = "wait"  BY <3>2, <3>5
      <4>2. head \in Channel /\ used(head) /\ head \in {"arr_f", "arr_b2f"}
        BY <4>1, <3>5, HeadChannel
      <4>3. PICK x \in {"arr_f", "arr_b2f"} : x = head  BY <4>2
      <4>4. epoch[r][b] = level(x, r) + IF told(x, r) THEN 0 ELSE 1
        BY <4>1, <4>3, <3>1, <3>5 DEF EpochAt
      <4>5. level(x, r)' = level(x, r) /\ (told(x, r)' <=> told(x, r))
        BY <4>2, <4>3, <3>3, <1>2
      <4> QED BY <4>3, <4>4, <4>5, <3>1
    <3>6. ASSUME kernel[r] \in {"b1", "b2"}, pc'[r][0] = "wait"
          PROVE  epoch'[r][0] = level(kernel[r], r)'
      <4>1. pc[r][0] = "wait" /\ kernel[r] \in Channel  BY <3>2, <3>4, <3>6
      <4>2. epoch[r][0] = level(kernel[r], r)  BY <4>1, <3>1, <3>6 DEF EpochAt
      <4> QED BY <4>2, FrameLevel DEF level, sent
    <3> QED BY <3>5, <3>6 DEF EpochAt
  <2> QED BY <2>1, <2>2
<1> QED BY <1>1, <1>2, <1>3, <1>4, <1>5, Quiet

(* The steps of that kind.                                                 *)
LEMMA CountersMoves ==
  ASSUME K0dPullAssumption, TypeInv, TypeInv', CountersInv, NEW r \in Rank,
         \/ Plan(r) \/ Combined(r) \/ CombinedTimeOut(r)
         \/ Quantise(r) /\ arm # "f"
         \/ BarrierPass(r) \/ BarrierTimeOut(r)
         \/ \E c \in Block : Enter(r, c) \/ EnterTimeOut(r, c) \/ Pull(r, c)
  PROVE  CountersInv' /\ Growth
<1> USE Zero
<1>1. ASSUME NEW c \in Block, NEW l, kernel[r] = "fused", goto(r, c, l),
             l \in {"wait", "quant"} \/ (l = "done" /\ arm # "f"),
             pc[r][c] # "done",
             UNCHANGED <<arm, kernel, replay, flags, count, posted, epoch>>
      PROVE  CountersInv' /\ Growth
  <2>1. \A x \in Channel : home(x) = "fused" => x = "quant"  BY DEF Channel, home
  <2>2. ~come("quant", pc[r][c]) /\ (used("quant") => ~come("quant", l))
    BY <1>1 DEF come, used
  <2>3. \A x \in Channel : kernel[r] = home(x) =>
           /\ come(x, pc[r][c]) => come(x, l)
           /\ used(x) => (come(x, l) => come(x, pc[r][c]))
    BY <1>1, <2>1, <2>2
  <2> QED BY <1>1, <2>3, CountersGoto
<1>2. ASSUME Plan(r) PROVE CountersInv' /\ Growth
  <2> DEFINE l == IF arm = "f" THEN "wait" ELSE "quant"
  <2>1. /\ kernel[r] = "fused" /\ pc[r][0] # "done" /\ goto(r, 0, l)
        /\ UNCHANGED <<arm, kernel, replay, flags, count, posted, epoch>>
    BY <1>2 DEF Plan, at, host, sync
  <2>2. l \in {"wait", "quant"}  OBVIOUS
  <2> HIDE DEF l
  <2> QED BY <2>1, <2>2, <1>1
<1>3. ASSUME Combined(r) \/ CombinedTimeOut(r) PROVE CountersInv' /\ Growth
  <2>1. PICK bits : go_quantise(r, bits)  BY <1>3 DEF Combined, CombinedTimeOut
  <2>2. kernel[r] = "fused" /\ pc[r][0] = "wait"
    BY <1>3 DEF Combined, CombinedTimeOut, at
  <2>3. /\ goto(r, 0, "quant")
        /\ UNCHANGED <<arm, kernel, replay, flags, count, posted, epoch>>
    BY <2>1 DEF go_quantise, host, sync
  <2> QED BY <2>2, <2>3, <1>1
<1>4. ASSUME Quantise(r), arm # "f" PROVE CountersInv' /\ Growth
  <2>1. /\ kernel[r] = "fused" /\ pc[r][0] = "quant" /\ goto(r, 0, "done")
        /\ UNCHANGED <<arm, kernel, replay, flags, count, posted, epoch>>
    BY <1>4 DEF Quantise, at, host
  <2> QED BY <2>1, <1>1, <1>4
<1>5. ASSUME BarrierPass(r) \/ BarrierTimeOut(r) PROVE CountersInv' /\ Growth
  <2>1. PICK bits : barrier_leave(r, bits)  BY <1>5 DEF BarrierPass, BarrierTimeOut
  <2>2. kernel[r] \in {"b1", "b2"} /\ pc[r][0] = "wait"
    BY <1>5 DEF BarrierPass, BarrierTimeOut
  <2>3. /\ goto(r, 0, "done")
        /\ UNCHANGED <<arm, kernel, replay, flags, count, posted, epoch>>
    BY <2>1 DEF barrier_leave, host, sync
  <2>4. \A x \in Channel : home(x) \in {"b1", "b2"} => come(x, "wait") /\ come(x, "done")
    BY DEF Channel, home, come
  <2> QED BY <2>2, <2>3, <2>4, CountersGoto
<1>6. ASSUME NEW c \in Block, Enter(r, c) \/ EnterTimeOut(r, c) PROVE CountersInv' /\ Growth
  <2>1. PICK bits : enter(r, c, bits)  BY <1>6 DEF Enter, EnterTimeOut
  <2>2. /\ kernel[r] = "combine"
        /\ pc[r][c] = "wait" \/ (pc[r][c] = "start" /\ head = "none")
    BY <1>6 DEF Enter, EnterTimeOut, at
  <2>3. /\ goto(r, c, "pull")
        /\ UNCHANGED <<arm, kernel, replay, flags, count, posted, epoch>>
    BY <2>1 DEF enter, host, sync
  <2>4. \A x \in Channel : home(x) = "combine" =>
           /\ come(x, "wait") <=> come(x, "pull")
           /\ ~come(x, "start")
           /\ head = "none" /\ used(x) => ~come(x, "pull")
    BY DEF Channel, home, come, head, used
  <2> QED BY <2>2, <2>3, <2>4, CountersGoto
<1>7. ASSUME NEW c \in Block, Pull(r, c) PROVE CountersInv' /\ Growth
  <2> DEFINE l == IF arm = "f" THEN "signal" ELSE "done"
  <2>1. /\ kernel[r] = "combine" /\ pc[r][c] = "pull" /\ goto(r, c, l)
        /\ UNCHANGED <<arm, kernel, replay, flags, count, posted, epoch>>
    BY <1>7 DEF Pull, at, host, sync
  <2>2. \A x \in Channel : home(x) = "combine" =>
           /\ come(x, "pull") => come(x, l)
           /\ used(x) => (come(x, l) => come(x, "pull"))
    BY DEF Channel, home, come, used
  <2>3. l # "wait"  OBVIOUS
  <2> HIDE DEF l
  <2> QED BY <2>1, <2>2, <2>3, CountersGoto
<1> QED BY <1>2, <1>3, <1>4, <1>5, <1>6, <1>7

(* When a launch begins, the channels of the launches before it are told;  *)
(* when it ends, its own are.                                              *)
LEMMA StartOf ==
  ASSUME K0dPullAssumption, TypeInv, NEW r \in Rank, NEW k, k # "wait",
         kernel' = [kernel EXCEPT ![r] = k],
         pc' = [pc EXCEPT ![r] = [c \in Block |-> IF c \in ctas(k) THEN "start"
                                                  ELSE "done"]]
  PROVE  /\ \A ch \in Channel :
              /\ told(ch, r)' <=> place(k) > place(home(ch))
              /\ partial(ch, r)' = 0
              /\ through(ch, r)' <=> place(k) > place(home(ch))
         /\ EpochAt(r)'
<1>1. /\ kernel'[r] = k
      /\ \A c \in Block : pc'[r][c] = IF c \in ctas(k) THEN "start" ELSE "done"
  BY DEF TypeInv, TypeOK
<1>2. ASSUME NEW ch \in Channel
      PROVE  present(ch, r)' = {} /\ members(ch)' # {}
  <2>1. members(ch)' # {} /\ members(ch)' = members(ch) /\ members(ch) \subseteq Block
    BY Zero, Widths DEF members
  <2>2. ASSUME NEW c \in members(ch), kernel'[r] = home(ch), come(ch, pc'[r][c])
        PROVE  FALSE
    <3>1. c \in ctas(k)
      BY <1>1, <2>1, <2>2 DEF home, Channel, ctas, members
    <3>2. pc'[r][c] = "start"  BY <3>1, <1>1, <2>1
    <3> QED BY <2>2, <3>2 DEF come
  <2> QED BY <2>1, <2>2 DEF present
<1>3. \A ch \in Channel : told(ch, r)' <=> place(k) > place(home(ch))
  BY <1>1, <1>2 DEF told, later
<1>4. \A ch \in Channel : partial(ch, r)' = 0
  <2>1. Cardinality({}) = 0  BY FS_EmptySet
  <2> QED BY <1>2, <2>1 DEF partial
<1>5. EpochAt(r)'
  <2>1. \A c \in Block : pc'[r][c] # "wait"  BY <1>1
  <2> QED BY <2>1, Zero DEF EpochAt
<1>6. \A ch \in Channel : through(ch, r)' <=> place(k) > place(home(ch))
  <2> SUFFICES ASSUME NEW ch \in Channel
               PROVE  through(ch, r)' <=> place(k) > place(home(ch))
    OBVIOUS
  <2>1. kernel'[r] = home(ch) => \A c \in members(ch)' : pc'[r][c] = "start"
    BY <1>1, Widths DEF home, Channel, ctas, members
  <2> QED BY <2>1, <1>1 DEF through, later
<1> QED BY <1>3, <1>4, <1>5, <1>6

(* At its end they are told, and the launches to come have told nothing.   *)
LEMMA EndOf ==
  ASSUME K0dPullAssumption, TypeInv, NEW r \in Rank,
         \A c \in Block : pc[r][c] = "done"
  PROVE  \A ch \in Channel : /\ told(ch, r) <=> place(kernel[r]) >= place(home(ch))
                             /\ partial(ch, r) = 0
                             /\ through(ch, r) <=> told(ch, r)
<1> SUFFICES ASSUME NEW ch \in Channel
             PROVE  /\ told(ch, r) <=> place(kernel[r]) >= place(home(ch))
                    /\ partial(ch, r) = 0
                    /\ through(ch, r) <=> told(ch, r)
  OBVIOUS
<1>1. members(ch) # {} /\ members(ch) \subseteq Block  BY Zero, Widths DEF members
<1>2. come(ch, "done")  BY DEF come
<1>3. place(kernel[r]) \in Nat /\ place(home(ch)) \in Nat  BY DEF place
<1>4. CASE kernel[r] = home(ch)
  <2>1. present(ch, r) = members(ch)  BY <1>4, <1>1, <1>2 DEF present
  <2>2. told(ch, r)  BY <2>1 DEF told
  <2>3. through(ch, r)  BY <1>1, <1>4 DEF through
  <2> QED BY <1>3, <1>4, <2>2, <2>3 DEF partial
<1>5. CASE kernel[r] # home(ch)
  <2>1. present(ch, r) = {} /\ Cardinality({}) = 0  BY <1>5, FS_EmptySet DEF present
  <2>2. told(ch, r) <=> place(kernel[r]) > place(home(ch))
    BY <2>1, <1>1 DEF told, later
  <2>3. place(kernel[r]) # place(home(ch))
    <3>1. kernel[r] \in {"idle", "fused", "b1", "gather", "gemm", "b2", "combine"}
      BY DEF TypeInv, TypeOK
    <3> QED BY <3>1, <1>5 DEF place, home, Channel
  <2>4. through(ch, r) <=> told(ch, r)  BY <2>2, <1>5 DEF through, later
  <2> QED BY <2>1, <2>2, <2>3, <2>4, <1>3 DEF partial
<1> QED BY <1>4, <1>5

(* From one launch to the next nothing is told in the channels in use.     *)
LEMMA CountersStream ==
  ASSUME K0dPullAssumption, TypeInv, TypeInv', CountersInv, NEW r \in Rank,
         Launch(r) \/ KernelEnd(r) \/ Gemm(r)
  PROVE  CountersInv' /\ Growth
         /\ \A ch \in Channel : used(ch) => rounds(ch, r)' = rounds(ch, r)
<1>1. \A q \in Rank \ {r} : kernel'[q] = kernel[q] /\ pc'[q] = pc[q] /\ replay'[q] = replay[q]
  BY DEF Launch, KernelEnd, Gemm, begin, TypeInv, TypeOK
<1>2. UNCHANGED <<arm, flags, count, posted, epoch>>
  BY DEF Launch, KernelEnd, Gemm, host, sync
<1>3. arm \in {"s", "b2f", "f"}  BY Constants DEF TypeInv, TypeOK
<1>4. \A c \in Block : pc[r][c] = "done"
  <2>1. CASE KernelEnd(r)  BY <2>1 DEF KernelEnd
  <2>2. CASE Launch(r) \/ Gemm(r)
    <3>1. places(kernel[r]) = {"done"}  BY <2>2 DEF Launch, Gemm, places
    <3> QED BY <3>1 DEF TypeInv, PlaceInv
  <2> QED BY <2>1, <2>2
<1>5. \A m \in posted : m.from # r
  <2>1. CASE KernelEnd(r)  BY <2>1 DEF KernelEnd
  <2>2. CASE Launch(r) \/ Gemm(r)
    <3>1. \A ch \in Channel : kernel[r] # home(ch)
      BY <2>2 DEF Launch, Gemm, Channel, home
    <3> QED BY <3>1 DEF CountersInv, PostInv
  <2> QED BY <2>1, <2>2
<1>6. \A ch \in Channel : /\ told(ch, r) <=> place(kernel[r]) >= place(home(ch))
                          /\ partial(ch, r) = 0
  BY <1>4, EndOf
<1>7. \A ch \in Channel : replay[r] \in Nat  BY Levels
<1>8. CASE Launch(r)
  <2>1. /\ kernel' = [kernel EXCEPT ![r] = "fused"] /\ kernel[r] = "idle"
        /\ pc' = [pc EXCEPT ![r] = [c \in Block |-> IF c \in ctas("fused") THEN "start"
                                                    ELSE "done"]]
        /\ replay'[r] = replay[r] + 1
    BY <1>8 DEF Launch, begin, TypeInv, TypeOK
  <2>2. /\ \A ch \in Channel : /\ told(ch, r)' <=> place("fused") > place(home(ch))
                               /\ partial(ch, r)' = 0
        /\ EpochAt(r)'
    BY <2>1, StartOf
  <2>3. \A ch \in Channel : /\ ~(place("fused") > place(home(ch)))
                            /\ place("idle") >= place(home(ch))
    BY DEF place, home, Channel
  <2>4. \A ch \in Channel : rounds(ch, r)' = rounds(ch, r)
    BY <2>1, <2>2, <2>3, <1>6, <1>7 DEF rounds
  <2>5. \A ch \in Channel : rounds(ch, r) <= rounds(ch, r)'
    BY <2>4, Levels
  <2> QED BY <2>2, <2>4, <2>5, <1>1, <1>2, <1>5, <1>6, Quiet
<1>9. CASE KernelEnd(r) \/ Gemm(r)
  <2>1. PICK k \in {"b1", "gather", "gemm", "b2", "combine", "idle"} :
           /\ k = successor(kernel[r]) /\ kernel[r] # "idle"
           /\ kernel' = [kernel EXCEPT ![r] = k]
           /\ pc' = [pc EXCEPT ![r] = [c \in Block |-> IF c \in ctas(k) THEN "start"
                                                       ELSE "done"]]
           /\ replay' = replay
    <3>1. kernel[r] # "idle" => successor(kernel[r]) \in {"b1", "gather", "gemm", "b2", "combine", "idle"}
      BY DEF successor, TypeInv, TypeOK
    <3>2. CASE KernelEnd(r)  BY <3>1, <3>2 DEF KernelEnd, begin
    <3>3. CASE Gemm(r)  BY <3>1, <3>3 DEF Gemm
    <3> QED BY <1>9, <3>2, <3>3
  <2>2. /\ \A ch \in Channel : /\ told(ch, r)' <=> place(k) > place(home(ch))
                               /\ partial(ch, r)' = 0
        /\ EpochAt(r)'
    BY <2>1, StartOf
  <2>3. \A ch \in Channel :
           /\ place(kernel[r]) >= place(home(ch)) => place(k) > place(home(ch))
           /\ used(ch) => (place(k) > place(home(ch)) => place(kernel[r]) >= place(home(ch)))
    <3>1. kernel[r] \in {"fused", "b1", "gather", "gemm", "b2", "combine"}
      BY <2>1 DEF TypeInv, TypeOK
    <3>2. (kernel[r] = "b1" => arm # "f") /\ (kernel[r] = "b2" => arm = "s")
      BY DEF TypeInv, PlaceInv
    <3> QED BY <2>1, <3>1, <3>2, <1>3 DEF successor, place, home, used, Channel
  <2>4. \A ch \in Channel : used(ch) => rounds(ch, r)' = rounds(ch, r)
    BY <2>1, <2>2, <2>3, <1>6 DEF rounds
  <2>5. \A ch \in Channel : rounds(ch, r) <= rounds(ch, r)'
    <3> SUFFICES ASSUME NEW ch \in Channel PROVE rounds(ch, r) <= rounds(ch, r)'
      OBVIOUS
    <3>1. told(ch, r) => told(ch, r)'  BY <2>2, <2>3, <1>6
    <3> QED BY <2>1, <3>1, <1>7 DEF rounds
  <2> QED BY <2>2, <2>4, <2>5, <1>1, <1>2, <1>5, <1>6, Quiet
<1> QED BY <1>8, <1>9

(* Nothing of it depends on the rows.                                      *)
LEMMA CountersRows ==
  ASSUME K0dPullAssumption, TypeInv, CountersInv, UNCHANGED <<stream, host, sync>>
  PROVE  CountersInv' /\ Growth
<1> USE DEF stream, host, sync
<1>1. \A x \in Channel : \A q, d \in Rank :
         /\ level(x, q)' = level(x, q) /\ sent(x, q, d)' = sent(x, q, d)
         /\ told(x, q)' <=> told(x, q)
         /\ rounds(x, q)' = rounds(x, q)
         /\ partial(x, q)' = partial(x, q) /\ done(x, q)' = done(x, q)
         /\ used(x)' <=> used(x)
  BY FrameLevel, Frame
<1>2. PostInv'
  <2> SUFFICES ASSUME NEW m \in posted
               PROVE  /\ m \in [ch : Channel, from : Rank, to : Rank]
                      /\ used(m.ch)' /\ kernel[m.from] = home(m.ch)
                      /\ told(m.ch, m.from)'
    BY DEF PostInv, Channel, Rank
  <2>1. /\ m \in [ch : Channel, from : Rank, to : Rank] /\ used(m.ch)
        /\ kernel[m.from] = home(m.ch) /\ told(m.ch, m.from)
    BY DEF CountersInv, PostInv
  <2> QED BY <2>1, <1>1
<1>3. SentInv' /\ LevelInv' /\ BoundInv'
  BY <1>1 DEF CountersInv, SentInv, LevelInv, BoundInv
<1>4. CountInv'  BY <1>1 DEF CountersInv, CountInv, width
<1>5. AgreeInv'
  <2> SUFFICES ASSUME NEW r \in Rank, NEW ch \in {"comb", "arr_f"}
               PROVE  level("quant", r)' - done("quant", r)' = level(ch, r)' - done(ch, r)'
    BY DEF AgreeInv
  <2>1. ch \in Channel /\ "quant" \in Channel  BY DEF Channel
  <2> QED BY <2>1, <1>1 DEF CountersInv, AgreeInv
<1>6. EpochInv'
  <2>1. head' = head  BY DEF head
  <2> SUFFICES ASSUME NEW q \in Rank PROVE EpochAt(q)'  BY DEF EpochInv
  <2>2. level(head, q)' = level(head, q) /\ level(kernel[q], q)' = level(kernel[q], q)
    BY DEF level, sent, head
  <2>3. told(head, q)' <=> told(head, q)
    BY DEF told, later, present, place, members, head
  <2>4. EpochAt(q)  BY DEF CountersInv, EpochInv
  <2> QED BY <2>1, <2>2, <2>3, <2>4 DEF EpochAt
<1>7. Growth
  <2>1. \A ch \in Channel : \A q \in Rank : done(ch, q) \in Int  BY Levels
  <2> QED BY <2>1, <1>1 DEF Growth
<1> QED BY <1>2, <1>3, <1>4, <1>5, <1>6, <1>7 DEF CountersInv

(* A poke that lands raises the flag it is for.                            *)
LEMMA CountersDeliver ==
  ASSUME K0dPullAssumption, NoWrap, TypeInv, CountersInv, NEW m \in posted, Deliver(m)
  PROVE  CountersInv' /\ Growth
<1>1. PICK x \in Channel, s \in Rank, d \in Rank :
         /\ m = [ch |-> x, from |-> s, to |-> d]
         /\ m.ch = x /\ m.from = s /\ m.to = d
  BY DEF CountersInv, PostInv
<1>2. /\ posted' = posted \ {m}
      /\ flags' = [flags EXCEPT ![x][d][s] = bump(@)]
      /\ UNCHANGED <<kernel, pc, replay, arm, count, epoch>>
  BY <1>1 DEF Deliver, stream, host
<1>3. sent(x, s, d) = 1 /\ sent(x, s, d)' = 0
  BY <1>1, <1>2 DEF sent
<1>4. \A y \in Channel : \A q, e \in Rank : ~(y = x /\ q = s /\ e = d) =>
         sent(y, q, e)' = sent(y, q, e) /\ flags'[y][e][q] = flags[y][e][q]
  BY <1>1, <1>2 DEF sent, TypeInv, TypeOK
<1>5. flags'[x][d][s] = flags[x][d][s] + 1
  <2>1. flags[x][d][s] + 1 = level(x, s)  BY <1>3 DEF CountersInv, SentInv
  <2>2. level(x, s) <= rounds(x, s)  BY DEF CountersInv, BoundInv
  <2>3. /\ flags[x][d][s] \in Nat /\ level(x, s) \in Nat
        /\ rounds(x, s) \in Int /\ rounds(x, s) <= MaxReplay
    BY Levels
  <2>4. MaxReplay \in Nat /\ Grid \in Nat \ {0} /\ CounterMod \in Nat  BY Constants
  <2>5. \A n \in Nat, g \in Nat \ {0} : n <= n * g /\ n * g \in Nat  OBVIOUS
  <2>6. MaxReplay <= MaxReplay * Grid /\ MaxReplay * Grid \in Nat  BY <2>4, <2>5
  <2>7. flags[x][d][s] + 1 < CounterMod
    BY <2>1, <2>2, <2>3, <2>4, <2>6 DEF NoWrap
  <2>8. bump(flags[x][d][s]) = flags[x][d][s] + 1  BY <2>3, <2>7, BumpExact
  <2> QED BY <2>8, <1>2 DEF TypeInv, TypeOK
<1>6. \A y \in Channel : \A q, e \in Rank :
         flags'[y][e][q] + sent(y, q, e)' = flags[y][e][q] + sent(y, q, e)
  <2> SUFFICES ASSUME NEW y \in Channel, NEW q \in Rank, NEW e \in Rank
               PROVE  flags'[y][e][q] + sent(y, q, e)' = flags[y][e][q] + sent(y, q, e)
    OBVIOUS
  <2>1. flags[x][d][s] \in Nat  BY Levels
  <2> QED BY <2>1, <1>3, <1>4, <1>5
<1>7. \A y \in Channel : \A q \in Rank : level(y, q)' = level(y, q)
  BY <1>6 DEF level
<1>8. \A y \in Channel : \A q \in Rank :
         /\ told(y, q)' <=> told(y, q)
         /\ rounds(y, q)' = rounds(y, q)
         /\ partial(y, q)' = partial(y, q) /\ done(y, q)' = done(y, q)
         /\ used(y)' <=> used(y)
  BY <1>2, Frame
<1>9. PostInv'
  <2> SUFFICES ASSUME NEW n \in posted'
               PROVE  /\ n \in [ch : Channel, from : Rank, to : Rank]
                      /\ used(n.ch)' /\ kernel'[n.from] = home(n.ch)
                      /\ told(n.ch, n.from)'
    BY DEF PostInv, Channel, Rank
  <2>1. /\ n \in [ch : Channel, from : Rank, to : Rank] /\ used(n.ch)
        /\ kernel[n.from] = home(n.ch) /\ told(n.ch, n.from)
    BY <1>2 DEF CountersInv, PostInv
  <2> QED BY <2>1, <1>2, <1>8
<1>10. SentInv'  BY <1>6, <1>7 DEF CountersInv, SentInv
<1>11. LevelInv' /\ BoundInv'
  BY <1>7, <1>8 DEF CountersInv, LevelInv, BoundInv
<1>12. CountInv'  BY <1>2, <1>7, <1>8 DEF CountersInv, CountInv, width
<1>13. AgreeInv'
  <2> SUFFICES ASSUME NEW r \in Rank, NEW ch \in {"comb", "arr_f"}
               PROVE  level("quant", r)' - done("quant", r)' = level(ch, r)' - done(ch, r)'
    BY DEF AgreeInv
  <2>1. ch \in Channel /\ "quant" \in Channel  BY DEF Channel
  <2> QED BY <2>1, <1>7, <1>8 DEF CountersInv, AgreeInv
<1>14. EpochInv'
  <2> SUFFICES ASSUME NEW q \in Rank PROVE EpochAt(q)'  BY DEF EpochInv
  <2> QED BY <1>2, <1>7, <1>8, FrameEpoch
<1>15. Growth
  <2>1. \A ch \in Channel : \A q \in Rank : done(ch, q) \in Int  BY Levels
  <2> QED BY <2>1, <1>8 DEF Growth
<1> QED BY <1>15, <1>9, <1>10, <1>11, <1>12, <1>13, <1>14 DEF CountersInv

(* The host joins the ranks: all have told the same number of times, so    *)
(* whichever channels the next arm uses agree.                             *)
LEMMA CountersHost ==
  ASSUME K0dPullAssumption, TypeInv, CountersInv, Host
  PROVE  CountersInv'
<1>1. /\ \A r \in Rank : kernel[r] = "idle" /\ replay[r] = replay[0]
      /\ posted = {}
      /\ UNCHANGED <<kernel, pc, replay, flags, count, posted, epoch>>
  BY DEF Host, stream, sync
<1>2. \A x \in Channel : \A q \in Rank :
         /\ told(x, q) /\ rounds(x, q) = replay[0] /\ partial(x, q) = 0
         /\ rounds(x, q)' = replay[0] /\ partial(x, q)' = 0
  <2> SUFFICES ASSUME NEW x \in Channel, NEW q \in Rank
               PROVE  /\ told(x, q) /\ rounds(x, q) = replay[0] /\ partial(x, q) = 0
                      /\ rounds(x, q)' = replay[0] /\ partial(x, q)' = 0
    OBVIOUS
  <2>1. place("idle") > place(home(x))  BY DEF place, home, Channel
  <2>2. told(x, q)  BY <2>1, <1>1 DEF told, later
  <2>3. told(x, q)'  BY <2>2, <1>1, Frame
  <2> QED BY <2>2, <2>3, <1>1 DEF rounds, partial
<1>3. \A x \in Channel : \A q, d \in Rank :
         level(x, q)' = level(x, q) /\ sent(x, q, d)' = sent(x, q, d)
  BY <1>1, FrameLevel
<1>4. \A x \in Channel : \A q, s \in Rank : level(x, q) = level(x, s)
  <2> SUFFICES ASSUME NEW x \in Channel, NEW q \in Rank, NEW s \in Rank
               PROVE  level(x, q) = level(x, s)
    OBVIOUS
  <2>1. level(x, q) - done(x, q) = level(x, s) - done(x, s)
    BY DEF CountersInv, LevelInv
  <2>2. done(x, q) = done(x, s)  BY <1>2 DEF done
  <2>3. level(x, q) \in Nat /\ level(x, s) \in Nat /\ done(x, s) \in Int  BY Levels
  <2> QED BY <2>1, <2>2, <2>3
<1>5. \A r \in Rank : \A x \in {"comb", "arr_f"} : level("quant", r) = level(x, r)
  <2> SUFFICES ASSUME NEW r \in Rank, NEW x \in {"comb", "arr_f"}
               PROVE  level("quant", r) = level(x, r)
    OBVIOUS
  <2>1. x \in Channel /\ "quant" \in Channel /\ (used(x) <=> used("quant"))
    BY DEF Channel, used
  <2>2. done(x, r) = done("quant", r)  BY <2>1, <1>2 DEF done
  <2>3. level("quant", r) - done("quant", r) = level(x, r) - done(x, r)
    BY DEF CountersInv, AgreeInv
  <2>4. level(x, r) \in Nat /\ level("quant", r) \in Nat /\ done(x, r) \in Int
    BY <2>1, Levels
  <2> QED BY <2>2, <2>3, <2>4
<1>6. PostInv'  BY <1>1 DEF PostInv
<1>7. SentInv'  BY <1>1, <1>3 DEF CountersInv, SentInv
<1>8. CountInv'  BY <1>1, <1>2, <1>3 DEF CountersInv, CountInv, width
<1>9. LevelInv'
  <2> SUFFICES ASSUME NEW x \in Channel, NEW q \in Rank, NEW s \in Rank
               PROVE  level(x, q)' - done(x, q)' = level(x, s)' - done(x, s)'
    BY DEF LevelInv
  <2>1. done(x, q)' = done(x, s)'  BY <1>2 DEF done
  <2> QED BY <2>1, <1>3, <1>4
<1>10. AgreeInv'
  <2> SUFFICES ASSUME NEW r \in Rank, NEW x \in {"comb", "arr_f"}
               PROVE  level("quant", r)' - done("quant", r)' = level(x, r)' - done(x, r)'
    BY DEF AgreeInv
  <2>1. x \in Channel /\ "quant" \in Channel /\ (used(x)' <=> used("quant")')
    BY DEF Channel, used
  <2>2. done(x, r)' = done("quant", r)'  BY <2>1, <1>2 DEF done
  <2> QED BY <2>1, <2>2, <1>3, <1>5
<1>11. BoundInv'
  BY <1>2, <1>3 DEF CountersInv, BoundInv
<1>12. EpochInv'  BY <1>1 DEF EpochInv, EpochAt
<1> QED BY <1>6, <1>7, <1>8, <1>9, <1>10, <1>11, <1>12 DEF CountersInv

(* Before the first replay nothing has been counted.                       *)
LEMMA CountersInit ==
  ASSUME K0dPullAssumption, TypeInv, Init PROVE CountersInv
<1> USE DEF Init
<1>1. \A x \in Channel : \A q, d \in Rank : level(x, q) = 0 /\ sent(x, q, d) = 0
  BY DEF level, sent
<1>2. \A x \in Channel : \A q \in Rank :
         told(x, q) /\ rounds(x, q) = 0 /\ partial(x, q) = 0 /\ done(x, q) = 0
  <2> SUFFICES ASSUME NEW x \in Channel, NEW q \in Rank
               PROVE  told(x, q) /\ rounds(x, q) = 0 /\ partial(x, q) = 0 /\ done(x, q) = 0
    OBVIOUS
  <2>1. place("idle") > place(home(x))  BY DEF place, home, Channel
  <2>2. told(x, q)  BY <2>1 DEF told, later
  <2> QED BY <2>2 DEF rounds, partial, done
<1>3. PostInv  BY DEF PostInv
<1>4. SentInv /\ LevelInv /\ BoundInv  BY <1>1, <1>2 DEF SentInv, LevelInv, BoundInv
<1>5. CountInv
  <2> SUFFICES ASSUME NEW x \in Channel, NEW q \in Rank
               PROVE  count[x][q] = level(x, q) * width(x) + partial(x, q)
    BY DEF CountInv
  <2>1. width(x) \in Nat  BY Widths
  <2> QED BY <2>1, <1>1, <1>2
<1>6. AgreeInv
  <2> SUFFICES ASSUME NEW r \in Rank, NEW x \in {"comb", "arr_f"}
               PROVE  level("quant", r) - done("quant", r) = level(x, r) - done(x, r)
    BY DEF AgreeInv
  <2>1. x \in Channel /\ "quant" \in Channel  BY DEF Channel
  <2> QED BY <2>1, <1>1, <1>2
<1>7. EpochInv  BY DEF EpochInv, EpochAt
<1> QED BY <1>3, <1>4, <1>5, <1>6, <1>7 DEF CountersInv

(* Types and counters together, step by step.                              *)
LEMMA SureStep ==
  ASSUME K0dPullAssumption, NoWrap, TypeInv, CountersInv, [Next]_vars
  PROVE  TypeInv' /\ CountersInv' /\ (Growth \/ Host)
<1>1. ASSUME NEW r \in Rank, Work(r) \/ TimeOut(r) PROVE TypeInv' /\ CountersInv' /\ (Growth \/ Host)
  <2>1. CASE \/ Plan(r) \/ Combined(r) \/ CombinedTimeOut(r)
             \/ BarrierPass(r) \/ BarrierTimeOut(r)
    BY <2>1, TypeWork, CountersMoves
  <2>2. CASE Quantise(r)
    <3>1. TypeInv'  BY <2>2, TypeWork
    <3>2. CASE arm = "f"  BY <2>2, <3>1, <3>2, CountersQuantise
    <3>3. CASE arm # "f"  BY <2>2, <3>1, <3>3, CountersMoves
    <3> QED BY <3>1, <3>2, <3>3
  <2>3. CASE BarrierArrive(r)
    <3>1. TypeInv'  BY <2>3, TypeWork
    <3> QED BY <2>3, <3>1, CountersBarrier
  <2>4. CASE Launch(r) \/ KernelEnd(r) \/ Gemm(r)
    <3>1. TypeInv'  BY <2>4, TypeStream
    <3> QED BY <2>4, <3>1, CountersStream
  <2>5. ASSUME NEW t \in Row, FetchTimeOut(r, t) PROVE TypeInv' /\ CountersInv' /\ (Growth \/ Host)
    <3>1. TypeInv'  BY <2>5, TypeRows
    <3>2. UNCHANGED <<stream, host, sync>>  BY <2>5 DEF FetchTimeOut, fetch
    <3> QED BY <3>1, <3>2, CountersRows
  <2>6. ASSUME NEW c \in Block, EnterTimeOut(r, c) PROVE TypeInv' /\ CountersInv' /\ (Growth \/ Host)
    <3>1. TypeInv'  BY <2>6, TypeCombine
    <3> QED BY <2>6, <3>1, CountersMoves
  <2> QED BY <1>1, <2>1, <2>2, <2>3, <2>4, <2>5, <2>6 DEF Work, TimeOut
<1>2. ASSUME NEW r \in Rank, NEW t \in Row, RowWork(r, t)
      PROVE  TypeInv' /\ CountersInv' /\ (Growth \/ Host)
  <2>1. TypeInv'  BY <1>2, TypeRows DEF RowWork
  <2>2. UNCHANGED <<stream, host, sync>>
    BY <1>2 DEF RowWork, ClearRow, FetchRow, fetch
  <2> QED BY <2>1, <2>2, CountersRows
<1>3. ASSUME NEW r \in Rank, NEW c \in Block, CombineWork(r, c)
      PROVE  TypeInv' /\ CountersInv' /\ (Growth \/ Host)
  <2>1. TypeInv'  BY <1>3, TypeCombine DEF CombineWork
  <2>2. CASE Arrive(r, c)  BY <2>1, <2>2, CountersArrive
  <2>3. CASE Enter(r, c) \/ Pull(r, c)  BY <2>1, <2>3, CountersMoves
  <2>4. CASE SignalDone(r, c)  BY <2>1, <2>4, CountersSignal
  <2> QED BY <1>3, <2>2, <2>3, <2>4 DEF CombineWork
<1>4. ASSUME NEW m \in posted, Deliver(m) PROVE TypeInv' /\ CountersInv' /\ (Growth \/ Host)
  <2>1. m \in [ch : Channel, from : Rank, to : Rank]
    BY DEF CountersInv, PostInv
  <2> QED BY <1>4, <2>1, TypeRest, CountersDeliver
<1>5. CASE Host  BY <1>5, TypeRest, CountersHost
<1>6. CASE UNCHANGED vars
  <2>1. UNCHANGED <<stream, host, sync, data, pperr, expired>>  BY <1>6 DEF vars
  <2>2. TypeInv'
    BY <2>1 DEF TypeInv, TypeOK, PlaceInv, ShapeInv, only_in, ctas, stream, host, sync, data
  <2> QED BY <2>1, <2>2, CountersRows
<1> QED BY <1>1, <1>2, <1>3, <1>4, <1>5, <1>6 DEF Next

(* Whatever times out, the variables are of their types, every CTA is at a *)
(* place of its kernel, and counters, flags, pokes and registers stand for *)
(* the rounds of their channels.                                           *)
THEOREM PullCountersRight ==
  ASSUME K0dPullAssumption, NoWrap
  PROVE  Spec => [](TypeInv /\ CountersInv)
<1>1. Init => TypeInv /\ CountersInv  BY TypeInit, CountersInit
<1>2. (TypeInv /\ CountersInv) /\ [Next]_vars => (TypeInv /\ CountersInv)'
  BY SureStep
<1> QED BY <1>1, <1>2, PTL DEF Spec

(* When the ranks are joined the counters of the folded arm agree with its *)
(* flags on every rank, whatever arms and time-outs came before.           *)
THEOREM PullEpochsAgree ==
  ASSUME K0dPullAssumption, NoWrap
  PROVE  Spec => []EpochsAgree
<1>1. ASSUME TypeInv, CountersInv PROVE EpochsAgree
  <2> USE <1>1
  <2> SUFFICES ASSUME posted = {}, NEW r \in Rank, NEW s \in Rank,
                      \A q \in Rank : kernel[q] = "idle" /\ replay[q] = replay[0]
               PROVE  /\ flags["quant"][r][s] = count["quant"][r]
                      /\ flags["comb"][r][s] * Grid = count["comb"][r]
                      /\ flags["arr_f"][r][s] * Grid = count["arr_f"][r]
                      /\ count["quant"][r] = flags["comb"][r][s]
                      /\ count["quant"][r] = flags["arr_f"][r][s]
    BY DEF EpochsAgree
  <2>1. \A x \in Channel : \A q \in Rank : rounds(x, q) = replay[0] /\ partial(x, q) = 0
    <3> SUFFICES ASSUME NEW x \in Channel, NEW q \in Rank
                 PROVE  rounds(x, q) = replay[0] /\ partial(x, q) = 0
      OBVIOUS
    <3>1. place("idle") > place(home(x))  BY DEF place, home, Channel
    <3>2. told(x, q)  BY <3>1 DEF told, later
    <3> QED BY <3>2 DEF rounds, partial
  <2>2. \A x \in Channel : /\ flags[x][r][s] = level(x, r)
                           /\ count[x][r] = level(x, r) * width(x)
    <3> SUFFICES ASSUME NEW x \in Channel
                 PROVE  /\ flags[x][r][s] = level(x, r)
                        /\ count[x][r] = level(x, r) * width(x)
      OBVIOUS
    <3>1. level(x, r) - done(x, r) = level(x, s) - done(x, s)
      BY DEF CountersInv, LevelInv
    <3>2. done(x, r) = done(x, s)  BY <2>1 DEF done
    <3>3. level(x, r) \in Nat /\ level(x, s) \in Nat /\ done(x, s) \in Int /\ width(x) \in Nat
      BY Levels, Widths
    <3>4. flags[x][r][s] + 0 = level(x, s) /\ flags[x][r][s] \in Nat
      BY Levels DEF CountersInv, SentInv, sent
    <3>5. level(x, r) * width(x) \in Nat  BY <3>3
    <3>6. count[x][r] = level(x, r) * width(x) + 0  BY <2>1 DEF CountersInv, CountInv
    <3> QED BY <3>1, <3>2, <3>3, <3>4, <3>5, <3>6
  <2>3. /\ {"quant", "comb", "arr_f"} \subseteq Channel
        /\ width("quant") = 1 /\ width("comb") = Grid /\ width("arr_f") = Grid
        /\ \A x \in {"comb", "arr_f"} : used(x) <=> used("quant")
    BY DEF Channel, width, used
  <2>4. \A x \in {"comb", "arr_f"} : level("quant", r) = level(x, r)
    <3> SUFFICES ASSUME NEW x \in {"comb", "arr_f"} PROVE level("quant", r) = level(x, r)
      OBVIOUS
    <3>1. done(x, r) = done("quant", r)  BY <2>1, <2>3 DEF done
    <3>2. level("quant", r) - done("quant", r) = level(x, r) - done(x, r)
      BY DEF CountersInv, AgreeInv
    <3>3. level(x, r) \in Nat /\ level("quant", r) \in Nat /\ done(x, r) \in Int
      BY <2>3, Levels
    <3> QED BY <3>1, <3>2, <3>3
  <2>5. level("quant", r) \in Nat  BY <2>3, Levels
  <2> QED BY <2>2, <2>3, <2>4, <2>5
<1> QED BY <1>1, PullCountersRight, PTL

-----------------------------------------------------------------------------
(* How far apart the ranks are, as long as no error word is set.           *)
LEMMA Passed ==
  ASSUME K0dPullAssumption, TypeInv, NEW ch \in Meeting, NEW r \in Rank
  PROVE  /\ ch \in Channel /\ passed(ch, r) \in Int /\ replay[r] \in Nat
         /\ replay[r] - 1 <= passed(ch, r) /\ passed(ch, r) <= replay[r]
         /\ done(ch, r) \in Int
<1>1. ch \in Channel  BY DEF Meeting, Channel
<1>2. replay[r] \in Nat /\ done(ch, r) \in Int  BY <1>1, Levels
<1> QED BY <1>1, <1>2 DEF passed

(* Nobody is ahead of a rank that still has to tell a meeting channel.     *)
LEMMA Ahead ==
  ASSUME K0dPullAssumption, TypeInv, SyncInv, NEW ch \in Meeting, used(ch),
         NEW r \in Rank, ~told(ch, r), NEW q \in Rank
  PROVE  replay[q] <= replay[r]
<1>1. passed(ch, q) <= done(ch, r)  BY DEF SyncInv
<1>2. done(ch, r) = replay[r] - 1  BY DEF done, rounds
<1> QED BY <1>1, <1>2, Passed

(* Who has passed a meeting channel is not ahead of anybody's telling it.  *)
LEMMA Together ==
  ASSUME K0dPullAssumption, TypeInv, SyncInv, NEW ch \in Meeting, used(ch),
         NEW r \in Rank, through(ch, r), NEW q \in Rank
  PROVE  replay[r] < replay[q] \/ (replay[r] = replay[q] /\ told(ch, q))
<1>1. passed(ch, r) <= done(ch, q) /\ passed(ch, r) = replay[r]
  BY DEF SyncInv, passed
<1>2. done(ch, q) = IF told(ch, q) THEN replay[q] ELSE replay[q] - 1
  BY DEF done, rounds
<1>3. replay[r] \in Nat /\ replay[q] \in Nat  BY Passed
<1> QED BY <1>1, <1>2, <1>3

(* A step of one rank keeps SyncInv if it passes nothing without having    *)
(* seen everybody tell it.                                                 *)
LEMMA SyncKept ==
  ASSUME K0dPullAssumption, TypeInv, TypeInv', SyncInv, Growth, NEW r \in Rank,
         arm' = arm,
         \A q \in Rank \ {r} : /\ kernel'[q] = kernel[q] /\ pc'[q] = pc[q]
                               /\ replay'[q] = replay[q],
         \A ch \in Meeting : used(ch) =>
           \/ passed(ch, r)' = passed(ch, r)
           \/ \A q \in Rank : passed(ch, r)' <= done(ch, q),
         arm = "f" => (let_go(r)' =>
           \/ let_go(r) /\ replay'[r] = replay[r]
           \/ \A q \in Rank : replay'[r] - 1 <= done("comb", q))
  PROVE  SyncInv'
<1>1. \A ch \in Channel : used(ch)' <=> used(ch)  BY DEF used
<1>2. \A q \in Rank : replay[q] \in Nat /\ replay'[q] \in Nat
  BY Constants DEF TypeInv, TypeOK
<1>3. \A ch \in Channel : \A q \in Rank : done(ch, q) \in Int /\ done(ch, q)' \in Int
  BY <1>2, Levels DEF done, rounds
<1>4. ASSUME NEW ch \in Meeting, used(ch), NEW p \in Rank, NEW q \in Rank
      PROVE  passed(ch, p)' <= done(ch, q)'
  <2>1. /\ ch \in Channel /\ passed(ch, p) \in Int  BY Passed
  <2>2. passed(ch, p)' \in Int  BY <1>2 DEF passed
  <2>3. passed(ch, p) <= done(ch, q)  BY <1>4 DEF SyncInv
  <2>4. done(ch, q) <= done(ch, q)'  BY <2>1 DEF Growth
  <2>5. CASE p = r
    <3>1. passed(ch, r)' = passed(ch, r) \/ passed(ch, r)' <= done(ch, q)  BY <1>4
    <3> QED BY <2>1, <2>2, <2>3, <2>4, <2>5, <3>1, <1>3
  <2>6. CASE p # r
    <3>1. passed(ch, p)' = passed(ch, p)
      BY <2>6 DEF passed, through, later, place, members
    <3> QED BY <2>1, <2>3, <2>4, <3>1, <1>3
  <2> QED BY <2>5, <2>6
<1>5. ASSUME arm = "f", NEW p \in Rank, NEW q \in Rank, let_go(p)'
      PROVE  replay'[p] - 1 <= done("comb", q)'
  <2>1. "comb" \in Channel  BY DEF Channel
  <2>2. done("comb", q) <= done("comb", q)'  BY <2>1 DEF Growth
  <2>3. replay'[p] - 1 <= done("comb", q)
    <3>1. CASE p = r  BY <1>5, <3>1 DEF SyncInv
    <3>2. CASE p # r
      <4>1. let_go(p) /\ replay'[p] = replay[p]  BY <1>5, <3>2 DEF let_go
      <4> QED BY <4>1, <1>5 DEF SyncInv
    <3> QED BY <3>1, <3>2
  <2> QED BY <2>1, <2>2, <2>3, <1>2, <1>3
<1> QED BY <1>1, <1>4, <1>5, Passed DEF SyncInv

(* Steps within a kernel that leave no wait pass nothing.                  *)
LEMMA SyncGoto ==
  ASSUME K0dPullAssumption, TypeInv, TypeInv', SyncInv, Growth, NEW r \in Rank,
         NEW c \in Block, NEW l, goto(r, c, l), UNCHANGED <<arm, kernel, replay>>,
         l \in {"start", "wait"} <=> pc[r][c] \in {"start", "wait"}
  PROVE  SyncInv'
<1>1. /\ pc'[r][c] = l
      /\ \A b \in Block \ {c} : pc'[r][b] = pc[r][b]
      /\ \A q \in Rank \ {r} : pc'[q] = pc[q]
  BY DEF goto, TypeInv, TypeOK
<1>2. \A b \in Block : pc'[r][b] \in {"start", "wait"} <=> pc[r][b] \in {"start", "wait"}
  BY <1>1
<1>3. \A ch \in Meeting : passed(ch, r)' = passed(ch, r)
  <2> SUFFICES ASSUME NEW ch \in Meeting PROVE passed(ch, r)' = passed(ch, r)
    OBVIOUS
  <2>1. members(ch) \subseteq Block /\ members(ch)' = members(ch)
    BY Passed, Widths DEF members
  <2>2. later(ch, r)' <=> later(ch, r)  BY DEF later
  <2>3. through(ch, r)' <=> through(ch, r)  BY <1>2, <2>1, <2>2 DEF through
  <2> QED BY <2>3 DEF passed
<1>4. let_go(r)' <=> let_go(r)  BY <1>2, Zero DEF let_go
<1> QED BY <1>1, <1>3, <1>4, SyncKept

(* A wait that is over has seen everybody tell.                            *)
LEMMA Seen ==
  ASSUME K0dPullAssumption, TypeInv, CountersInv, NEW ch \in Channel, used(ch),
         NEW r \in Rank, told(ch, r), all_reached(ch, r, level(ch, r)), NEW q \in Rank
  PROVE  replay[r] <= done(ch, q)
<1>1. flags[ch][r][q] >= level(ch, r)  BY DEF all_reached, reached
<1>2. flags[ch][r][q] + sent(ch, q, r) = level(ch, q)  BY DEF CountersInv, SentInv
<1>3. level(ch, r) - done(ch, r) = level(ch, q) - done(ch, q)
  BY DEF CountersInv, LevelInv
<1>4. done(ch, r) = replay[r]  BY DEF done, rounds
<1>5. /\ flags[ch][r][q] \in Nat /\ sent(ch, q, r) \in {0, 1} /\ replay[r] \in Nat
      /\ level(ch, q) \in Nat /\ level(ch, r) \in Nat
      /\ done(ch, q) \in Int /\ done(ch, r) \in Int
  BY Levels
<1> QED BY <1>1, <1>2, <1>3, <1>4, <1>5

(* A barrier passed has met everybody.                                     *)
LEMMA SyncBarrier ==
  ASSUME K0dPullAssumption, TypeInv, TypeInv', CountersInv, SyncInv, Growth,
         NEW r \in Rank, BarrierPass(r)
  PROVE  SyncInv'
<1>1. /\ kernel[r] \in {"b1", "b2"} /\ pc[r][0] = "wait"
      /\ all_reached(kernel[r], r, epoch[r][0])
      /\ goto(r, 0, "done") /\ UNCHANGED <<arm, kernel, replay>>
  BY DEF BarrierPass, barrier_leave, host
<1>2. PICK h \in {"b1", "b2"} : h = kernel[r]  BY <1>1
<1>3. h \in Channel /\ home(h) = h /\ members(h) = {0} /\ come(h, "wait") /\ used(h)
  <2>1. h \in Channel /\ home(h) = h /\ members(h) = {0} /\ come(h, "wait")
    BY DEF Channel, home, members, come
  <2>2. arm \in {"s", "b2f", "f"}  BY Constants DEF TypeInv, TypeOK
  <2>3. (h = "b1" => arm # "f") /\ (h = "b2" => arm = "s")
    BY <1>2 DEF TypeInv, PlaceInv
  <2> QED BY <2>1, <2>2, <2>3 DEF used
<1>4. told(h, r)
  <2>1. present(h, r) = members(h)  BY <1>1, <1>2, <1>3 DEF present
  <2> QED BY <2>1 DEF told
<1>5. epoch[r][0] = level(h, r)
  BY <1>1, <1>2 DEF CountersInv, EpochInv, EpochAt
<1>6. \A q \in Rank : replay[r] <= done(h, q)
  BY <1>1, <1>2, <1>3, <1>4, <1>5, Seen
<1>7. \A ch \in Meeting : used(ch) =>
           \/ passed(ch, r)' = passed(ch, r)
           \/ \A q \in Rank : passed(ch, r)' <= done(ch, q)
  <2> SUFFICES ASSUME NEW ch \in Meeting
               PROVE  \/ passed(ch, r)' = passed(ch, r)
                      \/ \A q \in Rank : passed(ch, r)' <= done(ch, q)
    OBVIOUS
  <2>1. CASE home(ch) = kernel[r]
    <3>1. ch = h  BY <2>1, <1>2 DEF Meeting, home
    <3>2. replay[r] \in Nat /\ \A q \in Rank : done(h, q) \in Int  BY <1>3, Levels
    <3>3. passed(ch, r)' <= replay[r] /\ passed(ch, r)' \in Int
      BY <1>1, <3>2 DEF passed
    <3> QED BY <1>6, <3>1, <3>2, <3>3
  <2>2. CASE home(ch) # kernel[r]
    <3>1. through(ch, r)' <=> through(ch, r)
      BY <2>2, <1>1 DEF through, later
    <3> QED BY <3>1, <1>1 DEF passed
  <2> QED BY <2>1, <2>2
<1>8. let_go(r)' /\ let_go(r)  BY <1>1 DEF let_go
<1>9. \A q \in Rank \ {r} : pc'[q] = pc[q]  BY <1>1 DEF goto, TypeInv, TypeOK
<1> QED BY <1>1, <1>7, <1>8, <1>9, SyncKept

(* So has the head of a combine that lets a CTA in.                        *)
LEMMA SyncEnter ==
  ASSUME K0dPullAssumption, TypeInv, TypeInv', CountersInv, SyncInv, Growth,
         NEW r \in Rank, NEW c \in Block, Enter(r, c)
  PROVE  SyncInv'
<1>1. /\ kernel[r] = "combine" /\ goto(r, c, "pull") /\ UNCHANGED <<arm, kernel, replay>>
      /\ \/ head = "none"
         \/ pc[r][c] = "wait" /\ all_reached(head, r, epoch[r][c])
  BY DEF Enter, enter, at, host
<1>2. \A ch \in Meeting : used(ch) =>
           \/ passed(ch, r)' = passed(ch, r)
           \/ \A q \in Rank : passed(ch, r)' <= done(ch, q)
  <2> SUFFICES ASSUME NEW ch \in Meeting, used(ch)
               PROVE  \/ passed(ch, r)' = passed(ch, r)
                      \/ \A q \in Rank : passed(ch, r)' <= done(ch, q)
    OBVIOUS
  <2>1. CASE home(ch) # "combine"
    <3>1. through(ch, r)' <=> through(ch, r)
      BY <2>1, <1>1 DEF through, later
    <3> QED BY <3>1, <1>1 DEF passed
  <2>2. CASE home(ch) = "combine"
    <3>1. ch = head /\ head # "none"  BY <2>2 DEF Meeting, home, used, head
    <3>2. pc[r][c] = "wait" /\ all_reached(ch, r, epoch[r][c]) /\ ch \in Channel
      BY <3>1, <1>1, Passed
    <3>3. epoch[r][c] = level(ch, r) + IF told(ch, r) THEN 0 ELSE 1
      BY <3>1, <3>2, <1>1 DEF CountersInv, EpochInv, EpochAt
    <3>4. told(ch, r)
      <4>1. flags[ch][r][r] >= epoch[r][c]  BY <3>2 DEF all_reached, reached
      <4>2. /\ flags[ch][r][r] + sent(ch, r, r) = level(ch, r)
            /\ flags[ch][r][r] \in Nat /\ sent(ch, r, r) \in {0, 1}
        BY <3>2, Levels DEF level
      <4> QED BY <4>1, <4>2, <3>3
    <3>5. level(ch, r) \in Nat /\ replay[r] \in Nat
      BY <3>2, Levels
    <3>6. epoch[r][c] = level(ch, r)  BY <3>3, <3>4, <3>5
    <3>7. \A q \in Rank : replay[r] <= done(ch, q)
      BY <3>2, <3>4, <3>6, Seen
    <3>8. passed(ch, r)' <= replay[r] /\ passed(ch, r)' \in Int
      BY <1>1, <3>5 DEF passed
    <3>9. \A q \in Rank : done(ch, q) \in Int  BY <3>2, Levels
    <3> QED BY <3>5, <3>7, <3>8, <3>9
  <2> QED BY <2>1, <2>2
<1>3. let_go(r)' /\ let_go(r)  BY <1>1 DEF let_go
<1>4. \A q \in Rank \ {r} : pc'[q] = pc[q]  BY <1>1 DEF goto, TypeInv, TypeOK
<1> QED BY <1>1, <1>2, <1>3, <1>4, SyncKept

(* Who goes on to quantise has seen every combine of the replay before.    *)
LEMMA SyncCombined ==
  ASSUME K0dPullAssumption, TypeInv, TypeInv', CountersInv, SyncInv, Growth,
         NEW r \in Rank, Combined(r)
  PROVE  SyncInv'
<1>1. /\ kernel[r] = "fused" /\ pc[r][0] = "wait" /\ combined(r)
      /\ goto(r, 0, "quant") /\ UNCHANGED <<arm, kernel, replay>>
  BY DEF Combined, go_quantise, at, host
<1>2. \A ch \in Meeting : passed(ch, r)' = passed(ch, r)
  <2> SUFFICES ASSUME NEW ch \in Meeting PROVE passed(ch, r)' = passed(ch, r)
    OBVIOUS
  <2>1. home(ch) # "fused"  BY DEF Meeting, home
  <2>2. through(ch, r)' <=> through(ch, r)
    BY <2>1, <1>1 DEF through, later
  <2> QED BY <2>2, <1>1 DEF passed
<1>3. ASSUME arm = "f", NEW q \in Rank PROVE replay'[r] - 1 <= done("comb", q)
  <2>1. /\ "quant" \in Channel /\ "comb" \in Channel /\ used("quant") /\ used("comb")
        /\ home("quant") = "fused" /\ members("quant") = {0} /\ width("quant") = 1
        /\ ~come("quant", "wait")
    BY <1>3 DEF Channel, used, home, members, width, come
  <2>2. ~told("quant", r)
    <3>1. present("quant", r) = {}  BY <1>1, <2>1 DEF present
    <3>2. place("fused") = place(home("quant")) /\ place("fused") \in Nat
      BY <2>1 DEF place
    <3> QED BY <3>1, <3>2, <2>1, <1>1 DEF told, later
  <2>3. present("quant", r) = {} /\ Cardinality({}) = 0
    BY <1>1, <2>1, FS_EmptySet DEF present
  <2>4. count["quant"][r] = level("quant", r) * 1 + 0
    BY <2>1, <2>2, <2>3 DEF CountersInv, CountInv, partial
  <2>5. flags["comb"][r][q] >= count["quant"][r]
    BY <1>1 DEF combined, all_reached, reached, epoch_current
  <2>6. flags["comb"][r][q] + sent("comb", q, r) = level("comb", q)
    BY <2>1 DEF CountersInv, SentInv
  <2>7. level("comb", r) - done("comb", r) = level("comb", q) - done("comb", q)
    BY <2>1 DEF CountersInv, LevelInv
  <2>8. level("quant", r) - done("quant", r) = level("comb", r) - done("comb", r)
    BY DEF CountersInv, AgreeInv
  <2>9. done("quant", r) = replay[r] - 1  BY <2>1, <2>2 DEF done, rounds
  <2>10. /\ flags["comb"][r][q] \in Nat /\ sent("comb", q, r) \in {0, 1}
         /\ replay[r] \in Nat /\ level("comb", q) \in Nat /\ level("comb", r) \in Nat
         /\ level("quant", r) \in Nat
         /\ done("comb", q) \in Int /\ done("comb", r) \in Int
    BY <2>1, Levels
  <2>11. replay'[r] = replay[r]  BY <1>1
  <2> QED BY <2>4, <2>5, <2>6, <2>7, <2>8, <2>9, <2>10, <2>11
<1>4. \A q \in Rank \ {r} : pc'[q] = pc[q]  BY <1>1 DEF goto, TypeInv, TypeOK
<1> QED BY <1>1, <1>2, <1>3, <1>4, SyncKept

(* From launch to launch a rank passes what it tells.                      *)
LEMMA SyncStream ==
  ASSUME K0dPullAssumption, TypeInv, TypeInv', CountersInv, SyncInv, Growth,
         NEW r \in Rank, Launch(r) \/ KernelEnd(r) \/ Gemm(r),
         \A ch \in Channel : used(ch) => rounds(ch, r)' = rounds(ch, r)
  PROVE  SyncInv'
<1>1. \A q \in Rank \ {r} : kernel'[q] = kernel[q] /\ pc'[q] = pc[q] /\ replay'[q] = replay[q]
  BY DEF Launch, KernelEnd, Gemm, begin, TypeInv, TypeOK
<1>2. arm' = arm  BY DEF Launch, KernelEnd, Gemm, host
<1>3. \A c \in Block : pc[r][c] = "done"
  <2>1. CASE KernelEnd(r)  BY <2>1 DEF KernelEnd
  <2>2. CASE Launch(r) \/ Gemm(r)
    <3>1. places(kernel[r]) = {"done"}  BY <2>2 DEF Launch, Gemm, places
    <3> QED BY <3>1 DEF TypeInv, PlaceInv
  <2> QED BY <2>1, <2>2
<1>4. PICK k \in {"fused", "b1", "gather", "gemm", "b2", "combine", "idle"} :
         /\ kernel' = [kernel EXCEPT ![r] = k]
         /\ pc' = [pc EXCEPT ![r] = [c \in Block |-> IF c \in ctas(k) THEN "start"
                                                     ELSE "done"]]
         /\ \/ k = "fused"
            \/ replay' = replay
  <2>1. CASE Launch(r)  BY <2>1 DEF Launch, begin
  <2>2. CASE KernelEnd(r)
    <3>1. /\ kernel' = [kernel EXCEPT ![r] = successor(kernel[r])]
          /\ pc' = [pc EXCEPT ![r] =
                [c \in Block |-> IF c \in ctas(successor(kernel[r])) THEN "start"
                                 ELSE "done"]]
          /\ kernel[r] \notin {"idle", "gemm"} /\ replay' = replay
      BY <2>2 DEF KernelEnd, begin
    <3>2. successor(kernel[r]) \in {"b1", "gather", "gemm", "b2", "combine", "idle"}
      BY <3>1 DEF successor, TypeInv, TypeOK
    <3> QED BY <3>1, <3>2
  <2>3. CASE Gemm(r)
    <3>1. successor("gemm") \in {"b2", "combine"}  BY DEF successor
    <3> QED BY <2>3, <3>1 DEF Gemm
  <2> QED BY <2>1, <2>2, <2>3
<1>5. \A ch \in Channel : through(ch, r) <=> told(ch, r)  BY <1>3, EndOf
<1>6. \A ch \in Channel : through(ch, r)' <=> told(ch, r)'
  <2>1. \A ch \in Channel : /\ told(ch, r)' <=> place(k) > place(home(ch))
                            /\ through(ch, r)' <=> place(k) > place(home(ch))
    BY <1>4, StartOf
  <2> QED BY <2>1
<1>7. \A ch \in Meeting : used(ch) => passed(ch, r)' = passed(ch, r)
  <2> SUFFICES ASSUME NEW ch \in Meeting, used(ch)
               PROVE  passed(ch, r)' = passed(ch, r)
    OBVIOUS
  <2>1. ch \in Channel  BY Passed
  <2>2. passed(ch, r) = rounds(ch, r)  BY <2>1, <1>5 DEF passed, rounds
  <2>3. passed(ch, r)' = rounds(ch, r)'  BY <2>1, <1>6 DEF passed, rounds
  <2> QED BY <2>1, <2>2, <2>3
<1>8. let_go(r)' => let_go(r) /\ replay'[r] = replay[r]
  <2>1. let_go(r)  BY <1>3, Zero DEF let_go
  <2>2. kernel'[r] = k /\ \A c \in Block : pc'[r][c] = IF c \in ctas(k) THEN "start"
                                                       ELSE "done"
    BY <1>4 DEF TypeInv, TypeOK
  <2>3. CASE k = "fused"
    <3>1. 0 \in ctas("fused")  BY DEF ctas
    <3> QED BY <2>2, <2>3, <3>1, Zero DEF let_go
  <2>4. CASE k # "fused"  BY <2>1, <2>4, <1>4
  <2> QED BY <2>3, <2>4
<1> QED BY <1>1, <1>2, <1>7, <1>8, SyncKept

(* When the host has joined the ranks they are all at the same replay.     *)
LEMMA SyncHost ==
  ASSUME K0dPullAssumption, TypeInv, Host
  PROVE  SyncInv'
<1>1. /\ \A r \in Rank : kernel'[r] = "idle" /\ replay'[r] = replay[0]
      /\ replay[0] \in Nat
  BY Constants, Zero DEF Host, stream, TypeInv, TypeOK
<1>2. \A ch \in Channel : \A r \in Rank : rounds(ch, r)' = replay[0]
  <2> SUFFICES ASSUME NEW ch \in Channel, NEW r \in Rank
               PROVE  rounds(ch, r)' = replay[0]
    OBVIOUS
  <2>1. place("idle") > place(home(ch))  BY DEF place, home, Channel
  <2>2. told(ch, r)'  BY <2>1, <1>1 DEF told, later
  <2> QED BY <2>2, <1>1 DEF rounds
<1>3. \A ch \in Meeting : used(ch)' =>
         \A r, q \in Rank : passed(ch, r)' <= done(ch, q)'
  <2> SUFFICES ASSUME NEW ch \in Meeting, used(ch)', NEW r \in Rank, NEW q \in Rank
               PROVE  passed(ch, r)' <= done(ch, q)'
    OBVIOUS
  <2>1. ch \in Channel  BY DEF Meeting, Channel
  <2>2. passed(ch, r)' <= replay[0]  BY <1>1 DEF passed
  <2> QED BY <1>2, <2>1, <2>2 DEF done
<1>4. ASSUME arm' = "f", NEW r \in Rank, NEW q \in Rank
      PROVE  replay'[r] - 1 <= done("comb", q)'
  <2>1. "comb" \in Channel /\ used("comb")'  BY <1>4 DEF Channel, used
  <2> QED BY <1>1, <1>2, <2>1 DEF done
<1> QED BY <1>3, <1>4 DEF SyncInv

-----------------------------------------------------------------------------
(* What the rows hold.  The plan is of this replay's routes ...            *)
LEMMA PlanStep ==
  ASSUME K0dPullAssumption, TypeInv, PlanInv, [Next]_vars
  PROVE  PlanInv'
<1>1. ASSUME UNCHANGED <<all_ids, pull_src, my_ids>>,
             \A q \in Rank : planned(q)' => planned(q)
      PROVE  PlanInv'
  BY <1>1 DEF PlanInv
<1>2. ASSUME NEW r \in Rank, NEW c \in Block, pc[r][c] # "start" \/ kernel[r] # "fused",
             UNCHANGED <<all_ids, pull_src, my_ids, kernel>>,
             \A q \in Rank : \A b \in Block : q # r \/ b # c => pc'[q][b] = pc[q][b]
      PROVE  PlanInv'
  <2>1. \A q \in Rank : planned(q)' => planned(q)
    BY <1>2, Zero DEF planned, at
  <2> QED BY <2>1, <1>1, <1>2
<1>3. ASSUME NEW r \in Rank, NEW c \in Block, NEW l, goto(r, c, l)
      PROVE  \A q \in Rank : \A b \in Block : q # r \/ b # c => pc'[q][b] = pc[q][b]
  BY <1>3 DEF goto, TypeInv, TypeOK
<1>4. ASSUME NEW r \in Rank, Work(r) \/ TimeOut(r) PROVE PlanInv'
  <2>1. CASE Plan(r)
    <3> SUFFICES ASSUME NEW q \in Rank, planned(q)'
                 PROVE  /\ all_ids'[q] = my_ids'
                        /\ pull_src'[q] = [tau \in Token |->
                             {<<p, tof(my_ids', p, <<q, tau>>)>> : p \in my_ids'[q][tau]}]
      BY DEF PlanInv
    <3>1. my_ids' = my_ids /\ kernel' = kernel  BY <2>1 DEF Plan, host
    <3>2. CASE q = r
      BY <2>1, <3>1, <3>2 DEF Plan, TypeInv, TypeOK
    <3>3. CASE q # r
      <4>1. pc'[q] = pc[q] /\ all_ids'[q] = all_ids[q] /\ pull_src'[q] = pull_src[q]
        BY <2>1, <3>3 DEF Plan, goto, TypeInv, TypeOK
      <4>2. planned(q)  BY <4>1, <3>1 DEF planned, at
      <4> QED BY <4>1, <4>2, <3>1 DEF PlanInv
    <3> QED BY <3>2, <3>3
  <2>2. CASE Combined(r) \/ CombinedTimeOut(r)
    <3>1. PICK bits : go_quantise(r, bits)  BY <2>2 DEF Combined, CombinedTimeOut
    <3> QED BY <2>2, <3>1, <1>2, <1>3, Zero
        DEF Combined, CombinedTimeOut, go_quantise, at, host, data
  <2>3. CASE Quantise(r)
    BY <2>3, <1>2, <1>3, Zero DEF Quantise, at, host
  <2>4. CASE BarrierArrive(r)
    BY <2>4, <1>2, <1>3, Zero DEF BarrierArrive, host, data
  <2>5. CASE BarrierPass(r) \/ BarrierTimeOut(r)
    <3>1. PICK bits : barrier_leave(r, bits)  BY <2>5 DEF BarrierPass, BarrierTimeOut
    <3> QED BY <2>5, <3>1, <1>2, <1>3, Zero
        DEF BarrierPass, BarrierTimeOut, barrier_leave, host, data
  <2>6. CASE Launch(r)
    <3>1. /\ UNCHANGED <<all_ids, pull_src, my_ids>> /\ begin(r, "fused")
      BY <2>6 DEF Launch, host
    <3>2. 0 \in ctas("fused")  BY DEF ctas
    <3>3. \A q \in Rank : planned(q)' => planned(q)
      BY <3>1, <3>2, Zero DEF begin, planned, at, TypeInv, TypeOK
    <3> QED BY <3>1, <3>3, <1>1
  <2>7. CASE KernelEnd(r) \/ Gemm(r)
    <3>1. UNCHANGED <<all_ids, pull_src, my_ids>>
      BY <2>7 DEF KernelEnd, Gemm, host
    <3>2. planned(r)  BY <2>7, Zero DEF KernelEnd, Gemm, planned, at
    <3>3. \A q \in Rank : q # r => kernel'[q] = kernel[q] /\ pc'[q] = pc[q]
      BY <2>7 DEF KernelEnd, Gemm, begin, TypeInv, TypeOK
    <3>4. \A q \in Rank : planned(q)' => planned(q)
      BY <3>2, <3>3 DEF planned, at
    <3> QED BY <3>1, <3>4, <1>1
  <2>8. ASSUME NEW t \in Row, FetchTimeOut(r, t) PROVE PlanInv'
    BY <2>8, <1>1 DEF FetchTimeOut, fetch, stream, host, planned, at
  <2>9. ASSUME NEW c \in Block, EnterTimeOut(r, c) PROVE PlanInv'
    BY <2>9, <1>2, <1>3 DEF EnterTimeOut, enter, at, host, data
  <2> QED BY <1>4, <2>1, <2>2, <2>3, <2>4, <2>5, <2>6, <2>7, <2>8, <2>9 DEF Work, TimeOut
<1>5. ASSUME NEW r \in Rank, NEW t \in Row, RowWork(r, t) PROVE PlanInv'
  BY <1>5, <1>1 DEF RowWork, ClearRow, FetchRow, fetch, stream, host, planned, at
<1>6. ASSUME NEW r \in Rank, NEW c \in Block, CombineWork(r, c) PROVE PlanInv'
  <2>1. CASE Arrive(r, c)  BY <2>1, <1>2, <1>3 DEF Arrive, at, host, data
  <2>2. CASE Enter(r, c)  BY <2>2, <1>2, <1>3 DEF Enter, enter, at, host, data
  <2>3. CASE Pull(r, c)
    <3>1. \A q \in Rank : \A b \in Block : q # r \/ b # c => pc'[q][b] = pc[q][b]
      BY <2>3, <1>3 DEF Pull
    <3> QED BY <2>3, <3>1, <1>2 DEF Pull, at, host
  <2>4. CASE SignalDone(r, c)  BY <2>4, <1>2, <1>3 DEF SignalDone, at, host, data
  <2> QED BY <1>6, <2>1, <2>2, <2>3, <2>4 DEF CombineWork
<1>7. ASSUME NEW m \in posted, Deliver(m) PROVE PlanInv'
  BY <1>7, <1>1 DEF Deliver, stream, host, data, planned, at
<1>8. CASE Host
  <2>1. \A q \in Rank : ~planned(q)'  BY <1>8 DEF Host, stream, planned
  <2> QED BY <2>1 DEF PlanInv
<1>9. CASE UNCHANGED vars
  BY <1>9, <1>1 DEF vars, stream, host, data, planned, at
<1> QED BY <1>4, <1>5, <1>6, <1>7, <1>8, <1>9 DEF Next

(* ... and the rows of a rank are those of its latest quantisation.        *)
LEMMA SourceStep ==
  ASSUME K0dPullAssumption, TypeInv, SourceInv, [Next]_vars
  PROVE  SourceInv'
<1>1. ASSUME a_src' = a_src, \A q \in Rank : version(q)' = version(q)
      PROVE  SourceInv'
  BY <1>1 DEF SourceInv
<1>2. ASSUME NEW r \in Rank, NEW c \in Block, NEW l, goto(r, c, l),
             UNCHANGED <<kernel, replay>>,
             kernel[r] # "fused" \/ (pc[r][c] # "done" /\ l # "done")
      PROVE  \A q \in Rank : version(q)' = version(q)
  <2> SUFFICES ASSUME NEW q \in Rank PROVE version(q)' = version(q)
    OBVIOUS
  <2>1. CASE q # r  BY <1>2, <2>1 DEF version, goto, TypeInv, TypeOK
  <2>2. CASE q = r /\ kernel[r] # "fused"  BY <1>2, <2>2 DEF version
  <2>3. CASE q = r /\ pc[r][c] # "done" /\ l # "done"
    <3>1. pc'[r][0] # "done" <=> pc[r][0] # "done"
      BY <1>2, <2>3, Zero DEF goto, TypeInv, TypeOK
    <3> QED BY <1>2, <2>3, <3>1 DEF version
  <2> QED BY <1>2, <2>1, <2>2, <2>3
<1>3. ASSUME NEW r \in Rank, Work(r) \/ TimeOut(r) PROVE SourceInv'
  <2>1. CASE Plan(r)
    <3> DEFINE l == IF arm = "f" THEN "wait" ELSE "quant"
    <3>1. /\ goto(r, 0, l) /\ a_src' = a_src /\ UNCHANGED <<kernel, replay>>
          /\ pc[r][0] # "done" /\ l # "done"
      BY <2>1 DEF Plan, at
    <3> HIDE DEF l
    <3> QED BY <3>1, <1>1, <1>2, Zero
  <2>2. CASE Combined(r) \/ CombinedTimeOut(r)
    <3>1. PICK bits : go_quantise(r, bits)  BY <2>2 DEF Combined, CombinedTimeOut
    <3> QED BY <2>2, <3>1, <1>1, <1>2, Zero
        DEF Combined, CombinedTimeOut, go_quantise, at, data
  <2>3. CASE Quantise(r)
    <3> SUFFICES ASSUME NEW q \in Rank, NEW tau \in Token
                 PROVE  a_src'[q][tau] = version(q)'
      BY DEF SourceInv
    <3>1. CASE q = r
      <4>1. a_src'[r][tau] = replay[r] /\ pc'[r][0] = "done" /\ replay' = replay
        BY <2>3, Zero DEF Quantise, goto, TypeInv, TypeOK
      <4> QED BY <4>1, <3>1 DEF version
    <3>2. CASE q # r
      <4>1. a_src'[q] = a_src[q] /\ version(q)' = version(q)
        BY <2>3, <3>2 DEF Quantise, goto, version, TypeInv, TypeOK
      <4> QED BY <4>1 DEF SourceInv
    <3> QED BY <3>1, <3>2
  <2>4. CASE BarrierArrive(r)
    BY <2>4, <1>1, <1>2, Zero DEF BarrierArrive, data
  <2>5. CASE BarrierPass(r) \/ BarrierTimeOut(r)
    <3>1. PICK bits : barrier_leave(r, bits)  BY <2>5 DEF BarrierPass, BarrierTimeOut
    <3> QED BY <2>5, <3>1, <1>1, <1>2, Zero
        DEF BarrierPass, BarrierTimeOut, barrier_leave, data
  <2>6. CASE Launch(r)
    <3>1. a_src' = a_src /\ begin(r, "fused") /\ replay' = [replay EXCEPT ![r] = @ + 1]
          /\ kernel[r] = "idle"
      BY <2>6 DEF Launch
    <3>2. 0 \in ctas("fused")  BY DEF ctas
    <3>3. \A q \in Rank : version(q)' = version(q)
      <4> SUFFICES ASSUME NEW q \in Rank PROVE version(q)' = version(q)
        OBVIOUS
      <4>1. CASE q = r
        <5>1. /\ kernel'[r] = "fused" /\ pc'[r][0] = "start" /\ replay'[r] = replay[r] + 1
              /\ replay[r] \in Nat
          BY <3>1, <3>2, Zero, Constants DEF begin, TypeInv, TypeOK
        <5> QED BY <4>1, <5>1, <3>1 DEF version
      <4>2. CASE q # r  BY <4>2, <3>1 DEF begin, version, TypeInv, TypeOK
      <4> QED BY <4>1, <4>2
    <3> QED BY <3>1, <3>3, <1>1
  <2>7. CASE KernelEnd(r) \/ Gemm(r)
    <3>1. a_src' = a_src /\ replay' = replay  BY <2>7 DEF KernelEnd, Gemm
    <3>2. \A q \in Rank : q # r => kernel'[q] = kernel[q] /\ pc'[q] = pc[q]
      BY <2>7 DEF KernelEnd, Gemm, begin, TypeInv, TypeOK
    <3>3. kernel'[r] # "fused"
      <4>1. kernel'[r] = successor(kernel[r]) /\ kernel[r] # "idle"
        BY <2>7 DEF KernelEnd, Gemm, begin, TypeInv, TypeOK
      <4> QED BY <4>1 DEF successor, TypeInv, TypeOK
    <3>4. kernel[r] = "fused" => pc[r][0] = "done"
      BY <2>7, Zero DEF KernelEnd, Gemm
    <3>5. \A q \in Rank : version(q)' = version(q)
      BY <3>1, <3>2, <3>3, <3>4 DEF version
    <3> QED BY <3>1, <3>5, <1>1
  <2>8. ASSUME NEW t \in Row, FetchTimeOut(r, t) PROVE SourceInv'
    BY <2>8, <1>1 DEF FetchTimeOut, fetch, stream, version
  <2>9. ASSUME NEW c \in Block, EnterTimeOut(r, c) PROVE SourceInv'
    BY <2>9, <1>1, <1>2 DEF EnterTimeOut, enter, at, data
  <2> QED BY <1>3, <2>1, <2>2, <2>3, <2>4, <2>5, <2>6, <2>7, <2>8, <2>9 DEF Work, TimeOut
<1>4. ASSUME NEW r \in Rank, NEW t \in Row, RowWork(r, t) PROVE SourceInv'
  BY <1>4, <1>1 DEF RowWork, ClearRow, FetchRow, fetch, stream, version
<1>5. ASSUME NEW r \in Rank, NEW c \in Block, CombineWork(r, c) PROVE SourceInv'
  <2>1. kernel[r] = "combine" /\ UNCHANGED <<a_src, kernel, replay>>
    BY <1>5 DEF CombineWork, Arrive, Enter, enter, Pull, SignalDone, at, data
  <2>2. \A q \in Rank \ {r} : pc'[q] = pc[q]
    BY <1>5 DEF CombineWork, Arrive, Enter, enter, Pull, SignalDone, goto, TypeInv, TypeOK
  <2>3. \A q \in Rank : version(q)' = version(q)
    BY <2>1, <2>2 DEF version
  <2> QED BY <2>1, <2>3, <1>1
<1>6. ASSUME NEW m \in posted, Deliver(m) PROVE SourceInv'
  BY <1>6, <1>1 DEF Deliver, stream, data, version
<1>7. CASE Host  BY <1>7, <1>1 DEF Host, stream, version
<1>8. CASE UNCHANGED vars  BY <1>8, <1>1 DEF vars, stream, data, version
<1> QED BY <1>3, <1>4, <1>5, <1>6, <1>7, <1>8 DEF Next

(* Rows that nobody touches stay what they are.                            *)
LEMMA RowsKept ==
  ASSUME RowsInv,
         UNCHANGED <<my_ids, kernel, replay, rows, a_dst, part, out>>,
         \A q \in Rank : \A b \in Block :
           kernel[q] = "combine" /\ pc'[q][b] \in {"signal", "done"} =>
             pc[q][b] \in {"signal", "done"}
  PROVE  RowsInv'
<1>1. GatherInv'  BY DEF RowsInv, GatherInv, gathered, cleared, own
<1>2. PartInv'  BY DEF RowsInv, PartInv, holds_sums, summed, own
<1>3. OutInv'  BY DEF RowsInv, OutInv, at, expected
<1> QED BY <1>1, <1>2, <1>3 DEF RowsInv

(* A live row is that of one token.                                        *)
LEMMA Live ==
  ASSUME K0dPullAssumption, TypeInv, PlanInv, NEW r \in Rank, planned(r),
         NEW g \in own(my_ids, r)
  PROVE  /\ tof(my_ids, r, g) \in Row /\ tof(my_ids, r, g) < T_loc(r)
         /\ gath(r, tof(my_ids, r, g)) = g
         /\ g[1] \in Rank /\ g[2] \in Token
<1>1. my_ids \in Inputs /\ all_ids[r] = my_ids  BY DEF TypeInv, TypeOK, PlanInv
<1>2. /\ tof(my_ids, r, g) \in Row
      /\ tof(my_ids, r, g) < Cardinality(own(my_ids, r))
      /\ \A h \in own(my_ids, r) : tof(my_ids, r, h) = tof(my_ids, r, g) => h = g
  BY <1>1, Places
<1>3. gath(r, tof(my_ids, r, g)) = g  BY <1>1, <1>2 DEF gath
<1>4. g[1] \in Rank /\ g[2] \in Token  BY DEF own, Gtok
<1> QED BY <1>1, <1>2, <1>3, <1>4 DEF T_loc

(* The channel by which the ranks of an arm meet before they pull.         *)
LEMMA Gate ==
  ASSUME K0dPullAssumption, TypeInv
  PROVE  /\ arm \in {"s", "b2f", "f"}
         /\ arm # "f" => "b1" \in Meeting /\ used("b1") /\ home("b1") = "b1"
         /\ \E ch \in Meeting : /\ used(ch)
                                /\ home(ch) = IF arm = "s" THEN "b2" ELSE "combine"
<1>1. arm \in {"s", "b2f", "f"}  BY Constants DEF TypeInv, TypeOK
<1>2. arm # "f" => "b1" \in Meeting /\ used("b1") /\ home("b1") = "b1"
  BY <1>1 DEF Meeting, used, home
<1>3. CASE arm = "s"  BY <1>1, <1>2, <1>3 DEF Meeting, used, home
<1>4. CASE arm = "b2f"  BY <1>1, <1>2, <1>4 DEF Meeting, used, home
<1>5. CASE arm = "f"  BY <1>1, <1>2, <1>5 DEF Meeting, used, home
<1> QED BY <1>1, <1>3, <1>4, <1>5

(* Until a rank reaches the second meeting nobody is ahead of it.          *)
LEMMA Early ==
  ASSUME K0dPullAssumption, TypeInv, SyncInv, NEW r \in Rank, NEW q \in Rank,
         kernel[r] \in {"fused", "b1", "gather", "gemm"}
  PROVE  replay[q] <= replay[r]
<1>1. PICK ch \in Meeting : used(ch) /\ home(ch) \in {"b2", "combine"}
  BY Gate
<1>2. ~told(ch, r)
  <2>1. kernel[r] # home(ch) /\ ~(place(kernel[r]) > place(home(ch)))
    BY <1>1 DEF place
  <2>2. present(ch, r) = {} /\ members(ch) # {}
    BY <2>1, Zero DEF present, members
  <2> QED BY <2>1, <2>2 DEF told, later
<1> QED BY <1>1, <1>2, Ahead

(* What is gathered is of this replay: its source has quantised in it, and *)
(* has not gone on to the next.                                            *)
LEMMA Fresh ==
  ASSUME K0dPullAssumption, TypeInv, CountersInv, SyncInv, NEW r \in Rank, NEW q \in Rank,
         kernel[r] = "gather", quantised(r, q)
  PROVE  version(q) = replay[r]
<1>1. replay[q] \in Nat /\ replay[r] \in Nat  BY Constants DEF TypeInv, TypeOK
<1>2. replay[q] <= replay[r]  BY Early
<1>3. \A x \in {"quant", "b1"} : \A p \in Rank :
         told(x, p) => ~(kernel[p] = "fused" /\ pc[p][0] # "done")
  <2> SUFFICES ASSUME NEW x \in {"quant", "b1"}, NEW p \in Rank, told(x, p),
                      kernel[p] = "fused", pc[p][0] # "done"
               PROVE  FALSE
    OBVIOUS
  <2>1. present(x, p) = {} /\ members(x) # {}
    BY DEF present, members, home, come
  <2>2. ~later(x, p)  BY DEF later, place, home
  <2> QED BY <2>1, <2>2 DEF told
<1>4. told("quant", r)
  <2>1. later("quant", r)  BY DEF later, place, home
  <2> QED BY <2>1 DEF told
<1>5. ASSUME NEW x \in {"quant", "b1"}, used(x), replay[r] <= done(x, q)
      PROVE  version(q) = replay[r]
  <2>1. done(x, q) = IF told(x, q) THEN replay[q] ELSE replay[q] - 1
    BY <1>5 DEF done, rounds
  <2>2. told(x, q) /\ replay[q] = replay[r]  BY <1>1, <1>2, <1>5, <2>1
  <2> QED BY <2>2, <1>3 DEF version
<1>6. CASE arm = "f"
  <2>1. "quant" \in Channel /\ used("quant") /\ width("quant") = 1
    BY <1>6 DEF Channel, used, width
  <2>2. count["quant"][r] = level("quant", r) * 1 + 0
    BY <2>1, <1>4 DEF CountersInv, CountInv, partial
  <2>3. flags["quant"][r][q] >= count["quant"][r]
    BY <1>6 DEF quantised, reached, epoch_current
  <2>4. flags["quant"][r][q] + sent("quant", q, r) = level("quant", q)
    BY <2>1 DEF CountersInv, SentInv
  <2>5. level("quant", r) - done("quant", r) = level("quant", q) - done("quant", q)
    BY <2>1 DEF CountersInv, LevelInv
  <2>6. done("quant", r) = replay[r]  BY <2>1, <1>4 DEF done, rounds
  <2>7. /\ flags["quant"][r][q] \in Nat /\ sent("quant", q, r) \in {0, 1}
        /\ level("quant", q) \in Nat /\ level("quant", r) \in Nat
        /\ done("quant", q) \in Int /\ done("quant", r) \in Int
    BY <2>1, Levels
  <2>8. replay[r] <= done("quant", q)
    BY <2>2, <2>3, <2>4, <2>5, <2>6, <2>7, <1>1
  <2> QED BY <2>1, <2>8, <1>5
<1>7. CASE arm # "f"
  <2>1. "b1" \in Meeting /\ used("b1") /\ home("b1") = "b1"  BY <1>7, Gate
  <2>2. through("b1", r)  BY <2>1 DEF through, later, place
  <2>3. replay[r] <= done("b1", q)
    BY <2>1, <2>2 DEF SyncInv, passed
  <2> QED BY <2>1, <2>3, <1>5
<1> QED BY <1>6, <1>7

(* When a CTA of a combine pulls, every rank has the sums of its replay.   *)
LEMMA Summed ==
  ASSUME K0dPullAssumption, TypeInv, SyncInv, NEW r \in Rank, NEW c \in Block,
         at(r, c, "combine", "pull"), NEW p \in Rank
  PROVE  holds_sums(p) /\ summed(p) = replay[r]
<1>1. /\ kernel[r] = "combine" /\ pc[r][c] = "pull"
      /\ replay[r] \in Nat /\ replay[p] \in Nat
      /\ kernel[p] \in {"idle", "fused", "b1", "gather", "gemm", "b2", "combine"}
  BY Constants DEF at, TypeInv, TypeOK
<1>2. PICK ch \in Meeting : /\ used(ch)
                            /\ home(ch) = IF arm = "s" THEN "b2" ELSE "combine"
  BY Gate
<1>3. through(ch, r)
  <2>1. CASE home(ch) = "b2"  BY <1>1, <2>1 DEF through, later, place
  <2>2. CASE home(ch) = "combine"
    <3>1. members(ch) = Block  BY <1>2, <2>2 DEF Meeting, home, members
    <3> QED BY <1>1, <2>2, <3>1 DEF through
  <2> QED BY <1>2, <2>1, <2>2
<1>4. replay[r] < replay[p] \/ (replay[r] = replay[p] /\ told(ch, p))
  BY <1>2, <1>3, Together
<1>5. CASE told(ch, p) /\ replay[r] = replay[p]
  <2>1. kernel[p] \in {"idle", "b2", "combine"}
    <3>1. members(ch) # {}  BY Zero DEF members
    <3>2. kernel[p] = home(ch) \/ place(kernel[p]) > place(home(ch))
      BY <3>1, <1>5 DEF told, later, present
    <3> QED BY <3>2, <1>1, <1>2 DEF place
  <2> QED BY <2>1, <1>5 DEF holds_sums, summed
<1>6. CASE replay[r] < replay[p]
  <2>1. kernel[p] \in {"fused", "b1"} /\ replay[p] <= replay[r] + 1
    <3>1. CASE arm # "f"
      <4>1. "b1" \in Meeting /\ used("b1") /\ home("b1") = "b1"  BY <3>1, Gate
      <4>2. ~through("b1", p) /\ replay[p] <= replay[r] + 1
        <5>1. passed("b1", p) <= done("b1", r) /\ replay[p] - 1 <= passed("b1", p)
              /\ passed("b1", p) \in Int /\ done("b1", r) \in Int
          BY <4>1, Passed DEF SyncInv
        <5>2. done("b1", r) <= replay[r]  BY <4>1, <1>1 DEF done, rounds
        <5>3. through("b1", p) => passed("b1", p) = replay[p]  BY DEF passed
        <5> QED BY <5>1, <5>2, <5>3, <1>1, <1>6
      <4>3. ~(place(kernel[p]) > place("b1"))  BY <4>1, <4>2 DEF through, later
      <4> QED BY <4>2, <4>3, <1>1 DEF place
    <3>2. CASE arm = "f"
      <4>1. ~told("comb", r)
        <5>1. /\ home("comb") = "combine" /\ members("comb") = Block
              /\ ~come("comb", "pull")
          BY DEF home, members, come
        <5>2. c \notin present("comb", r) /\ present("comb", r) # members("comb")
          BY <1>1, <5>1 DEF present
        <5>3. ~(place("combine") > place("combine"))  BY DEF place
        <5> QED BY <5>1, <5>2, <5>3, <1>1 DEF told, later
      <4>2. done("comb", r) = replay[r] - 1  BY <3>2, <4>1 DEF done, rounds, used
      <4>3. ~let_go(p)
        <5>1. let_go(p) => replay[p] - 1 <= done("comb", r)
          BY <3>2 DEF SyncInv
        <5> QED BY <5>1, <4>2, <1>1, <1>6
      <4>4. kernel[p] = "fused"  BY <4>3 DEF let_go
      <4>5. passed(ch, p) <= done(ch, r) /\ replay[p] - 1 <= passed(ch, p)
            /\ passed(ch, p) \in Int /\ done(ch, r) \in Int
        BY <1>2, Passed DEF SyncInv
      <4>6. done(ch, r) <= replay[r]  BY <1>1, <1>2 DEF done, rounds
      <4> QED BY <4>4, <4>5, <4>6, <1>1
    <3> QED BY <3>1, <3>2
  <2> QED BY <2>1, <1>1, <1>6 DEF holds_sums, summed
<1> QED BY <1>4, <1>5, <1>6

(* A row is cleared and fetched only while its rank gathers.               *)
LEMMA RowsGather ==
  ASSUME K0dPullAssumption, TypeInv, CountersInv, PlanInv, SourceInv, SumsInv,
         NEW r \in Rank, NEW t \in Row, ClearRow(r, t) \/ FetchRow(r, t)
  PROVE  RowsInv'
<1>1. /\ kernel[r] = "gather" /\ UNCHANGED <<my_ids, kernel, pc, replay, out>>
      /\ \A q \in Rank : q # r => /\ rows'[q] = rows[q] /\ a_dst'[q] = a_dst[q]
                                  /\ part'[q] = part[q]
  BY DEF ClearRow, FetchRow, fetch, stream, host, TypeInv, TypeOK, ShapeInv
<1>2. OutInv'  BY <1>1 DEF SumsInv, RowsInv, OutInv, at, expected
<1>3. PartInv'
  <2>1. ~holds_sums(r) /\ ~holds_sums(r)'  BY <1>1 DEF holds_sums
  <2> SUFFICES ASSUME NEW p \in Rank, NEW q \in Rank, NEW g \in own(my_ids, p),
                      holds_sums(p)', kernel[q] # "idle", replay[q] = summed(p)'
               PROVE  part'[p][tof(my_ids, p, g)] = {<<p, g[1], g[2], replay[q]>>}
    BY <1>1 DEF PartInv
  <2>2. p # r  BY <2>1
  <2>3. holds_sums(p) /\ replay[q] = summed(p) /\ part'[p] = part[p]
    BY <2>2, <1>1 DEF holds_sums, summed
  <2> QED BY <2>3 DEF SumsInv, RowsInv, PartInv
<1>4. GatherInv'
  <2> SUFFICES ASSUME NEW q \in Rank, NEW g \in own(my_ids, q), NEW u,
                      u = tof(my_ids, q, g)
               PROVE  /\ gathered(q, u)' =>
                           a_dst'[q][u] = <<q, g[1], g[2], replay[q]>>
                      /\ cleared(q, u)' => part'[q][u] = {}
    BY <1>1 DEF GatherInv, gathered, cleared
  <2>1. /\ gathered(q, u) => a_dst[q][u] = <<q, g[1], g[2], replay[q]>>
        /\ cleared(q, u) => part[q][u] = {}
    BY DEF SumsInv, RowsInv, GatherInv
  <2>2. CASE q # r
    <3>1. (gathered(q, u)' <=> gathered(q, u)) /\ (cleared(q, u)' <=> cleared(q, u))
      BY <2>2, <1>1 DEF gathered, cleared
    <3> QED BY <2>1, <2>2, <3>1, <1>1
  <2>3. CASE q = r
    <3>1. planned(r)  BY <1>1 DEF planned, at
    <3>2. u \in Row /\ gath(r, u) = g /\ g[1] \in Rank /\ g[2] \in Token
      BY <2>3, <3>1, Live DEF SumsInv
    <3>3. CASE u # t
      <4>1. rows'[r][u] = rows[r][u] /\ a_dst'[r][u] = a_dst[r][u] /\ part'[r][u] = part[r][u]
        BY <3>2, <3>3 DEF ClearRow, FetchRow, fetch, TypeInv, TypeOK, ShapeInv
      <4>2. (gathered(r, u)' <=> gathered(r, u)) /\ (cleared(r, u)' <=> cleared(r, u))
        BY <4>1, <1>1 DEF gathered, cleared
      <4> QED BY <2>1, <2>3, <4>1, <4>2, <1>1
    <3>4. CASE u = t /\ ClearRow(r, t)
      <4>1. rows'[r][u] = "fetch" /\ part'[r][u] = {}
        BY <3>2, <3>4 DEF ClearRow, TypeInv, TypeOK, ShapeInv
      <4>2. ~gathered(r, u)'  BY <4>1, <1>1 DEF gathered
      <4> QED BY <2>3, <4>1, <4>2
    <3>5. CASE u = t /\ FetchRow(r, t)
      <4>1. /\ quantised(r, g[1]) /\ rows[r][u] = "fetch" /\ part' = part
            /\ a_dst'[r][u] = <<r, g[1], g[2], a_src[g[1]][g[2]]>>
        BY <3>2, <3>5 DEF FetchRow, fetch, TypeInv, TypeOK, ShapeInv
      <4>2. version(g[1]) = replay[r]  BY <3>2, <4>1, <1>1, Fresh DEF SumsInv
      <4>3. a_src[g[1]][g[2]] = replay[r]  BY <3>2, <4>2 DEF SourceInv
      <4>4. cleared(r, u)  BY <4>1, <1>1 DEF cleared
      <4> QED BY <2>1, <2>3, <4>1, <4>3, <4>4, <1>1
    <3> QED BY <3>3, <3>4, <3>5
  <2> QED BY <2>2, <2>3
<1> QED BY <1>2, <1>3, <1>4 DEF RowsInv

(* The GEMM turns what was gathered into the sums of the replay.           *)
LEMMA RowsGemm ==
  ASSUME K0dPullAssumption, TypeInv, PlanInv, SumsInv, NEW r \in Rank, Gemm(r)
  PROVE  RowsInv'
<1>1. /\ kernel[r] = "gemm" /\ kernel'[r] \in {"b2", "combine"}
      /\ UNCHANGED <<my_ids, replay, rows, a_dst, out>>
      /\ \A q \in Rank : q # r => kernel'[q] = kernel[q] /\ part'[q] = part[q]
                                  /\ pc'[q] = pc[q]
      /\ \A t \in Row : part'[r][t] = IF t < T_loc(r) THEN part[r][t] \cup {a_dst[r][t]}
                                                      ELSE part[r][t]
      /\ \A c \in Block : pc'[r][c] \in {"start", "done"}
      /\ \A c \in Block : kernel'[r] = "combine" => pc'[r][c] = "start"
  BY DEF Gemm, successor, host, ctas, TypeInv, TypeOK, ShapeInv
<1>2. OutInv'
  <2> SUFFICES ASSUME NEW q \in Rank, NEW c \in Block,
                      kernel'[q] = "combine", pc'[q][c] \in {"signal", "done"},
                      NEW tau \in Token, tau % Grid = c
               PROVE  out'[q][tau] = expected(q, tau)'
    BY DEF OutInv, at
  <2>1. q # r  BY <1>1
  <2>2. kernel[q] = "combine" /\ pc[q][c] \in {"signal", "done"}  BY <2>1, <1>1
  <2> QED BY <2>2, <1>1 DEF SumsInv, RowsInv, OutInv, at, expected
<1>3. GatherInv'
  <2> SUFFICES ASSUME NEW q \in Rank, NEW g \in own(my_ids, q)
               PROVE  /\ gathered(q, tof(my_ids, q, g))' =>
                           a_dst'[q][tof(my_ids, q, g)] = <<q, g[1], g[2], replay[q]>>
                      /\ cleared(q, tof(my_ids, q, g))' =>
                           part'[q][tof(my_ids, q, g)] = {}
    BY <1>1 DEF GatherInv, gathered, cleared
  <2>1. CASE q = r  BY <2>1, <1>1 DEF gathered, cleared
  <2>2. CASE q # r  BY <2>2, <1>1 DEF gathered, cleared, SumsInv, RowsInv, GatherInv
  <2> QED BY <2>1, <2>2
<1>4. PartInv'
  <2> SUFFICES ASSUME NEW p \in Rank, NEW q \in Rank, NEW g \in own(my_ids, p),
                      holds_sums(p)', kernel'[q] # "idle", replay[q] = summed(p)'
               PROVE  part'[p][tof(my_ids, p, g)] = {<<p, g[1], g[2], replay[q]>>}
    BY <1>1 DEF PartInv
  <2>1. CASE p = r
    <3>1. planned(r)  BY <1>1 DEF planned, at
    <3> DEFINE u == tof(my_ids, r, g)
    <3>2. u \in Row /\ u < T_loc(r)  BY <2>1, <3>1, Live DEF SumsInv
    <3>3. gathered(r, u) /\ cleared(r, u)  BY <1>1 DEF gathered, cleared
    <3>4. a_dst[r][u] = <<r, g[1], g[2], replay[r]>> /\ part[r][u] = {}
      BY <2>1, <3>3 DEF SumsInv, RowsInv, GatherInv
    <3> HIDE DEF u
    <3>5. part'[r][u] = {<<r, g[1], g[2], replay[r]>>}  BY <3>2, <3>4, <1>1
    <3>6. summed(r)' = replay[r]  BY <1>1 DEF summed
    <3> QED BY <2>1, <3>5, <3>6 DEF u
  <2>2. CASE p # r
    <3>1. holds_sums(p) /\ replay[q] = summed(p) /\ part'[p] = part[p]
      BY <2>2, <1>1 DEF holds_sums, summed
    <3>2. kernel[q] # "idle"  BY <1>1
    <3> QED BY <3>1, <3>2 DEF SumsInv, RowsInv, PartInv
  <2> QED BY <2>1, <2>2
<1> QED BY <1>2, <1>3, <1>4 DEF RowsInv

(* Nobody launches a replay whose sums another rank has and has left.      *)
LEMMA RowsLaunch ==
  ASSUME K0dPullAssumption, TypeInv, PlanInv, SumsInv, NEW r \in Rank, Launch(r)
  PROVE  RowsInv'
<1>1. /\ kernel[r] = "idle" /\ kernel'[r] = "fused" /\ replay'[r] = replay[r] + 1
      /\ UNCHANGED <<my_ids, a_dst, part, out, rows>>
      /\ \A q \in Rank : q # r => /\ kernel'[q] = kernel[q] /\ pc'[q] = pc[q]
                                  /\ replay'[q] = replay[q]
      /\ \A q \in Rank : replay[q] \in Nat
  BY Constants DEF Launch, begin, host, TypeInv, TypeOK
<1>2. OutInv'
  <2> SUFFICES ASSUME NEW q \in Rank, NEW c \in Block,
                      kernel'[q] = "combine", pc'[q][c] \in {"signal", "done"},
                      NEW tau \in Token, tau % Grid = c
               PROVE  out'[q][tau] = expected(q, tau)'
    BY DEF OutInv, at
  <2>1. q # r  BY <1>1
  <2>2. /\ kernel[q] = "combine" /\ pc[q][c] \in {"signal", "done"}
        /\ replay'[q] = replay[q]
    BY <2>1, <1>1
  <2> QED BY <2>2, <1>1 DEF SumsInv, RowsInv, OutInv, at, expected
<1>3. GatherInv'
  <2> SUFFICES ASSUME NEW q \in Rank, NEW g \in own(my_ids, q)
               PROVE  /\ gathered(q, tof(my_ids, q, g))' =>
                           a_dst'[q][tof(my_ids, q, g)] = <<q, g[1], g[2], replay'[q]>>
                      /\ cleared(q, tof(my_ids, q, g))' =>
                           part'[q][tof(my_ids, q, g)] = {}
    BY <1>1 DEF GatherInv, gathered, cleared
  <2>1. CASE q = r  BY <2>1, <1>1 DEF gathered, cleared
  <2>2. CASE q # r  BY <2>2, <1>1 DEF gathered, cleared, SumsInv, RowsInv, GatherInv
  <2> QED BY <2>1, <2>2
<1>4. PartInv'
  <2> SUFFICES ASSUME NEW p \in Rank, NEW q \in Rank, NEW g \in own(my_ids, p),
                      holds_sums(p)', kernel'[q] # "idle", replay'[q] = summed(p)'
               PROVE  part'[p][tof(my_ids, p, g)] = {<<p, g[1], g[2], replay'[q]>>}
    BY <1>1 DEF PartInv
  <2>1. holds_sums(p) /\ summed(p)' = summed(p)
    <3>1. CASE p = r  BY <3>1, <1>1 DEF holds_sums, summed
    <3>2. CASE p # r  BY <3>2, <1>1 DEF holds_sums, summed
    <3> QED BY <3>1, <3>2
  <2>2. CASE q # r
    <3>1. kernel[q] # "idle" /\ replay'[q] = replay[q] /\ replay[q] = summed(p)
      BY <2>1, <2>2, <1>1
    <3> QED BY <2>1, <3>1, <1>1 DEF SumsInv, RowsInv, PartInv
  <2>3. CASE q = r
    <3>1. summed(p) = replay[r] + 1  BY <2>1, <2>3, <1>1
    <3>2. PICK ch \in Meeting : used(ch) /\ home(ch) \in {"b2", "combine"}
      BY Gate
    <3>3. /\ passed(ch, p) <= done(ch, r) /\ replay[p] - 1 <= passed(ch, p)
          /\ passed(ch, p) \in Int /\ done(ch, r) \in Int
      BY <3>2, Passed DEF SumsInv, SyncInv
    <3>4. done(ch, r) <= replay[r]  BY <3>2, <1>1 DEF done, rounds
    <3>5. replay[p] <= replay[r] + 1  BY <3>3, <3>4, <1>1
    <3>6. summed(p) = replay[p] /\ kernel[p] \in {"b2", "combine", "idle"}
      BY <2>1, <3>1, <3>5, <1>1 DEF summed, holds_sums
    <3>7. kernel[p] # "idle"
      <4> SUFFICES ASSUME kernel[p] = "idle" PROVE FALSE
        OBVIOUS
      <4>1. through(ch, p)  BY <3>2 DEF through, later, place
      <4>2. passed(ch, p) = replay[p]  BY <4>1 DEF passed
      <4> QED BY <4>2, <3>1, <3>3, <3>4, <3>6, <1>1
    <3>8. part[p][tof(my_ids, p, g)] = {<<p, g[1], g[2], replay[p]>>}
      BY <2>1, <3>6, <3>7 DEF SumsInv, RowsInv, PartInv
    <3> QED BY <2>3, <3>1, <3>6, <3>8, <1>1
  <2> QED BY <2>2, <2>3
<1> QED BY <1>2, <1>3, <1>4 DEF RowsInv

(* The end of a launch leaves the rows as they are.                        *)
LEMMA RowsEnd ==
  ASSUME K0dPullAssumption, TypeInv, PlanInv, SumsInv, NEW r \in Rank, KernelEnd(r)
  PROVE  RowsInv'
<1>1. /\ kernel[r] \notin {"idle", "gemm"} /\ kernel'[r] = successor(kernel[r])
      /\ UNCHANGED <<my_ids, replay, a_dst, part, out>>
      /\ \A q \in Rank : q # r => /\ kernel'[q] = kernel[q] /\ pc'[q] = pc[q]
                                  /\ rows'[q] = rows[q]
      /\ \A t \in Row : rows[r][t] = "done"
      /\ \A c \in Block : pc'[r][c] = IF c \in ctas(kernel'[r]) THEN "start" ELSE "done"
      /\ kernel'[r] = "gather" =>
           \A t \in Row : t < T_loc(r) => rows'[r][t] = "clear"
      /\ kernel'[r] # "gather" => rows'[r] = rows[r]
  BY DEF KernelEnd, begin, host, TypeInv, TypeOK
<1>2. /\ kernel[r] \in {"fused", "b1", "gather", "b2", "combine"}
      /\ kernel'[r] \in {"b1", "gather", "gemm", "combine", "idle"}
      /\ kernel'[r] = "gemm" <=> kernel[r] = "gather"
      /\ kernel'[r] = "b1" => kernel[r] = "fused"
      /\ kernel'[r] = "combine" => kernel[r] = "b2"
      /\ kernel'[r] = "idle" => kernel[r] = "combine"
  BY <1>1 DEF successor, TypeInv, TypeOK
<1>3. OutInv'
  <2> SUFFICES ASSUME NEW q \in Rank, NEW c \in Block,
                      kernel'[q] = "combine", pc'[q][c] \in {"signal", "done"},
                      NEW tau \in Token, tau % Grid = c
               PROVE  out'[q][tau] = expected(q, tau)'
    BY DEF OutInv, at
  <2>1. q # r
    <3>1. ctas("combine") = Block  BY DEF ctas
    <3> QED BY <3>1, <1>1
  <2>2. kernel[q] = "combine" /\ pc[q][c] \in {"signal", "done"}
    BY <2>1, <1>1
  <2> QED BY <2>2, <1>1 DEF SumsInv, RowsInv, OutInv, at, expected
<1>4. GatherInv'
  <2> SUFFICES ASSUME NEW q \in Rank, NEW g \in own(my_ids, q)
               PROVE  /\ gathered(q, tof(my_ids, q, g))' =>
                           a_dst'[q][tof(my_ids, q, g)] = <<q, g[1], g[2], replay[q]>>
                      /\ cleared(q, tof(my_ids, q, g))' =>
                           part'[q][tof(my_ids, q, g)] = {}
    BY <1>1 DEF GatherInv, gathered, cleared
  <2>1. CASE q # r  BY <2>1, <1>1 DEF gathered, cleared, SumsInv, RowsInv, GatherInv
  <2>2. CASE q = r
    <3>1. planned(r)  BY <1>1, Zero DEF planned, at, KernelEnd
    <3>2. tof(my_ids, r, g) \in Row /\ tof(my_ids, r, g) < T_loc(r)
      BY <2>2, <3>1, Live DEF SumsInv
    <3>3. CASE kernel'[r] = "gather"
      BY <2>2, <3>2, <3>3, <1>1 DEF gathered, cleared
    <3>4. CASE kernel'[r] = "gemm"
      <4>1. gathered(r, tof(my_ids, r, g)) /\ cleared(r, tof(my_ids, r, g))
        BY <3>2, <3>4, <1>1, <1>2 DEF gathered, cleared
      <4> QED BY <2>2, <4>1, <1>1 DEF SumsInv, RowsInv, GatherInv
    <3>5. CASE kernel'[r] \notin {"gather", "gemm"}
      BY <2>2, <3>5 DEF gathered, cleared
    <3> QED BY <3>3, <3>4, <3>5
  <2> QED BY <2>1, <2>2
<1>5. PartInv'
  <2> SUFFICES ASSUME NEW p \in Rank, NEW q \in Rank, NEW g \in own(my_ids, p),
                      holds_sums(p)', kernel'[q] # "idle", replay[q] = summed(p)'
               PROVE  part'[p][tof(my_ids, p, g)] = {<<p, g[1], g[2], replay[q]>>}
    BY <1>1 DEF PartInv
  <2>1. kernel[q] # "idle"  BY <1>1
  <2>2. holds_sums(p) /\ summed(p)' = summed(p)
    <3>1. CASE p = r  BY <3>1, <1>1, <1>2 DEF holds_sums, summed
    <3>2. CASE p # r  BY <3>2, <1>1 DEF holds_sums, summed
    <3> QED BY <3>1, <3>2
  <2> QED BY <2>1, <2>2, <1>1 DEF SumsInv, RowsInv, PartInv
<1> QED BY <1>3, <1>4, <1>5 DEF RowsInv

(* A CTA pulls the sums of this replay for every token of its own.         *)
LEMMA RowsPull ==
  ASSUME K0dPullAssumption, TypeInv, PlanInv, SumsInv, NEW r \in Rank, NEW c \in Block,
         Pull(r, c)
  PROVE  RowsInv'
<1>1. /\ at(r, c, "combine", "pull") /\ kernel[r] = "combine"
      /\ UNCHANGED <<my_ids, kernel, replay, rows, a_dst, part>>
      /\ \A q \in Rank : \A b \in Block : q # r \/ b # c => pc'[q][b] = pc[q][b]
      /\ \A q \in Rank : q # r => out'[q] = out[q]
      /\ \A tau \in Token : out'[r][tau] =
           IF tau % Grid = c THEN UNION {part[p[1]][p[2]] : p \in pull_src[r][tau]}
           ELSE out[r][tau]
  BY DEF Pull, at, goto, host, TypeInv, TypeOK, ShapeInv
<1>2. GatherInv'
  BY <1>1 DEF SumsInv, RowsInv, GatherInv, gathered, cleared
<1>3. PartInv'
  BY <1>1 DEF SumsInv, RowsInv, PartInv, holds_sums, summed
<1>4. ASSUME NEW tau \in Token, tau % Grid = c
      PROVE  out'[r][tau] = expected(r, tau)
  <2>1. planned(r)  BY <1>1 DEF planned, at
  <2>2. pull_src[r][tau] = {<<p, tof(my_ids, p, <<r, tau>>)>> : p \in my_ids[r][tau]}
    BY <2>1 DEF PlanInv
  <2>3. my_ids[r][tau] \subseteq Rank  BY Constants DEF TypeInv, TypeOK
  <2>4. ASSUME NEW p \in my_ids[r][tau]
        PROVE  part[p][tof(my_ids, p, <<r, tau>>)] = {<<p, r, tau, replay[r]>>}
    <3>1. <<r, tau>> \in own(my_ids, p)  BY <2>4 DEF own, Gtok
    <3>2. holds_sums(p) /\ summed(p) = replay[r]  BY <2>3, <2>4, <1>1, Summed DEF SumsInv
    <3> QED BY <2>3, <2>4, <3>1, <3>2, <1>1 DEF SumsInv, RowsInv, PartInv
  <2>5. {part[p[1]][p[2]] : p \in pull_src[r][tau]} =
           {{<<p, r, tau, replay[r]>>} : p \in my_ids[r][tau]}
    <3>1. ASSUME NEW x, x \in {part[p[1]][p[2]] : p \in pull_src[r][tau]}
          PROVE  x \in {{<<p, r, tau, replay[r]>>} : p \in my_ids[r][tau]}
      <4>1. PICK w \in pull_src[r][tau] : x = part[w[1]][w[2]]  BY <3>1
      <4>2. PICK p \in my_ids[r][tau] : w = <<p, tof(my_ids, p, <<r, tau>>)>>
        BY <2>2
      <4>3. w[1] = p /\ w[2] = tof(my_ids, p, <<r, tau>>)  BY <4>2
      <4> QED BY <4>1, <4>3, <2>4
    <3>2. ASSUME NEW p \in my_ids[r][tau]
          PROVE  {<<p, r, tau, replay[r]>>} \in
                   {part[w[1]][w[2]] : w \in pull_src[r][tau]}
      <4>1. PICK w \in pull_src[r][tau] : w = <<p, tof(my_ids, p, <<r, tau>>)>>
        BY <2>2
      <4>2. w[1] = p /\ w[2] = tof(my_ids, p, <<r, tau>>)  BY <4>1
      <4> QED BY <4>2, <2>4
    <3> QED BY <3>1, <3>2
  <2>6. UNION {{<<p, r, tau, replay[r]>>} : p \in my_ids[r][tau]} = expected(r, tau)
    BY DEF expected
  <2> QED BY <1>4, <2>5, <2>6, <1>1
<1>5. OutInv'
  <2> SUFFICES ASSUME NEW q \in Rank, NEW b \in Block,
                      kernel[q] = "combine", pc'[q][b] \in {"signal", "done"},
                      NEW tau \in Token, tau % Grid = b
               PROVE  out'[q][tau] = expected(q, tau)'
    BY <1>1 DEF OutInv, at
  <2>1. expected(q, tau)' = expected(q, tau)  BY <1>1 DEF expected
  <2>2. CASE q = r /\ b = c  BY <2>1, <2>2, <1>4
  <2>3. CASE ~(q = r /\ b = c)
    <3>1. pc[q][b] \in {"signal", "done"} /\ out'[q][tau] = out[q][tau]
      BY <2>3, <1>1
    <3> QED BY <2>1, <3>1 DEF SumsInv, RowsInv, OutInv, at
  <2> QED BY <2>2, <2>3
<1> QED BY <1>2, <1>3, <1>5 DEF RowsInv

(* Whoever gives up says so in its error word.                             *)
LEMMA GivenUp ==
  ASSUME TypeInv, NEW r \in Rank, TimeOut(r)
  PROVE  ~clean'
<1>1. ASSUME NEW bits, bits \in SUBSET ErrBits, bits # {}, raise(r, bits) PROVE ~clean'
  BY <1>1 DEF raise, clean, TypeInv, TypeOK
<1>2. CASE CombinedTimeOut(r)
  BY <1>2, <1>1 DEF CombinedTimeOut, go_quantise, ErrBits
<1>3. CASE BarrierTimeOut(r)
  BY <1>3, <1>1 DEF BarrierTimeOut, barrier_leave, ErrBits
<1>4. ASSUME NEW t \in Row, FetchTimeOut(r, t) PROVE ~clean'
  BY <1>4, <1>1 DEF FetchTimeOut, fetch, ErrBits
<1>5. ASSUME NEW c \in Block, EnterTimeOut(r, c) PROVE ~clean'
  BY <1>5, <1>1 DEF EnterTimeOut, enter, ErrBits
<1> QED BY <1>2, <1>3, <1>4, <1>5 DEF TimeOut

(* As long as nobody gives up, the ranks keep together and the rows are    *)
(* those of their replay, step by step.                                    *)
LEMMA SumsStep ==
  ASSUME K0dPullAssumption, NoWrap, TypeInv, TypeInv', CountersInv, PlanInv, SourceInv,
         clean => SumsInv, Growth \/ Host, [Next]_vars, clean'
  PROVE  SumsInv'
<1>1. CASE Host
  <2>1. SyncInv'  BY <1>1, SyncHost
  <2>2. \A q \in Rank : kernel'[q] = "idle"  BY <1>1 DEF Host, stream
  <2>3. RowsInv'
    BY <2>2 DEF RowsInv, GatherInv, gathered, cleared, PartInv, OutInv, at
  <2> QED BY <2>1, <2>3 DEF SumsInv
<1>2. CASE ~Host
  <2>1. Growth  BY <1>2
  <2>2. ASSUME \A q \in Rank : pperr'[q] = pperr[q] PROVE SumsInv
    BY <2>2 DEF clean
  <2>3. ASSUME NEW r \in Rank, raise(r, {}) PROVE SumsInv
    <3>1. \A q \in Rank : pperr'[q] = pperr[q]  BY <2>3 DEF raise, TypeInv, TypeOK
    <3> QED BY <3>1, <2>2
  <2>4. ASSUME NEW r \in Rank, NEW c \in Block, NEW l, goto(r, c, l), SumsInv,
               UNCHANGED <<my_ids, kernel, replay, rows, a_dst, part, out>>,
               kernel[r] # "combine" \/ l \notin {"signal", "done"} \/ pc[r][c] = "signal"
        PROVE  RowsInv'
    <3>1. \A q \in Rank : \A b \in Block :
             kernel[q] = "combine" /\ pc'[q][b] \in {"signal", "done"} =>
               pc[q][b] \in {"signal", "done"}
      BY <2>4 DEF goto, TypeInv, TypeOK
    <3> QED BY <2>4, <3>1, RowsKept DEF SumsInv
  <2>5. ASSUME NEW r \in Rank, Work(r) PROVE SumsInv'
    <3>1. CASE Plan(r)
      <4> DEFINE l == IF arm = "f" THEN "wait" ELSE "quant"
      <4>1. /\ goto(r, 0, l) /\ kernel[r] = "fused"
            /\ UNCHANGED <<arm, my_ids, kernel, replay, rows, a_dst, part, out, pperr>>
            /\ pc[r][0] = "start"
        BY <3>1 DEF Plan, at, host
      <4>2. SumsInv  BY <4>1, <2>2
      <4>3. RowsInv'
        <5> HIDE DEF l
        <5> QED BY <4>1, <4>2, <2>4, Zero
      <4>4. SyncInv'
        <5>1. \A ch \in Meeting : passed(ch, r)' = passed(ch, r)
          <6> SUFFICES ASSUME NEW ch \in Meeting PROVE passed(ch, r)' = passed(ch, r)
            OBVIOUS
          <6>1. home(ch) # "fused"  BY DEF Meeting, home
          <6>2. through(ch, r)' <=> through(ch, r)
            BY <6>1, <4>1 DEF through, later
          <6> QED BY <6>2, <4>1 DEF passed
        <5>2. pc'[r][0] = l /\ \A q \in Rank \ {r} : pc'[q] = pc[q]
          BY <4>1, Zero DEF goto, TypeInv, TypeOK
        <5>3. arm = "f" => ~let_go(r)'
          BY <4>1, <5>2 DEF let_go
        <5> QED BY <4>1, <4>2, <5>1, <5>2, <5>3, <2>1, SyncKept DEF SumsInv
      <4> QED BY <4>3, <4>4 DEF SumsInv
    <3>2. CASE Combined(r)
      <4>1. /\ goto(r, 0, "quant") /\ kernel[r] = "fused" /\ raise(r, {})
            /\ UNCHANGED <<my_ids, kernel, replay, rows, a_dst, part, out>>
        BY <3>2 DEF Combined, go_quantise, at, host, data
      <4>2. SumsInv  BY <4>1, <2>3
      <4>3. RowsInv'  BY <4>1, <4>2, <2>4, Zero
      <4> QED BY <3>2, <4>2, <4>3, <2>1, SyncCombined DEF SumsInv
    <3>3. CASE Quantise(r)
      <4>1. /\ goto(r, 0, "done") /\ kernel[r] = "fused" /\ pc[r][0] = "quant"
            /\ UNCHANGED <<arm, my_ids, kernel, replay, rows, a_dst, part, out, pperr>>
        BY <3>3 DEF Quantise, at, host
      <4>2. SumsInv  BY <4>1, <2>2
      <4>3. RowsInv'  BY <4>1, <4>2, <2>4, Zero
      <4>4. SyncInv'  BY <4>1, <4>2, <2>1, SyncGoto, Zero DEF SumsInv
      <4> QED BY <4>3, <4>4 DEF SumsInv
    <3>4. CASE BarrierArrive(r)
      <4>1. /\ goto(r, 0, "wait") /\ kernel[r] \in {"b1", "b2"} /\ pc[r][0] = "start"
            /\ UNCHANGED <<arm, my_ids, kernel, replay, rows, a_dst, part, out, pperr>>
        BY <3>4 DEF BarrierArrive, host, data
      <4>2. SumsInv  BY <4>1, <2>2
      <4>3. RowsInv'  BY <4>1, <4>2, <2>4, Zero
      <4>4. SyncInv'  BY <4>1, <4>2, <2>1, SyncGoto, Zero DEF SumsInv
      <4> QED BY <4>3, <4>4 DEF SumsInv
    <3>5. CASE BarrierPass(r)
      <4>1. /\ goto(r, 0, "done") /\ kernel[r] \in {"b1", "b2"} /\ raise(r, {})
            /\ UNCHANGED <<my_ids, kernel, replay, rows, a_dst, part, out>>
        BY <3>5 DEF BarrierPass, barrier_leave, host, data
      <4>2. SumsInv  BY <4>1, <2>3
      <4>3. RowsInv'  BY <4>1, <4>2, <2>4, Zero
      <4> QED BY <3>5, <4>2, <4>3, <2>1, SyncBarrier DEF SumsInv
    <3>6. CASE Launch(r) \/ KernelEnd(r) \/ Gemm(r)
      <4>1. SumsInv  BY <3>6, <2>2 DEF Launch, KernelEnd, Gemm
      <4>2. \A ch \in Channel : used(ch) => rounds(ch, r)' = rounds(ch, r)
        BY <3>6, CountersStream
      <4>3. SyncInv'  BY <3>6, <4>1, <4>2, <2>1, SyncStream DEF SumsInv
      <4>4. RowsInv'  BY <3>6, <4>1, RowsLaunch, RowsEnd, RowsGemm
      <4> QED BY <4>3, <4>4 DEF SumsInv
    <3> QED BY <2>5, <3>1, <3>2, <3>3, <3>4, <3>5, <3>6 DEF Work
  <2>6. ASSUME NEW r \in Rank, NEW t \in Row, RowWork(r, t) PROVE SumsInv'
    <3>1. UNCHANGED <<arm, kernel, pc, replay>>
      BY <2>6 DEF RowWork, ClearRow, FetchRow, fetch, stream, host
    <3>2. SumsInv
      <4>1. CASE ClearRow(r, t)  BY <4>1, <2>2 DEF ClearRow
      <4>2. CASE FetchRow(r, t)  BY <4>2, <2>3 DEF FetchRow, fetch
      <4> QED BY <2>6, <4>1, <4>2 DEF RowWork
    <3>3. \A ch \in Meeting : passed(ch, r)' = passed(ch, r)
      BY <3>1 DEF passed, through, later, place, members
    <3>4. let_go(r)' <=> let_go(r)  BY <3>1 DEF let_go
    <3>5. SyncInv'  BY <3>1, <3>2, <3>3, <3>4, <2>1, SyncKept DEF SumsInv
    <3>6. RowsInv'  BY <2>6, <3>2, RowsGather DEF RowWork
    <3> QED BY <3>5, <3>6 DEF SumsInv
  <2>7. ASSUME NEW r \in Rank, NEW c \in Block, CombineWork(r, c) PROVE SumsInv'
    <3>1. CASE Arrive(r, c)
      <4>1. /\ goto(r, c, "wait") /\ kernel[r] = "combine" /\ pc[r][c] = "start"
            /\ UNCHANGED <<arm, my_ids, kernel, replay, rows, a_dst, part, out, pperr>>
        BY <3>1 DEF Arrive, at, host, data
      <4>2. SumsInv  BY <4>1, <2>2
      <4>3. RowsInv'  BY <4>1, <4>2, <2>4
      <4>4. SyncInv'  BY <4>1, <4>2, <2>1, SyncGoto DEF SumsInv
      <4> QED BY <4>3, <4>4 DEF SumsInv
    <3>2. CASE Enter(r, c)
      <4>1. /\ goto(r, c, "pull") /\ raise(r, {})
            /\ UNCHANGED <<my_ids, kernel, replay, rows, a_dst, part, out>>
        BY <3>2 DEF Enter, enter, host, data
      <4>2. SumsInv  BY <4>1, <2>3
      <4>3. RowsInv'  BY <4>1, <4>2, <2>4
      <4> QED BY <3>2, <4>2, <4>3, <2>1, SyncEnter DEF SumsInv
    <3>3. CASE Pull(r, c)
      <4> DEFINE l == IF arm = "f" THEN "signal" ELSE "done"
      <4>1. /\ goto(r, c, l) /\ pc[r][c] = "pull" /\ l \notin {"start", "wait"}
            /\ UNCHANGED <<arm, kernel, replay, pperr>>
        BY <3>3 DEF Pull, at, host
      <4> HIDE DEF l
      <4>2. SumsInv  BY <4>1, <2>2
      <4>3. SyncInv'  BY <4>1, <4>2, <2>1, SyncGoto DEF SumsInv
      <4>4. RowsInv'  BY <3>3, <4>2, RowsPull
      <4> QED BY <4>3, <4>4 DEF SumsInv
    <3>4. CASE SignalDone(r, c)
      <4>1. /\ goto(r, c, "done") /\ kernel[r] = "combine" /\ pc[r][c] = "signal"
            /\ UNCHANGED <<arm, my_ids, kernel, replay, rows, a_dst, part, out, pperr>>
        BY <3>4 DEF SignalDone, at, host, data
      <4>2. SumsInv  BY <4>1, <2>2
      <4>3. RowsInv'  BY <4>1, <4>2, <2>4
      <4>4. SyncInv'  BY <4>1, <4>2, <2>1, SyncGoto DEF SumsInv
      <4> QED BY <4>3, <4>4 DEF SumsInv
    <3> QED BY <2>7, <3>1, <3>2, <3>3, <3>4 DEF CombineWork
  <2>8. ASSUME UNCHANGED <<stream, host, data, pperr>> PROVE SumsInv'
    <3>1. /\ UNCHANGED <<arm, kernel, pc, replay>>
          /\ UNCHANGED <<my_ids, kernel, replay, rows, a_dst, part, out>>
      BY <2>8 DEF stream, host, data
    <3>2. SumsInv  BY <2>8, <2>2
    <3>3. \A ch \in Meeting : passed(ch, 0)' = passed(ch, 0)
      BY <3>1 DEF passed, through, later, place, members
    <3>4. let_go(0)' <=> let_go(0)  BY <3>1 DEF let_go
    <3>5. SyncInv'
      BY <3>1, <3>2, <3>3, <3>4, <2>1, SyncKept, Zero DEF SumsInv
    <3>6. RowsInv'  BY <3>1, <3>2, RowsKept DEF SumsInv
    <3> QED BY <3>5, <3>6 DEF SumsInv
  <2>9. ASSUME NEW m \in posted, Deliver(m) PROVE SumsInv'
    BY <2>9, <2>8 DEF Deliver
  <2>10. CASE UNCHANGED vars  BY <2>10, <2>8 DEF vars
  <2>11. \A r \in Rank : ~TimeOut(r)  BY GivenUp
  <2> QED BY <1>2, <2>5, <2>6, <2>7, <2>9, <2>10, <2>11 DEF Next
<1> QED BY <1>1, <1>2

-----------------------------------------------------------------------------
(* The invariant of the pull arms holds in every state.                    *)
THEOREM PullInvariance ==
  ASSUME K0dPullAssumption, NoWrap
  PROVE  Spec => []IInv
<1>1. ASSUME Init PROVE IInv
  <2> USE <1>1
  <2>1. TypeInv /\ CountersInv  BY TypeInit, CountersInit
  <2>2. PlanInv  BY DEF Init, PlanInv, planned
  <2>3. SourceInv  BY DEF Init, SourceInv, version
  <2>4. SumsInv
    <3>1. RowsInv  BY DEF Init, RowsInv, GatherInv, gathered, cleared, PartInv, OutInv, at
    <3>2. \A ch \in Channel : \A r \in Rank : rounds(ch, r) = 0
      <4> SUFFICES ASSUME NEW ch \in Channel, NEW r \in Rank PROVE rounds(ch, r) = 0
        OBVIOUS
      <4>1. place("idle") > place(home(ch))  BY DEF place, home, Channel
      <4>2. told(ch, r)  BY <4>1 DEF Init, told, later
      <4> QED BY <4>2 DEF Init, rounds
    <3>3. \A ch \in Channel : \A r \in Rank : done(ch, r) = 0  BY <3>2 DEF done
    <3>4. "comb" \in Channel /\ Meeting \subseteq Channel  BY DEF Channel, Meeting
    <3>5. \A ch \in Meeting : \A r \in Rank : passed(ch, r) <= 0
      BY DEF Init, passed
    <3>6. \A r \in Rank : replay[r] - 1 <= 0  BY DEF Init
    <3>7. SyncInv  BY <3>3, <3>4, <3>5, <3>6 DEF SyncInv
    <3> QED BY <3>1, <3>7 DEF SumsInv
  <2> QED BY <2>1, <2>2, <2>3, <2>4 DEF IInv
<1>2. ASSUME IInv, [Next]_vars PROVE IInv'
  <2> USE <1>2 DEF IInv
  <2>1. TypeInv' /\ CountersInv' /\ (Growth \/ Host)  BY SureStep
  <2>2. PlanInv' /\ SourceInv'  BY PlanStep, SourceStep
  <2>3. clean' => SumsInv'  BY <2>1, SumsStep
  <2> QED BY <2>1, <2>2, <2>3
<1> QED BY <1>1, <1>2, PTL DEF Spec

(* The variables of the pull arms are always of their types.               *)
THEOREM PullTypeCorrect ==
  ASSUME K0dPullAssumption, NoWrap
  PROVE  Spec => []TypeOK
<1>1. IInv => TypeOK  BY DEF IInv, TypeInv
<1> QED BY <1>1, PullInvariance, PTL

(* The output of a finished combine is the sum of this replay's rows, for  *)
(* every token, in every arm and from one arm to the next, unless an error *)
(* word is set.                                                            *)
THEOREM PullOutputCorrect ==
  ASSUME K0dPullAssumption, NoWrap
  PROVE  Spec => []OutputCorrect
<1>1. ASSUME IInv PROVE OutputCorrect
  <2> SUFFICES ASSUME clean, NEW r \in Rank, kernel[r] = "combine",
                      \A c \in Block : pc[r][c] = "done", NEW tau \in Token
               PROVE  out[r][tau] = expected(r, tau)
    BY DEF OutputCorrect
  <2>1. tau % Grid \in Block  BY Constants DEF Token, Block
  <2>2. OutInv  BY <1>1 DEF IInv, SumsInv, RowsInv
  <2> QED BY <2>1, <2>2 DEF OutInv, at
<1> QED BY <1>1, PullInvariance, PTL

(* Nobody quantises into rows that a peer still has to fetch for an        *)
(* earlier replay.                                                         *)
THEOREM PullSourceStable ==
  ASSUME K0dPullAssumption, NoWrap
  PROVE  Spec => []SourceStable
<1>1. ASSUME IInv PROVE SourceStable
  <2> SUFFICES ASSUME clean, NEW r \in Rank, NEW q \in Rank,
                      kernel[q] = "gather", replay[q] < replay[r]
               PROVE  FALSE
    BY DEF SourceStable
  <2>1. TypeInv /\ SyncInv  BY <1>1 DEF IInv, SumsInv
  <2>2. replay[r] <= replay[q]  BY <2>1, Early
  <2>3. replay[r] \in Nat /\ replay[q] \in Nat  BY <2>1, Constants DEF TypeInv, TypeOK
  <2> QED BY <2>2, <2>3
<1> QED BY <1>1, PullInvariance, PTL

(* Nobody clears or accumulates partial rows while a combine of an earlier *)
(* replay is still to pull.                                                *)
THEOREM PullPartStable ==
  ASSUME K0dPullAssumption, NoWrap
  PROVE  Spec => []PartStable
<1>1. ASSUME IInv PROVE PartStable
  <2> SUFFICES ASSUME clean, NEW r \in Rank, NEW q \in Rank,
                      kernel[r] \in {"gather", "gemm"}, replay[q] < replay[r],
                      kernel[q] = "combine", NEW c \in Block,
                      pc[q][c] \in {"start", "wait", "pull"}
               PROVE  FALSE
    BY DEF PartStable, overwriting, pulling
  <2>1. TypeInv /\ SyncInv  BY <1>1 DEF IInv, SumsInv
  <2>2. replay[r] \in Nat /\ replay[q] \in Nat  BY <2>1, Constants DEF TypeInv, TypeOK
  <2>3. CASE arm # "f"
    <3>1. "b1" \in Meeting /\ used("b1") /\ home("b1") = "b1"  BY <2>1, <2>3, Gate
    <3>2. through("b1", r)  BY <3>1 DEF through, later, place
    <3> QED BY <2>1, <2>2, <3>1, <3>2, Together
  <2>4. CASE arm = "f"
    <3>1. ~told("comb", q)
      <4>1. /\ home("comb") = "combine" /\ members("comb") = Block
            /\ ~come("comb", pc[q][c])
        BY DEF home, members, come
      <4>2. c \notin present("comb", q) /\ present("comb", q) # members("comb")
        BY <4>1 DEF present
      <4>3. ~(place("combine") > place("combine"))  BY DEF place
      <4> QED BY <4>1, <4>2, <4>3 DEF told, later
    <3>2. done("comb", q) = replay[q] - 1  BY <2>4, <3>1 DEF done, rounds, used
    <3>3. let_go(r)  BY DEF let_go
    <3> QED BY <2>1, <2>2, <2>4, <3>2, <3>3 DEF SyncInv
  <2> QED BY <2>3, <2>4
<1> QED BY <1>1, PullInvariance, PTL

=============================================================================
