----------------------------- MODULE ExpertGemm -----------------------------
(* The expert GEMM: n1g_fused_moe in one kernel, or n2_phase1 and n2_phase2*)
(* with the quantised intermediate handed over in memory.  CTAs are        *)
(* persistent and take tasks in a stride: a sorted block and a chunk of the*)
(* intermediate columns (or, in n2_phase2, of the output).  The waves of a *)
(* CTA share its LDS: tokens and scales of the task, two buffers of the A  *)
(* tile, the maxima and the tile of the quantised intermediate.  Barriers  *)
(* of the CTA are all that orders them; the weights, the A tile on its way *)
(* and the sums are in registers.                                          *)
(*                                                                         *)
(* What LDS, registers and memory hold is known by a tag: the layer and the*)
(* block or task it belongs to.  A sum is the sequence of the K groups in  *)
(* it; whatever is computed from anything but its own operands is Bad.     *)
(* Left out: the layout of fragments and swizzles, the rounding, and what  *)
(* is private to a wave (the transposition, the N loop of the fused one).  *)
EXTENDS Integers, Sequences, FiniteSets, Bags

CONSTANTS Ctas,       \* persistent CTAs
          Waves,      \* waves of a CTA, and rows of a block: one per wave
          PerScale,   \* waves whose columns share a quantisation scale
          KGroups,    \* K128 groups of the first GEMM
          Chunks,     \* chunks of the intermediate columns
          NChunks,    \* chunks of the output columns of n2_phase2
          T,          \* tokens
          Capacity,   \* blocks the hand-over buffers cover
          Scenarios   \* layers: sequences of [fused, ids]

Cta == 0 .. Ctas - 1
WaveId == 0 .. Waves - 1
Token == 0 .. T - 1
Kb == Waves \div PerScale
KGroups2 == Chunks * Kb
group(w) == w \div PerScale       \* j_w
Kernel == {"n1g", "n2_phase1", "n2_phase2"}

(* Tokens of the rows of a block; T is padding.  Both K loops are unrolled *)
(* by two.                                                                 *)
ExpertGemmAssumption ==
  /\ {Ctas, Waves, PerScale, KGroups, Chunks, NChunks} \subseteq Nat \ {0}
  /\ Waves % PerScale = 0 /\ KGroups % 2 = 0 /\ KGroups2 % 2 = 0
  /\ \A s \in Scenarios : \A i \in DOMAIN s :
       /\ s[i].fused \in BOOLEAN
       /\ s[i].ids \in Seq([WaveId -> 0 .. T])
       /\ Len(s[i].ids) <= Capacity

VARIABLES layers,     \* the scenario
          layer,      \* layers begun
          kernel,     \* the running kernel, or "none"
          wave,       \* [c][w]: program counter and registers
          arrived,    \* [c]: waves at the CTA's barrier
          lds,        \* [c]: the LDS
          a2q, dq2,   \* [b][g]: the intermediate in memory and its scales
          out         \* [t]: the bag of what was added to the token's row

vars == <<layers, layer, kernel, wave, arrived, lds, a2q, dq2, out>>

Bad == <<-1, -1>>
ids == layers[layer].ids
Blocks == 0 .. Len(ids) - 1
token(b, i) == ids[b + 1][i]

chunks == IF kernel = "n2_phase2" THEN NChunks ELSE Chunks
num_tasks == Len(ids) * chunks
K == IF kernel = "n2_phase2" THEN KGroups2 ELSE KGroups
clamp(n) == IF n < K THEN n ELSE K - 1

block(c, w) == wave[c][w].task \div chunks
chunk(c, w) == wave[c][w].task % chunks
rows(c, w) == <<layer, block(c, w)>>
this(c, w) == <<layer, wave[c][w].task>>

Fresh == [tok |-> Bad, amax |-> [j \in 0 .. Kb - 1 |-> {Bad}],
          a_scale |-> [w \in WaveId |-> Bad], b_scale |-> [w \in WaveId |-> Bad],
          a |-> [buf \in 0 .. 1 |-> [w \in WaveId |-> <<Bad, 0>>]],
          a2 |-> [w \in WaveId |-> Bad]]
Idle == [pc |-> "done", task |-> 0, k |-> 0, voff |-> Bad,
         aTmp |-> [buf \in 0 .. 1 |-> <<Bad, 0>>],
         bf |-> [buf \in 0 .. 1 |-> <<Bad, 0>>], acc |-> <<>>]

Init ==
  /\ layers \in Scenarios
  /\ layer = 0 /\ kernel = "none"
  /\ wave = [c \in Cta |-> [w \in WaveId |-> Idle]]
  /\ arrived = [c \in Cta |-> {}]
  /\ lds = [c \in Cta |-> Fresh]
  /\ a2q = [b \in 0 .. Capacity - 1 |->
              [g \in 0 .. Chunks - 1 |-> [w \in WaveId |-> Bad]]]
  /\ dq2 = [b \in 0 .. Capacity - 1 |-> [g \in 0 .. Chunks - 1 |-> Bad]]
  /\ out = [t \in Token |-> EmptyBag]

-----------------------------------------------------------------------------
at(c, w, label) == wave[c][w].pc = label /\ w \notin arrived[c]

(* The wave goes on to a label; or it arrives at the barrier before it.    *)
goto(c, w, label, regs) ==
  wave' = [wave EXCEPT ![c][w] = [regs EXCEPT !.pc = label]]

sync(c, w, label, regs) ==
  /\ goto(c, w, label, regs)
  /\ arrived' = [arrived EXCEPT ![c] =
                   IF @ \cup {w} = WaveId THEN {} ELSE @ \cup {w}]

(* A launch: the stream has the kernels of a layer, and the layers, one    *)
(* after the other.  LDS holds anything.  The output is cleared before.    *)
begun(t, n) == [Idle EXCEPT !.task = t, !.pc = IF t < n THEN "setup" ELSE "done"]
done == \A c \in Cta, w \in WaveId : wave[c][w].pc = "done"

start(name, n) ==
  /\ kernel' = name
  /\ wave' = [c \in Cta |-> [w \in WaveId |-> begun(c, n)]]
  /\ lds' = [c \in Cta |-> Fresh]

Layer == /\ done /\ kernel # "n2_phase1" /\ layer < Len(layers)
         /\ layer' = layer + 1
         /\ LET l == layers[layer + 1] IN
            start(IF l.fused THEN "n1g" ELSE "n2_phase1", Len(l.ids) * Chunks)
         /\ out' = [t \in Token |-> EmptyBag]
         /\ UNCHANGED <<layers, arrived, a2q, dq2>>

Phase2 == /\ done /\ kernel = "n2_phase1"
          /\ start("n2_phase2", Len(ids) * NChunks)
          /\ UNCHANGED <<layers, layer, arrived, a2q, dq2, out>>

-----------------------------------------------------------------------------
(* Per-task LDS setup.  Wave 0 fills the tokens and clears the maxima; the *)
(* weights' scales are every wave's, and so are n2_phase2's DQ2.           *)
filled(c, w) ==
  [lds[c] EXCEPT !.tok = IF w = 0 THEN rows(c, w) ELSE @,
                 !.amax = IF w = 0 THEN [j \in DOMAIN @ |-> {}] ELSE @,
                 !.b_scale[w] = this(c, w)]

Setup(c, w) == /\ at(c, w, "setup") /\ kernel # "n2_phase2"
               /\ lds' = [lds EXCEPT ![c] = filled(c, w)]
               /\ sync(c, w, "scales", [wave[c][w] EXCEPT !.acc = <<>>])
               /\ UNCHANGED <<layers, layer, kernel, a2q, dq2, out>>

Setup2(c, w) ==
  /\ at(c, w, "setup") /\ kernel = "n2_phase2"
  /\ lds' = [lds EXCEPT ![c] = [filled(c, w) EXCEPT !.a_scale[w] =
        IF \A g \in 0 .. Chunks - 1 : dq2[block(c, w)][g] = rows(c, w)
        THEN rows(c, w) ELSE Bad]]
  /\ sync(c, w, "first", [wave[c][w] EXCEPT !.acc = <<>>])
  /\ UNCHANGED <<layers, layer, kernel, a2q, dq2, out>>

(* The rows' scales, of the tokens that are in LDS.                        *)
Scales(c, w) == /\ at(c, w, "scales")
                /\ lds' = [lds EXCEPT ![c].a_scale[w] = lds[c].tok]
                /\ sync(c, w, "first", wave[c][w])
                /\ UNCHANGED <<layers, layer, kernel, a2q, dq2, out>>

(* load_a: a wave's share of the A tile of group k; load_b: its weights.   *)
load_a(c, w, voff, k) ==
  IF kernel = "n2_phase2" THEN <<a2q[block(c, w)][k \div Kb][w], k>> ELSE <<voff, k>>
load_b(c, w, k) == <<this(c, w), k>>

First(c, w) ==
  /\ at(c, w, "first")
  /\ lds' = [lds EXCEPT ![c].a[0][w] = load_a(c, w, lds[c].tok, 0)]
  /\ sync(c, w, "read",
          [wave[c][w] EXCEPT !.voff = lds[c].tok, !.k = 0,
             !.aTmp = [buf \in 0 .. 1 |-> load_a(c, w, lds[c].tok, buf)],
             !.bf[0] = load_b(c, w, 0)])
  /\ UNCHANGED <<layers, layer, kernel, a2q, dq2, out>>

(* Half a turn of the K loop: read_a from buffer k % 2, the prefetches,    *)
(* mfma_k; then store_a into the other buffer.                             *)
weighed(c, w) == \A v \in WaveId : lds[c].b_scale[v] = this(c, w)
mfma_k(c, w, k) ==
  IF /\ \A v \in WaveId : lds[c].a[k % 2][v] = <<rows(c, w), k>>
     /\ wave[c][w].bf[k % 2] = <<this(c, w), k>>
     /\ weighed(c, w) /\ \A v \in WaveId : lds[c].a_scale[v] = rows(c, w)
  THEN k ELSE -1

Read(c, w) ==
  LET x == wave[c][w]  h == x.k % 2 IN
  /\ at(c, w, "read")
  /\ goto(c, w, "store",
          [x EXCEPT !.acc = Append(@, mfma_k(c, w, x.k)),
                    !.aTmp[h] = load_a(c, w, x.voff, clamp(x.k + 2)),
                    !.bf[1 - h] = load_b(c, w, clamp(x.k + 1))])
  /\ UNCHANGED <<layers, layer, kernel, arrived, lds, a2q, dq2, out>>

store_a(c, w) == LET x == wave[c][w]  h == 1 - (x.k % 2) IN
  [lds EXCEPT ![c].a[h][w] = x.aTmp[h]]

Store(c, w) ==
  LET x == wave[c][w] IN
  /\ at(c, w, "store")
  /\ lds' = store_a(c, w)
  /\ sync(c, w, IF x.k + 1 < K THEN "read"
                ELSE IF kernel = "n2_phase2" THEN "emit" ELSE "silu",
          [x EXCEPT !.k = @ + 1])
  /\ UNCHANGED <<layers, layer, kernel, a2q, dq2, out>>

-----------------------------------------------------------------------------
(* The activation, and the maximum of the wave's columns into the shared   *)
(* one by atomicMax; it is masked with the tokens in LDS.                  *)
exact(c, w) == wave[c][w].acc = [i \in 1 .. K |-> i - 1]

Silu(c, w) ==
  /\ at(c, w, "silu")
  /\ lds' = [lds EXCEPT ![c].amax[group(w)] = @ \cup
       {IF exact(c, w) /\ lds[c].tok = rows(c, w)
        THEN <<wave[c][w].task, w>> ELSE Bad}]
  /\ sync(c, w, "quant", wave[c][w])
  /\ UNCHANGED <<layers, layer, kernel, a2q, dq2, out>>

max_of(c, w, j) == lds[c].amax[j] =
  {<<wave[c][w].task, v>> : v \in {u \in WaveId : group(u) = j}}

Quant(c, w) ==
  /\ at(c, w, "quant")
  /\ lds' = [lds EXCEPT ![c].a2[w] =
       IF exact(c, w) /\ max_of(c, w, group(w)) THEN this(c, w) ELSE Bad]
  /\ sync(c, w, "emit", wave[c][w])
  /\ UNCHANGED <<layers, layer, kernel, a2q, dq2, out>>

(* The tile as a wave finds it, and its scales.                            *)
tile(c, w) == \A v \in WaveId : lds[c].a2[v] = this(c, w)
maxima(c, w) == \A j \in 0 .. Kb - 1 : max_of(c, w, j)

next(c, w) == LET t == wave[c][w].task + Ctas IN
  begun(t, num_tasks)

leave(c, w) == sync(c, w, next(c, w).pc, next(c, w))

(* n2_phase1: each wave stores its rows of the tile, of all columns, and   *)
(* all store the same scales.                                              *)
Handoff(c, w) ==
  LET b == block(c, w)  g == chunk(c, w) IN
  /\ at(c, w, "emit") /\ kernel = "n2_phase1"
  /\ a2q' = [a2q EXCEPT ![b][g][w] = IF tile(c, w) THEN rows(c, w) ELSE Bad]
  /\ dq2' = [dq2 EXCEPT ![b][g] = IF maxima(c, w) THEN rows(c, w) ELSE Bad]
  /\ leave(c, w)
  /\ UNCHANGED <<layers, layer, kernel, lds, out>>

(* Atomic adds to the rows of the block's tokens, one at a time by nature  *)
(* but commuting; padding is masked.  Only the tokens in LDS say which row.*)
added(c, w, value) ==
  LET b == lds[c].tok[2] IN
  [t \in Token |-> out[t] (+) SetToBag(
     {<<block(c, w), i, chunk(c, w), w, value>> :
        i \in {v \in WaveId : b \in Blocks /\ token(b, v) = t}})]

EmitFused(c, w) ==
  /\ at(c, w, "emit") /\ kernel = "n1g"
  /\ out' = added(c, w, tile(c, w) /\ maxima(c, w) /\ weighed(c, w))
  /\ leave(c, w)
  /\ UNCHANGED <<layers, layer, kernel, lds, a2q, dq2>>

Emit2(c, w) ==
  /\ at(c, w, "emit") /\ kernel = "n2_phase2"
  /\ out' = added(c, w, exact(c, w))
  /\ leave(c, w)
  /\ UNCHANGED <<layers, layer, kernel, lds, a2q, dq2>>

-----------------------------------------------------------------------------
Wave(c, w) == \/ Setup(c, w) \/ Setup2(c, w) \/ Scales(c, w) \/ First(c, w)
              \/ Read(c, w) \/ Store(c, w) \/ Silu(c, w) \/ Quant(c, w)
              \/ Handoff(c, w) \/ EmitFused(c, w) \/ Emit2(c, w)

Next == Layer \/ Phase2 \/ \E c \in Cta, w \in WaveId : Wave(c, w)

Spec == Init /\ [][Next]_vars

Ended == done /\ layer = Len(layers) /\ kernel # "n2_phase1"

-----------------------------------------------------------------------------
TypeOK ==
  /\ layer \in 0 .. Len(layers) /\ kernel \in Kernel \cup {"none"}
  /\ \A c \in Cta, w \in WaveId :
       /\ wave[c][w].pc \in {"setup", "scales", "first", "read", "store", "silu",
                             "quant", "emit", "done"}
       /\ wave[c][w].k \in 0 .. K
       /\ arrived[c] \in SUBSET WaveId \ {WaveId}

(* When a layer is done, the row of each token has exactly one addend for  *)
(* each of its sorted rows, chunk and wave, made of every K group of its   *)
(* own task once, whatever the waves' interleaving, whatever task or layer *)
(* used the LDS and the hand-over buffers before; padding added nothing    *)
(* (n1g_fused_moe, n2_phase1, n2_phase2).                                  *)
OutputExact ==
  done /\ kernel \in {"n1g", "n2_phase2"} =>
    \A t \in Token : out[t] = SetToBag(
      {<<b, i, g, w, TRUE>> : <<b, i, g, w>> \in
         {x \in Blocks \X WaveId \X (0 .. chunks - 1) \X WaveId :
            token(x[1], x[2]) = t}})

(* Every row the second kernel is going to read was written by this        *)
(* layer's first one (n2_phase1: "Every row below nvi[0] is overwritten"). *)
HandoffFresh ==
  kernel = "n2_phase2" => \A b \in Blocks, g \in 0 .. Chunks - 1 :
    /\ dq2[b][g] = <<layer, b>>
    /\ \A w \in WaveId : a2q[b][g][w] = <<layer, b>>
=============================================================================
