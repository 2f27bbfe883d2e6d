----------------------------- MODULE FusedSort -----------------------------
(* The sort of a pull arm's plan kernel (kernels/decode/k0d_fused.hip): one *)
(* CTA turns the gathered routes of all ranks into the gather map and the  *)
(* expert segments of its rank.  Nothing is claimed from a cursor: pairs   *)
(* are counted by expert and by chunk, the counts become first rows, and a *)
(* pair's row is its rank among the lanes of its wave that go to the same  *)
(* expert, after the waves before it in its chunk.  The result is the      *)
(* stable sort of the pairs.                                               *)
(*                                                                         *)
(* The lanes of a wave act in lock step; between two barriers waves act in *)
(* any order, a wave's stretch being one step.  Ownership and its prefix   *)
(* sums are taken as computed (RoutePlan and WaveScan are about those). A  *)
(* weight is its pair's index.  Rows carry the launch that wrote them.     *)
EXTENDS Integers, FiniteSets, FiniteSetsExt, SequencesExt

CONSTANTS World, T, TOPK, E,
          Groups,      \* groups of waves, one chunk each (4)
          Waves,       \* waves of a group (4)
          Lanes,       \* lanes of a wave (64)
          BlockM,      \* rows of a GEMM block
          T_loc_max,   \* rows of gath
          PADMAX,      \* rows of sti
          Cur,         \* the rank
          Inputs,      \* possible all_ids: pair -> expert of any rank
          MaxLaunch    \* bound: launches

N == World * T
n == N * TOPK
Chunk == Waves * Lanes
NCHUNK == (n + Chunk - 1) \div Chunk
Wave == (0 .. Groups - 1) \X (0 .. Waves - 1)
Threads == Groups * Chunk
Expert == 0 .. E - 1
Pair == 0 .. n - 1
Token == 0 .. N - 1

FusedSortAssumption ==
  /\ World \in Nat \ {0} /\ T \in Nat \ {0} /\ TOPK \in Nat \ {0}
  /\ E \in Nat \ {0} /\ Groups \in Nat \ {0} /\ Waves \in Nat \ {0}
  /\ Lanes \in Nat \ {0} /\ BlockM \in Nat \ {0} /\ Cur \in 0 .. World - 1
  /\ T_loc_max \in Nat /\ PADMAX \in Nat /\ MaxLaunch \in Nat
  /\ Inputs \subseteq [Pair -> 0 .. World * E - 1]

GatherBit == 1
SegmentBit == 2

VARIABLES phase,      \* the stretch between two barriers
          left,       \* the waves that have it still to do
          launch, all_ids,
          c0,         \* first chunk of the turn
          s_cnt, s_ccnt, s_erb, s_cur, s_wcnt,
          nvi,        \* <<padded rows, tokens>>
          gath, sti, sei,
          perr,
          stray       \* this launch wrote a row behind sti's end

lds == <<s_cnt, s_ccnt, s_erb, s_cur, s_wcnt>>
results == <<nvi, gath, sti, sei, perr, stray>>
vars == <<phase, left, launch, all_ids, c0, lds, results>>

Blank == [launch |-> 0]
rows(Val) == [launch : Nat, val : Val] \cup {Blank}
stamp(v) == [launch |-> launch, val |-> v]

TypeOK ==
  /\ phase \in {"clear", "gather", "count", "segments", "labels", "chunks", "pad",
                "load", "match", "store", "done"}
  /\ left \subseteq Wave /\ launch \in 0 .. MaxLaunch /\ all_ids \in Inputs
  /\ c0 \in Nat
  /\ s_cnt \in [Expert -> Nat] /\ s_erb \in [0 .. E -> Nat]
  /\ s_ccnt \in [0 .. NCHUNK - 1 -> [Expert -> Nat]]
  /\ s_cur \in [0 .. Groups - 1 -> [Expert -> Nat]]
  /\ s_wcnt \in [Wave -> [Expert -> 0 .. Lanes]]
  /\ nvi \in Nat \X Nat
  /\ gath \in [0 .. T_loc_max - 1 -> rows((0 .. World - 1) \X (0 .. T - 1))]
  /\ sti \in [0 .. PADMAX - 1 -> rows(Nat \X (0 .. TOPK) \X (Pair \cup {-1}))]
  /\ sei \in [0 .. PADMAX \div BlockM - 1 -> rows(Expert)]
  /\ perr \subseteq {GatherBit, SegmentBit} /\ stray \in BOOLEAN

Init ==
  /\ phase = "done" /\ left = {} /\ launch = 0 /\ all_ids \in Inputs /\ c0 = 0
  /\ s_cnt = [e \in Expert |-> 0] /\ s_erb = [e \in 0 .. E |-> 0]
  /\ s_ccnt = [c \in 0 .. NCHUNK - 1 |-> [e \in Expert |-> 0]]
  /\ s_cur = [g \in 0 .. Groups - 1 |-> [e \in Expert |-> 0]]
  /\ s_wcnt = [w \in Wave |-> [e \in Expert |-> 0]]
  /\ nvi = <<0, 0>>
  /\ gath = [t \in 0 .. T_loc_max - 1 |-> Blank]
  /\ sti = [p \in 0 .. PADMAX - 1 |-> Blank]
  /\ sei = [b \in 0 .. PADMAX \div BlockM - 1 |-> Blank]
  /\ perr = {} /\ stray = FALSE

-----------------------------------------------------------------------------
(* A wave does its stretch; the last one opens the barrier.                *)
follows(w, label) == /\ w \in left
                     /\ left' = IF left = {w} THEN Wave ELSE left \ {w}
                     /\ phase' = IF left = {w} THEN label ELSE phase

(* Thread tid is a lane of wave <<g, v>>; a loop of the CTA over indices   *)
(* gives index i to thread i % Threads.                                    *)
thread(w) == {w[1] * Chunk + w[2] * Lanes + l : l \in 0 .. Lanes - 1}
share(w, S) == {i \in S : i % Threads \in thread(w)}

owned(p, g) == \E s \in 0 .. TOPK - 1 : all_ids[g * TOPK + s] \div E = p
tof(p, g) == Cardinality({h \in 0 .. g - 1 : owned(p, h)})
tloc(p) == Cardinality({h \in Token : owned(p, h)})
local(j) == all_ids[j] \div E = Cur
le(j) == all_ids[j] - Cur * E

Launch == /\ phase = "done" /\ launch < MaxLaunch
          /\ launch' = launch + 1
          /\ all_ids' \in Inputs
          /\ phase' = "clear" /\ left' = Wave
          /\ stray' = FALSE
          /\ UNCHANGED <<c0, lds, nvi, gath, sti, sei, perr>>

(* The head: counters and the error word are cleared, the latter by        *)
(* thread 0.  Which thread clears which entry of s_ccnt makes no difference.*)
Clear(w) ==
  /\ phase = "clear" /\ follows(w, "gather")
  /\ s_cnt' = [e \in Expert |-> IF e \in share(w, Expert) THEN 0 ELSE s_cnt[e]]
  /\ s_ccnt' = [c \in DOMAIN s_ccnt |-> [e \in Expert |->
                  IF c * E + e \in share(w, 0 .. NCHUNK * E - 1) THEN 0
                  ELSE s_ccnt[c][e]]]
  /\ perr' = IF 0 \in thread(w) THEN {} ELSE perr
  /\ UNCHANGED <<launch, all_ids, c0, s_erb, s_cur, s_wcnt, nvi, gath, sti, sei,
                 stray>>

(* "Build the gather map."                                                 *)
Gather(w) ==
  LET mine == {g \in share(w, Token) : owned(Cur, g)} IN
  /\ phase = "gather" /\ follows(w, "count")
  /\ nvi' = IF 0 \in thread(w) THEN [nvi EXCEPT ![2] = tloc(Cur)] ELSE nvi
  /\ gath' = [t \in DOMAIN gath |->
                IF \E g \in mine : tof(Cur, g) = t
                THEN LET g == CHOOSE x \in mine : tof(Cur, x) = t
                     IN stamp(<<g \div T, g % T>>)
                ELSE gath[t]]
  /\ perr' = perr \cup {GatherBit : g \in {x \in mine : tof(Cur, x) >= T_loc_max}}
  /\ UNCHANGED <<launch, all_ids, c0, lds, sti, sei, stray>>

(* "Count local-expert pairs", with LDS atomics.                           *)
Count(w) ==
  LET of(e, S) == Cardinality({j \in share(w, S) : local(j) /\ le(j) = e}) IN
  /\ phase = "count" /\ follows(w, "segments")
  /\ s_cnt' = [e \in Expert |-> s_cnt[e] + of(e, Pair)]
  /\ s_ccnt' = [c \in DOMAIN s_ccnt |-> [e \in Expert |->
                  s_ccnt[c][e] + of(e, {j \in Pair : j \div Chunk = c})]]
  /\ UNCHANGED <<launch, all_ids, c0, s_erb, s_cur, s_wcnt, results>>

padded(m) == ((m + BlockM - 1) \div BlockM) * BlockM
first_row(e) == MapThenSumSet(LAMBDA x : padded(s_cnt[x]), 0 .. e - 1)

(* "Build padded expert segments", by thread 0.                            *)
Segments(w) ==
  /\ phase = "segments" /\ follows(w, "labels")
  /\ IF 0 \in thread(w)
     THEN /\ s_erb' = [e \in 0 .. E |-> first_row(e)]
          /\ nvi' = [nvi EXCEPT ![1] = first_row(E)]
     ELSE UNCHANGED <<s_erb, nvi>>
  /\ UNCHANGED <<launch, all_ids, c0, s_cnt, s_ccnt, s_cur, s_wcnt, gath, sti, sei,
                 perr, stray>>

blocks_of(e) == s_erb[e] \div BlockM .. s_erb[e + 1] \div BlockM - 1
bcap == PADMAX \div BlockM

Labels(w) ==
  LET mine == share(w, Expert) IN
  /\ phase = "labels" /\ follows(w, "chunks")
  /\ sei' = [b \in DOMAIN sei |->
               IF \E e \in mine : b \in blocks_of(e)
               THEN stamp(CHOOSE e \in mine : b \in blocks_of(e)) ELSE sei[b]]
  /\ perr' = perr \cup {SegmentBit : e \in {x \in mine :
                                            \E b \in blocks_of(x) : b >= bcap}}
  /\ UNCHANGED <<launch, all_ids, c0, lds, nvi, gath, sti, stray>>

(* A chunk's count of an expert becomes its first row there.               *)
Chunks(w) ==
  /\ phase = "chunks" /\ follows(w, "pad")
  /\ s_ccnt' = [c \in DOMAIN s_ccnt |-> [e \in Expert |->
       IF e \in share(w, Expert)
       THEN s_erb[e] + MapThenSumSet(LAMBDA d : s_ccnt[d][e], 0 .. c - 1)
       ELSE s_ccnt[c][e]]]
  /\ UNCHANGED <<launch, all_ids, c0, s_cnt, s_erb, s_cur, s_wcnt, results>>

(* "Initialize padding rows": all rows of the segments, the ones behind    *)
(* the end of sti as well.                                                 *)
Pad(w) ==
  LET mine == share(w, 0 .. nvi[1] - 1) IN
  /\ phase = "pad" /\ follows(w, "load")
  /\ sti' = [p \in DOMAIN sti |->
               IF p \in mine THEN stamp(<<nvi[2], TOPK, -1>>) ELSE sti[p]]
  /\ stray' = (stray \/ \E p \in mine : p >= PADMAX)
  /\ c0' = 0
  /\ UNCHANGED <<launch, all_ids, lds, nvi, gath, sei, perr>>

-----------------------------------------------------------------------------
(* A turn: group g takes chunk c0 + g, if there is one; a lane takes a     *)
(* pair, if there is one.                                                  *)
chunk(w) == c0 + w[1]
act(w) == chunk(w) < NCHUNK
pair(w, l) == chunk(w) * Chunk + w[2] * Lanes + l
lanes_to(w, e) == {l \in 0 .. Lanes - 1 : pair(w, l) \in Pair /\ local(pair(w, l))
                                          /\ le(pair(w, l)) = e}

Load(w) ==
  LET mine == {e \in Expert : (e % Chunk) \div Lanes = w[2]} IN
  /\ phase = "load" /\ follows(w, "match")
  /\ IF act(w)
     THEN /\ s_cur' = [s_cur EXCEPT ![w[1]] = [e \in Expert |->
                         IF e \in mine THEN s_ccnt[chunk(w)][e] ELSE @[e]]]
          /\ s_wcnt' = [s_wcnt EXCEPT ![w] = [e \in Expert |-> 0]]
     ELSE UNCHANGED <<s_cur, s_wcnt>>
  /\ UNCHANGED <<launch, all_ids, c0, s_cnt, s_ccnt, s_erb, results>>

(* __match_any_sync: the first of the lanes to an expert tells how many.   *)
Match(w) ==
  /\ phase = "match" /\ follows(w, "store")
  /\ s_wcnt' = IF act(w)
               THEN [s_wcnt EXCEPT ![w] = [e \in Expert |->
                       IF lanes_to(w, e) = {} THEN @[e]
                       ELSE Cardinality(lanes_to(w, e))]]
               ELSE s_wcnt
  /\ UNCHANGED <<launch, all_ids, c0, s_cnt, s_ccnt, s_erb, s_cur, results>>

(* Its rank among the pairs of its chunk that go to the same expert.       *)
rank(w, l) ==
  LET e == le(pair(w, l)) IN
  Cardinality({x \in lanes_to(w, e) : x < l})
  + MapThenSumSet(LAMBDA v : s_wcnt[<<w[1], v>>][e], 0 .. w[2] - 1)

(* "row": where the pair of lane l goes; what is stored there.             *)
row(w, l) == s_cur[w[1]][le(pair(w, l))] + rank(w, l)
entry(j) == <<tof(Cur, j \div TOPK), j % TOPK, j>>

Store(w) ==
  LET mine == IF act(w) THEN UNION {lanes_to(w, e) : e \in Expert} ELSE {}
      last == c0 + Groups >= NCHUNK
  IN
  /\ phase = "store" /\ follows(w, IF last THEN "done" ELSE "load")
  /\ sti' = [p \in DOMAIN sti |->
               IF \E l \in mine : row(w, l) = p
               THEN stamp(entry(pair(w, CHOOSE l \in mine : row(w, l) = p)))
               ELSE sti[p]]
  /\ perr' = perr \cup {SegmentBit : l \in {x \in mine : row(w, x) >= PADMAX}}
  /\ c0' = IF left = {w} THEN c0 + Groups ELSE c0
  /\ UNCHANGED <<launch, all_ids, lds, nvi, gath, sei, stray>>

Next == \/ Launch
        \/ \E w \in Wave : \/ Clear(w) \/ Gather(w) \/ Count(w) \/ Segments(w)
                           \/ Labels(w) \/ Chunks(w) \/ Pad(w) \/ Load(w)
                           \/ Match(w) \/ Store(w)

Spec == Init /\ [][Next]_vars

-----------------------------------------------------------------------------
sorted == launch > 0 /\ phase = "done"
pairs_of(e) == SetToSortSeq({j \in Pair : local(j) /\ le(j) = e}, <)

(* After a launch without an error bit the segment of every expert is the  *)
(* stable sort of its pairs, then padding up to a whole number of blocks,  *)
(* labelled with the expert; and the gather map names, for every row the   *)
(* entries speak of, the token it is of: whatever the launch before left   *)
(* behind (k0d_fused.hip:134-271).                                         *)
SegmentsExact ==
  sorted /\ perr = {} =>
    /\ nvi = <<s_erb[E], tloc(Cur)>>
    /\ \A g \in Token : owned(Cur, g) =>
         gath[tof(Cur, g)] = stamp(<<g \div T, g % T>>)
    /\ \A e \in Expert :
         /\ s_erb[e + 1] - s_erb[e] = padded(Len(pairs_of(e)))
         /\ \A i \in 0 .. s_erb[e + 1] - s_erb[e] - 1 :
              sti[s_erb[e] + i] = stamp(IF i < Len(pairs_of(e))
                                        THEN entry(pairs_of(e)[i + 1])
                                        ELSE <<tloc(Cur), TOPK, -1>>)
         /\ \A b \in blocks_of(e) : sei[b] = stamp(e)

(* Too many tokens or rows for a buffer show in the error word, and so     *)
(* does every row that was written behind the end (k0d_fused.hip:141,      *)
(* 175, 239).                                                              *)
OverflowReported ==
  sorted => /\ nvi[2] > T_loc_max => GatherBit \in perr
            /\ nvi[1] > PADMAX => SegmentBit \in perr
            /\ stray => SegmentBit \in perr
=============================================================================
