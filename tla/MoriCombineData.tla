-------------------------- MODULE MoriCombineData ---------------------------
(* The bytes of a combine inside a node: every row a rank received is put  *)
(* in a slot of the token's owner, copied, cast to FP8, or quantised       *)
(* block by block to FP8 or FP4 with a scale per block; after the barrier  *)
(* the warps of the owner share a token, and each adds up its part of the  *)
(* slots.  Which lane touches which elements, by which vectors, and with   *)
(* the scale of which block, depends on sizes, on alignment and on the     *)
(* launch: what is checked is that it does not show.                       *)
EXTENDS Integers, FiniteSets, Sequences, FiniteSetsExt

CONSTANTS Lanes,     \* warpSize, 64
          FastDim,   \* the hidden dimensions the fast kernels divide, 512
          FastTop,   \* the top-k they exist for, 8 and 9
          Finite,    \* the largest magnitude FP8 holds unscaled
          Scenarios

(* A scenario: codec, hidden and scaleDim; world; the rows slots refer to, *)
(* 0 where a slot is a duplicate or dropped; warps that share the token;   *)
(* whether weights go with the rows; the magnitudes of each row.           *)
MoriCombineDataAssumption ==
  /\ Lanes \in {8, 16, 32, 64} /\ Finite \in Nat \ {0} /\ FastDim \in Nat \ {0}
  /\ \A x \in Scenarios :
       /\ x.codec \in {"copy", "cast", "fp8", "fp4"}
       /\ {x.hidden, x.scaleDim, x.warps, x.world} \subseteq Nat \ {0}
       /\ x.weights \in BOOLEAN
       /\ \A i, j \in DOMAIN x.slots : x.slots[i] = x.slots[j] =>
                                         i = j \/ x.slots[i] = 0
       /\ x.codec = "fp4" => LET b == (x.hidden + x.scaleDim - 1) \div x.scaleDim
                             IN b % 2 = 0 /\ b * (x.scaleDim - 1) < x.hidden

VARIABLES s,        \* the scenario
          staged,   \* what is in each slot: elements (bytes of FP4), scales
          parts,    \* the parts of the token that are added up
          out,      \* the sums, with room after them
          wout      \* the rows whose weights are added up

vars == <<s, staged, parts, out, wout>>

Stale == -1
Wrong == -2
Empty == <<>>

rows(x) == {x.slots[j] : j \in DOMAIN x.slots} \ {0}
blockElems == (s.hidden + s.scaleDim - 1) \div s.scaleDim
blocks == 0 .. s.scaleDim - 1
lanes(n) == 0 .. n - 1
blockEnd(sb) == LET e == (sb + 1) * blockElems
                IN IF e < s.hidden THEN e ELSE s.hidden
hiddenBytes == CASE s.codec = "copy" -> 2 * s.hidden
                 [] s.codec = "fp4" -> (s.hidden + 1) \div 2
                 [] OTHER -> s.hidden
combXferBytes ==
  hiddenBytes + (IF s.codec \in {"fp8", "fp4"} THEN 4 * s.scaleDim ELSE 0)
              + (IF s.weights THEN 4 * Len(s.slots) ELSE 0)

(* A run of w elements at offset at, and the runs of a loop from first.    *)
run(at, w) == [at |-> at, w |-> w]
strided(first, step, w, end) ==
  {run(first + k * step, w) : k \in 0 .. ((end - first - w) \div step)}
elements(R) == UNION {x.at .. x.at + x.w - 1 : x \in R}

-----------------------------------------------------------------------------
(* Rows are put in slots.                                                  *)

(* A warp copies Lanes vectors of 8 elements at a time, then single ones.  *)
WarpCopy(n) ==
  LET chunk == Lanes * 8
      whole == (n \div chunk) * chunk
  IN strided(0, 8, 8, whole) \cup strided(whole, 1, 1, n)

(* Vectors of 8, then of 4, as the addresses allow, then single elements.  *)
WarpCastBf16ToCombineInternalFp8(n, vec8, vec4) ==
  LET end8 == IF vec8 THEN (n \div 8) * 8 ELSE 0
      end4 == IF vec8 \/ vec4 THEN (n \div 4) * 4 ELSE 0
  IN strided(0, 8, 8, end8) \cup strided(end8, 4, 4, end4)
       \cup strided(end4, 1, 1, n)

(* The larger value comes down the lanes of a subwarp by halves.           *)
SubwarpReduceMax(val, sub) ==
  LET down[d \in 1 .. sub] ==
        LET v == IF 2 * d >= sub THEN val ELSE down[2 * d]
        IN [l \in lanes(sub) |->
              IF l + d < sub /\ v[l + d] > v[l] THEN v[l + d] ELSE v[l]]
  IN IF sub = 1 THEN val[0] ELSE down[1][0]

(* How a block is shared: sub lanes, k elements of each at a time.         *)
share(sub, k) == [sub |-> sub, k |-> k]
QuantizeShape(r) ==
  LET src == 2 * s.hidden * r
      dst == combXferBytes * r
      few(n) == IF s.scaleDim > 1 THEN Lanes \div n ELSE Lanes
  IN CASE blockElems % 8 = 0 /\ src % 8 = 0 /\ dst % 8 = 0 -> share(few(4), 8)
       [] blockElems % 4 = 0 /\ src % 8 = 0 /\ dst % 4 = 0 -> share(few(2), 4)
       [] blockElems % 2 = 0 /\ src % 4 = 0 /\ dst % 2 = 0 -> share(few(2), 2)
       [] OTHER -> share(Lanes, IF blockElems % 2 = 0 THEN 2 ELSE 1)

(* A lane of the subwarp: vectors while they fit, and what is left.        *)
QuantizeRuns(q, sb, l) ==
  LET base == sb * blockElems + l * q.k
      vecs == strided(base, q.sub * q.k, q.k, blockEnd(sb))
  IN vecs \cup strided(base + Cardinality(vecs) * q.sub * q.k, 1, 1, blockEnd(sb))

(* The largest magnitude of a block, over what its lanes looked at.        *)
maxAbs(row, q, sb) ==
  SubwarpReduceMax([l \in lanes(q.sub) |->
    Max({0} \cup {row[j] : j \in elements(QuantizeRuns(q, sb, l))})], q.sub)

(* A value put in with a scale saturates at it; 1.0 is written Finite.     *)
stored(v, m) == [v |-> IF v < m THEN v ELSE m, m |-> m]
mark(scale, yes) == [scale EXCEPT ![0] = IF yes THEN -@ ELSE @]

(* FP8: blocks that go beyond the range are scaled; a sign at the first    *)
(* scale tells that there is any.                                          *)
WarpQuantizeToFp8Blockwise(row, r) ==
  LET q == QuantizeShape(r)
      max == [sb \in blocks |-> maxAbs(row, q, sb)]
      scale == [sb \in blocks |-> IF max[sb] > Finite THEN max[sb] ELSE Finite]
      done(sb) == UNION {elements(QuantizeRuns(q, sb, l)) : l \in lanes(q.sub)}
  IN [elem |-> [j \in UNION {done(sb) : sb \in blocks} |->
                  stored(row[j], scale[CHOOSE sb \in blocks : j \in done(sb)])],
      scale |-> mark(scale, \E sb \in blocks : max[sb] > Finite)]

(* FP4: every block is scaled; two elements to a byte, the odd one at the  *)
(* end alone.  Blocks of 2 and of 4 times the warp go by subwarps of an    *)
(* eighth of it, without a look at the end.                                *)
WarpQuantizeToFp4Blockwise(row) ==
  LET fast == blockElems \in {2 * Lanes, 4 * Lanes} /\ s.hidden % blockElems = 0
      sub == IF fast THEN Lanes \div 8 ELSE Lanes
      k == IF fast THEN blockElems \div sub ELSE 1
      look(sb, l) == IF fast
                     THEN {run(sb * blockElems + l * k, k)}
                     ELSE strided(sb * blockElems + l, Lanes, 1, blockEnd(sb))
      max == [sb \in blocks |-> SubwarpReduceMax([l \in lanes(sub) |->
                Max({0} \cup {row[j] : j \in elements(look(sb, l))})], sub)]
      scale == [sb \in blocks |-> IF max[sb] > 0 THEN max[sb] ELSE Finite]
      value(j, sb) == IF j < s.hidden THEN stored(row[j], scale[sb])
                                      ELSE stored(0, scale[sb])
      first(sb) == (sb * blockElems) \div 2
      bytes(sb) == first(sb) .. ((blockEnd(sb) + 1) \div 2) - 1
  IN [elem |-> [p \in UNION {bytes(sb) : sb \in blocks} |->
                  LET sb == CHOOSE b \in blocks : p \in bytes(b)
                  IN <<value(2 * p, sb), value(2 * p + 1, sb)>>],
      scale |-> mark(scale, TRUE)]

(* A warp of the sender puts a row in its slot.                            *)
StageInput(r) ==
  LET row == s.data[r]
      plain(R) == [elem |-> [j \in elements(R) |-> stored(row[j], Finite)],
                   scale |-> Empty]
      vec(a) == (2 * s.hidden * r) % a = 0 /\ (combXferBytes * r) % a = 0
  IN /\ staged[r] = Empty
     /\ staged' = [staged EXCEPT ![r] =
          CASE s.codec = "copy" -> plain(WarpCopy(s.hidden))
            [] s.codec = "cast" ->
                 plain(WarpCastBf16ToCombineInternalFp8(s.hidden, vec(8), vec(4)))
            [] s.codec = "fp8" -> WarpQuantizeToFp8Blockwise(row, r)
            [] OTHER -> WarpQuantizeToFp4Blockwise(row)]
     /\ UNCHANGED <<s, parts, out, wout>>

-----------------------------------------------------------------------------
(* The owner adds up.                                                      *)

(* A token is cut among the warps, the last parts may be empty.            *)
dimPerWarp == (s.hidden + s.warps - 1) \div s.warps
dimOffset(p) == p * dimPerWarp
dimChunk(p) == IF dimOffset(p) >= s.hidden THEN 0
               ELSE Min({s.hidden - dimOffset(p), dimPerWarp})

(* The slots to add up: with few ranks the valid ones are moved to the     *)
(* front, and what follows them stays.                                     *)
valid == {j \in DOMAIN s.slots : s.slots[j] # 0}
srcPtrs ==
  IF s.world > 4 THEN s.slots
  ELSE [j \in DOMAIN s.slots |->
          IF j > Cardinality(valid) THEN s.slots[j]
          ELSE s.slots[CHOOSE i \in valid : Cardinality({h \in valid : h < i}) = j - 1]]
validAccumCount == IF s.world > 4 THEN Len(s.slots) ELSE Cardinality(valid)

(* Mutant: the fast kernels are taken for few ranks too.                   *)
useVec8Top8_any_world == /\ s.codec \in {"fp8", "fp4"} /\ ~s.weights
                         /\ s.hidden % FastDim = 0
                         /\ Len(s.slots) \in FastTop
                         /\ blockElems \in {2 * Lanes, 4 * Lanes}

(* The launch takes the kernels for a fixed top-k, vectors of 8 and blocks *)
(* of a known size where they fit, and where nothing is moved to the front.*)
useVec8Top8 == /\ s.codec \in {"fp8", "fp4"} /\ ~s.weights
               /\ s.hidden % FastDim = 0
               /\ Len(s.slots) \in FastTop /\ s.world > 4
               /\ blockElems \in {2 * Lanes, 4 * Lanes}

added == LET n == IF useVec8Top8 THEN Len(s.slots) ELSE validAccumCount
         IN {j \in 1 .. n : srcPtrs[j] # 0}
scaled(j) == LET sc == staged[srcPtrs[j]].scale IN sc # Empty /\ sc[0] < 0
anyScale == \E j \in added : scaled(j)
dstAligned(p, a) == (2 * dimOffset(p)) % a = 0
srcAligned(p, a) == \A j \in added : (combXferBytes * srcPtrs[j] + dimOffset(p)) % a = 0

(* Runs with the block whose scales they are multiplied by: one block for  *)
(* all, or the block of the first element of each.                         *)
within(R, sb) == {[at |-> x.at, w |-> x.w, sb |-> sb] : x \in R}
scaleWave(R, p) ==
  {[at |-> x.at, w |-> x.w, sb |-> (dimOffset(p) + x.at) \div blockElems] : x \in R}

(* Vectors as far as they go, then single elements.                        *)
VecRange(start, end, w) ==
  LET vecEnd == start + ((end - start) \div w) * w
  IN strided(start, w, w, vecEnd) \cup strided(vecEnd, 1, 1, end)

(* A part that does not begin with a block: block by block.                *)
SegmentBlockwiseVec(p, w) ==
  LET first == dimOffset(p)
      last == first + dimChunk(p)
  IN UNION {within(VecRange(Max({first, sb * blockElems}) - first,
                            Min({last, blockEnd(sb)}) - first, w), sb) :
              sb \in first \div blockElems .. (last - 1) \div blockElems}

single(p) == strided(0, 1, 1, dimChunk(p))
fixed == validAccumCount \in {1, 2, 4, 6, 8, 10}

(* The widest of some vectors that sizes and addresses allow; 0 for none.  *)
widest(p, n, W) ==
  Max({0} \cup {w \in W : /\ n % w = 0 /\ dstAligned(p, 4)
                          /\ srcAligned(p, IF w = 4 THEN 4 ELSE 8)})

(* FP8, the whole token, or a part of it.                                  *)
WarpAccumFp8DequantFull(p) ==
  LET w == widest(p, IF anyScale THEN blockElems ELSE s.hidden, {4, 8, 16})
  IN CASE ~fixed \/ w = 0 \/ (anyScale /\ s.scaleDim = 1) -> scaleWave(single(p), p)
       [] ~anyScale -> within(VecRange(0, s.hidden, w), 0)
       [] OTHER -> scaleWave(VecRange(0, s.hidden, w), p)

WarpAccumFp8DequantSegment(p) ==
  LET n == dimChunk(p)
      w == widest(p, IF anyScale THEN blockElems ELSE 0,
                  IF anyScale THEN {4, 8, 16} ELSE {4, 16})
  IN CASE n = 0 -> {}
       [] n > 0 /\ (~fixed \/ w = 0) -> scaleWave(single(p), p)
       [] n > 0 /\ fixed /\ w > 0 /\ ~anyScale -> within(VecRange(0, n, w), 0)
       [] OTHER -> IF dimOffset(p) % blockElems = 0
                   THEN scaleWave(VecRange(0, n, w), p)
                   ELSE SegmentBlockwiseVec(p, w)

(* The fast kernels, FP8 and FP4: vectors of 8 where the part allows them. *)
WarpAccumCombineDequantBlockVec8Top8(p) ==
  LET n == dimChunk(p)
  IN IF s.warps = 1 \/ (dimOffset(p) % 8 = 0 /\ n % 8 = 0)
     THEN scaleWave(VecRange(0, n, 8), p) ELSE scaleWave(single(p), p)

(* FP4: pairs of a block and the odd one at its end; parts one by one.     *)
WarpAccumFp4Dequant(p) ==
  IF s.warps = 1
  THEN UNION {within({run(j, 1) : j \in sb * blockElems .. blockEnd(sb) - 1}, sb) :
                sb \in blocks}
  ELSE scaleWave(single(p), p)

(* Plain FP8: vectors of 8, then of 4, as the addresses allow.             *)
WarpAccumCombineInternalFp8ToBf16(p) ==
  LET n == dimChunk(p)
      vec4 == srcAligned(p, 4)
      vec8 == /\ validAccumCount \in {2, 4, 8}
              /\ dstAligned(p, 8) /\ srcAligned(p, 8)
      end8 == IF vec8 THEN (n \div 8) * 8 ELSE 0
      end4 == IF vec8 \/ vec4 THEN (n \div 4) * 4 ELSE 0
  IN strided(0, 8, 8, end8) \cup strided(end8, 4, 4, end4)
       \cup strided(end4, 1, 1, n)

(* Elements as they are: pairs by whole warps, then single ones.           *)
WarpAccum(p) ==
  LET whole == (dimChunk(p) \div (2 * Lanes)) * 2 * Lanes
  IN strided(0, 2, 2, whole) \cup strided(whole, 1, 1, dimChunk(p))

AccumRuns(p) ==
  CASE s.codec = "copy" -> within(WarpAccum(p), 0)
    [] s.codec = "cast" -> within(WarpAccumCombineInternalFp8ToBf16(p), 0)
    [] useVec8Top8 -> WarpAccumCombineDequantBlockVec8Top8(p)
    [] s.codec = "fp4" /\ ~useVec8Top8 -> WarpAccumFp4Dequant(p)
    [] OTHER -> IF s.warps = 1 THEN WarpAccumFp8DequantFull(p)
                               ELSE WarpAccumFp8DequantSegment(p)

(* An element of a slot times the scale of a block, the sign of the first  *)
(* dropped; without scales times 1.0.                                      *)
scaleOf(j, sb) == LET sc == staged[srcPtrs[j]].scale
                  IN CASE ~scaled(j) -> Finite
                       [] scaled(j) /\ sb = 0 /\ sc[0] < 0 -> -sc[0]
                       [] OTHER -> sc[sb]
element(j, g) == LET e == staged[srcPtrs[j]].elem
                 IN IF s.codec = "fp4" THEN e[g \div 2][1 + (g % 2)] ELSE e[g]
term(j, g, sb) == LET e == element(j, g)
                  IN IF e.v = 0 THEN 0
                     ELSE IF e.m = scaleOf(j, sb) THEN e.v ELSE Wrong

(* After the barrier a warp of the owner adds up its part, and the warp of *)
(* the last part the weights.  Two lanes of one mind about an element do no*)
(* harm.                                                                   *)
Accumulate(p) ==
  LET R == AccumRuns(p)
      sum(g, sb) == MapThenSumSet(LAMBDA j : term(j, g, sb), added)
      sums(g) == {sum(g, x.sb) : x \in {y \in R : /\ y.at <= g - dimOffset(p)
                                                  /\ g - dimOffset(p) < y.at + y.w}}
  IN /\ \A r \in rows(s) : staged[r] # Empty
     /\ p \notin parts
     /\ parts' = parts \cup {p}
     /\ out' = [g \in DOMAIN out |->
          LET x == sums(g)
          IN CASE x = {} -> out[g]
               [] Cardinality(x) = 1 -> CHOOSE y \in x : TRUE
               [] OTHER -> Wrong]
     /\ wout' = IF s.weights /\ p = s.warps - 1 THEN rows(s) ELSE wout
     /\ UNCHANGED <<s, staged>>

-----------------------------------------------------------------------------
Init == /\ s \in Scenarios
        /\ staged = [r \in rows(s) |-> Empty]
        /\ parts = {}
        /\ out = [g \in 0 .. s.hidden + 15 |-> Stale]
        /\ wout = {}

Finished == parts = 0 .. s.warps - 1 /\ UNCHANGED vars

Next == \/ \E r \in rows(s) : StageInput(r)
        \/ \E p \in 0 .. s.warps - 1 : Accumulate(p)
        \/ Finished

Spec == Init /\ [][Next]_vars

-----------------------------------------------------------------------------
TypeOK ==
  /\ \A r \in rows(s) : staged[r] # Empty =>
       DOMAIN staged[r].elem = 0 .. (IF s.codec = "copy" THEN s.hidden
                                                        ELSE hiddenBytes) - 1
  /\ parts \subseteq 0 .. s.warps - 1 /\ wout \subseteq rows(s)

(* A part that is done holds the sum over the rows the token went to, each *)
(* once and scaled back as it was scaled, whatever lane, vector or fast    *)
(* kernel it went through, and nothing else is touched.                    *)
SumExact ==
  /\ \A g \in DOMAIN out :
       out[g] = IF \E p \in parts : /\ dimOffset(p) <= g
                                    /\ g < dimOffset(p) + dimChunk(p)
                THEN MapThenSumSet(LAMBDA r : s.data[r][g], rows(s)) ELSE Stale
  /\ s.weights /\ s.warps - 1 \in parts => wout = rows(s)
=============================================================================
