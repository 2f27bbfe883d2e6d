------------------------------ MODULE DestSort ------------------------------
(* The counting sort of the received <token, expert> pairs into expert     *)
(* segments padded to whole GEMM blocks (kernels/hkp/hkp_sort.hpp, and the *)
(* same code inlined in k0d_mega, k0d_dsort and k0pf3_dsort).  CTA 0 plans *)
(* the segments; after a grid barrier every thread of the grid pads and    *)
(* scatters its share, claiming positions from one atomic cursor per       *)
(* expert.  k0pf4_dsort also counts on the whole grid, one histogram per   *)
(* CTA, with one more grid barrier (hierarchical).                         *)
(*                                                                         *)
(* A pair is its index j = token * TOPK + slot; the entry that the code    *)
(* packs from token and slot determines it.  Entries carry the launch that *)
(* wrote them, which is how the properties tell stale ones apart.  CTAs    *)
(* have one thread: the grid-stride loops deal work to the threads of the  *)
(* grid alike.  The grid barrier is GridBarrier's, without time-outs.      *)
EXTENDS Integers, FiniteSets

CONSTANTS Grid,          \* threads of the grid, one per CTA
          E,             \* experts of the rank
          BlockM,        \* rows of a GEMM block
          PADMAX,        \* positions of sti
          Inputs,        \* possible recv_eid: pair -> expert, E: not ours
          Schemes,       \* TRUE: counted by the whole grid (k0pf4_dsort)
          MaxLaunch      \* bound: launches

Cta == 0 .. Grid - 1
Expert == 0 .. E - 1
Position == 0 .. PADMAX - 1
Padding == -1

DestSortAssumption ==
         /\ Grid \in Nat \ {0} /\ E \in Nat \ {0} /\ BlockM \in Nat \ {0}
         /\ PADMAX \in Nat /\ MaxLaunch \in Nat /\ Schemes \subseteq BOOLEAN
         /\ \A eid \in Inputs :
              /\ IsFiniteSet(DOMAIN eid)
              /\ eid \in [0 .. Cardinality(DOMAIN eid) - 1 -> 0 .. E]

PadBit == 2
ScatterBit == 4096

VARIABLES pc, launch, recv_eid,
          hierarchical,  \* the kernel's way of counting, in Schemes
          hcnt,        \* hcnt[e][c]: the pairs of e in c's slice
          cnt, erb,    \* scratch: count and first position per expert
          cur,         \* scratch: cursor per expert
          nvi, sei, sti,
          pperr,
          e_next,      \* loop index of the reduction and the scan
          idx, pos     \* a thread's loop index and claimed position

input == <<recv_eid, hierarchical>>
scratch == <<cnt, erb, cur>>
vars == <<pc, launch, input, hcnt, scratch, nvi, sei, sti, pperr, e_next, idx, pos>>

Pair == DOMAIN recv_eid
stamp(v) == [launch |-> launch, val |-> v]

TypeOK ==
  /\ pc \in [Cta -> {"count", "bar1", "reduce", "add", "scan", "bar2",
                     "pad", "scatter", "store", "done"}]
  /\ launch \in 0 .. MaxLaunch
  /\ recv_eid \in Inputs /\ hierarchical \in Schemes
  /\ hcnt \in [Expert -> [Cta -> Nat]]
  /\ cnt \in [Expert -> Nat] /\ erb \in [0 .. E -> Nat] /\ cur \in [Expert -> Nat]
  /\ nvi \in Nat
  /\ sei \in [0 .. PADMAX \div BlockM - 1 -> [launch : Nat, val : Expert \cup {Padding}]]
  /\ sti \in [Position -> [launch : Nat, val : Nat \cup {Padding}]]
  /\ pperr \subseteq {PadBit, ScatterBit}
  /\ e_next \in Nat
  /\ idx \in [Cta -> Nat] /\ pos \in [Cta -> Nat]

Init ==
  /\ pc = [c \in Cta |-> "done"]
  /\ launch = 0
  /\ recv_eid \in Inputs
  /\ hierarchical \in Schemes
  /\ hcnt = [e \in Expert |-> [c \in Cta |-> 0]]
  /\ cnt = [e \in Expert |-> 0]
  /\ erb = [e \in 0 .. E |-> 0]
  /\ cur = [e \in Expert |-> 0]
  /\ nvi = 0
  /\ sei = [b \in 0 .. PADMAX \div BlockM - 1 |-> [launch |-> 0, val |-> Padding]]
  /\ sti = [p \in Position |-> [launch |-> 0, val |-> Padding]]
  /\ pperr = {}
  /\ e_next = 0
  /\ idx = [c \in Cta |-> 0]
  /\ pos = [c \in Cta |-> 0]

-----------------------------------------------------------------------------
goto(c, label) == pc' = [pc EXCEPT ![c] = label]
past(labels) == \A c \in Cta : pc[c] \notin labels

(* A replay: new pairs, everything else as the last launch left it.        *)
Launch == /\ \A c \in Cta : pc[c] = "done"
          /\ launch < MaxLaunch
          /\ launch' = launch + 1
          /\ recv_eid' \in Inputs
          /\ pc' = [c \in Cta |-> IF hierarchical THEN "count"
                                  ELSE IF c = 0 THEN "reduce" ELSE "bar2"]
          /\ UNCHANGED <<hierarchical, hcnt, scratch, nvi, sei, sti, pperr, e_next, idx,
                         pos>>

slice(c) == {j \in Pair : j % Grid = c}
count(e, S) == Cardinality({j \in S : recv_eid[j] = e})

(* Mutant: only the experts a CTA has pairs of are published.              *)
publish_nonzero(c) == [e \in Expert |->
  IF count(e, slice(c)) = 0 THEN hcnt[e]
  ELSE [hcnt[e] EXCEPT ![c] = count(e, slice(c))]]

(* count_partial_publish: each CTA overwrites its column of hcnt.          *)
publish(c) == [e \in Expert |-> [hcnt[e] EXCEPT ![c] = count(e, slice(c))]]

CountPartial(c) == /\ pc[c] = "count"
                   /\ hcnt' = publish(c)
                   /\ goto(c, "bar1")
                   /\ UNCHANGED <<launch, input, scratch, nvi, sei, sti, pperr,
                                  e_next, idx, pos>>

CrossCount(c) == /\ pc[c] = "bar1"
                 /\ past({"count"})
                 /\ goto(c, IF c = 0 THEN "reduce" ELSE "bar2")
                 /\ UNCHANGED <<launch, input, hcnt, scratch, nvi, sei, sti,
                                pperr, e_next, idx, pos>>

(* count by CTA 0 alone, or the zeroing before count_reduce adds up the    *)
(* columns of hcnt, one per turn.                                          *)
Reduce == /\ pc[0] = "reduce"
          /\ cnt' = [e \in Expert |-> IF hierarchical THEN 0 ELSE count(e, Pair)]
          /\ e_next' = 0
          /\ erb' = [erb EXCEPT ![0] = 0]
          /\ goto(0, IF hierarchical THEN "add" ELSE "scan")
          /\ UNCHANGED <<launch, input, hcnt, cur, nvi, sei, sti, pperr, idx, pos>>

AddColumn == /\ pc[0] = "add"
             /\ e_next < Grid
             /\ cnt' = [e \in Expert |-> cnt[e] + hcnt[e][e_next]]
             /\ e_next' = e_next + 1
             /\ UNCHANGED <<pc, launch, input, hcnt, erb, cur, nvi, sei, sti, pperr,
                            idx, pos>>

EndReduce == /\ pc[0] = "add"
             /\ e_next = Grid
             /\ e_next' = 0
             /\ goto(0, "scan")
             /\ UNCHANGED <<launch, input, hcnt, scratch, nvi, sei, sti, pperr, idx, pos>>

padded(n) == ((n + BlockM - 1) \div BlockM) * BlockM

(* scan: one expert per turn of the loop.                                  *)
Scan == /\ pc[0] = "scan"
        /\ e_next < E
        /\ erb' = [erb EXCEPT ![e_next + 1] = erb[e_next] + padded(cnt[e_next])]
        /\ e_next' = e_next + 1
        /\ UNCHANGED <<pc, launch, input, hcnt, cnt, cur, nvi, sei, sti, pperr,
                       idx, pos>>

blocks_of(e) == erb[e] \div BlockM .. erb[e + 1] \div BlockM - 1

(* Mutant: checked against the number of positions.                        *)
misfits_by_position(e) == \E b \in blocks_of(e) : b >= PADMAX
misfits(e) == \E b \in blocks_of(e) : b >= PADMAX \div BlockM

(* The end of scan, and cursors_sei.                                       *)
Cursors == /\ pc[0] = "scan"
           /\ e_next = E
           /\ nvi' = erb[E]
           /\ cur' = [e \in Expert |-> erb[e]]
           /\ sei' = [b \in DOMAIN sei |->
                        IF \E e \in Expert : b \in blocks_of(e)
                        THEN stamp(CHOOSE e \in Expert : b \in blocks_of(e))
                        ELSE sei[b]]
           /\ pperr' = pperr \cup {PadBit : e \in {x \in Expert : misfits(x)}}
           /\ goto(0, "bar2")
           /\ UNCHANGED <<launch, input, hcnt, cnt, erb, sti, e_next, idx, pos>>

(* The grid barrier after the plan.                                        *)
planned == past({"count", "bar1", "reduce", "add", "scan"})

CrossPlan(c) == /\ pc[c] = "bar2"
                /\ planned
                /\ goto(c, "pad")
                /\ idx' = [idx EXCEPT ![c] = c]
                /\ UNCHANGED <<launch, input, hcnt, scratch, nvi, sei, sti, pperr,
                               e_next, pos>>

(* pad: the positions behind the pairs of an expert, up to the segment's   *)
(* end.  Mutant: from the last pair on.                                    *)
pad_row_early(i) == erb[i \div BlockM] + cnt[i \div BlockM] + (i % BlockM) - 1
pad_row(i) == erb[i \div BlockM] + cnt[i \div BlockM] + (i % BlockM)

Pad(c) ==
  LET row == pad_row(idx[c])
      inside == row < erb[idx[c] \div BlockM + 1]
  IN
  /\ pc[c] = "pad"
  /\ idx[c] < E * BlockM
  /\ sti' = IF inside /\ row \in Position
            THEN [sti EXCEPT ![row] = stamp(Padding)] ELSE sti
  /\ pperr' = IF inside /\ row >= PADMAX THEN pperr \cup {PadBit} ELSE pperr
  /\ idx' = [idx EXCEPT ![c] = @ + Grid]
  /\ UNCHANGED <<pc, launch, input, hcnt, scratch, nvi, sei, e_next, pos>>

PadEnd(c) == /\ pc[c] = "pad"
             /\ idx[c] >= E * BlockM
             /\ idx' = [idx EXCEPT ![c] = c]
             /\ goto(c, "scatter")
             /\ UNCHANGED <<launch, input, hcnt, scratch, nvi, sei, sti, pperr,
                            e_next, pos>>

(* scatter: a pair of another rank's expert is skipped; a pair of ours     *)
(* takes the next position of its expert ...                               *)
Skip(c) == /\ pc[c] = "scatter"
           /\ idx[c] \in Pair
           /\ recv_eid[idx[c]] \notin Expert
           /\ idx' = [idx EXCEPT ![c] = @ + Grid]
           /\ UNCHANGED <<pc, launch, input, hcnt, scratch, nvi, sei, sti, pperr,
                          e_next, pos>>

advance(e) == [cur EXCEPT ![e] = @ + 1]

Claim(c) == LET e == recv_eid[idx[c]] IN
            /\ pc[c] = "scatter"
            /\ idx[c] \in Pair
            /\ e \in Expert
            /\ pos' = [pos EXCEPT ![c] = cur[e]]
            /\ cur' = advance(e)
            /\ goto(c, "store")
            /\ UNCHANGED <<launch, input, hcnt, cnt, erb, nvi, sei, sti, pperr,
                           e_next, idx>>

(* ... and is stored there, unless the position does not exist.            *)
Store(c) == /\ pc[c] = "store"
            /\ IF pos[c] \in Position
               THEN /\ sti' = [sti EXCEPT ![pos[c]] = stamp(idx[c])]
                    /\ UNCHANGED pperr
               ELSE /\ pperr' = pperr \cup {ScatterBit}
                    /\ UNCHANGED sti
            /\ idx' = [idx EXCEPT ![c] = @ + Grid]
            /\ goto(c, "scatter")
            /\ UNCHANGED <<launch, input, hcnt, scratch, nvi, sei, e_next, pos>>

Exit(c) == /\ pc[c] = "scatter"
           /\ idx[c] \notin Pair
           /\ goto(c, "done")
           /\ UNCHANGED <<launch, input, hcnt, scratch, nvi, sei, sti, pperr,
                          e_next, idx, pos>>

Next == \/ Launch \/ Reduce \/ AddColumn \/ EndReduce \/ Scan \/ Cursors
        \/ \E c \in Cta : \/ CountPartial(c) \/ CrossCount(c) \/ CrossPlan(c)
                          \/ Pad(c) \/ PadEnd(c) \/ Skip(c)
                          \/ Claim(c) \/ Store(c) \/ Exit(c)

Spec == Init /\ [][Next]_vars

-----------------------------------------------------------------------------
sorted == launch > 0 /\ \A c \in Cta : pc[c] = "done"
segment(e) == erb[e] .. erb[e + 1] - 1

(* After a launch whose padded segments fit, every segment the GEMM reads  *)
(* holds each pair of its expert exactly once and padding otherwise, all   *)
(* of this launch, and every block of it is labelled with the expert       *)
(* (hkp_sort.hpp, scan, cursors_sei, pad and scatter).                     *)
SegmentsExact ==
  sorted /\ nvi <= PADMAX =>
    \A e \in Expert :
      /\ \A p \in segment(e) :
           /\ sti[p].launch = launch
           /\ sti[p].val = Padding \/ recv_eid[sti[p].val] = e
      /\ \A j \in Pair :
           recv_eid[j] = e =>
             Cardinality({p \in segment(e) : sti[p] = stamp(j)}) = 1
      /\ \A b \in blocks_of(e) : sei[b] = stamp(e)

(* No position is written twice in a launch, in whatever order the threads *)
(* pad, claim and store: claims are unique and padding is disjoint from    *)
(* them (hkp_sort.hpp:104, "ranges are disjoint from scatter positions").  *)
WritesOnce ==
  \A p \in Position : sti'[p] # sti[p] => sti[p].launch < launch

(* Segments that do not fit are reported even if no pair lands outside:    *)
(* the GEMM would read nvi rows (cursors_sei).                             *)
OverflowReported == sorted /\ nvi > PADMAX => PadBit \in pperr

(* An overflow bit is raised only by a launch whose segments do not fit.   *)
NoAlarm == pperr' # pperr => erb[E] > PADMAX
=============================================================================
