------------------------------ MODULE WaveScan ------------------------------
(* The pull plan built by one wave whose lanes run in lock step, with      *)
(* shuffles in place of LDS and barriers.  k0d_mega, k0d_dsort and         *)
(* csr_scan_warp64 handle one tile of 64 tokens, the limit their launch    *)
(* guard sets; k0d_fused loops over tiles, each lane with a carry of its   *)
(* own.                                                                    *)
EXTENDS Csr

CONSTANT Lanes       \* lanes of the wave: a power of two, 64 in the build

WaveScanAssumption == Lanes \in Nat /\ Lanes >= 2

Lane == 0 .. Lanes - 1

VARIABLES stage, pc, base, off, f, incl,
          carry,                           \* carry[l]: lane l's variable
          pull_ptr, pull_src, pperr

vars == <<stage, pc, base, off, f, incl, carry, pull_ptr, pull_src, pperr>>

Init == /\ stage \in Inputs
        /\ pc = "load"
        /\ base = 0
        /\ off = 1
        /\ f = [l \in Lane |-> 0]
        /\ incl = [l \in Lane |-> 0]
        /\ carry = [l \in Lane |-> 0]
        /\ pull_ptr = [n \in 0 .. T |-> 0]
        /\ pull_src = [k \in 0 .. Cap - 1 |-> Nowhere]
        /\ pperr = FALSE

-----------------------------------------------------------------------------
Load == /\ pc = "load"
        /\ f' = [l \in Lane |-> fanout(stage, base + l)]
        /\ incl' = f'
        /\ off' = 1
        /\ pc' = "scan"
        /\ UNCHANGED <<stage, base, carry, pull_ptr, pull_src, pperr>>

(* __shfl_up(incl, off): all lanes read before any of them adds.           *)
shuffled == [l \in Lane |-> IF l >= off THEN incl[l] + incl[l - off] ELSE incl[l]]

Shuffle == /\ pc = "scan"
           /\ off < Lanes
           /\ incl' = shuffled
           /\ off' = 2 * off
           /\ UNCHANGED <<stage, pc, base, f, carry, pull_ptr, pull_src, pperr>>

start(l) == carry[l] + incl[l] - f[l]
live == {l \in Lane : base + l \in Token}

Publish == /\ pc = "scan"
           /\ off >= Lanes
           /\ pull_ptr' = [n \in 0 .. T |->
                CASE n - base \in live -> start(n - base)
                  [] n = T /\ T - 1 - base \in live ->
                       carry[T - 1 - base] + incl[T - 1 - base]
                  [] OTHER -> pull_ptr[n]]
           /\ off' = 0
           /\ pc' = "fill"
           /\ UNCHANGED <<stage, base, f, incl, carry, pull_src, pperr>>

(* The lists, lane after lane (off counts them); then lane 63 alone moves  *)
(* its carry, and the next tile follows.                                   *)
Fill == /\ pc = "fill"
        /\ off \in live
        /\ pull_src' = filled(stage, pull_src, base + off, start(off))
        /\ pperr' = (pperr \/ overflows(stage, base + off, start(off)))
        /\ off' = off + 1
        /\ UNCHANGED <<stage, pc, base, f, incl, carry, pull_ptr>>

NextTile == /\ pc = "fill"
            /\ off \notin live
            /\ carry' = [carry EXCEPT ![Lanes - 1] = @ + incl[Lanes - 1]]
            /\ base' = base + Lanes
            /\ pc' = IF base + Lanes < T THEN "load" ELSE "done"
            /\ UNCHANGED <<stage, off, f, incl, pull_ptr, pull_src, pperr>>

Next == Load \/ Shuffle \/ Publish \/ Fill \/ NextTile
Spec == Init /\ [][Next]_vars

-----------------------------------------------------------------------------
(* The row pointers are the prefix sums of the fan-outs and every token's  *)
(* producers stand where they say (k0d_fused.hip:273, "Build the owner     *)
(* pull plan").                                                            *)
PlanExact == pc = "done" => /\ pull_ptr = prefix(stage)
                            /\ pull_src = lists(stage)
                            /\ ~pperr
=============================================================================
