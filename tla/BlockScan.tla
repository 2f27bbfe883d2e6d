----------------------------- MODULE BlockScan -----------------------------
(* The pull plan built by one CTA with a block-wide scan, tile after tile  *)
(* with a shared carry, and filled in by all threads after a grid barrier: *)
(* block_incl_scan_256, csr_scan_block256 and pull_src_fill of hkp_sort.hpp*)
(* as k0pf4_dsort calls them; k0pf3_dsort, k0pf3_mega and the per-rank     *)
(* prefix of the plan kernels (e12_tof_kernel) inline the same scan.       *)
(*                                                                         *)
(* A thread executes the code between two __syncthreads in one step.       *)
EXTENDS Csr

CONSTANT Width       \* threads of the CTA: a power of two, 256 in the build

BlockScanAssumption == Width \in Nat /\ Width >= 2

Thread == 0 .. Width - 1

VARIABLES stage,            \* the input of this launch
          pc, syncs,        \* next segment; __syncthreads passed
          base, off,        \* loop variables
          f, add, incl,     \* registers
          s_tmp, s_carry,   \* LDS
          pull_ptr, pull_src, pperr

plan == <<pull_ptr, pull_src, pperr>>
vars == <<stage, pc, syncs, base, off, f, add, incl, s_tmp, s_carry, plan>>

TypeOK == /\ pc \in [Thread -> {"init", "load", "read", "add", "take", "write",
                                "carry", "last", "fill", "done"}]
          /\ stage \in Inputs
          /\ syncs \in [Thread -> Nat] /\ base \in [Thread -> Nat]
          /\ off \in [Thread -> 1 .. Width]
          /\ f \in [Thread -> Nat] /\ add \in [Thread -> Nat]
          /\ incl \in [Thread -> Nat]
          /\ s_tmp \in [Thread -> Nat] /\ s_carry \in Nat
          /\ pull_ptr \in [0 .. T -> Nat]
          /\ pull_src \in [0 .. Cap - 1 -> {Nowhere} \cup (Token \X Nat)]
          /\ pperr \in BOOLEAN

Init == /\ stage \in Inputs
        /\ pc = [t \in Thread |-> "init"]
        /\ syncs = [t \in Thread |-> 0]
        /\ base = [t \in Thread |-> 0]
        /\ off = [t \in Thread |-> 1]
        /\ f = [t \in Thread |-> 0]
        /\ add = [t \in Thread |-> 0]
        /\ incl = [t \in Thread |-> 0]
        /\ s_tmp = [t \in Thread |-> 0]
        /\ s_carry = 0
        /\ pull_ptr = [n \in 0 .. T |-> 0]
        /\ pull_src = [k \in 0 .. Cap - 1 |-> Nowhere]
        /\ pperr = FALSE

-----------------------------------------------------------------------------
(* __syncthreads: a thread goes on when all have got there.  Mutant: none. *)
unsynchronised(t) == TRUE
synchronised(t) == \A u \in Thread : syncs[u] >= syncs[t]

segment(t, label, next) == /\ pc[t] = label
                           /\ synchronised(t)
                           /\ pc' = [pc EXCEPT ![t] = next]
                           /\ syncs' = [syncs EXCEPT ![t] = @ + 1]
                           /\ UNCHANGED stage

(* csr_scan_block256, before the loop.                                     *)
Start(t) == /\ segment(t, "init", "load")
            /\ s_carry' = IF t = 0 THEN 0 ELSE s_carry
            /\ UNCHANGED <<base, off, f, add, incl, s_tmp, plan>>

(* A tile: the fan-outs go to LDS ...                                      *)
Load(t) == LET n == fanout(stage, base[t] + t) IN
           /\ segment(t, "load", "read")
           /\ f' = [f EXCEPT ![t] = n]
           /\ s_tmp' = [s_tmp EXCEPT ![t] = n]
           /\ off' = [off EXCEPT ![t] = 1]
           /\ UNCHANGED <<base, add, incl, s_carry, plan>>

(* ... block_incl_scan_256 adds what stands off places to the left ...     *)
Read(t) == /\ segment(t, "read", "add")
           /\ add' = [add EXCEPT ![t] =
                        IF t >= off[t] THEN s_tmp[t - off[t]] ELSE 0]
           /\ UNCHANGED <<base, off, f, incl, s_tmp, s_carry, plan>>

Add(t) == /\ segment(t, "add", IF 2 * off[t] < Width THEN "read" ELSE "take")
          /\ s_tmp' = [s_tmp EXCEPT ![t] = @ + add[t]]
          /\ off' = [off EXCEPT ![t] = 2 * @]
          /\ UNCHANGED <<base, f, add, incl, s_carry, plan>>

Take(t) == /\ segment(t, "take", "write")
           /\ incl' = [incl EXCEPT ![t] = s_tmp[t]]
           /\ UNCHANGED <<base, off, f, add, s_tmp, s_carry, plan>>

(* ... the row pointers of the tile are written, and the carry moves on.   *)
Write(t) == LET tau == base[t] + t IN
            /\ segment(t, "write", "carry")
            /\ pull_ptr' = IF tau \in Token
                           THEN [pull_ptr EXCEPT ![tau] = s_carry + incl[t] - f[t]]
                           ELSE pull_ptr
            /\ UNCHANGED <<base, off, f, add, incl, s_tmp, s_carry, pull_src, pperr>>

(* Mutants: the last live thread, not the last thread, moves the carry;    *)
(* the loop ends where the thread has no token.                            *)
carries_live(t) == base[t] + t = T - 1
more_tokens(t) == base[t] + Width + t < T

carries(t) == t = Width - 1
more_tiles(t) == base[t] + Width < T

Carry(t) == /\ segment(t, "carry", IF more_tiles(t) THEN "load" ELSE "last")
            /\ s_carry' = IF carries(t) THEN s_carry + incl[t] ELSE s_carry
            /\ base' = [base EXCEPT ![t] = @ + Width]
            /\ UNCHANGED <<off, f, add, incl, s_tmp, plan>>

(* Thread 0 closes the row pointers; the grid barrier follows.             *)
Close(t) == /\ segment(t, "last", "fill")
            /\ pull_ptr' = IF t = 0 THEN [pull_ptr EXCEPT ![T] = s_carry] ELSE pull_ptr
            /\ base' = [base EXCEPT ![t] = 0]
            /\ UNCHANGED <<off, f, add, incl, s_tmp, s_carry, pull_src, pperr>>

(* pull_src_fill: token after token of the thread's stride.                *)
Fill(t) == LET tau == base[t] + t   k == pull_ptr[tau] IN
           /\ pc[t] = "fill"
           /\ synchronised(t)
           /\ tau \in Token
           /\ pull_src' = filled(stage, pull_src, tau, k)
           /\ pperr' = (pperr \/ overflows(stage, tau, k))
           /\ base' = [base EXCEPT ![t] = @ + Width]
           /\ UNCHANGED <<stage, pc, syncs, off, f, add, incl, s_tmp, s_carry, pull_ptr>>

Exit(t) == /\ pc[t] = "fill"
           /\ synchronised(t)
           /\ base[t] + t \notin Token
           /\ pc' = [pc EXCEPT ![t] = "done"]
           /\ UNCHANGED <<stage, syncs, base, off, f, add, incl, s_tmp, s_carry, plan>>

Step(t) == \/ Start(t) \/ Load(t) \/ Read(t) \/ Add(t) \/ Take(t)
           \/ Write(t) \/ Carry(t) \/ Close(t) \/ Fill(t) \/ Exit(t)

Next == \E t \in Thread : Step(t)
Spec == Init /\ [][Next]_vars

-----------------------------------------------------------------------------
finished == \A t \in Thread : pc[t] = "done"

(* In whatever order the threads run between two barriers, the row         *)
(* pointers are the prefix sums of the fan-outs, and every token's         *)
(* producers stand where its row pointers say; the overflow bit stays      *)
(* clear (hkp_sort.hpp:146, "block256 supports any T").                    *)
PlanExact == finished => /\ pull_ptr = prefix(stage)
                         /\ pull_src = lists(stage)
                         /\ ~pperr

(* No thread fills a list before the row pointers it reads are final.      *)
PointersFinal == (\E t \in Thread : pc[t] = "fill" /\ synchronised(t))
                   => pull_ptr = prefix(stage)

(* Some thread can go on until all are at the end: the barriers inside the *)
(* loops are met by all of them (csr_scan_block256).                       *)
NeverStuck == finished \/ \E t \in Thread : ENABLED Step(t)
=============================================================================
