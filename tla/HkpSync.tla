------------------------------ MODULE HkpSync ------------------------------
(* The arithmetic of the monotone counters that every synchronised kernel  *)
(* shares (kernels/hkp/hkp_sync.hpp; the kernels of kernels/decode and     *)
(* kernels/prefill inline the same expressions).  All counters are         *)
(* unsigned int: they are zeroed once, only ever incremented, and wrap at  *)
(* CounterMod (2^32 in the build).                                         *)
EXTENDS Integers

CONSTANT CounterMod    \* number of values of an unsigned int counter

ASSUME CounterModAssumption == CounterMod \in Nat \ {0}

(* __hip_atomic_fetch_add(counter, 1): the new value of the counter.       *)
bump(x) == (x + 1) % CounterMod

(* Mutant: the wait is for the epoch after the next.                       *)
epoch_from_cell_ahead(cell) == bump(bump(cell))

(* The epoch that follows the one a dedicated cell holds.                  *)
epoch_from_cell(cell) == bump(cell)

(* Mutants: the previous launch's epoch; a sign slip.                      *)
epoch_lagging(old, blocks) == old \div blocks
epoch_sign_slip(old, blocks) == (old \div blocks) - 1

(* The epoch of a launch, from the value an arrival found in the           *)
(* cumulative arrival counter of a grid of "blocks" CTAs.                  *)
epoch_from_cumulative(old, blocks) == (old \div blocks) + 1

(* Mutant: nobody publishes for the grid.                                  *)
no_arrival(old, blocks) == old % blocks = blocks

(* The arrival that completes the grid, and so publishes for it.           *)
last_arrival(old, blocks) == old % blocks = blocks - 1

(* Mutants: a target that is already met; one of the phase after.          *)
grid_target_met(old, blocks) == ((old \div blocks) * blocks) % CounterMod
grid_target_next(old, blocks) == ((old \div blocks + 2) * blocks) % CounterMod

(* The counter value that opens the phase of the grid barrier which the    *)
(* arrival that found "old" belongs to.                                    *)
grid_target(old, blocks) == ((old \div blocks + 1) * blocks) % CounterMod

(* The polled condition of bounded_wait: *flag < target keeps polling.     *)
reached(flag, target) == flag >= target
=============================================================================
