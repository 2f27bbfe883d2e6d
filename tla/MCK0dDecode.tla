---------------------------- MODULE MCK0dDecode ----------------------------
(* Small instances of K0dDecode for TLC: two ranks of two experts, one     *)
(* token each, two experts per token.                                      *)
EXTENDS K0dDecodeBarriers

Both   == [tau \in 0 .. 0 |-> {0, 2}]     \* one expert on each rank
First  == [tau \in 0 .. 0 |-> {0, 1}]     \* both on rank 0: one row
Second == [tau \in 0 .. 0 |-> {2, 3}]     \* both on rank 1

scenario_(split, rows, inputs, giving_up) ==
  [split |-> split, rows |-> rows, inputs |-> inputs, giving_up |-> giving_up]

Spread == {scenario_(FALSE, 2, {Both}, 0)}

(* Changing routes with room for every row; room for one row that both     *)
(* ranks claim; two launches and a wait that may give up.                  *)
Various == {scenario_(FALSE, 2, {First, Second}, 0),
            scenario_(FALSE, 1, {First}, 0),
            scenario_(TRUE, 2, {First}, 1)}
=============================================================================
