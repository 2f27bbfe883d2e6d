------------------------------ MODULE Barrier ------------------------------
(* What a fail-closed barrier promises, whatever implements it: a worker   *)
(* arrives, and leaves only when every worker has arrived as often as it   *)
(* has -- or gives up, and then is recorded as failed for ever.            *)
(* PeerBarrier (doorbells between ranks), GridBarrier (the CTAs of one     *)
(* launch) and ShmemBarrier (words cleared by their reader) implement it.  *)
EXTENDS Naturals

CONSTANT Worker

VARIABLES arrived,   \* arrived[w]: number of arrivals of w
          left,      \* left[w]: number of departures of w
          failed     \* workers whose error word is set

vars == <<arrived, left, failed>>

Init == /\ arrived = [w \in Worker |-> 0]
        /\ left = [w \in Worker |-> 0]
        /\ failed = {}

Arrive(w) == /\ arrived[w] = left[w]
             /\ arrived' = [arrived EXCEPT ![w] = @ + 1]
             /\ UNCHANGED <<left, failed>>

Leave(w) == /\ left[w] < arrived[w]
            /\ \A v \in Worker : arrived[v] >= arrived[w]
            /\ left' = [left EXCEPT ![w] = @ + 1]
            /\ UNCHANGED <<arrived, failed>>

(* A worker that has already failed may also leave undetected: after the   *)
(* first time-out of a rank its later waits promise nothing.               *)
GiveUp(w) == /\ left[w] < arrived[w]
             /\ left' = [left EXCEPT ![w] = @ + 1]
             /\ \E S \in SUBSET Worker : /\ w \in failed \cup S
                                         /\ failed' = failed \cup S
             /\ UNCHANGED arrived

Next == \E w \in Worker : Arrive(w) \/ Leave(w) \/ GiveUp(w)

Spec == Init /\ [][Next]_vars
=============================================================================
