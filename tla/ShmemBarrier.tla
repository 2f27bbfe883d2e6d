---------------------------- MODULE ShmemBarrier ----------------------------
(* mori's device barrier between the processing elements (PEs) of a node,  *)
(* ShmemInternalBarrierThread: PE 0 coordinates.  Every other PE puts a 1  *)
(* into its slot on PE 0; PE 0 collects and clears the slots one by one    *)
(* and then puts a 1 into slot 0 of every PE, which that PE clears.  The   *)
(* words are reused in every round and never counted up.  The prefill arms *)
(* run it between their launches (ShmemBarrierOnStream).                   *)
(*                                                                         *)
(* A store or put is posted: it takes effect some time later, in any order,*)
(* but no later than the next system fence of the PE that issued it.  The  *)
(* waits have no limit.  PE 0's own slot 0 and the copy of a PE's slot that*)
(* it keeps itself are written too; nobody reads them.                     *)
EXTENDS Naturals, FiniteSets

CONSTANTS PEs,        \* number of PEs (n_pes)
          MaxRound    \* bound: barriers per PE

ASSUME ShmemBarrierAssumption == PEs \in Nat \ {0} /\ MaxRound \in Nat

PE == 0 .. PEs - 1
Other == 1 .. PEs - 1

VARIABLES pc,        \* pc[p]: "out", "collect", "release"; "wait", "clear"
          turn,      \* the loop variable i (and j) of PE 0
          pSync,     \* pSync[p][i]: word i of internalSyncPtr on PE p
          posted,    \* posted[p]: stores of p that have not taken effect
          entered,   \* entered[p], exited[p]: barriers p began and ended
          exited

vars == <<pc, turn, pSync, posted, entered, exited>>

store(p, i, v) == [pe |-> p, word |-> i, value |-> v]
arrival(p) == store(0, p, 1)     \* posted by p
collected(p) == store(0, p, 0)   \* posted by 0
(* Mutant: the release is stored locally and not put to the PE.            *)
release_local(p) == store(0, p, 1)
release(p) == store(p, 0, 1)     \* posted by 0
taken(p) == store(p, 0, 0)       \* posted by p

TypeOK == /\ pc \in [PE -> {"out", "collect", "release", "wait", "clear"}]
          /\ turn \in 1 .. PEs
          /\ pSync \in [PE -> [PE -> {0, 1}]]
          /\ posted \in [PE -> SUBSET [pe : PE, word : PE, value : {0, 1}]]
          /\ entered \in [PE -> 0 .. MaxRound]
          /\ exited \in [PE -> 0 .. MaxRound]

Init == /\ pc = [p \in PE |-> "out"]
        /\ turn = 1
        /\ pSync = [p \in PE |-> [i \in PE |-> 0]]
        /\ posted = [p \in PE |-> {}]
        /\ entered = [p \in PE |-> 0]
        /\ exited = [p \in PE |-> 0]

(* Mutant: nobody waits for stores to take effect.                         *)
unfenced(p) == p \in PE

(* __threadfence_system: every store of p before it has taken effect.      *)
fenced(p) == posted[p] = {}

post(p, w) == posted' = [posted EXCEPT ![p] = @ \cup {w}]
goto(p, l) == pc' = [pc EXCEPT ![p] = l]

-----------------------------------------------------------------------------
(* The coordinator.  The fences of the first loop's end and of every turn  *)
(* of the second stand in front of what follows them.                      *)
Begin == /\ pc[0] = "out" /\ entered[0] < MaxRound
         /\ goto(0, "collect")
         /\ turn' = 1
         /\ entered' = [entered EXCEPT ![0] = @ + 1]
         /\ UNCHANGED <<pSync, posted, exited>>

Collect == /\ pc[0] = "collect" /\ turn < PEs
           /\ pSync[0][turn] = 1
           /\ post(0, collected(turn))
           /\ turn' = turn + 1
           /\ UNCHANGED <<pc, pSync, entered, exited>>

Collected == /\ pc[0] = "collect" /\ turn = PEs
             /\ fenced(0)
             /\ goto(0, "release")
             /\ turn' = 1
             /\ UNCHANGED <<pSync, posted, entered, exited>>

(* Mutant: the loop over the PEs runs once too often.                      *)
ReleaseBeyond == /\ pc[0] = "release" /\ turn <= PEs
                 /\ fenced(0)
                 /\ post(0, release(turn))
                 /\ turn' = turn + 1
                 /\ UNCHANGED <<pc, pSync, entered, exited>>

Release == /\ pc[0] = "release" /\ turn < PEs
           /\ fenced(0)
           /\ post(0, release(turn))
           /\ turn' = turn + 1
           /\ UNCHANGED <<pc, pSync, entered, exited>>

End == /\ pc[0] = "release" /\ turn = PEs
       /\ fenced(0)
       /\ goto(0, "out")
       /\ exited' = [exited EXCEPT ![0] = @ + 1]
       /\ UNCHANGED <<turn, pSync, posted, entered>>

(* Another PE: arrive, wait for the release, clear it and leave.           *)
Arrive(p) == /\ pc[p] = "out" /\ entered[p] < MaxRound
             /\ post(p, arrival(p))
             /\ goto(p, "wait")
             /\ entered' = [entered EXCEPT ![p] = @ + 1]
             /\ UNCHANGED <<turn, pSync, exited>>

Released(p) == /\ pc[p] = "wait"
               /\ fenced(p)
               /\ pSync[p][0] = 1
               /\ post(p, taken(p))
               /\ goto(p, "clear")
               /\ UNCHANGED <<turn, pSync, entered, exited>>

Leave(p) == /\ pc[p] = "clear"
            /\ fenced(p)
            /\ goto(p, "out")
            /\ exited' = [exited EXCEPT ![p] = @ + 1]
            /\ UNCHANGED <<turn, pSync, posted, entered>>

(* A posted store takes effect.                                            *)
Deliver(p, w) == /\ w \in posted[p]
                 /\ posted' = [posted EXCEPT ![p] = @ \ {w}]
                 /\ pSync' = [pSync EXCEPT ![w.pe][w.word] = w.value]
                 /\ UNCHANGED <<pc, turn, entered, exited>>

Coordinate == Begin \/ Collect \/ Collected \/ Release \/ End
Follow(p) == Arrive(p) \/ Released(p) \/ Leave(p)
Fabric(p) == \E w \in posted[p] : Deliver(p, w)

Next == \/ Coordinate
        \/ \E p \in Other : Follow(p)
        \/ \E p \in PE : Fabric(p)

Spec == Init /\ [][Next]_vars

(* Every PE's kernel runs on, and a posted store takes effect.             *)
Fairness == /\ WF_vars(Coordinate)
            /\ \A p \in Other : WF_vars(Follow(p))
            /\ \A p \in PE : WF_vars(Fabric(p))

FairSpec == Spec /\ Fairness

-----------------------------------------------------------------------------
(* The inductive invariant.  The word of p on PE 0 and the word 0 on p are *)
(* tokens that pass from one to the other: how often a token has come and  *)
(* gone is known from the rounds, and it is in the word, on its way there, *)
(* or nowhere.                                                             *)
gathered(p) == exited[0] + IF \/ pc[0] = "collect" /\ turn > p
                              \/ pc[0] = "release" THEN 1 ELSE 0
released(p) == exited[0] + IF pc[0] = "release" /\ turn > p THEN 1 ELSE 0
woken(p) == exited[p] + IF pc[p] = "clear" THEN 1 ELSE 0

in_word(q, i, v) == pSync[q][i] = 1 /\ store(q, i, 0) \notin posted[v]

PhaseInv ==
  /\ pc[0] \in {"out", "collect", "release"}
  /\ entered[0] = exited[0] + IF pc[0] = "out" THEN 0 ELSE 1
  /\ \A p \in Other :
       /\ pc[p] \in {"out", "wait", "clear"}
       /\ entered[p] = exited[p] + IF pc[p] = "out" THEN 0 ELSE 1
PostedInv ==
  /\ pc[0] = "out" => posted[0] = {}
  /\ pc[0] = "collect" => posted[0] \subseteq {collected(p) : p \in 1 .. turn - 1}
  /\ pc[0] = "release" => posted[0] \subseteq {release(p) : p \in {turn - 1} \ {0}}
  /\ \A p \in Other :
       /\ pc[p] = "out" => posted[p] = {}
       /\ pc[p] = "wait" => posted[p] \subseteq {arrival(p)}
       /\ pc[p] = "clear" => posted[p] \subseteq {taken(p)}
ArriveInv ==
  \A p \in Other :
    /\ entered[p] = gathered(p)
         + IF in_word(0, p, 0) \/ arrival(p) \in posted[p] THEN 1 ELSE 0
    /\ arrival(p) \in posted[p] => ~in_word(0, p, 0) /\ collected(p) \notin posted[0]
    /\ collected(p) \in posted[0] => pSync[0][p] = 1
ReleaseInv ==
  \A p \in Other :
    /\ released(p) = woken(p)
         + IF in_word(p, 0, p) \/ release(p) \in posted[0] THEN 1 ELSE 0
    /\ release(p) \in posted[0] => ~in_word(p, 0, p) /\ taken(p) \notin posted[p]
    /\ taken(p) \in posted[p] => pSync[p][0] = 1

IInv == TypeOK /\ PhaseInv /\ PostedInv /\ ArriveInv /\ ReleaseInv

-----------------------------------------------------------------------------
(* Whatever the interleaving and however late stores take effect, no PE    *)
(* has left its n-th barrier before every PE began its n-th (baseline/mori,*)
(* shmem_device_api.hpp, ShmemInternalBarrierThread).                      *)
Separation == \A p, q \in PE : entered[q] >= exited[p]

(* A round's words are clean again before the next round can use them: a   *)
(* PE outside the barrier has no 1 waiting in its word 0, so that it can   *)
(* not fall through its next barrier, and the coordinator outside it has   *)
(* none it already collected (same function, the resets of pSync).         *)
WordsClean == \A p \in Other :
                /\ pc[p] = "out" => pSync[p][0] = 0 \/ released(p) > exited[p]
                /\ pc[0] = "out" /\ pSync[0][p] = 1 => entered[p] > exited[0]

(* Every barrier completes: no arrival is lost in a reset and no release   *)
(* is overwritten.                                                         *)
Progress == <>(\A p \in PE : exited[p] = MaxRound)

(* The coordinator's barrier implements the abstract one; nobody ever      *)
(* gives up.                                                               *)
B == INSTANCE Barrier WITH Worker <- PE, arrived <- entered, left <- exited,
                           failed <- {}
Refinement == B!Spec
=============================================================================
