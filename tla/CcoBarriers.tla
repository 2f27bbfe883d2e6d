----------------------------- MODULE CcoBarriers -----------------------------
(* The two barriers of cco.  LSA (ranks of a node): a session stores its   *)
(* epoch + 1 into its inbox slot on every peer and waits for its own slots *)
(* to reach that value; slots are never cleared, the epoch wraps and is    *)
(* kept from one session to the next.  GDA (across nodes): a signal, an    *)
(* RDMA add, to every peer, and a wait that consumes one signal of each.   *)
(* A rank writes data for its peers before it enters a barrier: plain      *)
(* stores, which only a system fence holds up, or puts on the queue pair   *)
(* that carries the signal too.  A wait with a time-out may give up; the   *)
(* caller then synchronises again.                                         *)
EXTENDS Integers, Sequences, SequencesExt

CONSTANTS Ranks, MaxRound,  \* MaxRound bounds the barriers of a rank
          MaxTimeOut,       \* bounds the waits a rank gives up
          Word,             \* epochs are kept modulo Word (2^32)
          Kinds             \* the barriers looked at

CcoBarriersAssumption ==
  /\ Ranks \in Nat \ {0} /\ {MaxRound, MaxTimeOut} \subseteq Nat
  /\ Word \in Nat /\ Word >= 4 /\ Word % 2 = 0
  /\ Kinds \subseteq {"lsa", "lsa_timeout", "gda"}

Rank == 0 .. Ranks - 1

VARIABLES
  kind,
  pc,        \* [r]: "closed", "open", "fence", "arrive", "wait"
  todo,      \* [r]: peers the current loop has left
  epoch,     \* [r]: of the open session
  state,     \* [r]: the epoch kept between sessions
  inbox,     \* [r][p]: ucInbox(r, p), or r's signal from p
  shadow,    \* [r][p]: signalShadows
  pending,   \* [r][p]: what r posted to p, in order
  visible,   \* [r][p]: the round whose data of r is visible to p
  entered, exited,  \* [r]: barriers entered, and passed
  given_up   \* [r]: waits given up

vars == <<kind, pc, todo, epoch, state, inbox, shadow, pending, visible,
          entered, exited, given_up>>

other(r) == Rank \ {r}
goto(r, l) == pc' = [pc EXCEPT ![r] = l]

next_epoch(r) == (epoch[r] + 1) % Word

post(r, p, what) == pending' = [pending EXCEPT ![r][p] = Append(@, what)]

-----------------------------------------------------------------------------
(* The constructor restores the epoch, the destructor keeps it.  A session *)
(* that is closed has passed a barrier.                                    *)
Open(r) ==
  /\ pc[r] = "closed"
  /\ epoch' = [epoch EXCEPT ![r] = state[r]]
  /\ goto(r, "open")
  /\ UNCHANGED <<kind, todo, state, inbox, shadow, pending, visible, entered,
                 exited, given_up>>

(* Mutant: the epoch is lost with the session.                             *)
kept_not(r) == state[r]

kept(r) == epoch[r]

Close(r) ==
  /\ pc[r] = "open" /\ epoch[r] # state[r]
  /\ state' = [state EXCEPT ![r] = kept(r)]
  /\ epoch' = [epoch EXCEPT ![r] = 0]
  /\ goto(r, "closed")
  /\ UNCHANGED <<kind, todo, inbox, shadow, pending, visible, entered, exited, given_up>>

(* Data for everyone, then sync.                                           *)
Enter(r) ==
  /\ pc[r] = "open" /\ entered[r] < MaxRound
  /\ entered' = [entered EXCEPT ![r] = @ + 1]
  /\ IF kind = "gda"
     THEN /\ pending' = [pending EXCEPT ![r] = [p \in Rank |->
               IF p = r THEN <<>> ELSE Append(@[p], <<"put", entered'[r]>>)]]
          /\ goto(r, "arrive")
     ELSE goto(r, "fence") /\ UNCHANGED pending
  /\ todo' = [todo EXCEPT ![r] = other(r)]
  /\ UNCHANGED <<kind, epoch, state, inbox, shadow, visible, exited, given_up>>

fenced(r) == \A p \in other(r) : visible[r][p] = entered[r]

Fence(r) ==
  /\ pc[r] = "fence" /\ fenced(r)
  /\ goto(r, "arrive")
  /\ UNCHANGED <<kind, todo, epoch, state, inbox, shadow, pending, visible,
                 entered, exited, given_up>>

(* arrive; signalImpl.                                                     *)
Arrive(r, p) ==
  /\ pc[r] = "arrive" /\ p \in todo[r]
  /\ IF kind = "gda" THEN post(r, p, <<"signal", 1>>)
     ELSE IF pending[r][p] = <<>> \/ Last(pending[r][p])[2] # next_epoch(r)
     THEN post(r, p, <<"store", next_epoch(r)>>)
     ELSE UNCHANGED pending
  /\ todo' = [todo EXCEPT ![r] = @ \ {p}]
  /\ UNCHANGED <<kind, pc, epoch, state, inbox, shadow, visible, entered,
                 exited, given_up>>

Arrived(r) ==
  /\ pc[r] = "arrive" /\ todo[r] = {}
  /\ goto(r, "wait")
  /\ todo' = [todo EXCEPT ![r] = other(r)]
  /\ UNCHANGED <<kind, epoch, state, inbox, shadow, pending, visible, entered,
                 exited, given_up>>

(* waitInternal compares modulo the word; waitSignalImpl counts.           *)
reached(r, p) ==
  IF kind = "gda" THEN inbox[r][p] - shadow[r][p] >= 1
  ELSE (inbox[r][p] - next_epoch(r)) % Word < Word \div 2

Take(r, p) ==
  /\ pc[r] = "wait" /\ p \in todo[r] /\ reached(r, p)
  /\ todo' = [todo EXCEPT ![r] = @ \ {p}]
  /\ shadow' = IF kind = "gda" THEN [shadow EXCEPT ![r][p] = @ + 1] ELSE shadow
  /\ UNCHANGED <<kind, pc, epoch, state, inbox, pending, visible, entered,
                 exited, given_up>>

Pass(r) ==
  /\ pc[r] = "wait" /\ todo[r] = {}
  /\ epoch' = [epoch EXCEPT ![r] = next_epoch(r)]
  /\ exited' = [exited EXCEPT ![r] = @ + 1]
  /\ goto(r, "open")
  /\ UNCHANGED <<kind, todo, state, inbox, shadow, pending, visible, entered,
                 given_up>>

(* The cycles are over: the epoch stays, and the caller tries once more.   *)
TimeOut(r) ==
  /\ kind = "lsa_timeout" /\ given_up[r] < MaxTimeOut
  /\ given_up' = [given_up EXCEPT ![r] = @ + 1]
  /\ pc[r] = "wait" /\ todo[r] # {}
  /\ goto(r, "fence")
  /\ todo' = [todo EXCEPT ![r] = other(r)]
  /\ UNCHANGED <<kind, epoch, state, inbox, shadow, pending, visible, entered,
                 exited>>

-----------------------------------------------------------------------------
(* A plain store of data takes effect, in any order with the others.       *)
Land(r, p) ==
  /\ kind # "gda" /\ p # r /\ visible[r][p] < entered[r]
  /\ visible' = [visible EXCEPT ![r][p] = entered[r]]
  /\ UNCHANGED <<kind, pc, todo, epoch, state, inbox, shadow, pending, entered,
                 exited, given_up>>

(* Stores to one slot and requests of one queue pair stay in order.        *)
Deliver(r, p) ==
  /\ pending[r][p] # <<>>
  /\ LET m == Head(pending[r][p])
     IN /\ inbox' = IF m[1] = "put" THEN inbox
                    ELSE [inbox EXCEPT ![p][r] =
                            IF m[1] = "signal" THEN @ + 1 ELSE m[2]]
        /\ visible' = IF m[1] = "put" THEN [visible EXCEPT ![r][p] = m[2]]
                                      ELSE visible
  /\ pending' = [pending EXCEPT ![r][p] = Tail(@)]
  /\ UNCHANGED <<kind, pc, todo, epoch, state, shadow, entered, exited,
                 given_up>>

Init ==
  /\ kind \in Kinds
  /\ pc = [r \in Rank |-> "closed"] /\ todo = [r \in Rank |-> {}]
  /\ epoch = [r \in Rank |-> 0] /\ state = [r \in Rank |-> 0]
  /\ inbox = [r \in Rank |-> [p \in Rank |-> 0]]
  /\ shadow = inbox /\ visible = inbox
  /\ pending = [r \in Rank |-> [p \in Rank |-> <<>>]]
  /\ entered = epoch /\ exited = epoch /\ given_up = epoch

Step(r) ==
  \/ Open(r) \/ Enter(r) \/ Fence(r) \/ Arrived(r) \/ Pass(r)
  \/ \E p \in other(r) : Arrive(r, p) \/ Take(r, p) \/ Land(r, p) \/ Deliver(r, p)

Next == \E r \in Rank : Step(r) \/ Close(r) \/ TimeOut(r)

Spec == Init /\ [][Next]_vars

-----------------------------------------------------------------------------
TypeOK ==
  /\ \A r \in Rank :
       /\ {epoch[r], state[r]} \subseteq 0 .. Word - 1
       /\ entered[r] <= MaxRound /\ entered[r] - exited[r] \in {0, 1}
       /\ \A p \in Rank : /\ visible[r][p] <= entered[r]
                          /\ inbox[r][p] <= IF kind = "gda" THEN MaxRound
                                                            ELSE Word - 1

(* Nobody passes a barrier that a peer has not entered, through wrapped    *)
(* epochs, new sessions and waits given up (waitInternal, ~Session).       *)
Separation == \A r, p \in Rank : entered[p] >= exited[r]

(* What a rank wrote before a barrier its peers see after it (the fence in *)
(* arrive: "any prior payload writes from this coop are observable to peers*)
(* before the relaxed inbox stores below land").                           *)
DataSeen == \A r \in Rank : \A p \in other(r) : visible[p][r] >= exited[r]

(* What its callers rely on: a barrier, and a hand-over of data.           *)
BarrierHolds == Separation /\ DataSeen

(* Some rank can go on until all have passed all their barriers, without   *)
(* closing a session or giving up a wait: no arrival is missed because a   *)
(* peer is already one ahead, none is taken twice.                         *)
NeverStuck == \/ \A r \in Rank : exited[r] = MaxRound
              \/ \E r \in Rank : ENABLED Step(r)
=============================================================================
