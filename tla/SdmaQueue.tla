----------------------------- MODULE SdmaQueue -----------------------------
(* The ring through which threads of a GPU hand copy and signal packets to *)
(* a copy engine (anvil's SdmaQueueDeviceHandle, and mori's puts on it).  A*)
(* thread reserves room by compare-and-swap, writes its packets, waits for *)
(* the reservations before its own to be submitted, and moves the engine's *)
(* write pointer.  Indices grow without bound; a packet never straddles the*)
(* end of the ring, the rest of which is filled with no-operations.  Units *)
(* are dwords; packets and ring are shorter than the real ones.  The retry *)
(* limits (2^30) are left out.                                             *)
EXTENDS Integers, Sequences, SequencesExt, FiniteSetsExt

CONSTANTS Size,        \* SDMA_QUEUE_SIZE
          CopyLen,     \* sizeof(SDMA_PKT_COPY_LINEAR)
          AtomicLen,   \* sizeof(SDMA_PKT_ATOMIC)
          Scenarios    \* the program of each thread

(* The packets an operation reserves room for, one reservation after the   *)
(* other.  A split is the put of mori: it reserves its copy and its signal *)
(* apart, submits them at once, and supposes it is the only thread at it.  *)
reservations(op) ==
  CASE op = "put" -> <<<<"copy">>>>
    [] op = "signal" -> <<<<"atomic">>>>
    [] op = "putWithSignal" -> <<<<"copy", "atomic">>>>
    [] op = "SdmaPutThread" -> <<<<"copy">>, <<"atomic">>>>
    [] op = "SdmaQueitThread" -> <<>>

len(kind) == IF kind = "copy" THEN CopyLen ELSE AtomicLen
total(kinds) == FoldSeq(LAMBDA k, n : n + len(k), 0, kinds)

Op == {"put", "signal", "putWithSignal", "SdmaPutThread", "SdmaQueitThread"}
Mori == {"SdmaPutThread", "SdmaQueitThread"}

(* A reservation and its padding fit an empty ring; the only thread of a   *)
(* scenario, or none, uses the puts of mori.                               *)
SdmaQueueAssumption ==
  /\ {CopyLen, AtomicLen} \subseteq Nat \ {0}
  /\ Size \in Nat /\ Size > 2 * (CopyLen + AtomicLen)
  /\ \A x \in Scenarios :
       /\ x \in Seq(Seq(Op))
       /\ Len(x) > 1 => \A t \in DOMAIN x : Range(x[t]) \cap Mori = {}

VARIABLES
  s,           \* the scenario
  ip,          \* [t]: the thread's operation
  pc,          \* [t]: where it is in it
  part,        \* [t]: the reservation it is at
  cur,         \* [t]: cur_index, the index it read from cachedWptr
  cached,      \* [t]: cachedHwReadIndex
  base,        \* [t]: where its submission starts (base, startBase)
  pending,     \* [t]: pendingWptr
  cachedWptr,  \* reserved up to here
  committedWptr, \* submitted up to here
  wptr,        \* the engine's write pointer
  doorbell,    \* its doorbell
  rptr,        \* its read pointer
  queueBuf,    \* [unit]: what is written there
  expected,    \* expectedSignals
  signal,      \* the signal word the atomics increment
  order,       \* the packets in the order of their reservation
  done         \* the packets in the order the engine carried them out

own == <<ip, pc, part, cur, cached, base, pending>>
engine == <<rptr, done, signal>>
vars == <<s, own, cachedWptr, committedWptr, wptr, doorbell, queueBuf,
          expected, order, engine>>

-----------------------------------------------------------------------------
Thread == DOMAIN s
active(t) == ip[t] \in DOMAIN s[t]
Op_(t) == s[t][ip[t]]
kinds(t) == reservations(Op_(t))[part[t]]
WrapIntoRing(i) == i % Size
Nop == [by |-> 0, ip |-> 0, kind |-> "nop", at |-> 0]
packet(t, kind, at) == [by |-> t, ip |-> ip[t], kind |-> kind, at |-> at]

(* The no-operations in front of n units reserved at i.                    *)
offset(i, n) ==
  IF WrapIntoRing(i) + n > Size THEN Size - WrapIntoRing(i) ELSE 0
new_index(t) == cur[t] + total(kinds(t)) + offset(cur[t], total(kinds(t)))

CanWriteUpto(i, read) == i - read < Size

at(t, l) == active(t) /\ pc[t] = l

Load(t) ==
  /\ at(t, "load")
  /\ reservations(Op_(t)) # <<>>
  /\ cur' = [cur EXCEPT ![t] = cachedWptr]
  /\ pc' = [pc EXCEPT ![t] = "check"]
  /\ UNCHANGED <<s, ip, part, cached, base, pending, cachedWptr,
                 committedWptr, wptr, doorbell, queueBuf, expected, order,
                 engine>>

(* No room as far as it knows: it reads the engine's read pointer.         *)
Refresh(t) ==
  /\ at(t, "check")
  /\ ~CanWriteUpto(new_index(t), cached[t])
  /\ cached' = [cached EXCEPT ![t] = rptr]
  /\ pc' = [pc EXCEPT ![t] =
              IF CanWriteUpto(new_index(t), rptr) THEN "check" ELSE "load"]
  /\ UNCHANGED <<s, ip, part, cur, base, pending, cachedWptr, committedWptr,
                 wptr, doorbell, queueBuf, expected, order, engine>>

(* Mutant: the submission starts at the last reservation.                  *)
start_last(t) == cur[t]

(* The submission starts at the first reservation of the operation.        *)
start(t) == IF part[t] = 1 THEN cur[t] ELSE base[t]

(* The compare-and-swap of ReserveQueueSpace.                              *)
Reserve(t) ==
  /\ at(t, "check")
  /\ CanWriteUpto(new_index(t), cached[t])
  /\ IF cachedWptr = cur[t]
     THEN /\ cachedWptr' = new_index(t)
          /\ base' = [base EXCEPT ![t] = start(t)]
          /\ order' = order \o [k \in DOMAIN kinds(t) |->
                                  packet(t, kinds(t)[k], 0)]
          /\ pc' = [pc EXCEPT ![t] = "place"]
     ELSE /\ pc' = [pc EXCEPT ![t] = "load"]
          /\ UNCHANGED <<cachedWptr, base, order>>
  /\ UNCHANGED <<s, ip, part, cur, cached, pending, committedWptr, wptr,
                 doorbell, queueBuf, expected, engine>>

(* What the thread writes from its reservation on.                         *)
contents(t) ==
  LET n == offset(cur[t], total(kinds(t)))
  IN [k \in 1 .. n |-> Nop]
     \o FlattenSeq([k \in DOMAIN kinds(t) |->
          [d \in 1 .. len(kinds(t)[k]) |-> packet(t, kinds(t)[k], d - 1)]])

Place(t) ==
  /\ at(t, "place")
  /\ LET c == contents(t)
     IN queueBuf' = [u \in 0 .. Size - 1 |->
          LET hit == {k \in DOMAIN c : WrapIntoRing(cur[t] + k - 1) = u}
          IN IF hit = {} THEN queueBuf[u] ELSE c[Max(hit)]]
  /\ pending' = [pending EXCEPT ![t] = new_index(t)]
  /\ IF part[t] < Len(reservations(Op_(t)))
     THEN /\ part' = [part EXCEPT ![t] = @ + 1]
          /\ pc' = [pc EXCEPT ![t] = "load"]
     ELSE /\ pc' = [pc EXCEPT ![t] = "submit"]
          /\ UNCHANGED part
  /\ UNCHANGED <<s, ip, cur, cached, base, cachedWptr, committedWptr, wptr,
                 doorbell, expected, order, engine>>

(* The reservations before this one have been submitted.                   *)
my_turn(t) == committedWptr = base[t]

Submit(t) ==
  /\ at(t, "submit")
  /\ my_turn(t)
  /\ wptr' = pending[t]
  /\ pc' = [pc EXCEPT ![t] = "ring"]
  /\ UNCHANGED <<s, ip, part, cur, cached, base, pending, cachedWptr,
                 committedWptr, doorbell, queueBuf, expected, order, engine>>

Ring(t) ==
  /\ at(t, "ring")
  /\ doorbell' = pending[t]
  /\ pc' = [pc EXCEPT ![t] = "commit"]
  /\ UNCHANGED <<s, ip, part, cur, cached, base, pending, cachedWptr,
                 committedWptr, wptr, queueBuf, expected, order, engine>>

(* End of an operation.  The puts of mori work on a copy of the handle, so *)
(* the read index they refreshed is lost.                                  *)
finish(t) ==
  /\ ip' = [ip EXCEPT ![t] = @ + 1]
  /\ pc' = [pc EXCEPT ![t] = "load"]
  /\ part' = [part EXCEPT ![t] = 1]
  /\ cached' = [cached EXCEPT ![t] = IF Op_(t) \in Mori THEN 0 ELSE @]

Commit(t) ==
  /\ at(t, "commit")
  /\ committedWptr' = pending[t]
  /\ expected' = IF Op_(t) = "SdmaPutThread" THEN expected + 1 ELSE expected
  /\ finish(t)
  /\ UNCHANGED <<s, cur, base, pending, cachedWptr, wptr, doorbell, queueBuf,
                 order, engine>>

(* waitForSignal's condition.                                              *)
quiet == signal = expected

Quiet(t) ==
  /\ at(t, "load")
  /\ Op_(t) = "SdmaQueitThread"
  /\ quiet
  /\ finish(t)
  /\ UNCHANGED <<s, cur, base, pending, cachedWptr, committedWptr, wptr,
                 doorbell, queueBuf, expected, order, engine>>

(* Packet p lies in one piece from where the engine reads.                 *)
whole(p) ==
  LET u == WrapIntoRing(rptr)
  IN /\ u + len(p.kind) <= Size
     /\ \A d \in 0 .. len(p.kind) - 1 : queueBuf[u + d] = [p EXCEPT !.at = d]

(* The engine carries out what lies between its read pointer and the       *)
(* doorbell, in order.                                                     *)
Engine ==
  /\ rptr < doorbell
  /\ LET p == queueBuf[WrapIntoRing(rptr)]
     IN IF p.kind = "nop"
        THEN rptr' = rptr + 1 /\ UNCHANGED <<done, signal>>
        ELSE /\ rptr' = rptr + len(p.kind)
             /\ done' = Append(done, IF whole(p) THEN p ELSE Nop)
             /\ signal' = IF p.kind = "atomic" THEN signal + 1 ELSE signal
  /\ UNCHANGED <<s, own, cachedWptr, committedWptr, wptr, doorbell, queueBuf,
                 expected, order>>

Init ==
  /\ s \in Scenarios
  /\ ip = [t \in Thread |-> 1]
  /\ pc = [t \in Thread |-> "load"]
  /\ part = [t \in Thread |-> 1]
  /\ cur = [t \in Thread |-> 0]
  /\ cached = [t \in Thread |-> 0]
  /\ base = [t \in Thread |-> 0]
  /\ pending = [t \in Thread |-> 0]
  /\ cachedWptr = 0 /\ committedWptr = 0
  /\ wptr = 0 /\ doorbell = 0 /\ rptr = 0
  /\ queueBuf = [u \in 0 .. Size - 1 |-> Nop]
  /\ expected = 0 /\ signal = 0
  /\ order = <<>> /\ done = <<>>

Step(t) ==
  \/ Load(t) \/ Refresh(t) \/ Reserve(t) \/ Place(t)
  \/ Submit(t) \/ Ring(t) \/ Commit(t) \/ Quiet(t)

Next == Engine \/ \E t \in Thread : Step(t)

Spec == Init /\ [][Next]_vars

-----------------------------------------------------------------------------
(* The three pointers never cross, the engine is never more than a ring    *)
(* behind the reservations, and the write pointer is never ahead of what   *)
(* was reserved.                                                           *)
TypeOK ==
  /\ rptr <= doorbell /\ doorbell <= wptr
  /\ committedWptr <= doorbell /\ wptr <= cachedWptr
  /\ cachedWptr - rptr < Size
  /\ \A t \in Thread : cached[t] <= rptr /\ part[t] \in 1 .. 2
  /\ \A u \in 0 .. Size - 1 : queueBuf[u].kind \in {"nop", "copy", "atomic"}

(* The engine carries out the packets in the order of their reservations,  *)
(* each once and whole: it meets no packet that is not yet written, none   *)
(* written over, none cut by the end of the ring (ReserveQueueSpace,       *)
(* placePacket, submitPacket).                                             *)
CarriedOutInOrder == IsPrefix(done, order)

(* A thread past its quiet has had all its copies made (SdmaQueitThread).  *)
QuietMeansCopied ==
  \A t \in Thread : \A q \in DOMAIN s[t] :
    s[t][q] = "SdmaQueitThread" /\ ip[t] > q =>
      \A k \in DOMAIN order : order[k].ip < q => k \in DOMAIN done

(* Nobody waits for ever: as long as an operation is unfinished or a packet*)
(* not carried out, somebody can go on (the waits for room, for the turn   *)
(* to submit, for the signals).                                            *)
NeverStuck ==
  (\E t \in Thread : active(t)) \/ done # order => ENABLED Next
=============================================================================
