------------------------------ MODULE CcoQueue ------------------------------
(* The queue pair of one peer under cco's scale-out layer (ccoGda): puts,  *)
(* gets and signals of a group of warps, whose doorbell may be left for a  *)
(* later flush (ccoGdaOptFlagsAggregateRequests), flush, counter and the   *)
(* peer's waitSignal.  Unlike in module Ibgda every completion wait is for *)
(* a target of its own (quietUntil), and a bnxt reservation takes its ring *)
(* slots and its packet numbers in two steps.  The NIC is modelled from    *)
(* its use: entries are carried out in order, each once, and reported.     *)
(* Addresses, keys, team ranks and inline values are left out.             *)
EXTENDS Integers, Sequences, SequencesExt, FiniteSetsExt

CONSTANTS SqN,       \* sqWqeNum, a power of two
          CqMod,     \* width of mlx5's completion counter (2^16)
          Scenarios  \* provider, groups and programs of the warps, peer's waits

Provider == {"MLX5", "BNXT", "PSD", "CCQE"}
Kind == {"put", "get", "signal", "flush", "counter"}
Op == [kind : Kind, lanes : 0 .. SqN - 1, packets : 1 .. 2, sig : 0 .. 2,
       aggregate : BOOLEAN]

CcoQueueAssumption ==
  /\ SqN \in {2, 4, 8, 16} /\ CqMod \in Nat /\ SqN < CqMod
  /\ \A x \in Scenarios :
       /\ x.prv \in Provider
       /\ x.prog \in Seq(Seq(Op)) /\ x.waits \in Seq(Nat)
       /\ x.coop \in [DOMAIN x.prog -> SUBSET DOMAIN x.prog]

VARIABLES
  s,           \* the scenario
  ip, pc,      \* [w]: the warp's operation, and where it is in it
  base,        \* [w]: base, curPostIdx
  psn,         \* [w]: its first packet number (bnxt)
  target,      \* [w]: targetIdx of quietUntil
  back,        \* [w]: where quietUntil returns to
  cons, seen,  \* [w]: doneIdx and the completion counter it read
  postIdx, dbTouchIdx, doneIdx,
  psnIdx,      \* packet numbers handed out
  pollCqLock,  \* its holder, or 0
  cq_consumer, \* completions taken (psd)
  counterBuf,  \* counter operations done
  sq,          \* [slot]: the entry written there, and its packet number
  rung,        \* the doorbell
  cqe,         \* the counts the completion queue reported, in order
  sent,        \* entries in the order the NIC carried them out
  order,       \* entries in the order of their reservation
  signalBuf, signalShadow, waited   \* the peer's signal

local == <<ip, pc, base, psn, target, back, cons, seen>>
wq == <<postIdx, dbTouchIdx, doneIdx, psnIdx>>
cq == <<pollCqLock, cq_consumer>>
nic == <<sq, rung, cqe, sent>>
peer == <<signalBuf, signalShadow, waited>>
vars == <<s, local, wq, cq, counterBuf, nic, order, peer>>

-----------------------------------------------------------------------------
Warp == DOMAIN s.prog
active(w) == ip[w] \in DOMAIN s.prog[w]
op(w) == s.prog[w][ip[w]]
at(w, l) == active(w) /\ pc[w] = l
goto(w, l) == pc' = [pc EXCEPT ![w] = l]
finish(w) == ip' = [ip EXCEPT ![w] = @ + 1] /\ goto(w, "start")
leader(w) == w = Min(s.coop[w])
bnxt == s.prv = "BNXT"

size(o) == o.lanes + IF o.sig > 0 THEN 1 ELSE 0
total(w) == size(op(w))

(* The entries of an operation: its lanes' data, then the leader's signal. *)
wqe(w, k) == [by |-> w, ip |-> ip[w], k |-> k]
Empty == [id |-> [by |-> 0, ip |-> 0, k |-> 0], psn |-> 0]
opOf(id) == s.prog[id.by][id.ip]
is_signal(id) == id.k > opOf(id).lanes
packets(id) == IF is_signal(id) THEN 1 ELSE opOf(id).packets

(* quietUntil(to), then on at ret.                                         *)
wait_until(w, to, ret) ==
  /\ target' = [target EXCEPT ![w] = to]
  /\ back' = [back EXCEPT ![w] = ret]
  /\ goto(w, "wait")

-----------------------------------------------------------------------------
(* The leader's atomicAdd on postIdx.                                      *)
Reserve(w) ==
  /\ at(w, "start") /\ op(w).kind \in {"put", "get", "signal"}
  /\ base' = [base EXCEPT ![w] = postIdx]
  /\ postIdx' = postIdx + total(w)
  /\ order' = order \o [k \in 1 .. total(w) |-> wqe(w, k)]
  /\ goto(w, IF bnxt THEN "psn" ELSE "room")
  /\ UNCHANGED <<s, ip, psn, target, back, cons, seen, dbTouchIdx, doneIdx,
                 psnIdx, cq, counterBuf, nic, peer>>

packet_total(w) == op(w).lanes * op(w).packets + total(w) - op(w).lanes

(* warpAggregateBnxtPsn: the packet numbers, in an atomic of their own.    *)
ReservePsn(w) ==
  /\ at(w, "psn")
  /\ psn' = [psn EXCEPT ![w] = psnIdx]
  /\ psnIdx' = psnIdx + packet_total(w)
  /\ goto(w, "room")
  /\ UNCHANGED <<s, ip, base, target, back, cons, seen, postIdx, dbTouchIdx,
                 doneIdx, cq, counterBuf, nic, order, peer>>

(* numFreeEntries > entriesUntilMine, where dbTouched cancels out.         *)
has_room(w) == SqN + doneIdx > base[w] + total(w)

(* waitSqSpace and the loop of reserveWqeSlots.                            *)
Room(w) ==
  /\ at(w, "room")
  /\ IF has_room(w)
     THEN goto(w, "post") /\ UNCHANGED <<target, back>>
     ELSE wait_until(w, IF bnxt THEN dbTouchIdx ELSE base[w], "room")
  /\ UNCHANGED <<s, ip, base, psn, cons, seen, wq, cq, counterBuf, nic, order,
                 peer>>

(* Mutant: the signal takes the first slot of the reservation.             *)
slot_signal_first(w, k) ==
  base[w] + IF k > op(w).lanes THEN 0
            ELSE k - 1 + total(w) - op(w).lanes

slot(w, k) == base[w] + k - 1

(* The warp writes its entries; the leader stops there when the doorbell is*)
(* left to a flush.                                                        *)
Post(w) ==
  /\ at(w, "post")
  /\ sq' = [i \in DOMAIN sq |->
       LET hit == {k \in 1 .. total(w) : slot(w, k) % SqN = i}
       IN IF hit = {} THEN sq[i]
          ELSE [id |-> wqe(w, Max(hit)),
                psn |-> psn[w] + (Max(hit) - 1) * op(w).packets]]
  /\ IF op(w).aggregate THEN finish(w) ELSE goto(w, "turn") /\ UNCHANGED ip
  /\ UNCHANGED <<s, base, psn, target, back, cons, seen, wq, cq, counterBuf,
                 rung, cqe, sent, order, peer>>

my_turn(w) == dbTouchIdx = base[w]

(* ringDoorbellOrdered.                                                    *)
Ring(w) ==
  /\ at(w, "turn") /\ my_turn(w)
  /\ rung' = base[w] + total(w)
  /\ goto(w, "touch")
  /\ UNCHANGED <<s, ip, base, psn, target, back, cons, seen, wq, cq,
                 counterBuf, sq, cqe, sent, order, peer>>

Touch(w) ==
  /\ at(w, "touch")
  /\ dbTouchIdx' = base[w] + total(w)
  /\ finish(w)
  /\ UNCHANGED <<s, base, psn, target, back, cons, seen, postIdx, doneIdx,
                 psnIdx, cq, counterBuf, nic, order, peer>>

-----------------------------------------------------------------------------
(* flush and counter are called by the group together: coop.sync, one      *)
(* thread does the work, coop.sync.                                        *)
Join(w) ==
  /\ at(w, "start") /\ op(w).kind \in {"flush", "counter"}
  /\ goto(w, "sync")
  /\ UNCHANGED <<s, ip, base, psn, target, back, cons, seen, wq, cq,
                 counterBuf, nic, order, peer>>

joined(w) == \A v \in s.coop[w] : at(v, "sync") /\ ip[v] = ip[w]

(* flushAsyncImpl rings the doorbell of what is pending.                   *)
FlushAsync(w) ==
  /\ leader(w) /\ joined(w) /\ at(w, "sync") /\ op(w).kind = "flush"
  /\ IF dbTouchIdx = postIdx
     THEN wait_until(w, postIdx, "leave") /\ UNCHANGED rung
     ELSE /\ target' = [target EXCEPT ![w] = postIdx]
          /\ rung' = postIdx
          /\ goto(w, "flushed") /\ UNCHANGED back
  /\ UNCHANGED <<s, ip, base, psn, cons, seen, wq, cq, counterBuf, sq, cqe,
                 sent, order, peer>>

FlushTouch(w) ==
  /\ at(w, "flushed")
  /\ dbTouchIdx' = target[w]
  /\ wait_until(w, target[w], "leave")
  /\ UNCHANGED <<s, ip, base, psn, cons, seen, postIdx, doneIdx, psnIdx, cq,
                 counterBuf, nic, order, peer>>

Counter(w) ==
  /\ leader(w) /\ joined(w) /\ at(w, "sync") /\ op(w).kind = "counter"
  /\ wait_until(w, postIdx, "leave")
  /\ UNCHANGED <<s, ip, base, psn, cons, seen, wq, cq, counterBuf, nic, order,
                 peer>>

Leave(w) ==
  /\ \/ at(w, "leave")
     \/ at(w, "sync") /\ ~leader(w) /\ ip[Min(s.coop[w])] > ip[w]
  /\ counterBuf' = IF leader(w) /\ op(w).kind = "counter" THEN counterBuf + 1
                                                          ELSE counterBuf
  /\ finish(w)
  /\ UNCHANGED <<s, base, psn, target, back, cons, seen, wq, cq, nic, order,
                 peer>>

-----------------------------------------------------------------------------
(* quietUntil.                                                             *)
reached(w) == doneIdx >= target[w]

Reached(w) ==
  /\ at(w, "wait") /\ reached(w)
  /\ goto(w, back[w])
  /\ UNCHANGED <<s, ip, base, psn, target, back, cons, seen, wq, cq,
                 counterBuf, nic, order, peer>>

(* bnxt and psd without a collapsed queue poll under a lock.               *)
locks == s.prv \in {"BNXT", "PSD"}

Lock(w) ==
  /\ at(w, "wait") /\ locks /\ ~reached(w)
  /\ pollCqLock = 0
  /\ pollCqLock' = w
  /\ goto(w, "locked")
  /\ UNCHANGED <<s, ip, base, psn, target, back, cons, seen, wq, cq_consumer,
                 counterBuf, nic, order, peer>>

Unlock(w) ==
  /\ at(w, "locked") /\ reached(w)
  /\ pollCqLock' = 0
  /\ goto(w, "wait")
  /\ UNCHANGED <<s, ip, base, psn, target, back, cons, seen, wq, cq_consumer,
                 counterBuf, nic, order, peer>>

(* The counter of the collapsed queue; psd takes some of the new entries.  *)
report ==
  CASE s.prv = "MLX5" -> {<<Last(cqe) % CqMod, 0>>}
    [] bnxt -> {<<Last(cqe) % SqN, 0>>}
    [] s.prv = "CCQE" -> {<<Last(cqe), 0>>}
    [] s.prv = "PSD" -> {<<cqe[c], c>> : c \in cq_consumer + 1 .. Len(cqe)}

Poll(w) ==
  /\ at(w, IF locks THEN "locked" ELSE "wait") /\ ~reached(w)
  /\ cqe # <<>>
  /\ \E r \in report :
       /\ seen' = [seen EXCEPT ![w] = r[1]]
       /\ cq_consumer' = r[2]
  /\ cons' = [cons EXCEPT ![w] = doneIdx]
  /\ goto(w, "settle")
  /\ UNCHANGED <<s, ip, base, psn, target, back, wq, pollCqLock, counterBuf,
                 nic, order, peer>>

(* mlx5: a forward delta, if it stays within what has been rung.           *)
rebuilt(w) ==
  LET delta == (seen[w] - cons[w]) % CqMod
  IN IF delta # 0 /\ delta <= dbTouchIdx - cons[w] THEN cons[w] + delta
                                                   ELSE cons[w]

(* bnxt: the largest count up to dbTouchIdx with the position reported.    *)
largest(w) ==
  LET v == dbTouchIdx - (dbTouchIdx % SqN) + seen[w]
  IN IF v > dbTouchIdx THEN v - SqN ELSE v

Settle(w) ==
  /\ at(w, "settle")
  /\ doneIdx' = CASE s.prv = "MLX5" -> Max({doneIdx, rebuilt(w)})
                  [] bnxt -> Max({doneIdx, largest(w)})
                  [] s.prv = "PSD" -> seen[w]
                  [] s.prv = "CCQE" -> IF seen[w] >= target[w] THEN seen[w]
                                                               ELSE doneIdx
  /\ goto(w, IF locks THEN "locked" ELSE "wait")
  /\ UNCHANGED <<s, ip, base, psn, target, back, cons, seen, postIdx,
                 dbTouchIdx, psnIdx, cq, counterBuf, nic, order, peer>>

-----------------------------------------------------------------------------
Carry ==
  /\ Len(sent) < rung
  /\ LET e == sq[Len(sent) % SqN]
     IN /\ sent' = Append(sent, e)
        /\ signalBuf' = signalBuf + IF e.id.by # 0 /\ is_signal(e.id)
                                    THEN opOf(e.id).sig ELSE 0
  /\ cqe' = Append(cqe, Len(sent'))
  /\ UNCHANGED <<s, local, wq, cq, counterBuf, sq, rung, order, signalShadow,
                 waited>>

(* waitSignal(least) of the peer, which consumes what it waited for.       *)
WaitSignal ==
  /\ waited < Len(s.waits)
  /\ LET least == s.waits[waited + 1]
     IN /\ signalBuf - signalShadow >= least
        /\ signalShadow' = signalShadow + least
  /\ waited' = waited + 1
  /\ UNCHANGED <<s, local, wq, cq, counterBuf, nic, order, signalBuf>>

Init ==
  /\ s \in Scenarios
  /\ LET all(v) == [w \in Warp |-> v]
     IN /\ ip = all(1) /\ pc = all("start") /\ back = all("leave")
        /\ base = all(0) /\ psn = all(0) /\ target = all(0)
        /\ cons = all(0) /\ seen = all(0)
  /\ postIdx = 0 /\ dbTouchIdx = 0 /\ doneIdx = 0 /\ psnIdx = 0
  /\ pollCqLock = 0 /\ cq_consumer = 0 /\ counterBuf = 0
  /\ sq = [i \in 0 .. SqN - 1 |-> Empty]
  /\ rung = 0 /\ cqe = <<>> /\ sent = <<>> /\ order = <<>>
  /\ signalBuf = 0 /\ signalShadow = 0 /\ waited = 0

(* The operations of ccoGda, each the whole of its handler.                *)
quietUntil(w) == Reached(w) \/ Lock(w) \/ Unlock(w) \/ Poll(w) \/ Settle(w)
submit(w) == \/ Reserve(w) \/ ReservePsn(w) \/ Room(w) \/ Post(w)
             \/ Ring(w) \/ Touch(w)

running(w, kind) == active(w) /\ op(w).kind = kind
Put(w) == running(w, "put") /\ (submit(w) \/ quietUntil(w))
Get(w) == running(w, "get") /\ (submit(w) \/ quietUntil(w))
Signal(w) == running(w, "signal") /\ (submit(w) \/ quietUntil(w))
Flush(w) == /\ running(w, "flush")
            /\ \/ Join(w) \/ FlushAsync(w) \/ FlushTouch(w) \/ Leave(w)
               \/ quietUntil(w)
SignalCounter(w) == /\ running(w, "counter")
                    /\ Join(w) \/ Counter(w) \/ Leave(w) \/ quietUntil(w)

Step(w) == Put(w) \/ Get(w) \/ Signal(w) \/ Flush(w) \/ SignalCounter(w)

(* The programs are over and everything has been carried out and seen.     *)
Finished ==
  /\ \A w \in Warp : ~active(w)
  /\ Len(sent) = rung /\ waited = Len(s.waits)
  /\ UNCHANGED vars

Next == Carry \/ WaitSignal \/ Finished \/ \E w \in Warp : Step(w)

Spec == Init /\ [][Next]_vars

-----------------------------------------------------------------------------
TypeOK ==
  /\ dbTouchIdx <= rung /\ rung <= postIdx /\ postIdx = Len(order)
  /\ {doneIdx} \cup {target[w] : w \in Warp} \subseteq 0 .. postIdx
  /\ pollCqLock \in Warp \cup {0} /\ cq_consumer <= Len(cqe)
  /\ signalShadow <= signalBuf /\ psnIdx <= 2 * postIdx

(* The NIC carries out every entry once, in the order of the reservations, *)
(* and none that is not written yet or already written over (waitSqSpace,  *)
(* ringDoorbellOrdered, the doorbell of a flush).                          *)
SentInOrder ==
  /\ Len(sent) <= Len(order)
  /\ \A i \in DOMAIN sent : sent[i].id = order[i]

(* bnxt counts packets: an entry carries the number of packets before it   *)
(* (waitSqSpace's caller: "so PSN order matches slot order across          *)
(* concurrent warps").                                                     *)
PacketsInOrder ==
  bnxt => \A i \in DOMAIN sent :
    sent[i].psn = MapThenSumSet(LAMBDA j : packets(sent[j].id), 1 .. i - 1)

(* What the completion counter was rebuilt to never runs ahead of the NIC. *)
DoneIsDone == doneIdx <= Len(sent)

(* After a flush or a counter everything its group reserved before has been*)
(* carried out, also what was posted without a doorbell.                   *)
FlushMeansSent ==
  \A w \in Warp : \A q \in DOMAIN s.prog[w] :
    s.prog[w][q].kind \in {"flush", "counter"} /\ ip[w] > q =>
      \A i \in DOMAIN order :
        order[i].by \in s.coop[w] /\ order[i].ip < q => i <= Len(sent)

(* What the peer consumed of its signal was sent after the data it is for. *)
SignalAfterData ==
  signalShadow <= MapThenSumSet(LAMBDA i : opOf(order[i]).sig,
    {i \in DOMAIN order : is_signal(order[i]) /\
       \A k \in 1 .. opOf(order[i]).lanes :
         [order[i] EXCEPT !.k = k] \in {sent[j].id : j \in DOMAIN sent}})
=============================================================================
