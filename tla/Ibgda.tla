------------------------------- MODULE Ibgda -------------------------------
(* One RDMA queue pair driven from the GPU (mori's ibgda kernels).  Warps  *)
(* reserve work queue entries by an atomic add, wait for room in the send  *)
(* ring, write their entries, ring the doorbell in the order of their      *)
(* reservations, and learn of completions from the completion queue, which *)
(* mlx5 and bnxt collapse to one entry that holds the low bits of a count. *)
(* The lanes of a warp run in step: an operation is a warp's and posts one *)
(* entry for each of its lanes.  The NIC, its rings and the link are       *)
(* modelled from their use: entries are carried out in order, each once,   *)
(* and those posted with cqeSignal are reported.  The operations that take *)
(* an address of the heap are copies of those that take a symmetric object;*)
(* they differ in what they signal.  A transfer over several chunks of the *)
(* heap is one round of entries for each.  Keys, addresses and packet      *)
(* numbers are left out, and counters stay below Word.                     *)
EXTENDS Integers, Sequences, SequencesExt, FiniteSetsExt

CONSTANTS SqN,       \* sqWqeNum, entries of the send ring, a power of two
          CqMod,     \* width of the completion counter (2^16)
          Word,      \* width of the counters (2^32)
          Slots,     \* nslots, the buffers for results of atomics
          Prompt,    \* a bnxt NIC may be done before dbTouchIdx tells
          Scenarios  \* provider, and the operations of each warp

Provider == {"MLX5", "BNXT", "PSD"}
Kind == {"put", "putImm", "get", "putSignal", "atomic", "fetch", "quiet"}
Op == [kind : Kind, lanes : 0 .. SqN - 2, chunks : 1 .. 3, addr : BOOLEAN]

IbgdaAssumption ==
  /\ SqN \in {2, 4, 8, 16} /\ {CqMod, Word, Slots} \subseteq Nat
  /\ SqN < CqMod /\ CqMod < Word
  /\ Prompt \in BOOLEAN
  /\ \A x \in Scenarios :
       /\ x.prv \in Provider
       /\ x.prog \in Seq(Seq(Op))

VARIABLES
  s,           \* the scenario
  ip, pc,      \* [w]: the warp's operation, and where it is in it
  chunk,       \* [w]: the chunk it is at
  base,        \* [w]: warp_sq_counter
  slot,        \* [w]: base_slot
  target,      \* [w]: exitTarget, dbTouchedIdx
  cons,        \* [w]: cons, what the drain knows to be done
  seen,        \* [w]: wqeCounter, what it read in the completion queue
  back,        \* [w]: where the drain returns to
  owed,        \* [w]: entries reserved when its quiet began
  got,         \* [w]: the result it read
  msn,         \* msntblSlotIdx (bnxt)
  postIdx,     \* entries reserved
  dbTouchIdx,  \* entries whose doorbell has been rung
  doneIdx,     \* entries known to be done
  pollCqLock,  \* its holder, or 0
  head, tail,  \* atomicIbuf
  sq,          \* [slot]: the entry written there
  rung,        \* the doorbell
  cqe,         \* the counts the completion queue reported, in order
  cq_consumer, \* how many of them have been taken (psd)
  ibuf,        \* [slot]: whose result is there
  order,       \* entries in the order of their reservation
  sent         \* entries in the order the NIC carried them out

local == <<ip, pc, chunk, base, slot, target, cons, seen, back, owed, got>>
counters == <<msn, postIdx, dbTouchIdx, doneIdx>>
nic == <<sq, rung, cqe, ibuf, sent>>
vars == <<s, local, counters, pollCqLock, head, tail, cq_consumer, order, nic>>

-----------------------------------------------------------------------------
Warp == DOMAIN s.prog
active(w) == ip[w] \in DOMAIN s.prog[w]
operation(w) == s.prog[w][ip[w]]
op(w) == operation(w).kind
lanes(w) == operation(w).lanes
at(w, l) == active(w) /\ pc[w] = l
goto(w, l) == pc' = [pc EXCEPT ![w] = l]

(* With its last chunk a put with signal posts one more entry, the signal. *)
last_chunk(w) == chunk[w] = operation(w).chunks
num_wqes(w) ==
  lanes(w) + IF op(w) = "putSignal" /\ last_chunk(w) THEN 1 ELSE 0
wqe(w, k) == [by |-> w, ip |-> ip[w], chunk |-> chunk[w], k |-> k]
Empty == [by |-> 0, ip |-> 0, chunk |-> 0, k |-> 0]
sq_slot(i) == i % SqN

finish(w) ==
  /\ ip' = [ip EXCEPT ![w] = @ + 1]
  /\ goto(w, "start")

enter_drain(w, ret) ==
  /\ goto(w, "drain")
  /\ back' = [back EXCEPT ![w] = ret]

(* Leave the drain; the quiet is over when its drain is.                   *)
return(w) ==
  IF back[w] = "done" THEN finish(w) ELSE goto(w, back[w]) /\ UNCHANGED ip

(* DrainToLive: the final quiet waits for the live postIdx.                *)
live(w) == back[w] = "done"
exit_target(w) == IF live(w) THEN postIdx ELSE dbTouchIdx

-----------------------------------------------------------------------------
(* The result buffers of fetching atomics (ShmemGetAtomicIbufSlot): claim, *)
(* then wait until they are free.                                          *)
Claim(w) ==
  /\ at(w, "start") /\ op(w) = "fetch"
  /\ slot' = [slot EXCEPT ![w] = head]
  /\ head' = head + lanes(w)
  /\ goto(w, "slot")
  /\ UNCHANGED <<s, chunk, ip, base, target, cons, seen, back, owed, got,
                 counters, pollCqLock, tail, cq_consumer, order, nic>>

slot_free(w) == slot[w] + lanes(w) - tail <= Slots

(* The leader reserves the entries of its warp.  On bnxt the reservation   *)
(* is made in msnPack, and postIdx follows.                                *)
Reserve(w) ==
  /\ \/ at(w, "start") /\ op(w) \notin {"fetch", "quiet"}
     \/ at(w, "slot") /\ slot_free(w)
  /\ base' = [base EXCEPT ![w] = IF s.prv = "BNXT" THEN msn ELSE postIdx]
  /\ order' = order \o [k \in 1 .. num_wqes(w) |-> wqe(w, k)]
  /\ IF s.prv = "BNXT"
     THEN msn' = msn + num_wqes(w) /\ goto(w, "publish") /\ UNCHANGED postIdx
     ELSE postIdx' = postIdx + num_wqes(w) /\ goto(w, "room") /\ UNCHANGED msn
  /\ UNCHANGED <<s, chunk, ip, slot, target, cons, seen, back, owed, got,
                 dbTouchIdx, doneIdx, pollCqLock, head, tail, cq_consumer,
                 nic>>

Publish(w) ==
  /\ at(w, "publish")
  /\ postIdx' = Max({postIdx, base[w] + num_wqes(w)})
  /\ goto(w, "room")
  /\ UNCHANGED <<s, chunk, ip, base, slot, target, cons, seen, back, owed,
                 got, msn, dbTouchIdx, doneIdx, pollCqLock, head, tail,
                 cq_consumer, order, nic>>

(* num_free_entries > num_entries_until_warp_last_entry.                   *)
has_room(w) ==
  SqN - (dbTouchIdx - doneIdx) > base[w] + num_wqes(w) - dbTouchIdx

Room(w) ==
  /\ at(w, "room")
  /\ IF has_room(w) THEN goto(w, "post") /\ UNCHANGED back
                    ELSE enter_drain(w, "room")
  /\ UNCHANGED <<s, chunk, ip, base, slot, target, cons, seen, owed, got,
                 counters, pollCqLock, head, tail, cq_consumer, order, nic>>

(* PostWrite, PostRead, PostWriteInline, PostAtomic.                       *)
Post(w) ==
  /\ at(w, "post")
  /\ sq' = [i \in DOMAIN sq |->
       LET hit == {k \in 1 .. num_wqes(w) : sq_slot(base[w] + k - 1) = i}
       IN IF hit = {} THEN sq[i] ELSE wqe(w, Max(hit))]
  /\ goto(w, "turn")
  /\ UNCHANGED <<s, chunk, ip, base, slot, target, cons, seen, back, owed,
                 got, counters, pollCqLock, head, tail, cq_consumer, order,
                 rung, cqe, ibuf, sent>>

my_turn(w) == dbTouchIdx = base[w]

(* UpdateSendDbrRecord, RingDoorbell.                                      *)
Ring(w) ==
  /\ at(w, "turn") /\ my_turn(w)
  /\ rung' = base[w] + num_wqes(w)
  /\ goto(w, "touch")
  /\ UNCHANGED <<s, chunk, ip, base, slot, target, cons, seen, back, owed,
                 got, counters, pollCqLock, head, tail, cq_consumer, order,
                 sq, cqe, ibuf, sent>>

(* On to the next chunk; a fetching atomic waits for what has been rung.   *)
Touch(w) ==
  /\ at(w, "touch")
  /\ dbTouchIdx' = base[w] + num_wqes(w)
  /\ chunk' = [chunk EXCEPT ![w] = IF last_chunk(w) THEN 1 ELSE @ + 1]
  /\ IF op(w) = "fetch" THEN enter_drain(w, "read") /\ UNCHANGED ip
     ELSE UNCHANGED back /\ IF last_chunk(w) THEN finish(w)
                            ELSE goto(w, "start") /\ UNCHANGED ip
  /\ UNCHANGED <<s, base, slot, target, cons, seen, owed, got, msn, postIdx,
                 doneIdx, pollCqLock, head, tail, cq_consumer, order, nic>>

Read(w) ==
  /\ at(w, "read")
  /\ got' = [got EXCEPT ![w] =
       [k \in 1 .. lanes(w) |-> ibuf[(slot[w] + k - 1) % Slots]]]
  /\ goto(w, "release")
  /\ UNCHANGED <<s, chunk, ip, base, slot, target, cons, seen, back, owed,
                 counters, pollCqLock, head, tail, cq_consumer, order, nic>>

(* ShmemReleaseAtomicIbufSlot: in the order of the claims.                 *)
Release(w) ==
  /\ at(w, "release")
  /\ tail = slot[w]
  /\ tail' = slot[w] + lanes(w)
  /\ finish(w)
  /\ UNCHANGED <<s, chunk, base, slot, target, cons, seen, back, owed, got,
                 counters, pollCqLock, head, cq_consumer, order, nic>>

(* ShmemQuietThreadKernel: drain the queue pair.                           *)
Quiet(w) ==
  /\ at(w, "start") /\ op(w) = "quiet"
  /\ owed' = [owed EXCEPT ![w] = postIdx]
  /\ enter_drain(w, "done")
  /\ UNCHANGED <<s, chunk, ip, base, slot, target, cons, seen, got, counters,
                 pollCqLock, head, tail, cq_consumer, order, nic>>

-----------------------------------------------------------------------------
(* mlx5: the counter is read before the target is known to be reached; no  *)
(* lock.                                                                   *)
EnterMlx5(w) ==
  /\ at(w, "drain") /\ s.prv = "MLX5"
  /\ target' = [target EXCEPT ![w] = exit_target(w)]
  /\ cons' = [cons EXCEPT ![w] = doneIdx]
  /\ IF doneIdx >= exit_target(w) THEN return(w)
                                  ELSE goto(w, "poll") /\ UNCHANGED ip
  /\ UNCHANGED <<s, chunk, base, slot, seen, back, owed, got, counters,
                 pollCqLock, head, tail, cq_consumer, order, nic>>

(* bnxt: one warp drains.  Who finds the lock taken goes back to its gate, *)
(* or waits, in a final quiet, until all is done.  (A turn round a gate    *)
(* that is still closed changes nothing and is left out.)                  *)
EnterBnxt(w) ==
  /\ at(w, "drain") /\ s.prv = "BNXT"
  /\ \/ live(w) /\ doneIdx >= postIdx /\ return(w) /\ UNCHANGED pollCqLock
     \/ /\ ~(live(w) /\ doneIdx >= postIdx)
        /\ pollCqLock = 0
        /\ pollCqLock' = w
        /\ goto(w, "locked") /\ UNCHANGED ip
     \/ /\ ~live(w) /\ pollCqLock # 0
        /\ back[w] = "room" => has_room(w)
        /\ return(w) /\ UNCHANGED pollCqLock
  /\ UNCHANGED <<s, chunk, base, slot, target, cons, seen, back, owed, got,
                 counters, head, tail, cq_consumer, order, nic>>

Locked(w) ==
  /\ at(w, "locked")
  /\ target' = [target EXCEPT ![w] = exit_target(w)]
  /\ cons' = [cons EXCEPT ![w] = doneIdx]
  /\ goto(w, IF doneIdx >= exit_target(w) THEN "unlock" ELSE "poll")
  /\ UNCHANGED <<s, chunk, ip, base, slot, seen, back, owed, got, counters,
                 pollCqLock, head, tail, cq_consumer, order, nic>>

(* The count of the last completion, as the collapsed entry holds it.      *)
completions == IF cqe = <<>> THEN 0 ELSE Last(cqe)
width == IF s.prv = "MLX5" THEN CqMod ELSE SqN

(* Polls that find what is known already are left out.                     *)
Poll(w) ==
  /\ at(w, "poll") /\ s.prv # "PSD"
  /\ doneIdx # cons[w] \/ completions % width # cons[w] % width
  /\ seen' = [seen EXCEPT ![w] = completions % width]
  /\ goto(w, "settle")
  /\ UNCHANGED <<s, chunk, ip, base, slot, target, cons, back, owed, got,
                 counters, pollCqLock, head, tail, cq_consumer, order, nic>>

(* mlx5: the forward delta from what was done, if so many are outstanding. *)
rebuilt(w) ==
  LET delta == (seen[w] - cons[w]) % CqMod
      window == (postIdx - cons[w]) % Word
  IN IF delta # 0 /\ delta <= window THEN cons[w] + delta ELSE cons[w]

(* Mutant: the position is taken for one of the ring's present turn.       *)
largest_this_turn(w) == dbTouchIdx - sq_slot(dbTouchIdx) + seen[w]

(* bnxt: the largest V <= dbTouchIdx with the ring position reported.      *)
largest(w) ==
  LET v == dbTouchIdx - sq_slot(dbTouchIdx) + seen[w]
  IN IF v > dbTouchIdx THEN (v - SqN) % Word ELSE v

Settle(w) ==
  /\ at(w, "settle")
  /\ doneIdx' = Max({doneIdx,
                     IF s.prv = "MLX5" THEN rebuilt(w) ELSE largest(w)})
  /\ cons' = [cons EXCEPT ![w] = doneIdx']
  /\ target' = [target EXCEPT ![w] = IF live(w) THEN postIdx ELSE @]
  /\ IF doneIdx' < target'[w] THEN goto(w, "poll") /\ UNCHANGED ip
     ELSE IF s.prv = "BNXT" THEN goto(w, "unlock") /\ UNCHANGED ip
     ELSE return(w)
  /\ UNCHANGED <<s, chunk, base, slot, seen, back, owed, got, msn, postIdx,
                 dbTouchIdx, pollCqLock, head, tail, cq_consumer, order,
                 nic>>

(* psd: wait for what has been rung, whichever quiet it is; under the lock *)
(* the lanes take completions from the queue, the last one counts.         *)
EnterPsd(w) ==
  /\ at(w, "drain") /\ s.prv = "PSD"
  /\ target' = [target EXCEPT ![w] = dbTouchIdx]
  /\ goto(w, "pending")
  /\ UNCHANGED <<s, chunk, ip, base, slot, cons, seen, back, owed, got,
                 counters, pollCqLock, head, tail, cq_consumer, order, nic>>

Pending(w) ==
  /\ at(w, "pending")
  /\ IF doneIdx >= target[w] THEN return(w) /\ UNCHANGED pollCqLock
     ELSE /\ pollCqLock = 0
          /\ pollCqLock' = w
          /\ goto(w, "poll") /\ UNCHANGED ip
  /\ UNCHANGED <<s, chunk, base, slot, target, cons, seen, back, owed, got,
                 counters, head, tail, cq_consumer, order, nic>>

(* It may go on (MAX_GREED) when it has what it waits for.                 *)
PollPsd(w) ==
  /\ at(w, "poll") /\ s.prv = "PSD"
  /\ \E c \in cq_consumer + 1 .. Len(cqe) :
       /\ cq_consumer' = c
       /\ doneIdx' = cqe[c]
       /\ IF cqe[c] >= target[w] THEN pc' \in {[pc EXCEPT ![w] = l] :
                                                l \in {"poll", "unlock"}}
                                 ELSE UNCHANGED pc
  /\ UNCHANGED <<s, chunk, ip, base, slot, target, cons, seen, back, owed,
                 got, msn, postIdx, dbTouchIdx, pollCqLock, head, tail,
                 order, nic>>

GiveUp(w) ==
  /\ at(w, "poll") /\ s.prv = "PSD"
  /\ doneIdx >= target[w]
  /\ goto(w, "unlock")
  /\ UNCHANGED <<s, chunk, ip, base, slot, target, cons, seen, back, owed,
                 got, counters, pollCqLock, head, tail, cq_consumer, order,
                 nic>>

Unlock(w) ==
  /\ at(w, "unlock")
  /\ pollCqLock' = 0
  /\ return(w)
  /\ UNCHANGED <<s, chunk, base, slot, target, cons, seen, back, owed, got,
                 counters, head, tail, cq_consumer, order, nic>>

-----------------------------------------------------------------------------
(* cqeSignal: the leader's entry, but for the data of a put with signal to *)
(* an address, and the signal.                                             *)
signalled(e) ==
  LET o == s.prog[e.by][e.ip]
  IN \/ e.k > o.lanes
     \/ e.k = o.lanes /\ ~(o.kind = "putSignal" /\ o.addr)

(* The NIC carries out the next entry it was told of.  Unless it is Prompt,*)
(* a bnxt NIC is slower than the store of dbTouchIdx that follows the      *)
(* doorbell.                                                               *)
Carry ==
  /\ Len(sent) < rung
  /\ Prompt \/ s.prv # "BNXT" \/ Len(sent) < dbTouchIdx
  /\ LET e == sq[sq_slot(Len(sent))]
     IN /\ sent' = Append(sent, e)
        /\ IF s.prog[e.by][e.ip].kind = "fetch"
           THEN ibuf' = [ibuf EXCEPT ![(slot[e.by] + e.k - 1) % Slots] = e]
           ELSE UNCHANGED ibuf
        /\ IF signalled(e)
           THEN cqe' = Append(cqe, Len(sent'))
           ELSE UNCHANGED cqe
  /\ UNCHANGED <<s, local, counters, pollCqLock, head, tail, cq_consumer,
                 order, sq, rung>>

Init ==
  /\ s \in Scenarios
  /\ LET all(v) == [w \in Warp |-> v]
     IN /\ ip = all(1) /\ chunk = all(1) /\ pc = all("start")
        /\ back = all("done")
        /\ base = all(0) /\ slot = all(0) /\ target = all(0)
        /\ cons = all(0) /\ seen = all(0) /\ owed = all(0) /\ got = all(<<>>)
  /\ msn = 0 /\ postIdx = 0 /\ dbTouchIdx = 0 /\ doneIdx = 0
  /\ pollCqLock = 0 /\ head = 0 /\ tail = 0 /\ cq_consumer = 0
  /\ sq = [i \in 0 .. SqN - 1 |-> Empty]
  /\ ibuf = [i \in 0 .. Slots - 1 |-> Empty]
  /\ rung = 0 /\ cqe = <<>> /\ order = <<>> /\ sent = <<>>

(* The operations of the interface, each the whole of its handler.         *)
Submit(w) == \/ Reserve(w) \/ Publish(w) \/ Room(w) \/ Post(w) \/ Ring(w)
             \/ Touch(w)
QuietMlx5(w) == s.prv = "MLX5" /\ (EnterMlx5(w) \/ Poll(w) \/ Settle(w))
QuietBnxt(w) == /\ s.prv = "BNXT"
                /\ \/ EnterBnxt(w) \/ Locked(w) \/ Poll(w) \/ Settle(w)
                   \/ Unlock(w)
QuietPsd(w) == /\ s.prv = "PSD"
               /\ \/ EnterPsd(w) \/ Pending(w) \/ PollPsd(w) \/ GiveUp(w)
                  \/ Unlock(w)
Drain(w) == QuietMlx5(w) \/ QuietBnxt(w) \/ QuietPsd(w)

running(w, kind) == active(w) /\ op(w) = kind /\ ~operation(w).addr
running_addr(w, kind) == active(w) /\ op(w) = kind /\ operation(w).addr
Post_or_drain(w) == Submit(w) \/ Drain(w)
Fetch(w) == Claim(w) \/ Post_or_drain(w) \/ Read(w) \/ Release(w)

PutMemNbi(w) == running(w, "put") /\ Post_or_drain(w)
PutSizeImmNbi(w) == running(w, "putImm") /\ Post_or_drain(w)
GetMemNbi(w) == running(w, "get") /\ Post_or_drain(w)
PutMemNbiSignal(w) == running(w, "putSignal") /\ Post_or_drain(w)
AtomicSizeNonFetch(w) == running(w, "atomic") /\ Post_or_drain(w)
AtomicTypeFetch(w) == running(w, "fetch") /\ Fetch(w)
PutMemNbiAddr(w) == running_addr(w, "put") /\ Post_or_drain(w)
PutSizeImmNbiAddr(w) == running_addr(w, "putImm") /\ Post_or_drain(w)
GetMemNbiAddr(w) == running_addr(w, "get") /\ Post_or_drain(w)
PutMemNbiSignalAddr(w) == running_addr(w, "putSignal") /\ Post_or_drain(w)
AtomicSizeNonFetchAddr(w) == running_addr(w, "atomic") /\ Post_or_drain(w)
AtomicTypeFetchAddr(w) == running_addr(w, "fetch") /\ Fetch(w)
QuietThread(w) == running(w, "quiet") /\ (Quiet(w) \/ Drain(w))

Step(w) == \/ PutMemNbi(w) \/ PutSizeImmNbi(w) \/ GetMemNbi(w)
           \/ PutMemNbiSignal(w) \/ AtomicSizeNonFetch(w)
           \/ AtomicTypeFetch(w) \/ PutMemNbiAddr(w) \/ PutSizeImmNbiAddr(w)
           \/ GetMemNbiAddr(w) \/ PutMemNbiSignalAddr(w)
           \/ AtomicSizeNonFetchAddr(w) \/ AtomicTypeFetchAddr(w)
           \/ QuietThread(w)

Next == Carry \/ \E w \in Warp : Step(w)

Spec == Init /\ [][Next]_vars

-----------------------------------------------------------------------------
TypeOK ==
  /\ Len(sent) <= rung /\ dbTouchIdx <= rung /\ rung <= Len(order)
  /\ {postIdx, doneIdx} \subseteq 0 .. Len(order) /\ cq_consumer <= Len(cqe)
  /\ tail <= head /\ pollCqLock \in Warp \cup {0}
  /\ \A w \in Warp : seen[w] < width /\ Len(got[w]) < SqN

(* The NIC carries out every entry once, in the order of the reservations, *)
(* and none that is not written yet or already written over (the gate for  *)
(* room, the wait for the turn at the doorbell).                           *)
SentInOrder == IsPrefix(sent, order)

(* "numbers of wqe that have been consumed by nic" (WorkQueueHandle): the  *)
(* count rebuilt from the low bits never runs ahead of the NIC.            *)
DoneIsDone == doneIdx <= Len(sent)

(* A warp past its quiet has had its own entries carried out, and on mlx5  *)
(* and bnxt all that were reserved when it began.                          *)
QuietMeansSent ==
  \A w \in Warp : \A q \in DOMAIN s.prog[w] :
    s.prog[w][q].kind = "quiet" /\ ip[w] > q =>
      /\ \A i \in DOMAIN order :
           order[i].by = w /\ order[i].ip < q => i <= Len(sent)
      /\ s.prv # "PSD" => owed[w] <= Len(sent)

(* A fetching atomic returns what the NIC wrote for it, not what its buffer*)
(* held before.                                                            *)
FetchReturnsResult ==
  \A w \in Warp : at(w, "release") =>
    got[w] = [k \in 1 .. lanes(w) |-> wqe(w, k)]

(* Everything reserved is carried out in the end: nobody waits for a turn, *)
(* for room or for a completion that does not come, however the chunks of a*)
(* transfer and their signals fall into the ring.                          *)
NeverStuck == \/ sent = order /\ \A w \in Warp : ~active(w)
              \/ ENABLED Next
=============================================================================
