------------------------------ MODULE ShmemOps ------------------------------
(* The device operations of shmem on peers reached over P2P, where a wave  *)
(* stores into the peer's memory itself, and over SDMA, where a copy engine*)
(* copies: puts, immediate puts, puts with a signal, atomics, gets, quiet, *)
(* fence and the waits, of a thread, a warp or a block, on an offset into a*)
(* symmetric object or on an address of the heap.  The other transport is  *)
(* in Ibgda, the queue of the engine in SdmaQueue.                         *)
(*                                                                         *)
(* A wave's stores reach the peer one at a time and in any order, until a  *)
(* fence or a release waits for them.  A word of memory is what one store  *)
(* writes; an operation of a thread is that of each of its active lanes, on*)
(* words of their own, and a loop's lanes go on independently.  Loads that *)
(* follow a wait in the program see what its answer was released after.    *)
EXTENDS Integers, Sequences, FiniteSets, FiniteSetsExt
LOCAL INSTANCE Bitwise

CONSTANTS Lanes,        \* warpSize
          Vecs,         \* the vector sizes of BlockCopy, the longest first
          HeapBase,     \* heapBaseAddr
          HeapWords,    \* heapEndAddr - heapBaseAddr
          Width,        \* atomics count modulo this
          Narrow,       \* 2^32 for the immediates: half as wide as Width
          Scenarios     \* records: transportTypes, the queues of an engine
                        \* (sdmaNumQueue), block and program of each wave

Kind == {"put", "imm", "putSignal", "atomic", "fetch", "get", "ptr",
         "quiet", "quietDest", "fence", "greater", "equal"}
Scope == {"thread", "warp", "block"}
Summing == {"AMO_INC", "AMO_ADD", "AMO_SIGNAL_ADD", "AMO_FETCH_INC",
            "AMO_FETCH_ADD"}
Setting == {"AMO_SET", "AMO_SIGNAL_SET"}

(* Warps and blocks call with all their lanes, the waves of a block at the *)
(* same place of their programs; what one operation writes no other does,  *)
(* unless both are atomics.  Puts with a signal and fetches go to P2P peers*)
(* only: the dispatch asserts it.  An engine has one wave that puts, one   *)
(* lane at a time, and a put by a warp one queue: SdmaPutWarp gives every  *)
(* queue the same start of the source.                                     *)
ShmemOpsAssumption ==
  /\ {Lanes, HeapBase, HeapWords, Narrow} \subseteq Nat \ {0}
  /\ Width > Narrow
  /\ Vecs \in Seq(Nat \ {0}) /\ Vecs # <<>>
  /\ \A x \in Scenarios :
       /\ \A w \in DOMAIN x.prog : \A i \in DOMAIN x.prog[w] :
            LET o == x.prog[w][i] sdma == x.transportTypes[o.pe] = "SDMA"
            IN /\ o.kind \in Kind /\ o.scope \in Scope
               /\ o.lanes \in 1 .. Lanes
               /\ o.scope # "thread" => o.lanes = Lanes
               /\ o.kind \in {"putSignal", "fetch"} => ~sdma
               /\ sdma /\ o.kind = "put" =>
                    /\ o.scope = "thread" => o.lanes = 1
                    /\ o.scope = "warp" => x.queues = 1
                    /\ \A v \in DOMAIN x.prog : \A j \in DOMAIN x.prog[v] :
                         x.prog[v][j].kind = "put"
                           /\ x.prog[v][j].pe = o.pe => v = w
       /\ \A v, w \in DOMAIN x.prog : x.block[v] = x.block[w] =>
            \A i \in DOMAIN x.prog[v] : x.prog[v][i].scope = "block" =>
              i \in DOMAIN x.prog[w] /\ x.prog[w][i] = x.prog[v][i]

VARIABLES
  s,          \* the scenario
  ip,         \* [w]: the operation wave w is at
  pc,         \* [w]: where it is in it
  posted,     \* [w]: its stores that are under way
  mem,        \* [pe][word]: the peers' heaps
  engine,     \* [pe][q]: the packets of a copy engine's queue
  expected,   \* [pe][q]: expectedSignals
  signals,    \* [pe][q]: signalPtrs
  left,       \* [w]: the lanes still in a loop, or to signal
  old,        \* [w][lane]: oldVal, or None
  result,     \* what fetches have returned
  got         \* what gets have read

wave == <<ip, pc>>
copies == <<engine, expected, signals>>
loops == <<left, old, result>>
vars == <<s, wave, posted, mem, copies, loops, got>>

-----------------------------------------------------------------------------
None == -1
Wave == DOMAIN s.prog
active(w) == ip[w] \in DOMAIN s.prog[w]
op(w) == s.prog[w][ip[w]]
at(w, kinds, l) == active(w) /\ op(w).kind \in kinds /\ pc[w] = l
peers(w) == {v \in Wave : s.block[v] = s.block[w]}
rank(w) == Cardinality({v \in peers(w) : v < w})
FlatBlockSize(w) == Cardinality(peers(w)) * Lanes

next(w) == /\ ip' = [ip EXCEPT ![w] = @ + 1]
           /\ pc' = [pc EXCEPT ![w] = "start"]

(* The transport an operation goes by (DISPATCH_TRANSPORT_TYPE).           *)
transport(o) == s.transportTypes[o.pe]

(* The word an address or an offset names at the peer.                     *)
offset(o, x) == IF o.addr THEN x - HeapBase ELSE x

(* What the typed versions hand on: offset or address, number of words.    *)
put_args(o) == <<o.at * o.size, o.n * o.size>>
put_args_addr(o) == <<o.at, o.n * o.size>>
get_args(o) == <<o.at * o.size, o.n * o.size>>
get_args_addr(o) == <<o.at, o.n * o.size>>
signal_args(o) == <<o.at * o.size, o.n * o.size>>
signal_args_addr(o) == <<o.at, o.n * o.size>>
put(o) == IF o.addr THEN put_args_addr(o) ELSE put_args(o)
signal(o) == IF o.addr THEN signal_args_addr(o) ELSE signal_args(o)

-----------------------------------------------------------------------------
(* Copies.  Vectors first, then one at a time.                             *)
covered(threads, v, from, n) ==
  from + ((n - from) \div (threads * v)) * threads * v
vectors(t, threads, v, from, n) ==
  {from + (i * threads + t) * v + j :
     i \in 0 .. ((n - from) \div (threads * v)) - 1, j \in 0 .. v - 1}
tail(t, threads, from, n) ==
  {e \in from .. n - 1 : (e - from) % threads = t}

ThreadCopy(n) ==
  vectors(0, 1, Vecs[1], 0, n) \cup tail(0, 1, covered(1, Vecs[1], 0, n), n)
WarpCopy(l, n) ==
  vectors(l, Lanes, Vecs[1], 0, n)
    \cup tail(l, Lanes, covered(Lanes, Vecs[1], 0, n), n)
BlockCopy(t, threads, n) ==
  LET from[k \in 0 .. Len(Vecs)] ==
        IF k = 0 THEN 0 ELSE covered(threads, Vecs[k], from[k - 1], n)
  IN UNION {vectors(t, threads, Vecs[k], from[k - 1], n) :
              k \in DOMAIN Vecs}
       \cup tail(t, threads, from[Len(Vecs)], n)

(* The elements wave w copies; those of a thread's lanes follow each other.*)
copied(w, o, n) ==
  CASE o.scope = "thread" ->
         {l * n + e : l \in 0 .. o.lanes - 1, e \in ThreadCopy(n)}
    [] o.scope = "warp" -> UNION {WarpCopy(l, n) : l \in 0 .. Lanes - 1}
    [] o.scope = "block" ->
         UNION {BlockCopy(rank(w) * Lanes + l, FlatBlockSize(w), n) :
                  l \in 0 .. Lanes - 1}

store(w, o, word, val) == [by |-> w, ip |-> ip[w], pe |-> o.pe,
                           at |-> word, val |-> val]

(* The stores of a put over P2P, to an object and to an address.           *)
stores(w, o, args) == {store(w, o, args[1] + e, o.val) :
                         e \in copied(w, o, args[2])}
stores_addr(w, o, args) == {store(w, o, args[1] - HeapBase + e, o.val) :
                              e \in copied(w, o, args[2])}
stored_by(w, o, args) ==
  IF o.addr THEN stores_addr(w, o, args) ELSE stores(w, o, args)
post(w, set) == posted' = [posted EXCEPT ![w] = @ \cup set]

PutP2P(w) ==
  /\ at(w, {"put"}, "start") /\ transport(op(w)) = "P2P"
  /\ post(w, stored_by(w, op(w), put(op(w))))
  /\ next(w)
  /\ UNCHANGED <<s, mem, copies, loops, got>>

(* A store reaches the peer.                                               *)
Deliver(w) ==
  \E x \in posted[w] :
    /\ mem' = [mem EXCEPT ![x.pe][x.at] = x.val]
    /\ posted' = [posted EXCEPT ![w] = @ \ {x}]
    /\ UNCHANGED <<s, wave, copies, loops, got>>

-----------------------------------------------------------------------------
(* Immediate puts: every lane of a thread's, lane 0 of a warp.  The object *)
(* versions of named types take 32 bits, whatever the type.                *)
imm_lanes(o) == IF o.scope = "warp" THEN {0} ELSE 0 .. o.lanes - 1
imm_val(o) == o.val % Narrow
imm_val_addr(o) == o.val
imm(w, o) == {store(w, o, o.at + l, imm_val(o)) : l \in imm_lanes(o)}
imm_addr(w, o) == {store(w, o, o.at - HeapBase + l, imm_val_addr(o)) :
                     l \in imm_lanes(o)}

(* The SDMA versions are the P2P versions.                                 *)
PutImm(w) ==
  /\ at(w, {"imm"}, "start")
  /\ post(w, IF op(w).addr THEN imm_addr(w, op(w)) ELSE imm(w, op(w)))
  /\ next(w)
  /\ UNCHANGED <<s, mem, copies, loops, got>>

(* The peer's address of a word of the heap, 0 for none.                   *)
ShmemPtrP2p(o) ==
  IF o.at \in HeapBase .. HeapBase + HeapWords - 1 THEN o.at ELSE 0

(* A store through it.                                                     *)
PutPtr(w) ==
  /\ at(w, {"ptr"}, "start")
  /\ post(w, IF ShmemPtrP2p(op(w)) = 0 THEN {}
             ELSE {store(w, op(w), ShmemPtrP2p(op(w)) - HeapBase,
                         op(w).val)})
  /\ next(w)
  /\ UNCHANGED <<s, mem, copies, loops, got>>

-----------------------------------------------------------------------------
(* Puts over SDMA: a copy and an increment of a signal on queue qpId; of a *)
(* warp, a share on every queue.  That of a block is not written yet: it   *)
(* does nothing.                                                           *)
packets(o, words) ==
  <<[kind |-> "copy", pe |-> o.pe, words |-> words, val |-> o.val],
    [kind |-> "signal", pe |-> o.pe, words |-> {}, val |-> 0]>>
share(n, q) ==
  LET rand == n \div s.queues
  IN 0 .. (IF q < s.queues - 1 THEN rand ELSE n - (s.queues - 1) * rand) - 1
sdma_put(o, args) ==
  CASE o.scope = "thread" -> [q \in {o.qp} |-> 0 .. args[2] - 1]
    [] o.scope = "warp" -> [q \in 0 .. s.queues - 1 |-> share(args[2], q)]
    [] o.scope = "block" -> << >>

PutSdma(w) ==
  /\ at(w, {"put"}, "start") /\ transport(op(w)) = "SDMA"
  /\ LET o == op(w)
         p == sdma_put(o, put(o))
         from == offset(o, put(o)[1])
     IN /\ engine' = [engine EXCEPT ![o.pe] = [q \in DOMAIN @ |->
             IF q \in DOMAIN p
             THEN @[q] \o packets(o, {from + e : e \in p[q]}) ELSE @[q]]]
        /\ expected' = [expected EXCEPT ![o.pe] = [q \in DOMAIN @ |->
             IF q \in DOMAIN p THEN @[q] + 1 ELSE @[q]]]
  /\ next(w)
  /\ UNCHANGED <<s, posted, mem, signals, loops, got>>

(* The engine carries out the first packet of a queue.                     *)
Engine(pe, q) ==
  /\ engine[pe][q] # <<>>
  /\ LET p == Head(engine[pe][q])
     IN IF p.kind = "copy"
        THEN /\ mem' = [mem EXCEPT ![pe] = [a \in DOMAIN @ |->
                          IF a \in p.words THEN p.val ELSE @[a]]]
             /\ UNCHANGED signals
        ELSE /\ signals' = [signals EXCEPT ![pe][q] = @ + 1]
             /\ UNCHANGED mem
  /\ engine' = [engine EXCEPT ![pe][q] = Tail(@)]
  /\ UNCHANGED <<s, wave, posted, expected, loops, got>>

-----------------------------------------------------------------------------
(* The signals of a put: how many lanes signal, and by how much each counts*)
(* (onlyOneSignal, or not).  A warp's lane 0 finds itself the only active  *)
(* lane when it counts them.                                               *)
thread_signals(o) == IF o.one THEN <<1, 1>> ELSE <<o.lanes, 1>>
warp_signals(o) == <<1, 1>>
block_signals(w, o) ==
  IF rank(w) > 0 THEN <<0, 0>>
  ELSE IF o.one THEN <<1, 1>> ELSE <<1, FlatBlockSize(w)>>
(* By address: not one signal of a warp is one of each lane.               *)
thread_signals_addr(o) == IF o.one THEN <<1, 1>> ELSE <<o.lanes, 1>>
warp_signals_addr(o) == IF o.one THEN <<1, 1>> ELSE <<Lanes, 1>>
block_signals_addr(w, o) == block_signals(w, o)

signalling(w, o) ==
  CASE o.scope = "thread" ->
         IF o.addr THEN thread_signals_addr(o) ELSE thread_signals(o)
    [] o.scope = "warp" ->
         IF o.addr THEN warp_signals_addr(o) ELSE warp_signals(o)
    [] o.scope = "block" ->
         IF o.addr THEN block_signals_addr(w, o) ELSE block_signals(w, o)

PutSignal(w) ==
  /\ at(w, {"putSignal"}, "start")
  /\ LET o == op(w)
     IN IF signal(o)[2] = 0
        THEN next(w) /\ UNCHANGED <<posted, left>>
        ELSE /\ post(w, stored_by(w, o, signal(o)))
             /\ pc' = [pc EXCEPT ![w] =
                         IF o.scope = "block" THEN "sync" ELSE "signal"]
             /\ left' = [left EXCEPT ![w] = 1 .. signalling(w, o)[1]]
             /\ UNCHANGED ip
  /\ UNCHANGED <<s, mem, copies, old, result, got>>

(* __syncthreads.                                                          *)
Sync(w) ==
  /\ at(w, {"putSignal"}, "sync")
  /\ \A v \in peers(w) :
       ip[v] > ip[w] \/ (ip[v] = ip[w] /\ pc[v] \in {"sync", "signal"})
  /\ IF left[w] = {} THEN next(w)
     ELSE pc' = [pc EXCEPT ![w] = "signal"] /\ UNCHANGED ip
  /\ UNCHANGED <<s, posted, mem, copies, loops, got>>

(* What a wave stored, and before __syncthreads the waves of its block, has*)
(* arrived.                                                                *)
stored(w) ==
  \A v \in (IF op(w).scope = "block" THEN peers(w) ELSE {w}) :
    \A x \in posted[v] : x.ip > ip[w]

(* A store or an addition with release.                                    *)
Signal(w) ==
  /\ at(w, {"putSignal"}, "signal")
  /\ stored(w)
  /\ LET o == op(w)
     IN mem' = [mem EXCEPT ![o.pe][offset(o, o.on)] =
           IF o.amo \in Setting THEN o.by
           ELSE (@ + o.by * signalling(w, o)[2]) % Width]
  /\ left' = [left EXCEPT ![w] = @ \ {Max(@)}]
  /\ IF Cardinality(left[w]) = 1 THEN next(w) ELSE UNCHANGED wave
  /\ UNCHANGED <<s, posted, copies, old, result, got>>

-----------------------------------------------------------------------------
(* Atomics: all but a store are loops around a compare-and-swap.           *)
updated(o, v) ==
  CASE o.amo \in {"AMO_INC", "AMO_FETCH_INC"} -> (v + 1) % Width
    [] o.amo \in {"AMO_ADD", "AMO_SIGNAL_ADD", "AMO_FETCH_ADD"} ->
         (v + o.by) % Width
    [] o.amo \in {"AMO_AND", "AMO_FETCH_AND"} -> v & o.by
    [] o.amo \in {"AMO_OR", "AMO_FETCH_OR"} -> v | o.by
    [] o.amo \in {"AMO_XOR", "AMO_FETCH_XOR"} -> v ^^ o.by
    [] o.amo = "AMO_SWAP" -> o.by
    [] o.amo = "AMO_COMPARE_SWAP" -> IF v = o.cmp THEN o.by ELSE v

(* The lanes that do it: a warp's lane 0, but every lane of a warp that    *)
(* fetches from an object.                                                 *)
nonfetch_lanes(o) == IF o.scope = "warp" THEN {0} ELSE 0 .. o.lanes - 1
fetch_lanes(o) == 0 .. o.lanes - 1
fetch_lanes_addr(o) == IF o.scope = "warp" THEN {0} ELSE 0 .. o.lanes - 1
lanes(o) == IF o.kind = "atomic" THEN nonfetch_lanes(o)
            ELSE IF o.addr THEN fetch_lanes_addr(o) ELSE fetch_lanes(o)

Atomic(w) ==
  /\ at(w, {"atomic", "fetch"}, "start")
  /\ left' = [left EXCEPT ![w] = lanes(op(w))]
  /\ old' = [old EXCEPT ![w] = [l \in 0 .. Lanes - 1 |-> None]]
  /\ pc' = [pc EXCEPT ![w] = "loop"]
  /\ UNCHANGED <<s, ip, posted, mem, copies, result, got>>

word(o) == mem[o.pe][offset(o, o.at)]
finish(w, l) ==
  /\ left' = [left EXCEPT ![w] = @ \ {l}]
  /\ IF left[w] = {l} THEN next(w) ELSE UNCHANGED wave

(* A sequentially consistent store is a release as well.                   *)
SetWord(w, l) ==
  /\ at(w, {"atomic"}, "loop") /\ op(w).amo \in Setting /\ l \in left[w]
  /\ posted[w] = {}
  /\ mem' = [mem EXCEPT ![op(w).pe][offset(op(w), op(w).at)] = op(w).by]
  /\ finish(w, l)
  /\ UNCHANGED <<s, posted, copies, old, result, got>>

Load(w, l) ==
  /\ at(w, {"atomic", "fetch"}, "loop") /\ l \in left[w]
  /\ op(w).amo \notin Setting /\ old[w][l] = None
  /\ old' = [old EXCEPT ![w][l] = word(op(w))]
  /\ UNCHANGED <<s, wave, posted, mem, copies, left, result, got>>

swapped(w, l) == word(op(w)) = old[w][l]

(* The compare-and-swap.  If it fails a fetch goes on with the value found,*)
(* the others load again.                                                  *)
Cas(w, l) ==
  /\ at(w, {"atomic", "fetch"}, "loop") /\ l \in left[w]
  /\ old[w][l] # None
  /\ LET o == op(w)
     IN IF swapped(w, l)
        THEN /\ mem' = [mem EXCEPT ![o.pe][offset(o, o.at)] =
                          updated(o, old[w][l])]
             /\ result' = IF o.kind = "fetch"
                          THEN result \cup {[by |-> w, ip |-> ip[w],
                                             lane |-> l, val |-> old[w][l]]}
                          ELSE result
             /\ finish(w, l)
             /\ UNCHANGED old
        ELSE /\ old' = [old EXCEPT ![w][l] =
                          IF o.kind = "fetch" THEN word(o) ELSE None]
             /\ UNCHANGED <<mem, result, left, wave>>
  /\ UNCHANGED <<s, posted, copies, got>>

-----------------------------------------------------------------------------
(* Gets: the wave loads from the peer, over SDMA as well.  The quiet of the*)
(* blocking versions returns at once.                                      *)
read(w, o, at_, e) == [by |-> w, ip |-> ip[w], e |-> e,
                       val |-> mem[o.pe][at_ + e]]
reads(w, o) == {read(w, o, get_args(o)[1], e) :
                  e \in copied(w, o, get_args(o)[2])}
reads_addr(w, o) == {read(w, o, get_args_addr(o)[1] - HeapBase, e) :
                       e \in copied(w, o, get_args_addr(o)[2])}

Get(w) ==
  /\ at(w, {"get"}, "start")
  /\ got' = got \cup (IF op(w).addr THEN reads_addr(w, op(w))
                                    ELSE reads(w, op(w)))
  /\ next(w)
  /\ UNCHANGED <<s, posted, mem, copies, loops>>

(* Over P2P and SDMA a quiet waits for nothing, unless it names the object;*)
(* a fence waits for the wave's stores besides.                            *)
Quiet(w) ==
  /\ at(w, {"quiet"}, "start")
  /\ next(w)
  /\ UNCHANGED <<s, posted, mem, copies, loops, got>>

QuietDest(w) ==
  /\ at(w, {"quietDest"}, "start")
  /\ signals[op(w).pe] = expected[op(w).pe]
  /\ next(w)
  /\ UNCHANGED <<s, posted, mem, copies, loops, got>>

Fence(w) ==
  /\ at(w, {"fence"}, "start")
  /\ posted[w] = {}
  /\ next(w)
  /\ UNCHANGED <<s, posted, mem, copies, loops, got>>

WaitUntilGreaterThan(w) ==
  /\ at(w, {"greater"}, "start") /\ word(op(w)) > op(w).by
  /\ next(w)
  /\ UNCHANGED <<s, posted, mem, copies, loops, got>>

WaitUntilEquals(w) ==
  /\ at(w, {"equal"}, "start") /\ word(op(w)) = op(w).by
  /\ next(w)
  /\ UNCHANGED <<s, posted, mem, copies, loops, got>>

-----------------------------------------------------------------------------
Init ==
  /\ s \in Scenarios
  /\ ip = [w \in Wave |-> 1] /\ pc = [w \in Wave |-> "start"]
  /\ posted = [w \in Wave |-> {}]
  /\ mem = [pe \in DOMAIN s.transportTypes |->
              [a \in 0 .. HeapWords - 1 |-> 0]]
  /\ LET none(x) == [pe \in DOMAIN s.transportTypes |->
                       [q \in 0 .. s.queues - 1 |-> x]]
     IN engine = none(<<>>) /\ expected = none(0) /\ signals = none(0)
  /\ left = [w \in Wave |-> {}]
  /\ old = [w \in Wave |-> [l \in 0 .. Lanes - 1 |-> None]]
  /\ result = {} /\ got = {}

Next ==
  \/ \E w \in Wave :
       \/ PutP2P(w) \/ Deliver(w) \/ PutImm(w) \/ PutPtr(w) \/ PutSdma(w)
       \/ PutSignal(w) \/ Sync(w) \/ Signal(w)
       \/ Atomic(w) \/ Get(w) \/ Quiet(w) \/ QuietDest(w) \/ Fence(w)
       \/ WaitUntilGreaterThan(w) \/ WaitUntilEquals(w)
       \/ \E l \in 0 .. Lanes - 1 : SetWord(w, l) \/ Load(w, l) \/ Cas(w, l)
  \/ \E pe \in DOMAIN s.transportTypes, q \in 0 .. s.queues - 1 :
       Engine(pe, q)

Spec == Init /\ [][Next]_vars

-----------------------------------------------------------------------------
TypeOK ==
  /\ s \in Scenarios
  /\ \A w \in Wave :
       /\ ip[w] \in 1 .. Len(s.prog[w]) + 1
       /\ pc[w] \in {"start", "sync", "signal", "loop"}
       /\ \A l \in 0 .. Lanes - 1 : old[w][l] \in {None} \cup 0 .. Width - 1
  /\ \A pe \in DOMAIN mem : \A a \in DOMAIN mem[pe] :
       mem[pe][a] \in 0 .. Width - 1

Ended == \A w \in Wave : ~active(w) /\ posted[w] = {}

(* Who has waited for a signal, a flag or a count reads all the data that  *)
(* was put before it, whichever the waves, lanes and queues that put it    *)
(* (put with signal; put, fence, flag; put by an engine, quiet, flag).     *)
WaitersSeeData ==
  \A r \in got : r.val = s.prog[r.by][r.ip].val

(* The operations on a word, when only sums go to it.                      *)
lanes_at(pe, a) ==
  {[by |-> w, ip |-> i, lane |-> l] : w \in Wave, i \in 1 .. 9,
                                      l \in 0 .. Lanes - 1}
sums(pe, a) ==
  {x \in lanes_at(pe, a) :
     x.ip \in DOMAIN s.prog[x.by]
       /\ LET o == s.prog[x.by][x.ip]
          IN o.kind \in {"atomic", "fetch"} /\ o.pe = pe
               /\ offset(o, o.at) = a /\ x.lane \in lanes(o)}
added(x) == LET o == s.prog[x.by][x.ip]
            IN IF o.amo \in {"AMO_INC", "AMO_FETCH_INC"} THEN 1 ELSE o.by

(* When all is done a word that only additions go to holds their sum, and  *)
(* each fetch has returned what the others before it had made of the word: *)
(* no two with additions between them the same value                       *)
(* (ShmemAtomicSizeNonFetchThreadKernel,                                   *)
(* ShmemAtomicTypeFetchThreadKernelImplP2P).                               *)
SumsExact ==
  Ended => \A pe \in DOMAIN mem : \A a \in DOMAIN mem[pe] :
    LET c == sums(pe, a)
    IN c # {} /\ (\A x \in c : s.prog[x.by][x.ip].amo \in Summing) =>
         /\ mem[pe][a] = MapThenSumSet(added, c) % Width
         /\ \A x, y \in result :
              LET id(r) == [by |-> r.by, ip |-> r.ip, lane |-> r.lane]
              IN {id(x), id(y)} \subseteq c /\ x # y
                   /\ MapThenSumSet(added, c) < Width => x.val # y.val
=============================================================================
