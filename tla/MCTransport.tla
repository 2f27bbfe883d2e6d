----------------------------- MODULE MCTransport -----------------------------
(* The baseline's transports in one run, one component to a behaviour: the *)
(* collectives over copy engines and their queues, the send queues of shmem*)
(* and of cco, the operations of shmem on memory, the barriers of cco; and *)
(* the dispatch and combine whose rows copy engines or queue pairs carry   *)
(* while the kernels go on (low_latency_async.cpp).                        *)
EXTENDS Integers, Sequences, FiniteSets

CONSTANTS SqN, CqMod, World

VARIABLES which,   \* the component this behaviour is of
  s, call, pc, next, todo, gen, flags, buf, posted, out, ip, part, cur,
  cached, base, pending, cachedWptr, committedWptr, wptr, doorbell, rptr,
  queueBuf, expected, signal, order, done, chunk, slot, target, cons, seen,
  back, owed, got, msn, postIdx, dbTouchIdx, doneIdx, pollCqLock, head, tail,
  sq, rung, cqe, cq_consumer, ibuf, sent, psn, psnIdx, counterBuf, signalBuf,
  signalShadow, waited, mem, engine, signals, left, old, result, kind, epoch,
  state, inbox, shadow, visible, entered, exited, given_up, round, counter,
  map, staging, dispatchInp, dispatchOut, idxMap, total, recvNum, combineInp,
  flag, bell, status, run, start, end, tmp, rank_data, graph_unreg_buffers_,
  meta, graph, need, off, look, msnPack, msntbl, told, sent_psn, cq

(* Asynchronous layers of two ranks of two experts: the expert ids of the  *)
(* two slots of each token on both ranks, both on one, a dropped slot, an  *)
(* expert out of range; a rank without tokens in the second layer.  Two    *)
(* queue pairs per peer in a layer of their own.                           *)
Pair(a, b) == [k \in 0 .. 1 |-> <<a, b>>[k + 1]]
AsyncRoutes == <<[x \in 0 .. 1 |-> [t \in 0 .. 1 |->
                   IF t = 0 THEN Pair(0, 2) ELSE Pair(2 - 2 * x, 3 - 2 * x)]],
                 [x \in 0 .. 1 |-> [t \in 0 .. 1 |->
                   IF t = 0 THEN Pair(-1, 3) ELSE Pair(4, 1)]]>>
puts(sdma, n) ==
  [sdma |-> sdma, ids |-> SubSeq(AsyncRoutes, 1, n),
   ntok |-> SubSeq(<<[y \in 0 .. 1 |-> 2 - y], [y \in 0 .. 1 |-> y]>>, 1, n)]

(* All-reduces inside a node: both kernels after each other, a size that is*)
(* not a multiple of a pack, one that the plain kernel has to take, one too*)
(* large; calls captured, replayed in another order; too many captured.    *)
ask(k, n, i) == [kind |-> k, count |-> n, nth |-> i]
eager(n) == ask("eager", n, 0)
captured(n) == ask("capture", n, 0)
Bound == <<ask("meta", 0, 0), ask("bind", 0, 0)>>
Reduces ==
  {<<eager(8), eager(4), eager(2)>>, <<eager(10), eager(3)>>,
   <<captured(4), captured(8)>> \o Bound
     \o <<ask("replay", 0, 2), ask("replay", 0, 1)>>,
   <<captured(4), captured(4), captured(4)>> \o Bound
     \o <<eager(20), eager(4)>>}

(* Collectives: each one twice.                                            *)
Repeated == {<<o, o>> : o \in {"allgather", "all2all", "allreduce"}}

(* Copy queue: three producers that share the ring, the last one more than *)
(* once round it; one producer of the puts of mori, which waits twice.     *)
Producers ==
  {<<<<"putWithSignal">>, <<"put", "signal">>, <<"putWithSignal">>>>,
   <<<<"putWithSignal", "putWithSignal">>, <<"putWithSignal", "put">>>>,
   <<<<"SdmaPutThread", "SdmaPutThread", "SdmaQueitThread",
       "SdmaPutThread", "SdmaPutThread", "SdmaQueitThread">>>>}

(* Send queue of shmem: twice round the ring and past the width of the     *)
(* completion counter, with fetches that share the result buffers; on bnxt *)
(* a fetch does not wait for its result when another warp drains.          *)
(* Transfers of two chunks; to an address (Late) only the last is reported,*)
(* so nobody else posts meanwhile: a warp that needs room would wait for   *)
(* the first, and be waited for by the second.                             *)
do(what, lanes, chunks, addr) ==
  [kind |-> what, lanes |-> lanes, chunks |-> chunks, addr |-> addr]
Quiet == do("quiet", 0, 1, FALSE)
Busy == <<<<do("put", 2, 1, FALSE), do("fetch", 1, 1, TRUE),
            do("putSignal", 1, 1, TRUE), Quiet>>,
          <<do("get", 2, 1, TRUE), do("fetch", 2, 1, FALSE),
            do("atomic", 1, 1, FALSE), Quiet>>>>
Plain == <<<<do("putImm", 2, 1, TRUE), do("atomic", 1, 1, TRUE),
             do("putSignal", 1, 1, FALSE), Quiet>>,
           <<do("get", 2, 1, FALSE), do("put", 2, 1, TRUE), Quiet,
             do("put", 1, 1, FALSE)>>>>
Chunks == <<<<do("putSignal", 1, 2, FALSE), Quiet>>,
            <<do("putSignal", 1, 2, FALSE), Quiet>>>>
Late == <<<<do("putSignal", 1, 2, TRUE), do("atomic", 2, 1, TRUE), Quiet>>,
          <<Quiet>>>>
Programs ==
  {[prv |-> "MLX5", prog |-> Busy], [prv |-> "PSD", prog |-> Busy],
   [prv |-> "BNXT", prog |-> Plain], [prv |-> "MLX5", prog |-> Chunks],
   [prv |-> "BNXT", prog |-> Chunks], [prv |-> "MLX5", prog |-> Late],
   [prv |-> "PSD", prog |-> Late]}

(* Send queue of cco: doorbells of their own, a flush, then aggregated     *)
(* requests and a flush; on bnxt a context of its own for the warp, puts of*)
(* several packets.                                                        *)
op_(what, lanes, packets, sig, aggregate) ==
  [kind |-> what, lanes |-> lanes, packets |-> packets, sig |-> sig,
   aggregate |-> aggregate]
Flush == op_("flush", 0, 1, 0, FALSE)
Count == op_("counter", 0, 1, 0, FALSE)
First == <<op_("put", 1, 1, 1, FALSE), op_("get", 1, 1, 0, FALSE), Flush,
           op_("put", 2, 1, 0, TRUE), Flush, Count>>
Second == <<op_("put", 2, 1, 0, FALSE), op_("signal", 0, 1, 2, FALSE), Flush,
            op_("signal", 0, 1, 1, TRUE), Flush, Count>>
Own == <<op_("put", 2, 2, 1, FALSE), op_("get", 1, 2, 0, FALSE),
         op_("put", 1, 1, 2, FALSE), Flush, op_("put", 1, 2, 0, TRUE),
         op_("signal", 0, 1, 1, TRUE), Flush, Count>>
Warps ==
  {[prv |-> p, prog |-> <<First, Second>>, waits |-> <<2, 1, 1>>,
    coop |-> [w \in {1, 2} |-> {1, 2}]] : p \in {"MLX5", "PSD", "CCQE"}}
  \cup {[prv |-> "BNXT", prog |-> <<Own>>, waits |-> <<1, 3>>,
         coop |-> [w \in {1} |-> {1}]]}

(* Operations of shmem.  Waves of a block put and one of them signals, for *)
(* itself or for all; threads and a warp signal one waiter; a store as a   *)
(* signal, then an atomic store as a flag; puts, a fence and a flag at one *)
(* peer and puts by an engine, their quiet and a flag at another; sums that*)
(* race, and operations on bits.                                           *)
HeapAt(addr, x) == IF addr THEN 16 + x ELSE x
Call(what, scope, addr, x) ==
  [kind |-> what, scope |-> scope, addr |-> addr, at |-> HeapAt(addr, x),
   one |-> TRUE, pe |-> 1, n |-> 1, size |-> 1, val |-> 1, on |-> 0,
   by |-> 0, amo |-> "AMO_ADD", cmp |-> 0, lanes |-> 2, qp |-> 0]
At(rank, x) == [x EXCEPT !.pe = rank]
Put(scope, addr, x, n, size) ==
  [Call("put", scope, addr, x) EXCEPT
     !.n = n, !.size = size, !.lanes = IF scope = "thread" THEN 1 ELSE 2]
Signalled(scope, addr, one, amo, x, n, by) ==
  [Call("putSignal", scope, addr, x) EXCEPT
     !.one = one, !.amo = amo, !.n = n, !.on = HeapAt(addr, 6), !.by = by]
Get(scope, addr, x, n) ==
  [Call("get", scope, addr, x) EXCEPT
     !.n = n, !.lanes = IF scope = "thread" THEN 1 ELSE 2]
Wait(what, x, by) == [Call(what, "thread", FALSE, x) EXCEPT !.by = by]
Flagged(scope, addr, x, val) ==
  [Call("imm", scope, addr, x) EXCEPT !.val = val]
Pointer(x) == Call("ptr", "thread", FALSE, x)
Amo(what, scope, addr, amo, x, by) ==
  [Call(what, scope, addr, x) EXCEPT !.amo = amo, !.by = by]
Peers(transports, n, blocks, progs) ==
  [transportTypes |-> transports, queues |-> n, block |-> blocks,
   prog |-> progs]
OfBlock(addr, one) ==
  LET p == <<Signalled("block", addr, one, "AMO_ADD", 0, 5, 1)>>
  IN Peers(<<"P2P">>, 1, <<1, 1, 2>>,
           <<p, p, <<Wait("greater", 6, IF one THEN 0 ELSE 3),
                     Get("block", addr, 0, 5)>>>>)
OfLanes(addr, one) ==
  Peers(<<"P2P">>, 1, <<1, 1, 2>>,
    <<<<Signalled("thread", addr, one, "AMO_ADD", 0, 1, 1)>>,
      <<Signalled("warp", addr, one, "AMO_SIGNAL_ADD", 2, 3, 1),
        Signalled("thread", addr, one, "AMO_ADD", 5, 0, 1)>>,
      <<Wait("greater", 6, IF one THEN 1 ELSE IF addr THEN 3 ELSE 2),
        Get("warp", addr, 0, 5)>>>>)
Stored ==
  Peers(<<"P2P">>, 1, <<1, 2>>,
    <<<<Put("warp", TRUE, 0, 1, 2),
        Signalled("warp", FALSE, TRUE, "AMO_SET", 2, 1, 2),
        Put("thread", FALSE, 2, 1, 2),
        Amo("atomic", "thread", FALSE, "AMO_SET", 7, 1)>>,
      <<Wait("equal", 6, 2), Get("thread", TRUE, 0, 3),
        Wait("equal", 7, 1), Get("thread", FALSE, 4, 1)>>>>)
Fenced ==
  Peers(<<"P2P", "SDMA">>, 2, <<1, 2>>,
    <<<<At(2, Put("thread", FALSE, 0, 2, 1)),
        [At(2, Put("thread", TRUE, 2, 1, 1)) EXCEPT !.qp = 1],
        [At(2, Put("block", TRUE, 0, 2, 1)) EXCEPT !.val = 2],
        Put("block", FALSE, 0, 2, 1), Pointer(16 + 2), Pointer(0),
        Call("quiet", "thread", FALSE, 0), Call("fence", "thread", FALSE, 0),
        Flagged("warp", FALSE, 6, 6),
        At(2, Call("quietDest", "thread", FALSE, 0)),
        At(2, Flagged("thread", TRUE, 6, 1))>>,
      <<Wait("equal", 6, 2), Get("thread", TRUE, 0, 3),
        At(2, Wait("equal", 7, 1)), At(2, Get("thread", FALSE, 0, 3))>>>>)
ByEngine ==
  Peers(<<"SDMA">>, 1, <<1, 2>>,
    <<<<Put("warp", FALSE, 0, 2, 1), Put("warp", TRUE, 2, 1, 1),
        Call("quietDest", "thread", FALSE, 0), Flagged("warp", FALSE, 6, 1)>>,
      <<Wait("equal", 6, 1), Get("warp", FALSE, 0, 3)>>>>)
Sums(addr) ==
  Peers(<<"P2P">>, 1, <<1, 2>>,
    <<<<Amo("fetch", "thread", TRUE, "AMO_FETCH_INC", 0, 1),
        Amo("atomic", "warp", FALSE, "AMO_ADD", 0, 2)>>,
      <<Amo("fetch", "warp", addr, "AMO_FETCH_ADD", 0, 1),
        Amo("atomic", "thread", TRUE, "AMO_INC", 0, 3)>>>>)
Bits(amo1, amo2) ==
  Peers(<<"P2P">>, 1, <<1, 2>>,
    <<<<Amo("atomic", "warp", FALSE, "AMO_OR", 1, 3),
        Amo("fetch", "warp", TRUE, "AMO_FETCH_XOR", 1, 5)>>,
      <<Amo("fetch", "warp", TRUE, amo1, 1, 2),
        Amo("atomic", "warp", FALSE, amo2, 1, 6)>>>>)
Calls ==
  {OfBlock(a, o) : a \in BOOLEAN, o \in BOOLEAN}
    \cup {OfLanes(a, o) : a \in BOOLEAN, o \in BOOLEAN}
    \cup {Stored, Fenced, ByEngine} \cup {Sums(a) : a \in BOOLEAN}
    \cup {Bits(x, y) :
            x \in {"AMO_SWAP", "AMO_COMPARE_SWAP", "AMO_FETCH_OR",
                   "AMO_FETCH_AND"},
            y \in {"AMO_AND", "AMO_XOR"}}

(* Entries of the send queues: two warps, one of whose lanes put with a    *)
(* signal, add and read at two peers, from chunk to chunk, while the other *)
(* fetches; and every kernel by a warp of its own, rounds of its lanes that*)
(* end together and one after the other.  (Object, first byte, bytes.)     *)
Move(pe, size, from, to) ==
  [pe |-> pe, size |-> size, here |-> from, there |-> to]
Cell(pe, a) == Move(pe, 1, 0, a)
Run(what, scope, addr, amo, lanes) ==
  [kind |-> what, scope |-> scope, addr |-> addr, one |-> TRUE, amo |-> amo,
   qp |-> 0, sig |-> 6, lanes |-> lanes]
Each(x) == [x EXCEPT !.one = FALSE]
Drain(pe) == Run("quiet", "thread", FALSE, "", <<Cell(pe, 0), Cell(pe, 0)>>)
Lasting ==
  <<Run("putSignal", "thread", FALSE, "AMO_SIGNAL_ADD",
        <<Move(0, 3, 1, 0), Move(0, 2, 4, 3)>>),
    Run("atomic", "thread", FALSE, "AMO_INC",
        <<Cell(0, 1), Cell(1, 1)>>),
    Run("get", "warp", TRUE, "", <<Move(0, 2, 2, 2)>>)>>
Brief == <<Run("fetch", "thread", FALSE, "AMO_COMPARE_SWAP",
               <<Cell(0, 1), Cell(0, 5)>>)>>
Alone ==
  {<<Each(Run("putSignal", "thread", FALSE, "AMO_SET",
              <<Move(0, 3, 1, 0), Move(1, 2, 0, 3), Move(0, 2, 4, 2)>>)),
     Run("get", "thread", TRUE, "",
         <<Move(0, 3, 1, 3), Move(0, 0, 0, 0), Move(1, 1, 2, 2)>>),
     Run("put", "warp", FALSE, "", <<Move(0, 2, 1, 1)>>), Drain(0)>>,
   <<[Run("putImm", "thread", FALSE, "", <<Cell(0, 1), Cell(0, 5)>>)
        EXCEPT !.qp = 2],
     Run("fetch", "warp", TRUE, "AMO_FETCH", <<Cell(0, 3)>>)>>,
   <<Each(Run("putSignal", "thread", TRUE, "AMO_ADD",
              <<Move(0, 2, 1, 0), Move(0, 2, 3, 4)>>)),
     Run("fetch", "warp", FALSE, "AMO_FETCH_INC", <<Cell(0, 1)>>),
     Run("put", "thread", FALSE, "", <<Move(0, 3, 0, 1), Move(0, 2, 3, 0)>>),
     Run("fetch", "warp", FALSE, "AMO_FETCH", <<Cell(0, 1)>>),
     Run("putSignal", "warp", FALSE, "AMO_ADD", <<Move(0, 3, 2, 1)>>),
     Run("putImm", "warp", FALSE, "", <<Cell(0, 1)>>), Drain(0)>>,
   <<Run("put", "thread", TRUE, "", <<Move(0, 3, 1, 0), Move(0, 2, 1, 3)>>),
     Run("fetch", "thread", TRUE, "AMO_FETCH_ADD", <<Cell(0, 1), Cell(0, 2)>>),
     Run("atomic", "warp", FALSE, "AMO_ADD", <<Cell(0, 4)>>),
     Run("putSignal", "warp", TRUE, "AMO_SET", <<Move(0, 3, 2, 1)>>),
     Drain(0)>>,
   <<Run("put", "warp", TRUE, "", <<Move(0, 2, 1, 1)>>),
     Run("putImm", "thread", TRUE, "", <<Cell(0, 1), Cell(1, 1)>>),
     Run("putImm", "warp", TRUE, "", <<Cell(0, 1)>>), Drain(0),
     Run("get", "thread", FALSE, "", <<Move(0, 1, 3, 1), Move(0, 2, 4, 4)>>),
     Run("get", "warp", FALSE, "", <<Move(0, 1, 3, 1)>>),
     Run("atomic", "thread", TRUE, "AMO_INC", <<Cell(0, 1), Cell(0, 2)>>),
     Run("atomic", "warp", TRUE, "AMO_ADD", <<Cell(0, 4)>>)>>}
Kernels ==
  {[prv |-> p, vmm |-> p # "PSD", prog |-> <<Lasting, Brief>>] :
     p \in {"MLX5", "BNXT", "PSD"}}
  \cup {[prv |-> p, vmm |-> TRUE, prog |-> <<x>>] :
           p \in {"MLX5", "BNXT", "PSD"}, x \in Alone}

Coll == INSTANCE SdmaCollectives WITH Npes <- 2, Blocks <- 2, Scenarios <- Repeated
Sdma == INSTANCE SdmaQueue WITH Size <- 11, CopyLen <- 2, AtomicLen <- 3,
                           Scenarios <- Producers
Ib == INSTANCE Ibgda WITH Word <- 64, Slots <- 2, Prompt <- FALSE, Scenarios <- Programs
Cco == INSTANCE CcoQueue WITH Scenarios <- Warps
Ops == INSTANCE ShmemOps WITH Lanes <- 2, Vecs <- <<2, 1>>, HeapBase <- 16,
                          HeapWords <- 8, Width <- 8, Narrow <- 4,
                          Scenarios <- Calls
Bar == INSTANCE CcoBarriers WITH Ranks <- 2, MaxRound <- 5, MaxTimeOut <- 1, Word <- 4,
                            Kinds <- {"lsa", "lsa_timeout", "gda"}
Async == INSTANCE MoriAsync WITH T <- 2, TopK <- 2, PerRank <- 2, Qps <- 1, Rounds <- 2,
                            Scenarios <- {puts(TRUE, 2), puts(FALSE, 2)}
Red == INSTANCE IntraNodeReduce WITH Ngpus <- 2, MaxBlocks <- 2, Threads <- 2, Pack <- 2,
                                Align <- 2, Small <- 3, Always <- 0,
                                MaxSize <- 5, Capacity <- 3, Word <- 32,
                                Scenarios <- Reduces
Rp == INSTANCE RdmaPost WITH Pes <- 2, NumQpPerPe <- 1, SqN <- 8, MsntblN <- 8, CqN <- 8,
                          Lanes <- 3, Low <- 16, Mtu <- 1, ChunkSize <- 2,
                          Chunks <- 4, Scenarios <- Kernels
Wide == INSTANCE MoriAsync WITH T <- 2, TopK <- 2, PerRank <- 2, Qps <- 2, Rounds <- 1,
                           Scenarios <- {puts(FALSE, 1)}

(* What a component does not have stays 0.                                 *)
CollRest == <<ip, part, cur, cached, base, pending, cachedWptr, committedWptr,
    wptr, doorbell, rptr, queueBuf, expected, signal, order, done, chunk,
    slot, target, cons, seen, back, owed, got, msn, postIdx, dbTouchIdx,
    doneIdx, pollCqLock, head, tail, sq, rung, cqe, cq_consumer, ibuf, sent,
    psn, psnIdx, counterBuf, signalBuf, signalShadow, waited, mem, engine,
    signals, left, old, result, kind, epoch, state, inbox, shadow, visible,
    entered, exited, given_up, round, counter, map, staging, dispatchInp,
    dispatchOut, idxMap, total, recvNum, combineInp, flag, bell, status, run,
    start, end, tmp, rank_data, graph_unreg_buffers_, meta, graph, need, off,
    look, msnPack, msntbl, told, sent_psn, cq>>
CollIdle ==
  /\ ip = 0 /\ part = 0 /\ cur = 0 /\ cached = 0 /\ base = 0 /\ pending = 0
  /\ cachedWptr = 0 /\ committedWptr = 0 /\ wptr = 0 /\ doorbell = 0
  /\ rptr = 0 /\ queueBuf = 0 /\ expected = 0 /\ signal = 0 /\ order = 0
  /\ done = 0 /\ chunk = 0 /\ slot = 0 /\ target = 0 /\ cons = 0 /\ seen = 0
  /\ back = 0 /\ owed = 0 /\ got = 0 /\ msn = 0 /\ postIdx = 0
  /\ dbTouchIdx = 0 /\ doneIdx = 0 /\ pollCqLock = 0 /\ head = 0 /\ tail = 0
  /\ sq = 0 /\ rung = 0 /\ cqe = 0 /\ cq_consumer = 0 /\ ibuf = 0 /\ sent = 0
  /\ psn = 0 /\ psnIdx = 0 /\ counterBuf = 0 /\ signalBuf = 0
  /\ signalShadow = 0 /\ waited = 0 /\ mem = 0 /\ engine = 0 /\ signals = 0
  /\ left = 0 /\ old = 0 /\ result = 0 /\ kind = 0 /\ epoch = 0 /\ state = 0
  /\ inbox = 0 /\ shadow = 0 /\ visible = 0 /\ entered = 0 /\ exited = 0
  /\ given_up = 0 /\ round = 0 /\ counter = 0 /\ map = 0 /\ staging = 0
  /\ dispatchInp = 0 /\ dispatchOut = 0 /\ idxMap = 0 /\ total = 0
  /\ recvNum = 0 /\ combineInp = 0 /\ flag = 0 /\ bell = 0 /\ status = 0
  /\ run = 0 /\ start = 0 /\ end = 0 /\ tmp = 0 /\ rank_data = 0
  /\ graph_unreg_buffers_ = 0 /\ meta = 0 /\ graph = 0 /\ need = 0 /\ off = 0
  /\ look = 0 /\ msnPack = 0 /\ msntbl = 0 /\ told = 0 /\ sent_psn = 0
  /\ cq = 0
SdmaRest == <<call, next, todo, gen, flags, buf, posted, out, chunk, slot,
    target, cons, seen, back, owed, got, msn, postIdx, dbTouchIdx, doneIdx,
    pollCqLock, head, tail, sq, rung, cqe, cq_consumer, ibuf, sent, psn,
    psnIdx, counterBuf, signalBuf, signalShadow, waited, mem, engine, signals,
    left, old, result, kind, epoch, state, inbox, shadow, visible, entered,
    exited, given_up, round, counter, map, staging, dispatchInp, dispatchOut,
    idxMap, total, recvNum, combineInp, flag, bell, status, run, start, end,
    tmp, rank_data, graph_unreg_buffers_, meta, graph, need, off, look,
    msnPack, msntbl, told, sent_psn, cq>>
SdmaIdle ==
  /\ call = 0 /\ next = 0 /\ todo = 0 /\ gen = 0 /\ flags = 0 /\ buf = 0
  /\ posted = 0 /\ out = 0 /\ chunk = 0 /\ slot = 0 /\ target = 0 /\ cons = 0
  /\ seen = 0 /\ back = 0 /\ owed = 0 /\ got = 0 /\ msn = 0 /\ postIdx = 0
  /\ dbTouchIdx = 0 /\ doneIdx = 0 /\ pollCqLock = 0 /\ head = 0 /\ tail = 0
  /\ sq = 0 /\ rung = 0 /\ cqe = 0 /\ cq_consumer = 0 /\ ibuf = 0 /\ sent = 0
  /\ psn = 0 /\ psnIdx = 0 /\ counterBuf = 0 /\ signalBuf = 0
  /\ signalShadow = 0 /\ waited = 0 /\ mem = 0 /\ engine = 0 /\ signals = 0
  /\ left = 0 /\ old = 0 /\ result = 0 /\ kind = 0 /\ epoch = 0 /\ state = 0
  /\ inbox = 0 /\ shadow = 0 /\ visible = 0 /\ entered = 0 /\ exited = 0
  /\ given_up = 0 /\ round = 0 /\ counter = 0 /\ map = 0 /\ staging = 0
  /\ dispatchInp = 0 /\ dispatchOut = 0 /\ idxMap = 0 /\ total = 0
  /\ recvNum = 0 /\ combineInp = 0 /\ flag = 0 /\ bell = 0 /\ status = 0
  /\ run = 0 /\ start = 0 /\ end = 0 /\ tmp = 0 /\ rank_data = 0
  /\ graph_unreg_buffers_ = 0 /\ meta = 0 /\ graph = 0 /\ need = 0 /\ off = 0
  /\ look = 0 /\ msnPack = 0 /\ msntbl = 0 /\ told = 0 /\ sent_psn = 0
  /\ cq = 0
IbRest == <<call, next, todo, gen, flags, buf, posted, out, part, cur, cached,
    pending, cachedWptr, committedWptr, wptr, doorbell, rptr, queueBuf,
    expected, signal, done, psn, psnIdx, counterBuf, signalBuf, signalShadow,
    waited, mem, engine, signals, left, old, result, kind, epoch, state,
    inbox, shadow, visible, entered, exited, given_up, round, counter, map,
    staging, dispatchInp, dispatchOut, idxMap, total, recvNum, combineInp,
    flag, bell, status, run, start, end, tmp, rank_data, graph_unreg_buffers_,
    meta, graph, need, off, look, msnPack, msntbl, told, sent_psn, cq>>
IbIdle ==
  /\ call = 0 /\ next = 0 /\ todo = 0 /\ gen = 0 /\ flags = 0 /\ buf = 0
  /\ posted = 0 /\ out = 0 /\ part = 0 /\ cur = 0 /\ cached = 0 /\ pending = 0
  /\ cachedWptr = 0 /\ committedWptr = 0 /\ wptr = 0 /\ doorbell = 0
  /\ rptr = 0 /\ queueBuf = 0 /\ expected = 0 /\ signal = 0 /\ done = 0
  /\ psn = 0 /\ psnIdx = 0 /\ counterBuf = 0 /\ signalBuf = 0
  /\ signalShadow = 0 /\ waited = 0 /\ mem = 0 /\ engine = 0 /\ signals = 0
  /\ left = 0 /\ old = 0 /\ result = 0 /\ kind = 0 /\ epoch = 0 /\ state = 0
  /\ inbox = 0 /\ shadow = 0 /\ visible = 0 /\ entered = 0 /\ exited = 0
  /\ given_up = 0 /\ round = 0 /\ counter = 0 /\ map = 0 /\ staging = 0
  /\ dispatchInp = 0 /\ dispatchOut = 0 /\ idxMap = 0 /\ total = 0
  /\ recvNum = 0 /\ combineInp = 0 /\ flag = 0 /\ bell = 0 /\ status = 0
  /\ run = 0 /\ start = 0 /\ end = 0 /\ tmp = 0 /\ rank_data = 0
  /\ graph_unreg_buffers_ = 0 /\ meta = 0 /\ graph = 0 /\ need = 0 /\ off = 0
  /\ look = 0 /\ msnPack = 0 /\ msntbl = 0 /\ told = 0 /\ sent_psn = 0
  /\ cq = 0
CcoRest == <<call, next, todo, gen, flags, buf, posted, out, part, cur,
    cached, pending, cachedWptr, committedWptr, wptr, doorbell, rptr,
    queueBuf, expected, signal, done, chunk, slot, owed, got, msn, head, tail,
    ibuf, mem, engine, signals, left, old, result, kind, epoch, state, inbox,
    shadow, visible, entered, exited, given_up, round, counter, map, staging,
    dispatchInp, dispatchOut, idxMap, total, recvNum, combineInp, flag, bell,
    status, run, start, end, tmp, rank_data, graph_unreg_buffers_, meta,
    graph, need, off, look, msnPack, msntbl, told, sent_psn, cq>>
CcoIdle ==
  /\ call = 0 /\ next = 0 /\ todo = 0 /\ gen = 0 /\ flags = 0 /\ buf = 0
  /\ posted = 0 /\ out = 0 /\ part = 0 /\ cur = 0 /\ cached = 0 /\ pending = 0
  /\ cachedWptr = 0 /\ committedWptr = 0 /\ wptr = 0 /\ doorbell = 0
  /\ rptr = 0 /\ queueBuf = 0 /\ expected = 0 /\ signal = 0 /\ done = 0
  /\ chunk = 0 /\ slot = 0 /\ owed = 0 /\ got = 0 /\ msn = 0 /\ head = 0
  /\ tail = 0 /\ ibuf = 0 /\ mem = 0 /\ engine = 0 /\ signals = 0 /\ left = 0
  /\ old = 0 /\ result = 0 /\ kind = 0 /\ epoch = 0 /\ state = 0 /\ inbox = 0
  /\ shadow = 0 /\ visible = 0 /\ entered = 0 /\ exited = 0 /\ given_up = 0
  /\ round = 0 /\ counter = 0 /\ map = 0 /\ staging = 0 /\ dispatchInp = 0
  /\ dispatchOut = 0 /\ idxMap = 0 /\ total = 0 /\ recvNum = 0
  /\ combineInp = 0 /\ flag = 0 /\ bell = 0 /\ status = 0 /\ run = 0
  /\ start = 0 /\ end = 0 /\ tmp = 0 /\ rank_data = 0
  /\ graph_unreg_buffers_ = 0 /\ meta = 0 /\ graph = 0 /\ need = 0 /\ off = 0
  /\ look = 0 /\ msnPack = 0 /\ msntbl = 0 /\ told = 0 /\ sent_psn = 0
  /\ cq = 0
OpsRest == <<call, next, todo, gen, flags, buf, out, part, cur, cached, base,
    pending, cachedWptr, committedWptr, wptr, doorbell, rptr, queueBuf,
    signal, order, done, chunk, slot, target, cons, seen, back, owed, msn,
    postIdx, dbTouchIdx, doneIdx, pollCqLock, head, tail, sq, rung, cqe,
    cq_consumer, ibuf, sent, psn, psnIdx, counterBuf, signalBuf, signalShadow,
    waited, kind, epoch, state, inbox, shadow, visible, entered, exited,
    given_up, round, counter, map, staging, dispatchInp, dispatchOut, idxMap,
    total, recvNum, combineInp, flag, bell, status, run, start, end, tmp,
    rank_data, graph_unreg_buffers_, meta, graph, need, off, look, msnPack,
    msntbl, told, sent_psn, cq>>
OpsIdle ==
  /\ call = 0 /\ next = 0 /\ todo = 0 /\ gen = 0 /\ flags = 0 /\ buf = 0
  /\ out = 0 /\ part = 0 /\ cur = 0 /\ cached = 0 /\ base = 0 /\ pending = 0
  /\ cachedWptr = 0 /\ committedWptr = 0 /\ wptr = 0 /\ doorbell = 0
  /\ rptr = 0 /\ queueBuf = 0 /\ signal = 0 /\ order = 0 /\ done = 0
  /\ chunk = 0 /\ slot = 0 /\ target = 0 /\ cons = 0 /\ seen = 0 /\ back = 0
  /\ owed = 0 /\ msn = 0 /\ postIdx = 0 /\ dbTouchIdx = 0 /\ doneIdx = 0
  /\ pollCqLock = 0 /\ head = 0 /\ tail = 0 /\ sq = 0 /\ rung = 0 /\ cqe = 0
  /\ cq_consumer = 0 /\ ibuf = 0 /\ sent = 0 /\ psn = 0 /\ psnIdx = 0
  /\ counterBuf = 0 /\ signalBuf = 0 /\ signalShadow = 0 /\ waited = 0
  /\ kind = 0 /\ epoch = 0 /\ state = 0 /\ inbox = 0 /\ shadow = 0
  /\ visible = 0 /\ entered = 0 /\ exited = 0 /\ given_up = 0 /\ round = 0
  /\ counter = 0 /\ map = 0 /\ staging = 0 /\ dispatchInp = 0
  /\ dispatchOut = 0 /\ idxMap = 0 /\ total = 0 /\ recvNum = 0
  /\ combineInp = 0 /\ flag = 0 /\ bell = 0 /\ status = 0 /\ run = 0
  /\ start = 0 /\ end = 0 /\ tmp = 0 /\ rank_data = 0
  /\ graph_unreg_buffers_ = 0 /\ meta = 0 /\ graph = 0 /\ need = 0 /\ off = 0
  /\ look = 0 /\ msnPack = 0 /\ msntbl = 0 /\ told = 0 /\ sent_psn = 0
  /\ cq = 0
BarRest == <<s, call, next, gen, flags, buf, posted, out, ip, part, cur,
    cached, base, cachedWptr, committedWptr, wptr, doorbell, rptr, queueBuf,
    expected, signal, order, done, chunk, slot, target, cons, seen, back,
    owed, got, msn, postIdx, dbTouchIdx, doneIdx, pollCqLock, head, tail, sq,
    rung, cqe, cq_consumer, ibuf, sent, psn, psnIdx, counterBuf, signalBuf,
    signalShadow, waited, mem, engine, signals, left, old, result, round,
    counter, map, staging, dispatchInp, dispatchOut, idxMap, total, recvNum,
    combineInp, flag, bell, status, run, start, end, tmp, rank_data,
    graph_unreg_buffers_, meta, graph, need, off, look, msnPack, msntbl, told,
    sent_psn, cq>>
BarIdle ==
  /\ s = 0 /\ call = 0 /\ next = 0 /\ gen = 0 /\ flags = 0 /\ buf = 0
  /\ posted = 0 /\ out = 0 /\ ip = 0 /\ part = 0 /\ cur = 0 /\ cached = 0
  /\ base = 0 /\ cachedWptr = 0 /\ committedWptr = 0 /\ wptr = 0
  /\ doorbell = 0 /\ rptr = 0 /\ queueBuf = 0 /\ expected = 0 /\ signal = 0
  /\ order = 0 /\ done = 0 /\ chunk = 0 /\ slot = 0 /\ target = 0 /\ cons = 0
  /\ seen = 0 /\ back = 0 /\ owed = 0 /\ got = 0 /\ msn = 0 /\ postIdx = 0
  /\ dbTouchIdx = 0 /\ doneIdx = 0 /\ pollCqLock = 0 /\ head = 0 /\ tail = 0
  /\ sq = 0 /\ rung = 0 /\ cqe = 0 /\ cq_consumer = 0 /\ ibuf = 0 /\ sent = 0
  /\ psn = 0 /\ psnIdx = 0 /\ counterBuf = 0 /\ signalBuf = 0
  /\ signalShadow = 0 /\ waited = 0 /\ mem = 0 /\ engine = 0 /\ signals = 0
  /\ left = 0 /\ old = 0 /\ result = 0 /\ round = 0 /\ counter = 0 /\ map = 0
  /\ staging = 0 /\ dispatchInp = 0 /\ dispatchOut = 0 /\ idxMap = 0
  /\ total = 0 /\ recvNum = 0 /\ combineInp = 0 /\ flag = 0 /\ bell = 0
  /\ status = 0 /\ run = 0 /\ start = 0 /\ end = 0 /\ tmp = 0 /\ rank_data = 0
  /\ graph_unreg_buffers_ = 0 /\ meta = 0 /\ graph = 0 /\ need = 0 /\ off = 0
  /\ look = 0 /\ msnPack = 0 /\ msntbl = 0 /\ told = 0 /\ sent_psn = 0
  /\ cq = 0
AsyncRest == <<call, next, gen, flags, buf, ip, part, cur, cached, base,
    pending, cachedWptr, committedWptr, wptr, doorbell, rptr, queueBuf,
    expected, signal, order, done, chunk, slot, target, cons, seen, back,
    owed, got, msn, postIdx, dbTouchIdx, doneIdx, pollCqLock, head, tail, sq,
    rung, cqe, cq_consumer, ibuf, sent, psn, psnIdx, counterBuf, signalBuf,
    signalShadow, waited, mem, engine, signals, left, old, kind, epoch, state,
    inbox, shadow, visible, entered, exited, given_up, status, run, start,
    end, tmp, rank_data, graph_unreg_buffers_, meta, graph, need, off, look,
    msnPack, msntbl, told, sent_psn, cq>>
AsyncIdle ==
  /\ call = 0 /\ next = 0 /\ gen = 0 /\ flags = 0 /\ buf = 0 /\ ip = 0
  /\ part = 0 /\ cur = 0 /\ cached = 0 /\ base = 0 /\ pending = 0
  /\ cachedWptr = 0 /\ committedWptr = 0 /\ wptr = 0 /\ doorbell = 0
  /\ rptr = 0 /\ queueBuf = 0 /\ expected = 0 /\ signal = 0 /\ order = 0
  /\ done = 0 /\ chunk = 0 /\ slot = 0 /\ target = 0 /\ cons = 0 /\ seen = 0
  /\ back = 0 /\ owed = 0 /\ got = 0 /\ msn = 0 /\ postIdx = 0
  /\ dbTouchIdx = 0 /\ doneIdx = 0 /\ pollCqLock = 0 /\ head = 0 /\ tail = 0
  /\ sq = 0 /\ rung = 0 /\ cqe = 0 /\ cq_consumer = 0 /\ ibuf = 0 /\ sent = 0
  /\ psn = 0 /\ psnIdx = 0 /\ counterBuf = 0 /\ signalBuf = 0
  /\ signalShadow = 0 /\ waited = 0 /\ mem = 0 /\ engine = 0 /\ signals = 0
  /\ left = 0 /\ old = 0 /\ kind = 0 /\ epoch = 0 /\ state = 0 /\ inbox = 0
  /\ shadow = 0 /\ visible = 0 /\ entered = 0 /\ exited = 0 /\ given_up = 0
  /\ status = 0 /\ run = 0 /\ start = 0 /\ end = 0 /\ tmp = 0 /\ rank_data = 0
  /\ graph_unreg_buffers_ = 0 /\ meta = 0 /\ graph = 0 /\ need = 0 /\ off = 0
  /\ look = 0 /\ msnPack = 0 /\ msntbl = 0 /\ told = 0 /\ sent_psn = 0
  /\ cq = 0
RedRest == <<call, next, gen, flags, buf, posted, out, part, cur, cached,
    pending, cachedWptr, committedWptr, wptr, doorbell, rptr, queueBuf,
    expected, signal, order, done, chunk, slot, target, cons, seen, back,
    owed, got, msn, postIdx, dbTouchIdx, doneIdx, pollCqLock, head, tail, sq,
    rung, cqe, cq_consumer, ibuf, sent, psn, psnIdx, counterBuf, signalBuf,
    signalShadow, waited, engine, signals, old, kind, epoch, state, inbox,
    shadow, visible, entered, exited, given_up, round, counter, map, staging,
    dispatchInp, dispatchOut, idxMap, total, recvNum, combineInp, bell, need,
    off, look, msnPack, msntbl, told, sent_psn, cq>>
RedIdle ==
  /\ call = 0 /\ next = 0 /\ gen = 0 /\ flags = 0 /\ buf = 0 /\ posted = 0
  /\ out = 0 /\ part = 0 /\ cur = 0 /\ cached = 0 /\ pending = 0
  /\ cachedWptr = 0 /\ committedWptr = 0 /\ wptr = 0 /\ doorbell = 0
  /\ rptr = 0 /\ queueBuf = 0 /\ expected = 0 /\ signal = 0 /\ order = 0
  /\ done = 0 /\ chunk = 0 /\ slot = 0 /\ target = 0 /\ cons = 0 /\ seen = 0
  /\ back = 0 /\ owed = 0 /\ got = 0 /\ msn = 0 /\ postIdx = 0
  /\ dbTouchIdx = 0 /\ doneIdx = 0 /\ pollCqLock = 0 /\ head = 0 /\ tail = 0
  /\ sq = 0 /\ rung = 0 /\ cqe = 0 /\ cq_consumer = 0 /\ ibuf = 0 /\ sent = 0
  /\ psn = 0 /\ psnIdx = 0 /\ counterBuf = 0 /\ signalBuf = 0
  /\ signalShadow = 0 /\ waited = 0 /\ engine = 0 /\ signals = 0 /\ old = 0
  /\ kind = 0 /\ epoch = 0 /\ state = 0 /\ inbox = 0 /\ shadow = 0
  /\ visible = 0 /\ entered = 0 /\ exited = 0 /\ given_up = 0 /\ round = 0
  /\ counter = 0 /\ map = 0 /\ staging = 0 /\ dispatchInp = 0
  /\ dispatchOut = 0 /\ idxMap = 0 /\ total = 0 /\ recvNum = 0
  /\ combineInp = 0 /\ bell = 0 /\ need = 0 /\ off = 0 /\ look = 0
  /\ msnPack = 0 /\ msntbl = 0 /\ told = 0 /\ sent_psn = 0 /\ cq = 0
RpRest == <<call, next, todo, gen, flags, buf, posted, out, part, cur, cached,
    pending, cachedWptr, committedWptr, wptr, doorbell, rptr, queueBuf,
    expected, signal, done, chunk, slot, cons, seen, owed, got, msn, postIdx,
    head, tail, rung, ibuf, psnIdx, counterBuf, signalBuf, signalShadow,
    waited, mem, engine, signals, left, old, result, kind, epoch, state,
    inbox, shadow, visible, entered, exited, given_up, counter, map, staging,
    dispatchInp, dispatchOut, idxMap, total, recvNum, combineInp, flag, bell,
    status, run, start, end, tmp, rank_data, graph_unreg_buffers_, meta, graph>>
RpIdle ==
  /\ call = 0 /\ next = 0 /\ todo = 0 /\ gen = 0 /\ flags = 0 /\ buf = 0
  /\ posted = 0 /\ out = 0 /\ part = 0 /\ cur = 0 /\ cached = 0 /\ pending = 0
  /\ cachedWptr = 0 /\ committedWptr = 0 /\ wptr = 0 /\ doorbell = 0
  /\ rptr = 0 /\ queueBuf = 0 /\ expected = 0 /\ signal = 0 /\ done = 0
  /\ chunk = 0 /\ slot = 0 /\ cons = 0 /\ seen = 0 /\ owed = 0 /\ got = 0
  /\ msn = 0 /\ postIdx = 0 /\ head = 0 /\ tail = 0 /\ rung = 0 /\ ibuf = 0
  /\ psnIdx = 0 /\ counterBuf = 0 /\ signalBuf = 0 /\ signalShadow = 0
  /\ waited = 0 /\ mem = 0 /\ engine = 0 /\ signals = 0 /\ left = 0 /\ old = 0
  /\ result = 0 /\ kind = 0 /\ epoch = 0 /\ state = 0 /\ inbox = 0
  /\ shadow = 0 /\ visible = 0 /\ entered = 0 /\ exited = 0 /\ given_up = 0
  /\ counter = 0 /\ map = 0 /\ staging = 0 /\ dispatchInp = 0
  /\ dispatchOut = 0 /\ idxMap = 0 /\ total = 0 /\ recvNum = 0
  /\ combineInp = 0 /\ flag = 0 /\ bell = 0 /\ status = 0 /\ run = 0
  /\ start = 0 /\ end = 0 /\ tmp = 0 /\ rank_data = 0
  /\ graph_unreg_buffers_ = 0 /\ meta = 0 /\ graph = 0

Init ==
  \/ which = "collectives" /\ Coll!Init /\ CollIdle
  \/ which = "sdma" /\ Sdma!Init /\ SdmaIdle
  \/ which = "ibgda" /\ Ib!Init /\ IbIdle
  \/ which = "cco" /\ Cco!Init /\ CcoIdle
  \/ which = "ops" /\ Ops!Init /\ OpsIdle
  \/ which = "barriers" /\ Bar!Init /\ BarIdle
  \/ which = "queue" /\ Async!Init /\ AsyncIdle
  \/ which = "reduce" /\ Red!Init /\ RedIdle
  \/ which = "entries" /\ Rp!Init /\ RpIdle
  \/ which = "queues" /\ Wide!Init /\ AsyncIdle
vars == <<which, s, call, pc, next, todo, gen, flags, buf, posted, out, ip,
    part, cur, cached, base, pending, cachedWptr, committedWptr, wptr,
    doorbell, rptr, queueBuf, expected, signal, order, done, chunk, slot,
    target, cons, seen, back, owed, got, msn, postIdx, dbTouchIdx, doneIdx,
    pollCqLock, head, tail, sq, rung, cqe, cq_consumer, ibuf, sent, psn,
    psnIdx, counterBuf, signalBuf, signalShadow, waited, mem, engine, signals,
    left, old, result, kind, epoch, state, inbox, shadow, visible, entered,
    exited, given_up, round, counter, map, staging, dispatchInp, dispatchOut,
    idxMap, total, recvNum, combineInp, flag, bell, status, run, start, end,
    tmp, rank_data, graph_unreg_buffers_, meta, graph, need, off, look,
    msnPack, msntbl, told, sent_psn, cq>>

(* The end of a behaviour: no other state is a dead end.                   *)
Ended ==
  \/ which = "collectives" /\ Coll!BroadcastMissed
  \/ which = "sdma" /\ done = order /\ \A t \in DOMAIN s : ~Sdma!active(t)
  \/ which = "ibgda" /\ sent = order /\ \A w \in DOMAIN s.prog : ~Ib!active(w)
  \/ which = "ops" /\ Ops!Ended
  \/ which = "reduce" /\ Red!Ended
  \/ which = "entries" /\ Rp!Ended
  \/ which = "barriers" /\ exited = [x \in 0 .. 1 |-> 5]

Next ==
  \/ /\ UNCHANGED which
     /\ \/ which = "collectives" /\ Coll!Next /\ UNCHANGED CollRest
        \/ which = "sdma" /\ Sdma!Next /\ UNCHANGED SdmaRest
        \/ which = "ibgda" /\ Ib!Next /\ UNCHANGED IbRest
        \/ which = "cco" /\ Cco!Next /\ UNCHANGED CcoRest
        \/ which = "ops" /\ Ops!Next /\ UNCHANGED OpsRest
        \/ which = "barriers" /\ Bar!Next /\ UNCHANGED BarRest
        \/ which = "queue" /\ Async!Next /\ UNCHANGED AsyncRest
        \/ which = "reduce" /\ Red!Next /\ UNCHANGED RedRest
        \/ which = "entries" /\ Rp!Next /\ UNCHANGED RpRest
        \/ which = "queues" /\ Wide!Next /\ UNCHANGED AsyncRest
  \/ Ended /\ UNCHANGED vars

Spec == Init /\ [][Next]_vars

-----------------------------------------------------------------------------
ASSUME Assumptions == /\ Coll!SdmaCollectivesAssumption
                      /\ Sdma!SdmaQueueAssumption
                      /\ Ib!IbgdaAssumption
                      /\ Cco!CcoQueueAssumption
                      /\ Ops!ShmemOpsAssumption
                      /\ Bar!CcoBarriersAssumption
                      /\ Async!MoriAsyncAssumption
                      /\ Wide!MoriAsyncAssumption
                      /\ Red!IntraNodeReduceAssumption
                      /\ Rp!RdmaPostAssumption

TypeOK == CASE which = "collectives" -> Coll!TypeOK
            [] which = "sdma" -> Sdma!TypeOK
            [] which = "ibgda" -> Ib!TypeOK
            [] which = "cco" -> Cco!TypeOK
            [] which = "ops" -> Ops!TypeOK
            [] which = "barriers" -> Bar!TypeOK
            [] which = "queue" -> Async!TypeOK
            [] which = "queues" -> Wide!TypeOK
            [] which = "reduce" -> Red!TypeOK
            [] which = "entries" -> Rp!TypeOK

(* All-gathers and all-to-alls deliver what was sent in this call, and no  *)
(* all-reduce adds up what an earlier call left (OneShotAllGatherSdma-     *)
(* Kernel, OneShotAll2allSdmaKernel, SdmaReduceScatterKernel); the kernels *)
(* that read the peers' memory add up every rank's input of the same call  *)
(* (cross_device_reduce_1stage, _2stage); after an asynchronous dispatch   *)
(* every rank holds each token sent to it once and knows how many, and its *)
(* combine sums this layer's results, each once; the entries a warp writes *)
(* for its lanes go to their peers with the keys of their chunks and move  *)
(* every byte once, each signal after its data (shmem_ibgda_kernels.hpp).  *)
GatheredExact ==
  /\ which = "collectives" => Coll!GatheredExact /\ Coll!NeverOld
  /\ which = "queue" => Async!ReceivedExact /\ Async!OutputCorrect
  /\ which = "queues" => Wide!ReceivedExact /\ Wide!OutputCorrect
  /\ which = "reduce" => Red!OutputExact
  /\ which = "entries" => Rp!EntriesRight /\ Rp!Served

(* A shard stays until it is copied (AllGatherSdmaKernel), an input and a  *)
(* sum until every peer has read it (end_sync), and a staged token until it*)
(* is sent; no count and no bell is stored over one that was not read yet  *)
(* (EpDispatchLowLatencyAsyncSend, -Recv).                                 *)
ShardStable ==
  [][/\ which = "collectives" => Coll!ShardKept
     /\ which = "queue" => Async!SourceKept /\ Async!NotOvertaken
     /\ which = "queues" => Wide!SourceKept /\ Wide!NotOvertaken
     /\ which = "reduce" => Red!SourceKept]_vars

(* Copy engines and NICs carry out each entry once, whole and in the order *)
(* of the reservations; packet numbers follow the entries, what may have to*)
(* be sent again is still in the ring and in bnxt's table, and a signal    *)
(* comes after the data put before it: who has waited for it reads the data*)
(* (anvil_device.hpp, shmem_ibgda_kernels.hpp, cco_scale_out.hpp,          *)
(* shmem_p2p_kernels.hpp).                                                 *)
CarriedOutInOrder ==
  /\ which = "sdma" => Sdma!CarriedOutInOrder
  /\ which = "ibgda" => Ib!SentInOrder
  /\ which = "cco" => Cco!SentInOrder /\ Cco!PacketsInOrder
                       /\ Cco!SignalAfterData
  /\ which = "ops" => Ops!WaitersSeeData
  /\ which = "entries" => Rp!CarriedInOrder /\ Rp!RetransmitIntact

(* The count of entries done never runs ahead of the NIC; a quiet, a flush *)
(* or a wait returns when what was asked before it has been carried out,   *)
(* and a fetching atomic the NIC's result (Mlx5CollapsedCqDrain,           *)
(* ShmemQuietThreadKernelPsdImpl, quietUntil, SdmaQueitThread); atomics    *)
(* over P2P lose no update and fetch what they replaced.                   *)
CompletionsTrue ==
  /\ which = "sdma" => Sdma!QuietMeansCopied
  /\ which = "ibgda" => /\ Ib!DoneIsDone /\ Ib!QuietMeansSent
                         /\ Ib!FetchReturnsResult
  /\ which = "cco" => Cco!DoneIsDone /\ Cco!FlushMeansSent
  /\ which = "ops" => Ops!SumsExact
  /\ which = "entries" => Rp!QuietMeansSent

(* Nobody passes a cco barrier that a peer has not entered, through wrapped*)
(* epochs, new sessions and waits given up, and what a rank wrote before   *)
(* it its peers see after it (cco.hpp, arrive and waitInternal).           *)
BarrierHolds == which = "barriers" => Bar!BarrierHolds

(* Nobody waits for good: for the end of a collective, for room in a ring, *)
(* a turn at a doorbell or a completion, or for an arrival.                *)
NeverStuck == /\ which = "collectives" => Coll!NeverStuck
              /\ which = "sdma" => Sdma!NeverStuck
              /\ which = "ibgda" => Ib!NeverStuck
              /\ which = "barriers" => Bar!NeverStuck
              /\ which = "reduce" => Red!NeverStuck
              /\ which = "entries" => Rp!NeverStuck
=============================================================================
