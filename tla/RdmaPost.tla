------------------------------ MODULE RdmaPost ------------------------------
(* What mori's ibgda kernels write into the send queues.  The lanes of a   *)
(* warp ask for transfers to peers of their own: lanes that go to the same *)
(* one are served together, peer after peer, each of them with an entry of *)
(* its own; on a heap of chunks with keys of their own, round after round  *)
(* with the piece that stays within one chunk on both sides.  The entry is *)
(* written in the format of the NIC, the doorbell tells its last position, *)
(* bnxt's table holds the packet numbers, and ionic's rings tell the turns *)
(* apart by a colour.  How the room in a ring is known is in Ibgda: here a *)
(* drain takes over the count that was reported, and only ionic's, whose   *)
(* lanes read the completions together, is spelt out.  The NIC is external:*)
(* it carries out the entries it was told of, in order, if they are those  *)
(* of this turn, and sends again those that are not acknowledged yet.      *)
EXTENDS Integers, Sequences, FiniteSets, FiniteSetsExt

CONSTANTS Pes,        \* worldSize
          NumQpPerPe, \* numQpPerPe
          SqN,        \* sqWqeNum
          MsntblN,    \* msntblNum
          CqN,        \* cqeNum (ionic)
          Lanes,      \* of a warp
          Low,        \* range of a 16-bit index
          Mtu,        \* mtuSize
          ChunkSize,  \* of the heap, where it has chunks
          Chunks,     \* chunks of the heap
          Scenarios   \* provider, heap, and the operations of each warp

Provider == {"MLX5", "BNXT", "PSD"}
Bulk == {"put", "get", "putSignal"}
Single == {"putImm", "atomic", "fetch"}
Pe == 0 .. Pes - 1
Ep == 0 .. Pes * NumQpPerPe - 1

(* Operations: what, by an object or an address of the heap; by the lanes  *)
(* of a warp or by its first one; one signal for all; the queue asked for. *)
RdmaPostAssumption ==
  /\ {Pes, NumQpPerPe, SqN, MsntblN, CqN, Lanes, Low, Mtu, ChunkSize, Chunks} \subseteq Nat \ {0}
  /\ SqN <= MsntblN /\ SqN <= CqN /\ Lanes < CqN /\ SqN < Low /\ Low % SqN = 0
  /\ \A x \in Scenarios : x.prv \in Provider /\ x.vmm \in BOOLEAN
  /\ \A x \in Scenarios : \A w \in DOMAIN x.prog : \A q \in DOMAIN x.prog[w] :
       LET o == x.prog[w][q] IN
       /\ o.kind \in Bulk \cup Single \cup {"quiet"} /\ o.scope \in {"thread", "warp"}
       /\ {o.one, o.addr} \subseteq BOOLEAN /\ o.qp \in Nat /\ Len(o.lanes) \in 1 .. Lanes
       /\ \A l \in DOMAIN o.lanes : o.lanes[l].pe \in Pe

VARIABLES
  s,           \* the scenario
  ip, pc,      \* [w]: the warp's operation, and where it is in it
  need,        \* [w]: lanes with need_turn
  off,         \* [w][l]: currentOffset
  round,       \* [w]: rounds of the lanes now served
  base,        \* [w]: warp_sq_counter
  psn,         \* [w]: warp_psn_counter
  target,      \* [w]: dbTouchedIdx, when its drain began
  back,        \* [w]: where the drain returns to
  look,        \* [w]: the lanes that have polled, and whether they found one
  msnPack,     \* [e]: next entry (postIdx elsewhere) and packet number
  dbTouchIdx, doneIdx, pollCqLock, cq_consumer, \* [e]
  sq,          \* [e][slot]: the send ring
  msntbl,      \* [e][slot]: packet numbers
  told,        \* [e]: entries the doorbell has told of
  sent,        \* [e]: entries carried out
  sent_psn,    \* [e]: the NIC's packet number
  cqe,         \* [e]: how many counts were reported, and the last one
  cq,          \* [e][slot]: the completion ring
  order        \* [e]: entries in the order of their reservation

warps == <<ip, pc, need, off, round, base, psn, target, back, look>>
queue == <<msnPack, dbTouchIdx, doneIdx, pollCqLock, cq_consumer, sq, msntbl>>
nic == <<told, sent, sent_psn, cqe, cq>>
vars == <<s, warps, queue, nic, order>>

-----------------------------------------------------------------------------
Warp == DOMAIN s.prog
active(w) == ip[w] \in DOMAIN s.prog[w]
operation(w) == s.prog[w][ip[w]]
kind(w) == operation(w).kind
lane(w, l) == operation(w).lanes[l]
at(w, l) == active(w) /\ pc[w] = l
goto(w, l) == pc' = [pc EXCEPT ![w] = l]

(* The lanes with a turn: those whose peer is that of the first one.  Warp *)
(* and block forms are the first lane's alone.                             *)
callers(o) == IF o.scope = "thread" THEN DOMAIN o.lanes ELSE {1}
pe_turn(w) == lane(w, Min(need[w])).pe
group(w) == {l \in need[w] : lane(w, l).pe = pe_turn(w)}
epIndex(pe, qpId) == pe * NumQpPerPe + (qpId % NumQpPerPe)
ep(w) == epIndex(pe_turn(w), operation(w).qp)

remaining(w, l) == lane(w, l).size - off[w][l]
activemask(w) == {l \in group(w) : remaining(w, l) > 0}
leader(w) == Max(activemask(w))
logical(w, l) == Cardinality({k \in activemask(w) : k < l})

(* VmmQueryLocalKey, VmmQueryRemoteAddr, VmmLookupRemote: the key of the   *)
(* chunk, and what is left of it.  (Keys: whose, and of which chunk.)      *)
here(w, l) == lane(w, l).here + off[w][l]
there(w, l) == lane(w, l).there + off[w][l]
chunk_of(a) == a \div ChunkSize
left_in_chunk(a) == (chunk_of(a) + 1) * ChunkSize - a
vmmRkeyInfo == [i \in 0 .. Chunks * Pes - 1 |-> <<i % Pes, i \div Pes>>]
lkey(a) == IF s.vmm THEN <<Pes, chunk_of(a)>> ELSE <<Pes, 0>>
rkey(pe, a) == IF s.vmm THEN vmmRkeyInfo[chunk_of(a) * Pes + pe] ELSE <<pe, 0>>
transfer_size(w, l) ==
  IF ~s.vmm \/ kind(w) \in Single THEN remaining(w, l)
  ELSE Min({remaining(w, l), left_in_chunk(here(w, l)), left_in_chunk(there(w, l))})

(* Signals go with the last pieces, when all lanes are at theirs: one, of  *)
(* the leader, or one of each lane.                                        *)
isLastChunk(w) == \A l \in activemask(w) : transfer_size(w, l) = remaining(w, l)
signalling(w) ==
  IF kind(w) # "putSignal" \/ ~isLastChunk(w) THEN {}
  ELSE IF operation(w).one THEN {leader(w)} ELSE activemask(w)
every_lane(w) == signalling(w) # {} /\ ~operation(w).one
num_wqes(w) == Cardinality(activemask(w)) + Cardinality(signalling(w))
my_sq_counter(w, l) == base[w] + (IF every_lane(w) THEN 2 ELSE 1) * logical(w, l)

(* Packets (bnxt).                                                         *)
psnCnt(n) == IF n = 0 THEN 1 ELSE (n + Mtu - 1) \div Mtu
packets(w, l) == IF kind(w) \in Single THEN 1 ELSE psnCnt(transfer_size(w, l))
psnUnit(w, l) == packets(w, l) + IF every_lane(w) THEN 1 ELSE 0
WarpActivePsnPrefix(w, l) ==
  MapThenSumSet(LAMBDA k : psnUnit(w, k), {k \in activemask(w) : k < l})
warp_total_psn(w) ==
  MapThenSumSet(LAMBDA k : psnUnit(w, k), activemask(w))
    + IF signalling(w) # {} /\ ~every_lane(w) THEN 1 ELSE 0

-----------------------------------------------------------------------------
(* Entries.  Their mark is what the NIC knows them by: mlx5 the low bits of*)
(* the index, ionic the colour of the turn.                                *)
entry(op, x, mark) == [x EXCEPT !.op = op, !.mark = mark]
Empty == [op |-> "none", own |-> <<0, 0, 0, 0>>, tells |-> FALSE, signal |-> FALSE,
          laddr |-> 0, lkey |-> <<0, 0>>, raddr |-> <<0, 0>>, rkey |-> <<0, 0>>, bytes |-> 0,
          val |-> 0, mark |-> -1]
inline(x) == [x EXCEPT !.laddr = 0, !.lkey = <<0, 0>>]
rdma(read) == IF read THEN "read" ELSE "write"

(* What an atomic operation becomes; others are not supported.             *)
opcode(amo) == IF amo = "AMO_COMPARE_SWAP" THEN "atomic_cs" ELSE "atomic_fa"
data(amo, val) == IF amo \in {"AMO_INC", "AMO_FETCH_INC"} THEN 1
                  ELSE IF amo = "AMO_FETCH" THEN 0 ELSE val
atomic(x, amo) == inline([x EXCEPT !.val = data(amo, @)])

index16(i) == i % Low
Mlx5PostReadWriteImpl(i, read, x) == entry(rdma(read), x, index16(i))
Mlx5PostWriteInline(i, x) == entry("inline", inline(x), index16(i))
mlx5PrepareAtomicWqe(i, x, amo) == entry(opcode(amo), atomic(x, amo), index16(i))

color(i) == IF (i \div SqN) % 2 = 0 THEN 1 ELSE 0
IonicPostReadWriteImpl(i, read, x) == entry(rdma(read), x, color(i))
IonicPostWriteInline(i, x) == entry("inline", inline(x), color(i))
IonicPrepareAtomicWqe(i, x, amo) == entry(opcode(amo), atomic(x, amo), color(i))

BnxtPostReadWriteImpl(read, x) == entry(rdma(read), x, 0)
BnxtPostWriteInline(x) == entry("inline", inline(x), 0)
BnxtPrepareAtomicWqe(x, amo) == entry(opcode(amo), atomic(x, amo), 0)

PostReadWrite(i, read, x) ==
  CASE s.prv = "MLX5" -> Mlx5PostReadWriteImpl(i, read, x)
    [] s.prv = "PSD" -> IonicPostReadWriteImpl(i, read, x)
    [] OTHER -> BnxtPostReadWriteImpl(read, x)
PostWriteInline(i, x) ==
  CASE s.prv = "MLX5" -> Mlx5PostWriteInline(i, x)
    [] s.prv = "PSD" -> IonicPostWriteInline(i, x)
    [] OTHER -> BnxtPostWriteInline(x)
PostAtomic(i, x, amo) ==
  CASE s.prv = "MLX5" -> mlx5PrepareAtomicWqe(i, x, amo)
    [] s.prv = "PSD" -> IonicPrepareAtomicWqe(i, x, amo)
    [] OTHER -> BnxtPrepareAtomicWqe(x, amo)

(* The entry of a lane, and its signal: at which index, from which packet  *)
(* number, of how many packets.                                            *)
own(w, l) == <<w, ip[w], round[w], l>>
posted(i, n, p, e) == [index |-> i, first |-> n, count |-> p, entry |-> e]
data_entry(w, l) ==
  LET o == operation(w)
      i == my_sq_counter(w, l)
      pe == pe_turn(w)
      x == [Empty EXCEPT
              !.own = own(w, l), !.bytes = transfer_size(w, l),
              !.signal = l = leader(w) /\ ~(o.kind = "putSignal" /\ o.addr),
              !.laddr = here(w, l), !.lkey = lkey(here(w, l)), !.val = l,
              !.raddr = <<pe, there(w, l)>>, !.rkey = rkey(pe, there(w, l))]
  IN posted(i, psn[w] + WarpActivePsnPrefix(w, l), packets(w, l),
            CASE o.kind \in Bulk -> PostReadWrite(i, o.kind = "get", x)
              [] o.kind = "putImm" -> PostWriteInline(i, x)
              [] OTHER -> PostAtomic(i, x, o.amo))
signal_entry(w, l) ==
  LET o == operation(w)
      i == my_sq_counter(w, l) + 1
      pe == pe_turn(w)
      x == [Empty EXCEPT
              !.own = own(w, l), !.signal = l = leader(w), !.tells = TRUE,
              !.bytes = 1, !.val = 1,
              !.raddr = <<pe, o.sig>>, !.rkey = rkey(pe, o.sig)]
  IN posted(i, psn[w] + WarpActivePsnPrefix(w, l) + packets(w, l), 1,
            IF o.amo \in {"AMO_SET", "AMO_SIGNAL_SET"} THEN PostWriteInline(i, x)
            ELSE PostAtomic(i, x, "AMO_ADD"))
batch(w) == {data_entry(w, l) : l \in activemask(w)}
              \cup {signal_entry(w, l) : l \in signalling(w)}

(* The doorbell of the leader's last entry, and mlx5's record; what each   *)
(* NIC takes from them.  (bnxt counts in slots, three of an entry.)        *)
dbr_val(w) == my_sq_counter(w, leader(w)) + IF leader(w) \in signalling(w) THEN 1 ELSE 0
UpdateSendDbrRecord(n) == n % Low
bnxt_re_init_db_hdr(i) ==
  (((i + 1) \div SqN) % 2) * SqN + (((i % SqN) + 1) % SqN)
sq_dbval(i) == (i + 1) % SqN
advanced(t, v, width) == t + ((v - t) % width)
told_by(w, t) ==
  CASE s.prv = "MLX5" -> advanced(t, UpdateSendDbrRecord(base[w] + num_wqes(w)), Low)
    [] s.prv = "BNXT" -> advanced(t, bnxt_re_init_db_hdr(dbr_val(w)), 2 * SqN)
    [] OTHER -> advanced(t, sq_dbval(dbr_val(w)), SqN)

(* bnxt_re_fill_psns_for_msntbl.                                           *)
msns(x) == [start_idx |-> 3 * (x.index % SqN), next_psn |-> x.first + x.count,
            start_psn |-> x.first]
NoPsn == [start_idx |-> 0, next_psn |-> 0, start_psn |-> 0]

-----------------------------------------------------------------------------
Init ==
  /\ s \in Scenarios
  /\ ip = [w \in Warp |-> 1] /\ pc = [w \in Warp |-> "turn"]
  /\ need = [w \in Warp |-> IF active(w) THEN callers(operation(w)) ELSE {}]
  /\ off = [w \in Warp |-> [l \in 1 .. Lanes |-> 0]]
  /\ round = [w \in Warp |-> 1] /\ base = [w \in Warp |-> 0]
  /\ psn = base /\ target = base /\ look = [w \in Warp |-> {}] /\ back = pc
  /\ msnPack = [e \in Ep |-> [slot |-> 0, psn |-> 0]]
  /\ dbTouchIdx = [e \in Ep |-> 0] /\ doneIdx = dbTouchIdx /\ pollCqLock = dbTouchIdx
  /\ cq_consumer = dbTouchIdx /\ told = dbTouchIdx /\ sent_psn = dbTouchIdx
  /\ sq = [e \in Ep |-> [i \in 0 .. SqN - 1 |-> Empty]]
  /\ msntbl = [e \in Ep |-> [i \in 0 .. MsntblN - 1 |-> NoPsn]]
  /\ sent = [e \in Ep |-> <<>>] /\ order = sent
  /\ cqe = [e \in Ep |-> [n |-> 0, last |-> 0]]
  /\ cq = [e \in Ep |-> [i \in 0 .. CqN - 1 |-> [color |-> 0, msg_msn |-> 0]]]

finish(w) ==
  /\ ip' = [ip EXCEPT ![w] = @ + 1]
  /\ need' = [need EXCEPT ![w] = IF ip'[w] \in DOMAIN s.prog[w]
                                 THEN callers(s.prog[w][ip'[w]]) ELSE {}]
  /\ off' = [off EXCEPT ![w] = [l \in DOMAIN @ |-> 0]]

(* The leader reserves: atomic_add_packed_msn_and_psn, elsewhere postIdx.  *)
Reserve(w) ==
  LET e == ep(w) IN
  /\ at(w, "turn") /\ kind(w) # "quiet" /\ activemask(w) # {}
  /\ base' = [base EXCEPT ![w] = msnPack[e].slot]
  /\ psn' = [psn EXCEPT ![w] = msnPack[e].psn]
  /\ msnPack' = [msnPack EXCEPT ![e] =
       [slot |-> @.slot + num_wqes(w), psn |-> @.psn + warp_total_psn(w)]]
  /\ order' = [order EXCEPT ![e] =
       @ \o [k \in 1 .. num_wqes(w) |-> <<w, ip[w], round[w]>>]]
  /\ goto(w, "room")
  /\ UNCHANGED <<s, ip, need, off, round, target, back, look, dbTouchIdx,
                 doneIdx, pollCqLock, cq_consumer, sq, msntbl, nic>>

drain(w, ret) ==
  /\ target' = [target EXCEPT ![w] = dbTouchIdx[ep(w)]]
  /\ back' = [back EXCEPT ![w] = ret]
  /\ goto(w, "drain")

has_room(w) ==
  LET e == ep(w) IN
  SqN - (dbTouchIdx[e] - doneIdx[e]) > base[w] + num_wqes(w) - dbTouchIdx[e]
Room(w) ==
  /\ at(w, "room")
  /\ IF has_room(w) THEN goto(w, "post") /\ UNCHANGED <<target, back>>
                    ELSE drain(w, "room")
  /\ UNCHANGED <<s, ip, need, off, round, base, psn, look, queue, nic, order>>

(* PostWrite, PostRead, PostWriteInline, PostAtomic of all lanes.          *)
written(old, b, n, f) ==
  [i \in DOMAIN old |->
     LET hit == {x \in b : x.index % n = i} IN
     IF hit = {} THEN old[i] ELSE f[CHOOSE x \in hit : TRUE]]
Post(w) ==
  LET e == ep(w) IN
  /\ at(w, "post")
  /\ sq' = [sq EXCEPT ![e] = written(@, batch(w), SqN, [x \in batch(w) |-> x.entry])]
  /\ msntbl' = IF s.prv # "BNXT" THEN msntbl
               ELSE [msntbl EXCEPT ![e] =
                       written(@, batch(w), MsntblN, [x \in batch(w) |-> msns(x)])]
  /\ goto(w, "bell")
  /\ UNCHANGED <<s, ip, need, off, round, base, psn, target, back, look,
                 msnPack, dbTouchIdx, doneIdx, pollCqLock, cq_consumer, nic,
                 order>>

(* UpdateSendDbrRecord, RingDoorbell, when it is its turn.                 *)
Ring(w) ==
  LET e == ep(w) IN
  /\ at(w, "bell") /\ dbTouchIdx[e] = base[w]
  /\ told' = [told EXCEPT ![e] = told_by(w, @)]
  /\ goto(w, "touch")
  /\ UNCHANGED <<s, ip, need, off, round, base, psn, target, back, look, queue,
                 sent, sent_psn, cqe, cq, order>>

(* A fetching atomic waits.                                                *)
Touch(w) ==
  LET e == ep(w) IN
  /\ at(w, "touch")
  /\ dbTouchIdx' = [dbTouchIdx EXCEPT ![e] = base[w] + num_wqes(w)]
  /\ IF kind(w) = "fetch"
     THEN /\ target' = [target EXCEPT ![w] = dbTouchIdx'[e]]
          /\ back' = [back EXCEPT ![w] = "next"] /\ goto(w, "drain")
     ELSE goto(w, "next") /\ UNCHANGED <<target, back>>
  /\ UNCHANGED <<s, ip, need, off, round, base, psn, look, msnPack, doneIdx,
                 pollCqLock, cq_consumer, sq, msntbl, nic, order>>

(* Move to the next chunk, or to the lanes of the next peer.               *)
Advance(w) ==
  /\ at(w, "next")
  /\ off' = [off EXCEPT ![w] =
       [l \in DOMAIN @ |->
          @[l] + IF l \in activemask(w) THEN transfer_size(w, l) ELSE 0]]
  /\ round' = [round EXCEPT ![w] = @ + 1]
  /\ goto(w, "turn")
  /\ UNCHANGED <<s, ip, need, base, psn, target, back, look, queue, nic, order>>

Pass(w) ==
  /\ at(w, "turn") /\ kind(w) # "quiet" /\ activemask(w) = {}
  /\ IF need[w] = group(w) THEN finish(w)
     ELSE need' = [need EXCEPT ![w] = @ \ group(w)] /\ UNCHANGED <<ip, off>>
  /\ round' = [round EXCEPT ![w] = 1]
  /\ UNCHANGED <<s, pc, base, psn, target, back, look, queue, nic, order>>

Quiet(w) ==
  /\ at(w, "turn") /\ kind(w) = "quiet"
  /\ drain(w, "done")
  /\ UNCHANGED <<s, ip, need, off, round, base, psn, look, queue, nic, order>>

-----------------------------------------------------------------------------
(* mlx5, bnxt: the promise of Ibgda; a quiet waits for all reservations.   *)
return(w) == IF back[w] = "done" THEN finish(w) /\ goto(w, "turn")
             ELSE goto(w, back[w]) /\ UNCHANGED <<ip, need, off>>
Drained(w) ==
  LET e == ep(w) IN
  /\ at(w, "drain") /\ s.prv # "PSD"
  /\ cqe[e].last >= IF back[w] = "done" THEN msnPack[e].slot ELSE target[w]
  /\ doneIdx' = [doneIdx EXCEPT ![e] = cqe[e].last]
  /\ return(w)
  /\ UNCHANGED <<s, round, base, psn, target, back, look, msnPack, dbTouchIdx,
                 pollCqLock, cq_consumer, sq, msntbl, nic, order>>

(* psd: the lanes that are here poll together under the lock.              *)
lanes(w) == IF kind(w) = "quiet" THEN group(w) ELSE activemask(w)
myLogicalLaneId(w, l) == Cardinality({k \in lanes(w) : k < l})
Lock(w) ==
  LET e == ep(w) IN
  /\ at(w, "drain") /\ s.prv = "PSD"
  /\ IF doneIdx[e] >= target[w] THEN return(w) /\ UNCHANGED pollCqLock
     ELSE /\ pollCqLock[e] = 0
          /\ pollCqLock' = [pollCqLock EXCEPT ![e] = w]
          /\ goto(w, "poll") /\ UNCHANGED <<ip, need, off>>
  /\ UNCHANGED <<s, round, base, psn, target, back, look, msnPack, dbTouchIdx,
                 doneIdx, cq_consumer, sq, msntbl, nic, order>>

myCqPos(w, l) == cq_consumer[ep(w)] + myLogicalLaneId(w, l)
expectedColor(i) == IF (i \div CqN) % 2 = 0 THEN 1 ELSE 0
ready(w, l) ==
  cq[ep(w)][myCqPos(w, l) % CqN].color = expectedColor(myCqPos(w, l))
polled(w) == {x[1] : x \in look[w]}
PollCq(w) ==
  /\ at(w, "poll")
  /\ \E l \in lanes(w) \ polled(w) :
       look' = [look EXCEPT ![w] = @ \cup {<<l, ready(w, l)>>}]
  /\ UNCHANGED <<s, ip, pc, need, off, round, base, psn, target, back, queue,
                 nic, order>>

Ballot(w) ==
  LET e == ep(w)
      successMask == {l \in lanes(w) : <<l, TRUE>> \in look[w]}
      i == myCqPos(w, Max(successMask))
  IN
  /\ at(w, "poll") /\ polled(w) = lanes(w)
  /\ IF successMask = {} THEN UNCHANGED <<cq_consumer, doneIdx>>
     ELSE /\ cq_consumer' = [cq_consumer EXCEPT ![e] = i + 1]
          /\ doneIdx' = [doneIdx EXCEPT ![e] = cq[e][i % CqN].msg_msn]
  /\ look' = [look EXCEPT ![w] = {}]
  /\ IF doneIdx'[e] >= target[w]
     THEN pollCqLock' = [pollCqLock EXCEPT ![e] = 0] /\ return(w)
     ELSE UNCHANGED <<pc, ip, need, off, pollCqLock>>
  /\ UNCHANGED <<s, round, base, psn, target, back, msnPack, dbTouchIdx, sq,
                 msntbl, nic, order>>

-----------------------------------------------------------------------------
(* The NIC: it goes on while the mark is that of the entry it expects.     *)
mark(i) == CASE s.prv = "MLX5" -> i % Low
             [] s.prv = "PSD" -> (i \div SqN + 1) % 2
             [] OTHER -> 0
sent_packets(x) == IF x.op \in {"read", "write"} THEN psnCnt(x.bytes) ELSE 1
Carry(e) ==
  LET i == Len(sent[e])
      x == sq[e][i % SqN]
      n == cqe[e].n
  IN
  /\ i < told[e] /\ x.mark = mark(i)
  /\ sent' = [sent EXCEPT ![e] = Append(@, x)]
  /\ sent_psn' = [sent_psn EXCEPT ![e] = @ + sent_packets(x)]
  /\ IF ~x.signal THEN UNCHANGED <<cqe, cq>>
     ELSE /\ cqe' = [cqe EXCEPT ![e] = [n |-> n + 1, last |-> i + 1]]
          /\ cq' = IF s.prv # "PSD" THEN cq
                   ELSE [cq EXCEPT ![e][n % CqN] =
                           [color |-> expectedColor(n), msg_msn |-> i + 1]]
  /\ UNCHANGED <<s, warps, queue, told, order>>

-----------------------------------------------------------------------------
(* The kernels, of an object or an address of the heap: by the lanes of a  *)
(* warp, peer after peer, or by the first lane of a warp or block.         *)
Submit(w) == \/ Reserve(w) \/ Room(w) \/ Post(w) \/ Ring(w) \/ Touch(w)
             \/ Advance(w) \/ Pass(w)
QuietPsd(w) == Lock(w) \/ PollCq(w) \/ Ballot(w)
QuietImpl(w) == Drained(w) \/ QuietPsd(w)
runs(w, k, scope, addr) ==
  /\ active(w) /\ kind(w) = k
  /\ operation(w).scope = scope /\ operation(w).addr = addr
  /\ Submit(w) \/ QuietImpl(w)
PutMemNbiThread(w) == runs(w, "put", "thread", FALSE)
PutMemNbiWarp(w) == runs(w, "put", "warp", FALSE)
PutSizeImmNbiThread(w) == runs(w, "putImm", "thread", FALSE)
PutSizeImmNbiWarp(w) == runs(w, "putImm", "warp", FALSE)
PutMemNbiSignalThread(w) == runs(w, "putSignal", "thread", FALSE)
PutMemNbiSignalWarp(w) == runs(w, "putSignal", "warp", FALSE)
AtomicNonFetchThread(w) == runs(w, "atomic", "thread", FALSE)
AtomicNonFetchWarp(w) == runs(w, "atomic", "warp", FALSE)
AtomicFetchThread(w) == runs(w, "fetch", "thread", FALSE)
AtomicFetchWarp(w) == runs(w, "fetch", "warp", FALSE)
GetMemNbiThread(w) == runs(w, "get", "thread", FALSE)
GetMemNbiWarp(w) == runs(w, "get", "warp", FALSE)
PutMemNbiThreadAddr(w) == runs(w, "put", "thread", TRUE)
PutMemNbiWarpAddr(w) == runs(w, "put", "warp", TRUE)
PutSizeImmNbiThreadAddr(w) == runs(w, "putImm", "thread", TRUE)
PutSizeImmNbiWarpAddr(w) == runs(w, "putImm", "warp", TRUE)
PutMemNbiSignalThreadAddr(w) == runs(w, "putSignal", "thread", TRUE)
PutMemNbiSignalWarpAddr(w) == runs(w, "putSignal", "warp", TRUE)
AtomicNonFetchThreadAddr(w) == runs(w, "atomic", "thread", TRUE)
AtomicNonFetchWarpAddr(w) == runs(w, "atomic", "warp", TRUE)
AtomicFetchThreadAddr(w) == runs(w, "fetch", "thread", TRUE)
AtomicFetchWarpAddr(w) == runs(w, "fetch", "warp", TRUE)
GetMemNbiThreadAddr(w) == runs(w, "get", "thread", TRUE)
GetMemNbiWarpAddr(w) == runs(w, "get", "warp", TRUE)
QuietThread(w) == active(w) /\ kind(w) = "quiet" /\ (Quiet(w) \/ QuietImpl(w))

Next ==
  \/ \E e \in Ep : Carry(e)
  \/ \E w \in Warp :
       \/ PutMemNbiThread(w) \/ PutMemNbiWarp(w)
       \/ PutSizeImmNbiThread(w) \/ PutSizeImmNbiWarp(w)
       \/ PutMemNbiSignalThread(w) \/ PutMemNbiSignalWarp(w)
       \/ AtomicNonFetchThread(w) \/ AtomicNonFetchWarp(w)
       \/ AtomicFetchThread(w) \/ AtomicFetchWarp(w)
       \/ GetMemNbiThread(w) \/ GetMemNbiWarp(w)
       \/ PutMemNbiThreadAddr(w) \/ PutMemNbiWarpAddr(w)
       \/ PutSizeImmNbiThreadAddr(w) \/ PutSizeImmNbiWarpAddr(w)
       \/ PutMemNbiSignalThreadAddr(w) \/ PutMemNbiSignalWarpAddr(w)
       \/ AtomicNonFetchThreadAddr(w) \/ AtomicNonFetchWarpAddr(w)
       \/ AtomicFetchThreadAddr(w) \/ AtomicFetchWarpAddr(w)
       \/ GetMemNbiThreadAddr(w) \/ GetMemNbiWarpAddr(w)
       \/ QuietThread(w)

Spec == Init /\ [][Next]_vars

-----------------------------------------------------------------------------
TypeOK ==
  /\ \A e \in Ep : /\ Len(sent[e]) <= told[e] /\ told[e] <= Len(order[e])
                   /\ dbTouchIdx[e] <= told[e] /\ doneIdx[e] <= Len(sent[e])
                   /\ cq_consumer[e] <= cqe[e].n
  /\ \A w \in Warp : need[w] \subseteq 1 .. Lanes

(* The entries the NICs carry out are those reserved, in that order.       *)
CarriedInOrder ==
  \A e \in Ep : \A i \in DOMAIN sent[e] :
    SubSeq(sent[e][i].own, 1, 3) = order[e][i]

(* What is told of and not known to be done can be sent again: its entry is*)
(* still in the ring, under its mark, and bnxt's table still has its place *)
(* and its packets, which follow each other without a gap.                 *)
RetransmitIntact ==
  \A e \in Ep : \A i \in doneIdx[e] .. told[e] - 1 :
    LET x == sq[e][i % SqN]
        m == msntbl[e][i % MsntblN]
    IN
    /\ SubSeq(x.own, 1, 3) = order[e][i + 1] /\ x.mark = mark(i)
    /\ s.prv = "BNXT" =>
         /\ m.start_idx = 3 * (i % SqN) /\ m.next_psn = m.start_psn + sent_packets(x)
         /\ i = Len(sent[e]) => m.start_psn = sent_psn[e]
         /\ i + 1 < told[e] => m.next_psn = msntbl[e][(i + 1) % MsntblN].start_psn

(* An entry lies within a chunk on both sides and has its keys.            *)
asked(x) == s.prog[x.own[1]][x.own[2]]
of_chunk(a) == IF s.vmm THEN chunk_of(a) ELSE 0
within(a, n) == s.vmm => chunk_of(a) = chunk_of(a + n - 1)
EntriesRight ==
  \A e \in Ep : \A i \in DOMAIN sent[e] :
    LET x == sent[e][i]
        o == asked(x)
        a == o.lanes[x.own[4]]
    IN
    /\ e = epIndex(a.pe, o.qp) /\ x.raddr[1] = a.pe
    /\ x.rkey = <<a.pe, of_chunk(x.raddr[2])>> /\ within(x.raddr[2], x.bytes)
    /\ x.op \in {"read", "write"} =>
         /\ x.lkey = <<Pes, of_chunk(x.laddr)>> /\ within(x.laddr, x.bytes)
         /\ x.laddr - a.here = x.raddr[2] - a.there

(* Once all its entries are carried out, an operation has moved every byte *)
(* of every lane once; no signal comes before the data of its lane, nor    *)
(* twice; one for all comes after the data of all; and where each lane     *)
(* signals, none is missing, but of lanes that were through before others. *)
carried(w, q, e) ==
  {i \in DOMAIN sent[e] : sent[e][i].own[1] = w /\ sent[e][i].own[2] = q}
complete(w, q, e) ==
  /\ \A i \in DOMAIN order[e] :
       order[e][i][1] = w /\ order[e][i][2] = q => i <= Len(sent[e])
  /\ ip[w] > q
bytes_of(e, I) == MapThenSumSet(LAMBDA i : sent[e][i].bytes, I)
Served ==
  \A w \in Warp : \A q \in 1 .. ip[w] - 1 : \A e \in Ep :
    LET o == s.prog[w][q]
        all == carried(w, q, e)
        tell == {i \in all : sent[e][i].tells}
        of(l) == {i \in all : sent[e][i].own[4] = l}
        mine == {l \in callers(o) : epIndex(o.lanes[l].pe, o.qp) = e}
        moved == {l \in mine : o.lanes[l].size > 0}
    IN
    o.kind # "quiet" /\ complete(w, q, e) =>
      /\ \A l \in mine : bytes_of(e, of(l) \ tell) = o.lanes[l].size
      /\ \A l \in mine : \A i, j \in of(l) \ tell : i < j =>
           sent[e][i].raddr[2] + sent[e][i].bytes <= sent[e][j].raddr[2]
      /\ \A i \in tell : \A j \in of(sent[e][i].own[4]) \ {i} : j < i
      /\ o.kind = "putSignal" /\ o.one =>
           /\ Cardinality(tell) = Cardinality({o.lanes[l].pe : l \in moved})
           /\ \A i \in tell : \A j \in all : j <= i
      /\ o.kind = "putSignal" /\ ~o.one =>
           {sent[e][i].own[4] : i \in tell} =
             {l \in moved : \A k \in moved :
                Cardinality(of(k) \ tell) <= Cardinality(of(l) \ tell)}

(* Who is past its quiet has had its own entries carried out, whichever    *)
(* lanes found their completions.                                          *)
QuietMeansSent ==
  \A w \in Warp : \A q \in 1 .. ip[w] - 1 :
    LET o == s.prog[w][q]
        e == epIndex(o.lanes[1].pe, o.qp)
    IN o.kind = "quiet" =>
         \A i \in DOMAIN order[e] :
           order[e][i][1] = w /\ order[e][i][2] < q => i <= Len(sent[e])

Ended == /\ \A w \in Warp : ~active(w)
         /\ \A e \in Ep : Len(sent[e]) = Len(order[e])
NeverStuck == Ended \/ ENABLED Next
=============================================================================
