--------------------------- MODULE MoriIntraNode ---------------------------
(* mori's dispatch and combine between the ranks of a node, the baseline   *)
(* of the measurements: EpDispatchIntraNodeKernel (one warp per pair of a  *)
(* token and an expert slot), EpDispatchIntraNodeLLKernel (one block per   *)
(* token, a control warp that routes the next token while the others copy  *)
(* this one) and EpCombineIntraNodeKernel (peers' rows are read in place,  *)
(* or pushed to the token's rank), as a stream of calls on every rank.     *)
(*                                                                         *)
(* A warp of the first dispatch is a block of its own here.  Lanes of a    *)
(* wave step together: all of them leave a wait before one goes on.  A     *)
(* store to a peer's flag or signal word lands some time later; rows have  *)
(* landed when the block that wrote them is through __syncthreads.  The    *)
(* receive buffers have room for every token.  What lies between dispatch  *)
(* and combine is the rank's GEMM, which gives each received row a result. *)
EXTENDS Integers, FiniteSets, Sequences, FiniteSetsExt, SequencesExt

CONSTANTS World,       \* worldSize
          T,           \* maxNumInpTokenPerRank
          TopK,        \* numExpertPerToken
          PerRank,     \* numExpertPerRank
          MaxGpus,     \* kMaxGpusPerNode
          Cta,         \* gridDim.x
          Scenarios    \* what to run

Rank == 0 .. World - 1
Token == 0 .. T - 1
Slot == 0 .. TopK - 1
Block == 0 .. Cta - 1
Op == {"dispatch", "record", "replay", "gemm", "combine"}

(* calls: the stream of every rank.  "record" and "replay" are dispatches  *)
(* with the caller's routing handle, to be recorded once.  ids: the expert *)
(* ids of each dispatch that routes: a negative one drops the slot, as does*)
(* one beyond the last expert.  ntok: tokens per rank.                     *)
MoriIntraNodeAssumption ==
  /\ {World, T, TopK, PerRank, MaxGpus, Cta} \subseteq Nat \ {0}
  /\ World <= MaxGpus
  /\ \A x \in Scenarios :
       /\ x.kernel \in {"intra", "ll"} /\ x.push \in BOOLEAN
       /\ x.calls \in Seq(Op)
       /\ x.ntok \in [Rank -> 0 .. T]
       /\ x.ids \in Seq([Rank -> [Token -> [Slot -> Int]]])

VARIABLES
  s,          \* the scenario
  call,       \* [r]: index of the running call
  pc,         \* [r][b]: where the block is
  item,       \* [r][b]: the next pair or token of the block
  route,      \* [r][b]: routeBuf, two routes [tok, to] (LL)
  ahead,      \* [r][b]: the control warp is through this turn (LL)
  copied,     \* [r][b]: the copying warps are through this turn (LL)
  grid,       \* [r]: dispatchGridBarrier and combineGridBarrier
  sent,       \* [r][p]: destPeTokenCounter
  offset,     \* [r]: dispTokOffset, the allocator of r's receive buffer
  map,        \* [h][r][i]: dispDestTokIdMap, the library's and the handle's
  origin,     \* [r][slot]: dispTokIdToSrcTokId
  snap,       \* [r]: the handle's copy of it, dispTokIdToSrcTokIdLocal
  recv,       \* [r][slot]: dispatchOut
  signal,     \* [r][p]: recvTokenNum
  total,      \* [h][r]: totalRecvTokenNum
  result,     \* [r][slot]: what the GEMM made of the received rows
  inp,        \* [r]: combineInp, by slot (read in place) or by <<p, t>> (push)
  flag,       \* [r]: crossDeviceBarrierFlag
  bell,       \* [r][p]: crossDeviceBarrierMem
  seen,       \* [r][b]: the flag and the total the block read at its start
  posted,     \* [r]: stores of r on their way to peers' signals and bells
  out         \* [r][t]: combineOut

ctx == <<s, call, snap>>
lds == <<route, ahead, copied>>
work == <<pc, item, lds>>
table == <<offset, origin, recv>>
back == <<result, inp, flag, seen, out>>
words == <<signal, bell, posted>>
vars == <<s, call, snap, work, grid, sent, map, table, total, back, words>>

-----------------------------------------------------------------------------
Pairs == 0 .. T * TopK - 1
Row == 0 .. World * T - 1
None == <<World, 0>>                 \* the null sentinel of a dropped slot
Empty == [rank |-> -1, tok |-> -1, round |-> 0]

op(r) == s.calls[call[r]]
at(r, o) == call[r] \in DOMAIN s.calls /\ op(r) \in o
Dispatching == {"dispatch", "record", "replay"}
Book == {"own", "handle"}

(* Dispatches up to the running call; whose books it keeps; whose routes it*)
(* follows.                                                                *)
upto(r, O) == {i \in 1 .. call[r] : i \in DOMAIN s.calls /\ s.calls[i] \in O}
round(r) == Cardinality(upto(r, Dispatching))
book(r) == IF s.calls[Max(upto(r, Dispatching))] = "dispatch" THEN "own"
           ELSE "handle"
routing(r) == LET R == upto(r, {"dispatch", "record"}) IN
              IF book(r) = "own" THEN Cardinality(R)
              ELSE Cardinality({i \in R : \E j \in R :
                                  i <= j /\ s.calls[j] = "record"})
ids(r) == s.ids[routing(r)][r]
pe_of(e) == IF e < 0 THEN -1 ELSE e \div PerRank

payload(r, t) == [rank |-> r, tok |-> t, round |-> round(r)]

Init ==
  /\ s \in Scenarios
  /\ call = [r \in Rank |-> 1]
  /\ pc = [r \in Rank |-> [b \in Block |-> "start"]]
  /\ item = [r \in Rank |-> [b \in Block |-> b]]
  /\ route = [r \in Rank |-> [b \in Block |-> [i \in {0, 1} |->
                [tok |-> -1, to |-> {}]]]]
  /\ ahead = [r \in Rank |-> [b \in Block |-> FALSE]]
  /\ copied = [r \in Rank |-> [b \in Block |-> FALSE]]
  /\ grid = [r \in Rank |-> [dispatch |-> 0, combine |-> 0]]
  /\ sent = [r \in Rank |-> [p \in Rank |-> 0]]
  /\ offset = [r \in Rank |-> 0]
  /\ map = [h \in Book |-> [r \in Rank |-> [i \in Pairs |-> None]]]
  /\ origin = [r \in Rank |-> [i \in Row |-> <<-1, -1>>]]
  /\ snap = origin
  /\ recv = [r \in Rank |-> [i \in Row |-> Empty]]
  /\ signal = [r \in Rank |-> [p \in Rank |-> 0]]
  /\ total = [h \in Book |-> [r \in Rank |-> 0]]
  /\ result = [r \in Rank |-> [i \in Row |-> Empty]]
  /\ inp = [r \in Rank |-> IF s.push THEN [x \in Rank \X Token |-> Empty]
                                      ELSE [i \in Row |-> Empty]]
  /\ flag = [r \in Rank |-> 1]
  /\ bell = [r \in Rank |-> [p \in Rank |-> 0]]
  /\ seen = [r \in Rank |-> [b \in Block |-> <<0, 0>>]]
  /\ posted = [r \in Rank |-> {}]
  /\ out = [r \in Rank |-> [t \in Token |-> {}]]

goto(r, b, l) == pc' = [pc EXCEPT ![r][b] = l]

(* The stream begins the next call when the last block has ended; after a  *)
(* recording dispatch the caller copies the origins.                       *)
ended(r) == \A b \in Block : pc[r][b] = "end"

NextCall(r) ==
  /\ call[r] \in DOMAIN s.calls
  /\ ended(r)
  /\ call' = [call EXCEPT ![r] = @ + 1]
  /\ snap' = IF op(r) = "record" THEN [snap EXCEPT ![r] = origin[r]] ELSE snap
  /\ pc' = [pc EXCEPT ![r] = [b \in Block |-> "start"]]
  /\ item' = [item EXCEPT ![r] = [b \in Block |-> b]]
  /\ UNCHANGED <<s, lds, grid, sent, map, table, total, back, words>>

-----------------------------------------------------------------------------
(* Dispatch, a warp per pair.  The first slot of a token that names a rank *)
(* sends it there.                                                         *)
pair_tok(i) == i \div TopK
pair_pe(r, i) == pe_of(ids(r)[pair_tok(i)][i % TopK])
duplicate(r, i) == \E k \in 0 .. (i % TopK) - 1 :
                      pe_of(ids(r)[pair_tok(i)][k]) = pair_pe(r, i)

(* A row of p is claimed for token t of r, and the token written to it.    *)
claim(r, t, P) ==
  /\ offset' = [p \in Rank |-> offset[p] + IF p \in P THEN 1 ELSE 0]
  /\ sent' = [sent EXCEPT ![r] = [p \in Rank |-> @[p] + IF p \in P THEN 1 ELSE 0]]
  /\ origin' = [p \in Rank |->
        IF p \in P THEN [origin[p] EXCEPT ![offset[p]] = <<r, t>>] ELSE origin[p]]

store_row(r, t, to) ==
  recv' = [p \in Rank |-> [i \in Row |->
             IF <<p, i>> \in to THEN payload(r, t) ELSE recv[p][i]]]

step_item(r, b) == item' = [item EXCEPT ![r][b] = @ + Cta]

working(r, b) == at(r, Dispatching) /\ pc[r][b] = "start"

Drop(r, b) ==
  LET i == item[r][b] IN
  /\ working(r, b) /\ s.kernel = "intra" /\ i < s.ntok[r] * TopK
  /\ IF op(r) = "replay" THEN map[book(r)][r][i] = None /\ UNCHANGED map
     ELSE /\ pair_pe(r, i) \notin Rank \/ duplicate(r, i)
          /\ map' = [map EXCEPT ![book(r)][r][i] = None]
  /\ step_item(r, b)
  /\ UNCHANGED <<ctx, pc, lds, grid, sent, table, total, back, words>>

Send(r, b) ==
  LET i == item[r][b]
      p == pair_pe(r, i) IN
  /\ working(r, b) /\ s.kernel = "intra" /\ i < s.ntok[r] * TopK
  /\ op(r) # "replay" /\ p \in Rank /\ ~duplicate(r, i)
  /\ claim(r, pair_tok(i), {p})
  /\ store_row(r, pair_tok(i), {<<p, offset[p]>>})
  /\ map' = [map EXCEPT ![book(r)][r][i] = <<p, offset[p]>>]
  /\ step_item(r, b)
  /\ UNCHANGED <<ctx, pc, lds, grid, total, back, words>>

(* With a handle whose map a dispatch recorded: no claim, no count.        *)
Resend(r, b) ==
  LET i == item[r][b] IN
  /\ working(r, b) /\ s.kernel = "intra" /\ i < s.ntok[r] * TopK
  /\ op(r) = "replay" /\ map[book(r)][r][i] # None
  /\ store_row(r, pair_tok(i), {map[book(r)][r][i]})
  /\ step_item(r, b)
  /\ UNCHANGED <<ctx, pc, lds, grid, sent, map, offset, origin, total, back,
                 words>>

-----------------------------------------------------------------------------
(* LL dispatch.  The control warp routes a token for all its ranks at once:*)
(* the last slot that names a rank stands for it, if it is among the first *)
(* kMaxGpusPerNode slots.                                                  *)
scanned == {k \in Slot : k < MaxGpus}
names(r, t, p) == {k \in scanned : pe_of(ids(r)[t][k]) = p}
targets(r, t) == {p \in Rank : names(r, t, p) # {}}

pingPong(i) == (i \div Cta) % 2

ComputeTokenRoute(r, b, t, i) ==
  LET P == targets(r, t) IN
  /\ claim(r, t, P)
  /\ route' = [route EXCEPT ![r][b][i] =
        [tok |-> t, to |-> {<<p, offset[p]>> : p \in P}]]
  /\ map' = [map EXCEPT ![book(r)][r] = [x \in Pairs |->
        IF pair_tok(x) # t THEN @[x]
        ELSE IF \E p \in P : Max(names(r, t, p)) = x % TopK
             THEN LET p == pe_of(ids(r)[t][x % TopK]) IN <<p, offset[p]>>
             ELSE None]]

Prologue(r, b) ==
  /\ working(r, b) /\ s.kernel = "ll" /\ b < s.ntok[r]
  /\ ComputeTokenRoute(r, b, b, 0)
  /\ goto(r, b, "turn")
  /\ UNCHANGED <<ctx, item, ahead, copied, grid, recv, total, back, words>>

turning(r, b) == at(r, Dispatching) /\ pc[r][b] = "turn" /\ item[r][b] < s.ntok[r]

RouteNext(r, b) ==
  LET t == item[r][b] + Cta IN
  /\ turning(r, b) /\ ~ahead[r][b]
  /\ ahead' = [ahead EXCEPT ![r][b] = TRUE]
  /\ IF t < s.ntok[r]
     THEN ComputeTokenRoute(r, b, t, 1 - pingPong(item[r][b]))
     ELSE UNCHANGED <<offset, sent, origin, route, map>>
  /\ UNCHANGED <<ctx, pc, item, copied, grid, recv, total, back, words>>

Copy(r, b) ==
  LET x == route[r][b][pingPong(item[r][b])] IN
  /\ turning(r, b) /\ ~copied[r][b]
  /\ copied' = [copied EXCEPT ![r][b] = TRUE]
  /\ store_row(r, x.tok, x.to)
  /\ UNCHANGED <<ctx, pc, item, route, ahead, grid, sent, map, offset, origin,
                 total, back, words>>

Turn(r, b) ==
  /\ turning(r, b) /\ ahead[r][b] /\ copied[r][b]
  /\ ahead' = [ahead EXCEPT ![r][b] = FALSE]
  /\ copied' = [copied EXCEPT ![r][b] = FALSE]
  /\ step_item(r, b)
  /\ UNCHANGED <<ctx, pc, route, grid, sent, map, table, total, back, words>>

-----------------------------------------------------------------------------
(* The end of both dispatches: blocks arrive; the first wave of block 0    *)
(* tells every rank how many rows it was sent, plus one, once the word is  *)
(* free, and collects what it was told.                                    *)
limit(r) == IF s.kernel = "intra" THEN s.ntok[r] * TopK ELSE s.ntok[r]

Arrive(r, b) ==
  /\ at(r, Dispatching) /\ pc[r][b] \in {"start", "turn"} /\ item[r][b] >= limit(r)
  /\ grid' = [grid EXCEPT ![r].dispatch = @ + 1]
  /\ goto(r, b, IF b = 0 THEN "grid" ELSE "end")
  /\ UNCHANGED <<ctx, item, lds, sent, map, table, total, back, words>>

all_sent(r) == grid[r].dispatch = Cta

Gathered(r) ==
  /\ at(r, Dispatching) /\ pc[r][0] = "grid" /\ all_sent(r)
  /\ grid' = [grid EXCEPT ![r].dispatch = 0]
  /\ goto(r, 0, "signal")
  /\ UNCHANGED <<ctx, item, lds, sent, map, table, total, back, words>>

word(w, p, v) == [word |-> w, to |-> p, value |-> v]

Signal(r) ==
  /\ at(r, Dispatching) /\ pc[r][0] = "signal"
  /\ \A p \in Rank : signal[p][r] = 0
  /\ posted' = [posted EXCEPT ![r] =
        @ \cup {word("signal", p, sent[r][p] + 1) : p \in Rank}]
  /\ goto(r, 0, "receive")
  /\ UNCHANGED <<ctx, item, lds, grid, sent, map, table, total, back, signal,
                 bell>>

(* Mutant: the wave goes on with the first count.                          *)
told_any(r) == \E p \in Rank : signal[r][p] > 0

told(r) == \A p \in Rank : signal[r][p] > 0

counts(r) == MapThenSumSet(LAMBDA p : signal[r][p] - 1, {p \in Rank : signal[r][p] > 0})

Receive(r) ==
  /\ at(r, Dispatching) /\ pc[r][0] = "receive" /\ told(r)
  /\ signal' = [signal EXCEPT ![r] = [p \in Rank |-> 0]]
  /\ total' = [total EXCEPT ![book(r)][r] = @ + counts(r)]
  /\ sent' = [sent EXCEPT ![r] = [p \in Rank |-> 0]]
  /\ offset' = [offset EXCEPT ![r] = 0]
  /\ goto(r, 0, "end")
  /\ UNCHANGED <<ctx, item, lds, grid, map, origin, recv, back, bell, posted>>

(* A word lands.                                                           *)
Deliver(r) == \E w \in posted[r] :
  /\ posted' = [posted EXCEPT ![r] = @ \ {w}]
  /\ IF w.word = "signal"
     THEN signal' = [signal EXCEPT ![w.to][r] = w.value] /\ UNCHANGED bell
     ELSE bell' = [bell EXCEPT ![w.to][r] = w.value] /\ UNCHANGED signal
  /\ UNCHANGED <<ctx, work, grid, sent, map, table, total, back>>

(* The rank's GEMM, in place into combineInp when that is read in place.   *)
Gemm(r) ==
  LET y == [i \in Row |-> IF i < total[book(r)][r] THEN recv[r][i] ELSE result[r][i]] IN
  /\ at(r, {"gemm"}) /\ \A b \in Block : pc[r][b] = "start"
  /\ result' = [result EXCEPT ![r] = y]
  /\ inp' = IF s.push THEN inp ELSE [inp EXCEPT ![r] = y]
  /\ pc' = [pc EXCEPT ![r] = [b \in Block |-> "end"]]
  /\ UNCHANGED <<ctx, item, lds, grid, sent, map, table, total, flag, seen, out,
                 words>>

-----------------------------------------------------------------------------
(* Combine.                                                                *)
combining(r, b, l) == at(r, {"combine"}) /\ pc[r][b] = l

Begin(r, b) ==
  /\ combining(r, b, "start")
  /\ seen' = [seen EXCEPT ![r][b] = <<flag[r], total[book(r)][r]>>]
  /\ goto(r, b, "stage")
  /\ UNCHANGED <<ctx, item, lds, grid, sent, map, table, total, result, inp,
                 flag, out, words>>

(* Push: the rows go to their tokens' ranks.  Then the block arrives.      *)
localSrcMap(r) == IF book(r) = "own" THEN origin[r] ELSE snap[r]

Stage(r, b) ==
  LET rows == {i \in Row : i < seen[r][b][2] /\ i % Cta = b}
      here(q, t) == {i \in rows : localSrcMap(r)[i] = <<q, t>>} IN
  /\ combining(r, b, "stage")
  /\ inp' = IF ~s.push THEN inp
            ELSE [q \in Rank |-> [x \in Rank \X Token |->
                    IF x[1] = r /\ here(q, x[2]) # {}
                    THEN result[r][CHOOSE i \in here(q, x[2]) : TRUE]
                    ELSE inp[q][x]]]
  /\ grid' = [grid EXCEPT ![r].combine = @ + 1]
  /\ goto(r, b, IF b = 0 THEN "grid" ELSE "poll")
  /\ UNCHANGED <<ctx, item, lds, sent, map, table, total, result, flag, seen,
                 out, words>>

(* CrossDeviceBarrierIntraNodeKernel: the flag of this combine to all ranks*)
(* once the grid has arrived; every block waits for the flags of all ranks *)
(* to be exactly that one.                                                 *)
staged(r) == grid[r].combine = Cta

(* Mutant: the counter is read again after it has been advanced.           *)
stamp_late(r) == flag[r] + 1

stamp(r) == seen[r][0][1]

Flags(r) ==
  /\ combining(r, 0, "grid") /\ staged(r)
  /\ grid' = [grid EXCEPT ![r].combine = 0]
  /\ posted' = [posted EXCEPT ![r] =
        @ \cup {word("bell", p, stamp(r)) : p \in Rank}]
  /\ flag' = [flag EXCEPT ![r] = @ + 1]
  /\ goto(r, 0, "poll")
  /\ UNCHANGED <<ctx, item, lds, sent, map, table, total, result, inp, seen,
                 out, signal, bell>>

reset_total(r) == IF book(r) = "own" THEN [total EXCEPT !["own"][r] = 0] ELSE total

Pass(r, b) ==
  /\ combining(r, b, "poll")
  /\ \A p \in Rank : bell[r][p] = seen[r][b][1]
  /\ total' = reset_total(r)
  /\ goto(r, b, IF s.ntok[r] = 0 THEN "end" ELSE "gather")
  /\ UNCHANGED <<ctx, item, lds, grid, sent, map, table, back, words>>

source(r, t, m) == IF s.push THEN inp[r][<<m[1], t>>] ELSE inp[m[1]][m[2]]

Gather(r, b) ==
  LET t == item[r][b]
      M == {map[book(r)][r][t * TopK + k] : k \in Slot} \ {None} IN
  /\ combining(r, b, "gather") /\ t < s.ntok[r]
  /\ out' = [out EXCEPT ![r][t] = {[own |-> m[1], row |-> source(r, t, m)] : m \in M}]
  /\ step_item(r, b)
  /\ UNCHANGED <<ctx, pc, lds, grid, sent, map, table, total, result, inp, flag,
                 seen, words>>

Leave(r, b) ==
  /\ combining(r, b, "gather") /\ item[r][b] >= s.ntok[r]
  /\ goto(r, b, "end")
  /\ UNCHANGED <<ctx, item, lds, grid, sent, map, table, total, back, words>>

-----------------------------------------------------------------------------
Finished == (\A r \in Rank : call[r] > Len(s.calls)) /\ UNCHANGED vars

Dispatch(r, b) == Drop(r, b) \/ Send(r, b) \/ Resend(r, b) \/ Arrive(r, b)
DispatchLL(r, b) == Prologue(r, b) \/ RouteNext(r, b) \/ Copy(r, b) \/ Turn(r, b)
Notify(r) == Gathered(r) \/ Signal(r) \/ Receive(r) \/ Deliver(r)
Combine(r, b) == Begin(r, b) \/ Stage(r, b) \/ Pass(r, b) \/ Gather(r, b) \/ Leave(r, b)

Next == \/ \E r \in Rank : NextCall(r) \/ Notify(r) \/ Gemm(r) \/ Flags(r)
        \/ \E r \in Rank, b \in Block :
             Dispatch(r, b) \/ DispatchLL(r, b) \/ Combine(r, b)
        \/ Finished

Spec == Init /\ [][Next]_vars

-----------------------------------------------------------------------------
(* What the calls promise: the ranks that own an expert of a token.        *)
owners(i, q, t) == {pe_of(s.ids[i][q][t][k]) : k \in Slot} \cap Rank
tokens(q) == 0 .. s.ntok[q] - 1

after(r, O) == at(r, O) /\ ended(r)

(* Counters stay within what they count, and a block that waits in the     *)
(* grid barrier of one kernel leaves none of its arrivals to the other's.  *)
TypeOK ==
  /\ \A r \in Rank :
       /\ call[r] \in 1 .. Len(s.calls) + 1
       /\ grid[r].dispatch \in 0 .. Cta /\ grid[r].combine \in 0 .. Cta
       /\ grid[r].dispatch = 0 \/ grid[r].combine = 0
       /\ offset[r] \in 0 .. World * T
       /\ \A h \in Book : total[h][r] \in 0 .. World * T
       /\ \A p \in Rank : signal[r][p] \in 0 .. T + 1 /\ sent[r][p] \in 0 .. T

(* After a dispatch the rows a rank was told to have received are the      *)
(* tokens of this round with an expert of its own, each exactly once       *)
(* (intranode.hpp, EpDispatchIntraNodeKernel; intranode_ll.hpp).           *)
ReceivedExact == \A r \in Rank : after(r, Dispatching) =>
  LET here == {i \in Row : i < total[book(r)][r]}
      due == {[rank |-> q, tok |-> t, round |-> round(r)] :
                <<q, t>> \in {x \in Rank \X Token :
                   x[2] \in tokens(x[1]) /\ r \in owners(routing(r), x[1], x[2])}}
  IN /\ {recv[r][i] : i \in here} = due
     /\ Cardinality(here) = Cardinality(due)

(* After a combine every token is the sum of exactly one result of this    *)
(* round from every rank that owns one of its experts, with and without a  *)
(* routing handle and whatever was dispatched since the handle was recorded*)
(* (EpCombineIntraNodeKernel).                                             *)
OutputCorrect == \A r \in Rank : after(r, {"combine"}) =>
  \A t \in tokens(r) :
    out[r][t] = {[own |-> p, row |-> payload(r, t)] : p \in owners(routing(r), r, t)}

(* When all counts have come in, the allocator stands at their sum: its    *)
(* reset loses no claim and no rank has claimed for the next round yet.    *)
AllocatorSettled == \A r \in Rank :
  at(r, Dispatching) /\ pc[r][0] = "receive" /\ (\A p \in Rank : signal[r][p] > 0)
    => offset[r] = counts(r)

(* A block waits for flags to be equal to its own, not for at least that:  *)
(* no peer may be a combine further before the block has seen its flag.    *)
NeverOvertaken == \A r \in Rank, b \in Block : combining(r, b, "poll") =>
  \A p \in Rank : bell[r][p] \in {seen[r][b][1] - 1, seen[r][b][1]}

(* All blocks of a combine wait for the same flag, which no other combine  *)
(* has used.                                                               *)
OneFlag == \A r \in Rank, b \in Block : combining(r, b, "poll") =>
  seen[r][b][1] = Cardinality(upto(r, {"combine"}))
=============================================================================
