----------------------------- MODULE MoriAsync -----------------------------
(* mori's AsyncLL dispatch and combine: a stream of short kernels on every *)
(* rank that stage rows in one send buffer, hand them to the network with  *)
(* puts that return at once, and tell a peer its rows are there only when  *)
(* the puts to it have completed.  What the network has accepted is carried*)
(* out some time later and in no order: a row is read from the send buffer *)
(* when it is carried out.  Kernels of a rank follow each other; the lanes *)
(* of one kernel run in any order.                                         *)
EXTENDS Integers, FiniteSets, FiniteSetsExt, Functions

CONSTANTS World,       \* worldSize
          T,           \* maxNumInpTokenPerRank
          TopK,        \* numExpertPerToken
          PerRank,     \* numExpertPerRank
          Qps,         \* numQpPerPe
          Rounds,      \* dispatch and combine pairs of the stream
          Scenarios    \* [sdma, ntok, ids]: see MoriAsyncAssumption

Rank == 0 .. World - 1
Token == 0 .. T - 1
Slot == 0 .. TopK - 1
Qp == 0 .. Qps - 1

(* sdma: the peers' puts go through the copy engines.  ntok, ids: tokens   *)
(* and expert ids by round and rank; an id outside the experts is dropped. *)
MoriAsyncAssumption ==
  /\ {World, T, TopK, PerRank, Qps, Rounds} \subseteq Nat \ {0}
  /\ \A x \in Scenarios :
       /\ x.sdma \in BOOLEAN
       /\ x.ntok \in [1 .. Rounds -> [Rank -> 0 .. T]]
       /\ x.ids \in [1 .. Rounds -> [Rank -> [Token -> [Slot -> Int]]]]

VARIABLES
  s,           \* the scenario
  round,       \* [r]: the running pair of dispatch and combine
  pc,          \* [r]: the running kernel
  todo,        \* [r]: the lanes or blocks of it that have not run
  counter,     \* [r][p]: destPeTokenCounter
  map,         \* [r][t][k]: dispDestTokIdMap
  staging,     \* [r][<<p, i>>]: the send buffer of dispatch and combine
  dispatchInp, \* [r][<<p, i>>]: rows put there by p
  dispatchOut, \* [r][i]
  idxMap,      \* [r][i]: dispReceiverIdxMap
  total,       \* [r]: totalRecvTokenNum
  recvNum,     \* [r][<<p, q>>]: recvTokenNum, a count + 1; 0: none yet
  result,      \* [r][i]: what the GEMM made of the received rows
  combineInp,  \* [r][<<p, i>>]
  flag,        \* [r]: crossDeviceBarrierFlag
  bell,        \* [r][<<p, q>>]: crossDeviceBarrierMem
  posted,      \* [r]: what the network has accepted from r
  out          \* [r][t]: combineOut

dispatch == <<counter, map, dispatchOut, idxMap, total>>
combine == <<result, flag, out>>
landing == <<dispatchInp, recvNum, combineInp, bell>>
vars == <<s, round, pc, todo, dispatch, combine, staging, landing, posted>>

-----------------------------------------------------------------------------
Cell == Rank \X Token            \* SendBufSlotOffset(pe, token)
Lane == Rank \X Qp               \* a queue pair of a peer
Row == 0 .. World * T - 1
None == <<World, 0>>             \* NullSendBufSlotOffset
Empty == [rank |-> -1, tok |-> -1, round |-> 0, by |-> -1]

ntok(r) == s.ntok[round[r]][r]
Mine(r) == 0 .. ntok(r) - 1
pe_of(e) == IF e < 0 THEN -1 ELSE e \div PerRank
pe(r, t, k) == pe_of(s.ids[round[r]][r][t][k])
payload(r, t) == [rank |-> r, tok |-> t, round |-> round[r], by |-> -1]

(* The kernels in the order of the stream, and the lanes of each.  "gemm"  *)
(* is the caller's; the two "await" kernels are the polling ends of the    *)
(* two "Recv" kernels before them.                                         *)
following == [assign |-> "copy", copy |-> "send", send |-> "tell",
              tell |-> "await_counts", await_counts |-> "unpack",
              unpack |-> "gemm", gemm |-> "stage", stage |-> "return",
              return |-> "ring", ring |-> "await_flags",
              await_flags |-> "sum", sum |-> "assign"]
lanes(r, k) == CASE k \in {"tell", "ring"} -> Lane
                 [] k = "unpack" -> Rank
                 [] k = "sum" -> Mine(r)
                 [] OTHER -> {0}

Init ==
  /\ s \in Scenarios
  /\ round = [r \in Rank |-> 1]
  /\ pc = [r \in Rank |-> "assign"]
  /\ todo = [r \in Rank |-> {0}]
  /\ counter = [r \in Rank |-> [p \in Rank |-> 0]]
  /\ map = [r \in Rank |-> [t \in Token |-> [k \in Slot |-> None]]]
  /\ staging = [r \in Rank |-> [c \in Cell |-> Empty]]
  /\ dispatchInp = staging
  /\ dispatchOut = [r \in Rank |-> [i \in Row |-> Empty]]
  /\ idxMap = [r \in Rank |-> [i \in Row |-> None]]
  /\ total = [r \in Rank |-> 0]
  /\ recvNum = [r \in Rank |-> [l \in Lane |-> 0]]
  /\ result = dispatchOut
  /\ combineInp = staging
  /\ flag = [r \in Rank |-> 0]
  /\ bell = [r \in Rank |-> [l \in Lane |-> 0]]
  /\ posted = [r \in Rank |-> {}]
  /\ out = [r \in Rank |-> [t \in Token |-> {}]]

run(r, k, lane) == /\ pc[r] = k
                   /\ lane \in todo[r]
                   /\ todo' = [todo EXCEPT ![r] = @ \ {lane}]
                   /\ UNCHANGED <<s, round, pc>>

(* The stream starts the next kernel when every lane of this one has run.  *)
NextKernel(r) ==
  /\ todo[r] = {}
  /\ pc[r] = "sum" => round[r] < Rounds
  /\ LET k == following[pc[r]] IN
     /\ pc' = [pc EXCEPT ![r] = k]
     /\ round' = IF k = "assign" THEN [round EXCEPT ![r] = @ + 1] ELSE round
     /\ todo' = [todo EXCEPT ![r] = lanes(r, k)]
  /\ UNCHANGED <<s, dispatch, combine, staging, landing, posted>>

-----------------------------------------------------------------------------
(* Dispatch: a slot is kept when it is the first of its token to name a    *)
(* rank; the kept slots that name it draw the rank's numbers in any order. *)
kept(r, t, k) == /\ pe(r, t, k) \in Rank
                 /\ \A j \in 0 .. k - 1 : pe(r, t, j) # pe(r, t, k)

entries(r, p) == {e \in Mine(r) \X Slot :
                    kept(r, e[1], e[2]) /\ pe(r, e[1], e[2]) = p}

Assign(r) ==
  /\ run(r, "assign", 0)
  /\ \E draw \in [Mine(r) \X Slot -> 0 .. T * TopK - 1] :
       LET E(p) == entries(r, p) IN
       /\ \A p \in Rank : {draw[e] : e \in E(p)} =
                            counter[r][p] .. counter[r][p] + Cardinality(E(p)) - 1
       /\ \A e \in Mine(r) \X Slot : ~kept(r, e[1], e[2]) => draw[e] = 0
       /\ map' = [map EXCEPT ![r] = [t \in Token |->
            IF t \notin Mine(r) THEN @[t]
            ELSE [k \in Slot |-> IF kept(r, t, k)
                                   THEN <<pe(r, t, k), draw[<<t, k>>]>>
                                   ELSE None]]]
       /\ counter' = [counter EXCEPT ![r] =
                        [p \in Rank |-> @[p] + Cardinality(E(p))]]
  /\ total' = [total EXCEPT ![r] = 0]
  /\ UNCHANGED <<dispatchOut, idxMap, combine, staging, landing, posted>>

Copy(r) ==
  /\ run(r, "copy", 0)
  /\ staging' = [staging EXCEPT ![r] = [c \in Cell |->
       IF \E e \in Mine(r) \X Slot : map[r][e[1]][e[2]] = c
         THEN payload(r, CHOOSE t \in Mine(r) : \E k \in Slot : map[r][t][k] = c)
         ELSE @[c]]]
  /\ UNCHANGED <<dispatch, combine, landing, posted>>

(* The part of n rows that queue pair q carries.                           *)
ceil_div(n, d) == (n + d - 1) \div d
chunk(n, q) == LET c == ceil_div(n, Qps) IN q * c .. q * c + Min({c, n - q * c}) - 1

put(to, p, q, rows) == [kind |-> "rows", to |-> to, pe |-> p, qp |-> q,
                        rows |-> rows, value |-> 0]
word(to, p, q, v) == [kind |-> "word", to |-> to, pe |-> p, qp |-> q,
                      rows |-> {}, value |-> v]
post_rows(r, to, n) ==
  posted' = [posted EXCEPT ![r] = @ \cup
    {put(to, l[1], l[2], chunk(n[l], l[2])) :
       l \in {m \in Lane : m[1] # r /\ chunk(n[m], m[2]) # {}}}]
post_word(r, to, lane, v) ==
  posted' = [posted EXCEPT ![r] = @ \cup {word(to, lane[1], lane[2], v)}]

(* Posting waits for nothing, so the lanes of a kernel that posts are one  *)
(* step.                                                                   *)
Send(r) ==
  /\ run(r, "send", 0)
  /\ post_rows(r, "dispatchInp", [l \in Lane |-> counter[r][l[1]]])
  /\ total' = [total EXCEPT ![r] = 0]
  /\ UNCHANGED <<counter, map, dispatchOut, idxMap, combine, staging, landing>>

(* A lane has its own queue pair's puts completed, or, with the copy       *)
(* engines, all puts to the peer, before it posts the word.                *)
quiet(r, lane) == \A x \in posted[r] :
  ~(x.kind = "rows" /\ x.pe = lane[1] /\ (s.sdma \/ x.qp = lane[2]))

Tell(r, lane) ==
  /\ run(r, "tell", lane)
  /\ quiet(r, lane)
  /\ post_word(r, "recvNum", lane, counter[r][lane[1]] + 1)
  /\ UNCHANGED <<dispatch, combine, staging, landing>>

told(r) == \A l \in Lane : recvNum[r][l] > 0

AwaitCounts(r) ==
  /\ run(r, "await_counts", 0)
  /\ told(r)
  /\ UNCHANGED <<dispatch, combine, staging, landing, posted>>

n_from(r, p) == recvNum[r][<<p, 0>>] - 1

(* The rows of each peer follow those of the peers before it.  Own rows    *)
(* are still in the send buffer.  Rank 0's blocks hold the warp that closes*)
(* the dispatch.                                                           *)
before(r, p) == FoldFunctionOnSet(+, 0, [x \in Rank |-> n_from(r, x)], 0 .. p - 1)

Unpack(r, p) ==
  LET rows == before(r, p) .. before(r, p) + n_from(r, p) - 1
      cell(i) == <<p, i - before(r, p)>>
      from == IF p = r THEN staging[r] ELSE dispatchInp[r]
  IN
  /\ run(r, "unpack", p)
  /\ dispatchOut' = [dispatchOut EXCEPT ![r] =
       [i \in Row |-> IF i \in rows THEN from[cell(i)] ELSE @[i]]]
  /\ idxMap' = [idxMap EXCEPT ![r] =
       [i \in Row |-> IF i \in rows THEN cell(i) ELSE @[i]]]
  /\ IF p = 0
       THEN /\ total' = [total EXCEPT ![r] = before(r, World)]
            /\ counter' = [counter EXCEPT ![r] = [x \in Rank |-> 0]]
            /\ flag' = [flag EXCEPT ![r] = @ + 1]
       ELSE UNCHANGED <<total, counter, flag>>
  /\ UNCHANGED <<map, result, out, staging, landing, posted>>

Gemm(r) ==
  /\ run(r, "gemm", 0)
  /\ result' = [result EXCEPT ![r] = [i \in Row |->
       IF i < total[r] THEN [dispatchOut[r][i] EXCEPT !.by = r] ELSE @[i]]]
  /\ UNCHANGED <<dispatch, flag, out, staging, landing, posted>>

-----------------------------------------------------------------------------
(* Combine: results go back to the cells their rows came from.             *)
Stage(r) ==
  /\ run(r, "stage", 0)
  /\ staging' = [staging EXCEPT ![r] = [c \in Cell |->
       IF \E i \in 0 .. total[r] - 1 : idxMap[r][i] = c
         THEN result[r][CHOOSE i \in 0 .. total[r] - 1 : idxMap[r][i] = c]
         ELSE @[c]]]
  /\ UNCHANGED <<dispatch, combine, landing, posted>>

(* The counts of the dispatch are taken, and cleared for the next one.     *)
clear(r) == recvNum' = [recvNum EXCEPT ![r] = [l \in Lane |-> 0]]

Return(r) ==
  /\ run(r, "return", 0)
  /\ post_rows(r, "combineInp", [l \in Lane |-> recvNum[r][l] - 1])
  /\ clear(r)
  /\ UNCHANGED <<dispatch, combine, staging, dispatchInp, combineInp, bell>>

Ring(r, lane) ==
  /\ run(r, "ring", lane)
  /\ quiet(r, lane)
  /\ post_word(r, "bell", lane, flag[r])
  /\ UNCHANGED <<dispatch, combine, staging, landing>>

rung(r) == \A l \in Lane : bell[r][l] = flag[r]

AwaitFlags(r) ==
  /\ run(r, "await_flags", 0)
  /\ rung(r)
  /\ UNCHANGED <<dispatch, combine, staging, landing, posted>>

Sum(r, t) ==
  /\ run(r, "sum", t)
  /\ out' = [out EXCEPT ![r][t] =
       {IF c[1] = r THEN staging[r][c] ELSE combineInp[r][c] :
          c \in {map[r][t][k] : k \in Slot} \cap Cell}]
  /\ UNCHANGED <<dispatch, result, flag, staging, landing, posted>>

-----------------------------------------------------------------------------
(* The network carries out something it has accepted.                      *)
land(buf, r, x) ==
  [buf EXCEPT ![x.pe] = [c \in Cell |->
     IF c[1] = r /\ c[2] \in x.rows THEN staging[r][<<x.pe, c[2]>>] ELSE @[c]]]

Deliver(r, x) ==
  /\ x \in posted[r]
  /\ posted' = [posted EXCEPT ![r] = @ \ {x}]
  /\ dispatchInp' = IF x.to = "dispatchInp" THEN land(dispatchInp, r, x)
                    ELSE dispatchInp
  /\ combineInp' = IF x.to = "combineInp" THEN land(combineInp, r, x)
                   ELSE combineInp
  /\ recvNum' = IF x.to = "recvNum"
                  THEN [recvNum EXCEPT ![x.pe][<<r, x.qp>>] = x.value] ELSE recvNum
  /\ bell' = IF x.to = "bell"
               THEN [bell EXCEPT ![x.pe][<<r, x.qp>>] = x.value] ELSE bell
  /\ UNCHANGED <<s, round, pc, todo, dispatch, combine, staging>>

finished(r) == pc[r] = "sum" /\ todo[r] = {} /\ round[r] = Rounds
Finished == (\A r \in Rank : finished(r) /\ posted[r] = {}) /\ UNCHANGED vars

Kernels(r) == Assign(r) \/ Copy(r) \/ Send(r) \/ AwaitCounts(r) \/ Gemm(r)
              \/ Stage(r) \/ Return(r) \/ AwaitFlags(r) \/ NextKernel(r)

Next == \/ \E r \in Rank :
             \/ Kernels(r)
             \/ \E l \in Lane : Tell(r, l) \/ Ring(r, l)
             \/ \E p \in Rank : Unpack(r, p)
             \/ \E t \in Token : Sum(r, t)
             \/ \E x \in posted[r] : Deliver(r, x)
        \/ Finished

Spec == Init /\ [][Next]_vars

-----------------------------------------------------------------------------
Value == [rank : Rank \cup {-1}, tok : Token \cup {-1}, round : 0 .. Rounds,
          by : Rank \cup {-1}]

(* Every variable has its type; in particular no row is drawn a number     *)
(* beyond the cells of its rank.                                           *)
TypeOK ==
  /\ s \in Scenarios /\ round \in [Rank -> 1 .. Rounds]
  /\ pc \in [Rank -> DOMAIN following]
  /\ \A r \in Rank : todo[r] \subseteq lanes(r, pc[r])
  /\ counter \in [Rank -> [Rank -> 0 .. T]]
  /\ map \in [Rank -> [Token -> [Slot -> Cell \cup {None}]]]
  /\ {staging, dispatchInp, combineInp} \subseteq [Rank -> [Cell -> Value]]
  /\ {dispatchOut, result} \subseteq [Rank -> [Row -> Value]]
  /\ idxMap \in [Rank -> [Row -> Cell \cup {None}]]
  /\ total \in [Rank -> 0 .. World * T]
  /\ recvNum \in [Rank -> [Lane -> 0 .. T + 1]]
  /\ flag \in [Rank -> 0 .. Rounds] /\ bell \in [Rank -> [Lane -> 0 .. Rounds]]
  /\ \A r \in Rank : \A x \in posted[r] :
       x.to \in {"dispatchInp", "combineInp", "recvNum", "bell"}
  /\ out \in [Rank -> [Token -> SUBSET Value]]

(* What the ranks have sent r in the round it is in, each token once.      *)
due(r) == {[rank |-> p, tok |-> t, round |-> round[r], by |-> -1] :
             p \in Rank, t \in Token}
sent_to(r) == {v \in due(r) :
  /\ v.tok < s.ntok[v.round][v.rank]
  /\ \E k \in Slot : pe_of(s.ids[v.round][v.rank][v.tok][k]) = r}

(* When the GEMM of a rank starts, the received rows are the tokens the    *)
(* ranks routed to it in this round, each once, packed, and the total is   *)
(* their number: the puts of a round, completed in any order over several  *)
(* queue pairs, were all there before a count was.                         *)
ReceivedExact == \A r \in Rank : pc[r] = "gemm" =>
  /\ total[r] = Cardinality(sent_to(r))
  /\ {dispatchOut[r][i] : i \in 0 .. total[r] - 1} = sent_to(r)

(* A combine leaves for each token the results of exactly the ranks it was *)
(* routed to, of this round, though cells are reused by the next round.    *)
OutputCorrect == \A r \in Rank : pc[r] = "sum" => \A t \in Mine(r) \ todo[r] :
  out[r][t] = {[payload(r, t) EXCEPT !.by = p] :
                 p \in {pe(r, t, k) : k \in Slot} \cap Rank}

(* No kernel writes a row of the send buffer that the network has yet to   *)
(* read: the one buffer serves dispatch and combine, and its rows are read *)
(* when a put is carried out.                                              *)
SourceKept == \A r \in Rank : \A x \in posted[r] : \A i \in x.rows :
                staging'[r][<<x.pe, i>>] = staging[r][<<x.pe, i>>]

(* A count is only ever stored over a cleared word and a bell over that of *)
(* the round before: none is lost to a rank that has not read it, though   *)
(* nothing but the combine in between holds the next dispatch back.        *)
NotOvertaken == \A r \in Rank : \A l \in Lane :
  /\ recvNum'[r][l] # recvNum[r][l] => 0 \in {recvNum[r][l], recvNum'[r][l]}
  /\ bell'[r][l] # bell[r][l] => bell'[r][l] = bell[r][l] + 1
                                 /\ bell'[r][l] >= flag[r]
=============================================================================
