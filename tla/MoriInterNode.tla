--------------------------- MODULE MoriInterNode ---------------------------
(* mori's dispatch and combine between nodes (internode_v1.cpp).  A token  *)
(* is sent to each other node that has an expert of it once, in chunks of  *)
(* warpSize rows, to the GPU there that has the sender's place in its node *)
(* (its proxy), and the proxy hands it on to the ranks of its node; sums   *)
(* come back the same way.  The first rdmaBlockNum warps do so, one more   *)
(* (of the xgmi blocks) serves the rank's own node.  A warp is a block of  *)
(* its own here.                                                           *)
(*                                                                         *)
(* The NIC carries out what was posted to one queue pair of a peer in the  *)
(* order of the posts, some time later, and reads the rows of a put then.  *)
(* Stores and atomics inside a node take effect at once: that they may be  *)
(* late is the subject of MoriIntraNode.  A warp's stores have taken effect*)
(* before its atomic adds.  Receive buffers have room for every token.     *)
EXTENDS Integers, FiniteSets, Sequences, FiniteSetsExt, Functions

CONSTANTS Nodes,       \* nNodes
          Gpus,        \* gpuPerNode
          T,           \* MaxNumTokensToSendPerRank
          Chunk,       \* warpSize, the rows of a chunk
          TopK,        \* numExpertPerToken
          PerRank,     \* numExpertPerRank
          Blocks,      \* rdmaBlockNum
          RecvBlocks,  \* numRecvBlock, blocks that share a chunk
          Qps,         \* numQpPerPe
          Scenarios    \* [ll, cached, ids, ntok]

Rank == 0 .. Nodes * Gpus - 1
Node == 0 .. Nodes - 1
Qp == 0 .. Qps - 1
Token == 0 .. T - 1
Slot == 0 .. TopK - 1
Warp == 0 .. Blocks                  \* the last one is the xgmi block
Chunks == 0 .. T \div Chunk - 1      \* maxChunkNum

(* ll: the low-latency kernels.  cached: the routing of the first round is *)
(* recorded in the caller's tensors and replayed in the second.  ids, ntok:*)
(* expert ids and tokens of each rank by round; a negative id drops the    *)
(* slot, which the low-latency kernels do not know.  The region of a rank  *)
(* has a chunk to spare, so that every receiver has to wait for the count: *)
(* one that need not may clear the count before it has come.               *)
MoriInterNodeAssumption ==
  /\ {Nodes, Gpus, T, Chunk, TopK, PerRank, Blocks, RecvBlocks, Qps}
       \subseteq Nat \ {0}
  /\ T % Chunk = 0 /\ Chunk < T /\ Blocks % RecvBlocks = 0 /\ Blocks <= T
  /\ \A x \in Scenarios :
       /\ {x.ll, x.cached} \subseteq BOOLEAN /\ ~(x.ll /\ x.cached)
       /\ Len(x.ids) = Len(x.ntok)
       /\ \A i \in DOMAIN x.ids :
            /\ x.ntok[i] \in [Rank -> 0 .. T - Chunk]
            /\ \A r \in Rank : \A t \in Token : \A k \in Slot :
                 /\ x.ids[i][r][t][k] < Nodes * Gpus * PerRank
                 /\ x.ll /\ t < x.ntok[i][r] => x.ids[i][r][t][k] >= 0
       /\ x.cached => \A i \in DOMAIN x.ids : /\ x.ids[i] = x.ids[1]
                                              /\ x.ntok[i] = x.ntok[1]

VARIABLES
  s,          \* the scenario
  round,      \* [r]: the running pair of dispatch and combine
  kernel,     \* [r]: the running kernel
  pc,         \* [r][w]: where the warp is
  bid,        \* [r][w]: its loop variable: bid, i or tokenId
  dstg,       \* [r][t]: dispatchStaging
  inp,        \* [r][cell]: dispatchInp
  stg,        \* [r][cell]: staging, sums of other nodes' and own tokens
  q,          \* [r][n][qp]: what r has posted to its proxy on node n
  flag,       \* [r][n][k]: interNodeChunkFlag, rows of the chunk + 1
  nodeflag,   \* [r][n]: nodeRecvTokenNum, slots of the node + 1
  blockFlag,  \* [r][n]: blockFlagCounter
  blocks,     \* [r]: interNodeBlocksBarrier
  grid,       \* [r]: dispatchGridBarrier
  told,       \* [r][p]: destPeTokenCounter
  signal,     \* [r][p]: recvTokenNum
  total,      \* [r]: totalRecvTokenNum
  gen,        \* [r]: crossDeviceBarrierFlag
  bell,       \* [r][p]: crossDeviceBarrierMem
  offset,     \* [r]: dispTokOffset
  recv,       \* [r][i]: dispatchOut
  map,        \* [r][t][k]: dispDestTokIdMap
  fmap,       \* [r][cell][k]: interNodeDispDestTokIdMap
  sendmap,    \* [r][t][n]: interNodeDispSendMap
  cinp,       \* [r][i]: combineInp
  cdone,      \* [r][n][k]: interNodeChunkFlagCombine
  out         \* [r][t]: combineOut

ctx == <<s, round>>
warps == <<pc, bid>>
rows == <<dstg, inp, stg, recv, cinp, out>>
maps == <<map, fmap, sendmap>>
counts == <<blockFlag, blocks, grid, told, signal, total, offset, cdone>>
words == <<flag, nodeflag, gen, bell>>
vars == <<ctx, kernel, warps, rows, maps, counts, words, q>>

-----------------------------------------------------------------------------
node(r) == r \div Gpus
proxy(r, n) == n * Gpus + (r % Gpus)
mates(r) == {p \in Rank : node(p) = node(r)}
others(r) == Node \ {node(r)}
nth_other(r, i) == (node(r) + 1 + i) % Nodes

(* SendBufSlotOffset, with a region per node for rows that come in and for *)
(* the sums that go back, and one per node for sums that come back.        *)
cell(region, i) == region * T + i
InCell == 0 .. Nodes * T - 1
Cell == 0 .. 2 * Nodes * T - 1
Row == 0 .. Nodes * Gpus * T - 1
Null == <<Nodes * Gpus, 0>>          \* NullFlatTokenIndex
First == <<0, 0>>                    \* flat index 0
Empty == [rank |-> -1, tok |-> -1, round |-> 0]

ntok(r) == s.ntok[round[r]][r]
tokens(r) == 0 .. ntok(r) - 1
replayed(r) == s.cached /\ round[r] > 1
pe_of(e) == IF e < 0 THEN -1 ELSE e \div PerRank
pe_of_row(v, k) ==
  IF v = Empty THEN -1 ELSE pe_of(s.ids[v.round][v.rank][v.tok][k])
payload(r, t) == [rank |-> r, tok |-> t, round |-> round[r]]
pe(r, t, k) == pe_of_row(payload(r, t), k)
on_node(p, n) == p >= 0 /\ node(p) = n
goes(r, t, n) == \E k \in Slot : on_node(pe(r, t, k), n)

at(r, w, l) == kernel[r] \in {"dispatch", "combine"} /\ pc[r][w] = l
goto(r, w, l) == pc' = [pc EXCEPT ![r][w] = l]

(* On to the next turn b of the loop, or to what follows it.               *)
turn(r, w, b, limit, body, after) ==
  /\ bid' = [bid EXCEPT ![r][w] = b]
  /\ goto(r, w, IF b < limit THEN body ELSE after)

launch(r, k, l, xgmi) ==
  /\ kernel' = [kernel EXCEPT ![r] = k]
  /\ pc' = [pc EXCEPT ![r] = [w \in Warp |-> IF w < Blocks THEN l ELSE xgmi]]
  /\ bid' = [bid EXCEPT ![r] = [w \in Warp |-> IF w < Blocks THEN w ELSE 0]]
ended(r) == \A w \in Warp : pc[r][w] = "end"

(* EpDispatchCopyToStaging.                                                *)
Stage(r) ==
  /\ kernel[r] = "stage"
  /\ dstg' = [dstg EXCEPT ![r] =
       [t \in Token |-> IF t < ntok(r) THEN payload(r, t) ELSE @[t]]]
  /\ launch(r, "dispatch", "send", IF ntok(r) = 0 THEN "sync" ELSE "route")
  /\ UNCHANGED <<ctx, inp, stg, recv, cinp, out, maps, counts, words, q>>

-----------------------------------------------------------------------------
(* Dispatch.  The chunks of a warp, and the rows of one for a node: those  *)
(* that go there, or all of them.                                          *)
ceil_div(a, b) == (a + b - 1) \div b
share(r) == ceil_div(ceil_div(ntok(r), Chunk), Blocks)
chunks_of(r, w) == {c \in share(r) * w .. share(r) * (w + 1) - 1 :
                      c * Chunk < ntok(r)}
chunk_rows(r, c, n) ==
  {t \in tokens(r) : t \div Chunk = c /\ (s.ll \/ goes(r, t, n))}
sent_chunks(r, w, n) == {c \in chunks_of(r, w) : chunk_rows(r, c, n) # {}}

below(S, x) == Cardinality({y \in S : y < x})

(* flagSlotId: drawn from blockFlagCounter, or the one recorded.           *)
flag_slot(r, w, n, c) ==
  IF replayed(r) THEN sendmap[r][Min(chunk_rows(r, c, n))][n] \div Chunk
  ELSE blockFlag[r][n] + below(sent_chunks(r, w, n), c)

put_rows(from, to, v) == [kind |-> "rows", from |-> from, to |-> to, val |-> v]
put_word(kind, v) == [kind |-> kind, from |-> <<>>, to |-> 0, val |-> v]

(* The put of a chunk and, on the same queue pair, its flag.               *)
chunk_put(r, w, n, c) ==
  LET R == chunk_rows(r, c, n)
  IN put_rows([i \in 1 .. Cardinality(R) |->
                 CHOOSE t \in R : below(R, t) = i - 1],
              cell(node(r), flag_slot(r, w, n, c) * Chunk),
              Cardinality(R) + 1)

chunk_puts(r, w, n, qp) ==
  LET C == {c \in sent_chunks(r, w, n) : c % Qps = qp}
  IN [i \in 1 .. Cardinality(C) |->
        chunk_put(r, w, n, CHOOSE c \in C : below(C, c) = i - 1)]

recv_turns == (Nodes - 1) * IF s.ll THEN T * TopK
                            ELSE RecvBlocks * Cardinality(Chunks)

(* Mutant: every warp takes itself for the last.                           *)
last_sender_any(r) == blocks[r] + 1 >= 1

last_sender(r) == blocks[r] + 1 = Blocks

(* DispatchInterNodeSend, DispatchInterNodeLLSend: the last warp tells     *)
(* every node, its own included, how many slots were drawn.                *)
Send(r, w) ==
  /\ at(r, w, "send")
  /\ blockFlag' = [blockFlag EXCEPT ![r] =
       [n \in Node |-> @[n] + IF n = node(r) THEN 0
                              ELSE Cardinality(sent_chunks(r, w, n))]]
  /\ LET slots(n) == blockFlag'[r][n] * Chunk + 1
         count(n, qp) == IF last_sender(r) /\ qp = 0
                         THEN <<put_word("count", slots(n))>> ELSE <<>>
     IN /\ q' = [q EXCEPT ![r] = [n \in Node |-> [qp \in Qp |->
                   IF n = node(r) THEN <<>>
                   ELSE @[n][qp] \o chunk_puts(r, w, n, qp) \o count(n, qp)]]]
        /\ nodeflag' = IF last_sender(r)
                       THEN [nodeflag EXCEPT ![r][node(r)] = @ + slots(node(r))]
                       ELSE nodeflag
  /\ blocks' = [blocks EXCEPT ![r] = (@ + 1) % Blocks]
  /\ LET mine(t) == \E c \in chunks_of(r, w) : t < ntok(r) /\ t \div Chunk = c
         dest(t, n) == LET c == t \div Chunk
                       IN flag_slot(r, w, n, c) * Chunk
                          + below(chunk_rows(r, c, n), t)
     IN IF replayed(r) THEN UNCHANGED <<map, sendmap>>
        ELSE /\ sendmap' = [sendmap EXCEPT ![r] =
                  [t \in Token |-> [n \in Node |->
                     IF mine(t) /\ n # node(r) /\ goes(r, t, n)
                     THEN dest(t, n) ELSE @[t][n]]]]
             /\ map' = [map EXCEPT ![r] = [t \in Token |-> [k \in Slot |->
                  IF /\ mine(t) /\ pe(r, t, k) >= 0
                     /\ ~on_node(pe(r, t, k), node(r))
                  THEN Null ELSE @[t][k]]]]
  /\ turn(r, w, w, recv_turns, "recv", "sync")
  /\ UNCHANGED <<ctx, kernel, rows, fmap, grid, told, signal, total, offset,
                 cdone, flag, gen, bell>>

(* Rows handed on to the rank's node: <<key, row, rank>>, the key telling  *)
(* cell or token and slot.  A slot of the receiver is claimed for each, or *)
(* the one recorded is used.                                               *)
wanted(r, v, k) == /\ on_node(pe_of_row(v, k), node(r))
                   /\ \A j \in 0 .. k - 1 : pe_of_row(v, j) # pe_of_row(v, k)
key(i, k) == i * TopK + k
handed(r, keys, buf) ==
  {<<x, buf[x \div TopK], pe_of_row(buf[x \div TopK], x % TopK)>> :
     x \in {y \in keys : wanted(r, buf[y \div TopK], y % TopK)}}

claimed(P, x) == offset[x[3]] + Cardinality({y \in P : y[3] = x[3] /\ y[1] < x[1]})
slot_of(r, P, x, m) ==
  IF replayed(r) THEN m[x[1] \div TopK][x[1] % TopK][2] ELSE claimed(P, x)
to_rank(P, p) == {x \in P : x[3] = p}

hand_on(r, P, m) ==
  /\ recv' = [p \in Rank |-> [i \in Row |->
       LET here == {x \in to_rank(P, p) : slot_of(r, P, x, m) = i}
       IN IF here = {} THEN recv[p][i] ELSE (CHOOSE x \in here : TRUE)[2]]]
  /\ IF replayed(r) THEN UNCHANGED <<offset, told>>
     ELSE /\ offset' = [p \in Rank |-> offset[p] + Cardinality(to_rank(P, p))]
          /\ told' = [told EXCEPT ![r] =
               [p \in Rank |-> @[p] + Cardinality(to_rank(P, p))]]

(* The slots drawn, and none for what is not handed on.                    *)
noted(r, keys, P, m) ==
  IF replayed(r) THEN m
  ELSE [i \in DOMAIN m |-> [k \in Slot |->
          IF key(i, k) \notin keys THEN m[i][k]
          ELSE LET here == {x \in P : x[1] = key(i, k)}
               IN IF here = {} THEN Null
                  ELSE LET x == CHOOSE x \in here : TRUE
                       IN <<x[3], claimed(P, x)>>]]

(* DispatchIntraNode: the tokens of the rank's own node, one by one.       *)
Route(r) ==
  LET t == bid[r][Blocks]
      keys == {key(t, k) : k \in {j \in Slot :
                 pe(r, t, j) < 0 \/ on_node(pe(r, t, j), node(r))}}
      P == handed(r, keys, [u \in Token |-> payload(r, u)])
  IN /\ at(r, Blocks, "route")
     /\ hand_on(r, P, map[r])
     /\ map' = [map EXCEPT ![r] = noted(r, keys, P, @)]
     /\ turn(r, Blocks, t + 1, ntok(r), "route", "sync")
     /\ UNCHANGED <<ctx, kernel, dstg, inp, stg, cinp, out, fmap, sendmap,
                    blockFlag, blocks, grid, signal, total, cdone, words, q>>

(* The chunk of a turn, and whether it has come or never will.             *)
chunk_node(r, b) == nth_other(r, IF s.ll THEN b \div (TopK * T)
                                 ELSE (b \div RecvBlocks) % (Nodes - 1))
chunk_no(b) == IF s.ll THEN ((b \div TopK) % T) \div Chunk
               ELSE b \div (RecvBlocks * (Nodes - 1))
first(k) == k * Chunk

past_count(r, n, k) == nodeflag[r][n] > 0 /\ first(k) >= nodeflag[r][n] - 1
arrived(r, n, k) == flag[r][n][k] > 0 \/ past_count(r, n, k)
length(r, n, k) == IF flag[r][n][k] > 0 THEN flag[r][n][k] - 1 ELSE 0

(* The rows of a chunk that block b of those that share it takes.          *)
dealt(r, n, k, b) == {j \in first(k) .. first(k) + length(r, n, k) - 1 :
                        (j - first(k)) % RecvBlocks = b % RecvBlocks}

(* DispatchInterNodeRecv: the rows of a chunk, or, in DispatchInterNode-   *)
(* LLRecv, one expert slot of one row.                                     *)
Recv(r, w) ==
  LET b == bid[r][w]
      n == chunk_node(r, b)
      k == chunk_no(b)
      tok == (b \div TopK) % T
      keys == IF s.ll THEN IF tok < first(k) + length(r, n, k)
                           THEN {key(cell(n, tok), b % TopK)} ELSE {}
              ELSE {key(cell(n, j), e) : j \in dealt(r, n, k, w), e \in Slot}
      P == handed(r, keys, inp[r])
  IN /\ at(r, w, "recv")
     /\ arrived(r, n, k)
     /\ hand_on(r, P, fmap[r])
     /\ fmap' = [fmap EXCEPT ![r] = noted(r, keys, P, @)]
     /\ turn(r, w, b + Blocks, recv_turns, "recv", "sync")
     /\ UNCHANGED <<ctx, kernel, dstg, inp, stg, cinp, out, map, sendmap,
                    blockFlag, blocks, grid, signal, total, cdone, words, q>>

(* DispatchSync.  The last warp tells the ranks of its node what they got  *)
(* from this one, and takes what they tell.  The quiet of a warp covers    *)
(* what was posted before it and is not waited for here.                   *)
last_in_grid(r) == grid[r] = Blocks

Sync(r, w) ==
  /\ at(r, w, "sync")
  /\ IF last_in_grid(r)
     THEN /\ signal' = [p \in Rank |-> IF p \in mates(r)
                          THEN [signal[p] EXCEPT ![r] = told[r][p] + 1]
                          ELSE signal[p]]
          /\ grid' = [grid EXCEPT ![r] = 0]
          /\ goto(r, w, "settle")
     ELSE /\ grid' = [grid EXCEPT ![r] = @ + 1]
          /\ goto(r, w, "end")
          /\ UNCHANGED signal
  /\ UNCHANGED <<ctx, kernel, bid, rows, maps, blockFlag, blocks, told, total,
                 offset, cdone, words, q>>

Settle(r, w) ==
  /\ at(r, w, "settle")
  /\ \A p \in mates(r) : signal[r][p] > 0
  /\ total' = [total EXCEPT ![r] =
       @ + MapThenSumSet(LAMBDA p : signal[r][p] - 1, mates(r))]
  /\ signal' = [signal EXCEPT ![r] = [p \in Rank |-> 0]]
  /\ told' = [told EXCEPT ![r] = [p \in Rank |-> 0]]
  /\ offset' = [offset EXCEPT ![r] = 0]
  /\ gen' = [gen EXCEPT ![r] = @ + 1]
  /\ goto(r, w, "end")
  /\ UNCHANGED <<ctx, kernel, bid, rows, maps, blockFlag, blocks, grid, cdone,
                 flag, nodeflag, bell, q>>

-----------------------------------------------------------------------------
(* The GEMM, EpCombineSync, which takes its results, and the rings of      *)
(* EpCombineSyncBarrier: the ranks of the node have their results.         *)
Ring(r) ==
  /\ kernel[r] = "dispatch" /\ ended(r)
  /\ cinp' = [cinp EXCEPT ![r] = [i \in Row |->
       IF i < total[r] THEN [row |-> recv[r][i], by |-> r] ELSE @[i]]]
  /\ bell' = [p \in Rank |-> IF p \in mates(r)
                THEN [bell[p] EXCEPT ![r] = gen[r]] ELSE bell[p]]
  /\ kernel' = [kernel EXCEPT ![r] = "meet"]
  /\ UNCHANGED <<ctx, warps, dstg, inp, stg, recv, out, maps, counts, flag,
                 nodeflag, gen, q>>

met(r) == \A p \in mates(r) : bell[r][p] = gen[r]

Meet(r) ==
  /\ kernel[r] = "meet" /\ met(r)
  /\ launch(r, "combine", "sum", "intra")
  /\ UNCHANGED <<ctx, rows, maps, counts, words, q>>

(* Combine.  The results a token's or row's slots point to on this node.   *)
results(r, slots) ==
  {<<k, cinp[slots[k][1]][slots[k][2]]>> :
     k \in {j \in Slot : slots[j][1] \in mates(r)}}

(* CombineIntraNode, CombineIntraNodeLL.                                   *)
Intra(r) ==
  /\ at(r, Blocks, "intra")
  /\ stg' = [stg EXCEPT ![r] = [c \in Cell |->
       IF \E t \in tokens(r) : c = cell(Nodes + node(r), t)
       THEN results(r, map[r][c % T]) ELSE @[c]]]
  /\ goto(r, Blocks, "end")
  /\ UNCHANGED <<ctx, kernel, bid, dstg, inp, recv, cinp, out, maps, counts,
                 words, q>>

(* CombineInterNode reads the 64-bit counts as 32-bit words.               *)
half(r, n) == IF n % 2 = 0 THEN nodeflag[r][n \div 2] ELSE 0

slots_drawn(r, n) == Max({nodeflag[r][n], 1}) - 1

sum_node(r, b) == IF s.ll THEN nth_other(r, b \div T) ELSE chunk_node(r, b)
sum_chunk(b) == IF s.ll THEN (b % T) \div Chunk ELSE chunk_no(b)

(* Whether there is something to count, and what to sum.                   *)
counted(r, n, k, b) ==
  IF s.ll THEN b % T < slots_drawn(r, n)
  ELSE flag[r][n][k] > 0 \/ (half(r, n) > 0 /\ first(k) >= half(r, n) - 1)
summed(r, n, k, b) ==
  IF s.ll THEN {j \in {b % T} : j < first(k) + length(r, n, k)}
  ELSE dealt(r, n, k, b)

complete(r, n, k) ==
  cdone[r][n][k] + 1 >= IF s.ll THEN Chunk ELSE RecvBlocks

sum_turns == IF s.ll THEN (Nodes - 1) * T ELSE recv_turns
next_turn(r, w, b) ==
  IF s.ll /\ (b % T) + Blocks >= slots_drawn(r, sum_node(r, b))
  THEN ((b \div T) + 1) * T + w ELSE b + Blocks

(* CombineInterNode, CombineInterNodeLL: the last to count sends the sums  *)
(* of the chunk back and clears its flag.                                  *)
Sum(r, w) ==
  LET b == bid[r][w]
      n == sum_node(r, b)
      k == sum_chunk(b)
      work == {cell(n, j) : j \in summed(r, n, k, b)}
      sums == put_rows([i \in 1 .. length(r, n, k) |-> cell(n, first(k) + i - 1)],
                       cell(Nodes + node(r), first(k)), 0)
  IN /\ at(r, w, "sum")
     /\ turn(r, w, next_turn(r, w, b), sum_turns, "sum", "close")
     /\ IF ~counted(r, n, k, b) THEN UNCHANGED <<stg, fmap, cdone, flag, q>>
        ELSE /\ stg' = [stg EXCEPT ![r] = [c \in Cell |->
                  IF c \in work THEN results(r, fmap[r][c]) ELSE @[c]]]
             /\ fmap' = IF s.ll \/ s.cached THEN fmap
                        ELSE [fmap EXCEPT ![r] = [c \in InCell |->
                          IF c \in work THEN [e \in Slot |-> First] ELSE @[c]]]
             /\ IF complete(r, n, k)
                THEN /\ flag' = [flag EXCEPT ![r][n][k] = 0]
                     /\ cdone' = [cdone EXCEPT ![r][n][k] = 0]
                     /\ q' = [q EXCEPT ![r][n][k % Qps] =
                                Append(@, [sums EXCEPT !.kind = "back"])]
                ELSE /\ cdone' = [cdone EXCEPT ![r][n][k] = @ + 1]
                     /\ UNCHANGED <<flag, q>>
     /\ UNCHANGED <<ctx, kernel, dstg, inp, recv, cinp, out, map, sendmap,
                    blockFlag, blocks, grid, told, signal, total, offset,
                    nodeflag, gen, bell>>

rings(r, n, qp) == n # node(r)

(* The last warp clears the counts and rings, behind the sums, on every    *)
(* queue pair of the other nodes' proxies; then it waits for their rings.  *)
Close(r, w) ==
  /\ at(r, w, "close")
  /\ blocks' = [blocks EXCEPT ![r] = (@ + 1) % Blocks]
  /\ IF last_sender(r)
     THEN /\ nodeflag' = [nodeflag EXCEPT ![r] = [n \in Node |-> 0]]
          /\ q' = [q EXCEPT ![r] = [n \in Node |-> [qp \in Qp |->
               IF rings(r, n, qp) THEN Append(@[n][qp], put_word("bell", 1))
               ELSE @[n][qp]]]]
          /\ goto(r, w, "await")
     ELSE UNCHANGED <<nodeflag, q>> /\ goto(r, w, "end")
  /\ UNCHANGED <<ctx, kernel, bid, rows, maps, blockFlag, grid, told, signal,
                 total, offset, cdone, flag, gen, bell>>

(* Mutant: the next layer starts without the rings of the other nodes.     *)
rung_unheard(r) == TRUE

rung(r) == \A n \in others(r) : bell[r][proxy(r, n)] = gen[r] * Qps

Await(r, w) ==
  /\ at(r, w, "await") /\ rung(r)
  /\ goto(r, w, "end")
  /\ UNCHANGED <<ctx, kernel, bid, rows, maps, counts, words, q>>

(* EpCombineAll.                                                           *)
All(r) ==
  /\ kernel[r] = "combine" /\ ended(r)
  /\ out' = [out EXCEPT ![r] = [t \in Token |->
       IF t < ntok(r)
       THEN UNION {stg[r][cell(Nodes + n, IF n = node(r) THEN t
                                          ELSE sendmap[r][t][n])] :
                     n \in {m \in Node : goes(r, t, m)}}
       ELSE @[t]]]
  /\ total' = IF s.cached THEN total ELSE [total EXCEPT ![r] = 0]
  /\ blockFlag' = [blockFlag EXCEPT ![r] = [n \in Node |-> 0]]
  /\ round' = [round EXCEPT ![r] = @ + 1]
  /\ kernel' = [kernel EXCEPT ![r] =
       IF round[r] = Len(s.ids) THEN "done" ELSE "stage"]
  /\ UNCHANGED <<s, warps, dstg, inp, stg, recv, cinp, maps, blocks, grid,
                 told, signal, offset, cdone, words, q>>

-----------------------------------------------------------------------------
(* The NIC carries out the oldest post of a queue pair.                    *)
Deliver(r, n, qp) ==
  LET p == proxy(r, n)
      x == Head(q[r][n][qp])
      copied(buf, source) ==
        [buf EXCEPT ![p] = [c \in DOMAIN @ |->
           IF c \in x.to .. x.to + Len(x.from) - 1
           THEN source[x.from[c - x.to + 1]] ELSE @[c]]]
  IN /\ q[r][n][qp] # <<>>
     /\ q' = [q EXCEPT ![r][n][qp] = Tail(@)]
     /\ CASE x.kind = "rows" ->
               /\ inp' = copied(inp, dstg[r])
               /\ flag' = [flag EXCEPT
                    ![p][node(r)][(x.to % T) \div Chunk] = @ + x.val]
               /\ UNCHANGED <<stg, nodeflag, bell>>
          [] x.kind = "count" ->
               /\ nodeflag' = [nodeflag EXCEPT ![p][node(r)] = @ + x.val]
               /\ UNCHANGED <<inp, stg, flag, bell>>
          [] x.kind = "back" ->
               /\ stg' = copied(stg, stg[r])
               /\ UNCHANGED <<inp, flag, nodeflag, bell>>
          [] x.kind = "bell" ->
               /\ bell' = [bell EXCEPT ![p][r] = @ + x.val]
               /\ UNCHANGED <<inp, stg, flag, nodeflag>>
     /\ UNCHANGED <<ctx, kernel, warps, dstg, recv, cinp, out, maps, counts,
                    gen>>

Init ==
  /\ s \in Scenarios
  /\ LET all(S, v) == [r \in Rank |-> [x \in S |-> v]]
         none == [row |-> Empty, by |-> -1]
     IN /\ pc = all(Warp, "end") /\ bid = all(Warp, 0)
        /\ dstg = all(Token, Empty) /\ inp = all(InCell, Empty)
        /\ stg = all(Cell, {}) /\ recv = all(Row, Empty)
        /\ cinp = all(Row, none) /\ out = all(Token, {})
        /\ map = all(Token, [k \in Slot |-> First])
        /\ fmap = all(InCell, [k \in Slot |-> First])
        /\ sendmap = all(Token, [n \in Node |-> 0])
        /\ q = all(Node, [qp \in Qp |-> <<>>])
        /\ flag = all(Node, [k \in Chunks |-> 0])
        /\ cdone = all(Node, [k \in Chunks |-> 0])
        /\ nodeflag = all(Node, 0) /\ blockFlag = all(Node, 0)
        /\ told = all(Rank, 0) /\ signal = all(Rank, 0) /\ bell = all(Rank, 0)
  /\ round = [r \in Rank |-> 1] /\ kernel = [r \in Rank |-> "stage"]
  /\ blocks = [r \in Rank |-> 0] /\ grid = [r \in Rank |-> 0]
  /\ total = [r \in Rank |-> 0] /\ offset = [r \in Rank |-> 0]
  /\ gen = [r \in Rank |-> 0]

Kernels(r) == Stage(r) \/ Ring(r) \/ Meet(r) \/ All(r)
Dispatch(r, w) == Send(r, w) \/ Recv(r, w) \/ Sync(r, w) \/ Settle(r, w)
Combine(r, w) == Sum(r, w) \/ Close(r, w) \/ Await(r, w)
Finished == /\ \A r \in Rank : kernel[r] = "done"
            /\ UNCHANGED vars

Next == \/ \E r \in Rank : Kernels(r) \/ Route(r) \/ Intra(r)
        \/ \E r \in Rank, w \in Warp : Dispatch(r, w) \/ Combine(r, w)
        \/ \E r \in Rank, n \in Node, qp \in Qp : Deliver(r, n, qp)
        \/ Finished

Spec == Init /\ [][Next]_vars

-----------------------------------------------------------------------------
TypeOK ==
  /\ \A r \in Rank :
       /\ round[r] \in 1 .. Len(s.ids) + 1
       /\ blocks[r] \in 0 .. Blocks - 1 /\ grid[r] \in 0 .. Blocks
       /\ offset[r] \in 0 .. Cardinality(Row) /\ total[r] \in 0 .. Cardinality(Row)
       /\ \A n \in Node :
            /\ nodeflag[r][n] \in 0 .. T + 1
            /\ blockFlag[r][n] \in 0 .. Cardinality(Chunks)
            /\ \A k \in Chunks : flag[r][n][k] \in 0 .. Chunk + 1

(* What the ranks have sent r in the round it is in.                       *)
due(r) == {v \in {[rank |-> p, tok |-> t, round |-> round[r]] :
                    p \in Rank, t \in Token} :
             /\ v.tok < s.ntok[v.round][v.rank]
             /\ \E k \in Slot : pe_of_row(v, k) = r}

(* After a dispatch a rank holds each token with an expert of its own once,*)
(* and knows how many, whichever node it comes from, however the chunks of *)
(* several blocks were numbered, and whether their flags or the count came *)
(* first (DispatchInterNodeRecv, DispatchSync).                            *)
ReceivedExact == \A r \in Rank : kernel[r] = "dispatch" /\ ended(r) =>
  /\ total[r] = Cardinality(due(r))
  /\ {recv[r][i] : i \in 0 .. total[r] - 1} = due(r)

(* After a combine a token is the sum of one result of this round from each*)
(* rank with an expert of it (EpCombineAll).                               *)
OutputCorrect == \A r \in Rank : kernel[r] \in {"stage", "done"} /\ round[r] > 1 =>
  LET i == round[r] - 1
      row(t) == [rank |-> r, tok |-> t, round |-> i]
  IN \A t \in 0 .. s.ntok[i][r] - 1 :
       out[r][t] =
         {<<k, [row |-> row(t), by |-> pe_of_row(row(t), k)]>> :
            k \in {j \in Slot : /\ pe_of_row(row(t), j) >= 0
                                /\ \A h \in 0 .. j - 1 :
                                     pe_of_row(row(t), h) # pe_of_row(row(t), j)}}

(* A warp that waits for a word to equal its generation is never passed:   *)
(* no peer has rung for the next one.                                      *)
NeverPassed == \A r \in Rank :
  /\ kernel[r] = "meet" =>
       \A p \in mates(r) : bell[r][p] <= gen[r]
  /\ \A n \in others(r) : (\E w \in Warp : at(r, w, "await")) =>
       bell[r][proxy(r, n)] <= gen[r] * Qps

(* No row is written while a post has yet to read it: the staging rows of a*)
(* dispatch until they are sent, the sums until they are sent back.        *)
unread(r, kind) ==
  UNION {Range(x.from) : x \in {y \in UNION {Range(q[r][n][qp]) :
                                  n \in Node, qp \in Qp} : y.kind = kind}}
SourceKept == \A r \in Rank :
  /\ \A t \in unread(r, "rows") : dstg'[r][t] = dstg[r][t]
  /\ \A c \in unread(r, "back") : stg'[r][c] = stg[r][c]
=============================================================================
