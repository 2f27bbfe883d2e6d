-------------------------- MODULE IntraNodeReduce --------------------------
(* mori's all-reduce inside a node (IntraNode, CommKernelEntity): kernels  *)
(* that read the peers' memory themselves.  A block meets the same block of*)
(* every peer with two words per peer, start and end, that hold a number   *)
(* which only grows (start_sync, end_sync).  One stage: every rank adds up *)
(* all inputs; the plain kernel then meets the peers, so that they may be  *)
(* written again, and the fast one does not.  Two stages: a rank adds up   *)
(* its part into a buffer behind its signals and gathers the parts after   *)
(* the meeting; nothing follows the gathering.                             *)
(*                                                                         *)
(* Where the inputs are is in slots of rank data, filled by the host: the  *)
(* buffer an eager call copies its input to, and the buffers of the calls  *)
(* captured into a graph, which get theirs after the capture.  Left out:   *)
(* the opening of IPC handles, the element type and the rounding, and the  *)
(* staging of a pack in LDS, for which a block's threads all have the same *)
(* number of turns.                                                        *)
EXTENDS Integers, Sequences, FiniteSets

CONSTANTS Ngpus,      \* world_size_
          MaxBlocks,  \* kMaxBlocks
          Threads,    \* threads of a block, a multiple of Ngpus
          Pack,       \* elements of a pack
          Align,      \* packs of 128 bytes
          Small,      \* packs from which an all-reduce takes two stages
          Always,     \* number of GPUs that never takes two stages
          MaxSize,    \* packs of the buffers
          Capacity,   \* slots of rank data
          Word,       \* range of the words of a signal
          Scenarios   \* the calls of every rank

Rank == 0 .. Ngpus - 1
Block == 0 .. MaxBlocks - 1
Index == 0 .. MaxSize - 1
Slot == 0 .. Capacity - 1
Kind == {"eager", "capture", "meta", "bind", "replay"}
Kernel == {"1stage", "2stage"}

(* Calls: an all-reduce of count elements now, or captured; the handles of *)
(* the captured buffers, got and registered; the n-th captured kernel run. *)
IntraNodeReduceAssumption ==
  /\ {Ngpus, MaxBlocks, Threads, Pack, Align, Small, MaxSize, Capacity, Word}
       \subseteq Nat \ {0}
  /\ Threads % Ngpus = 0 /\ (Ngpus = 6 \/ Align % Ngpus = 0)
  /\ \A x \in Scenarios : \A i \in DOMAIN x :
       x[i].kind \in Kind /\ x[i].count \in Nat /\ x[i].nth \in Nat
  /\ \A x \in Scenarios : 2 * Len(x) + 1 < Word

VARIABLES
  s,          \* the scenario
  ip,         \* [r]: the call the rank is at
  status,     \* [r]: what the last call gave: 0, or -2 for an exception
  run,        \* [r]: the running kernel
  pc,         \* [r][b]: where the block is
  todo,       \* [r][b]: peers its first lanes have yet to tell
  left,       \* [r][b]: what its threads have yet to add up or gather
  start, end, \* [r][b][p]: the words of the signal
  flag,       \* [r][b]: _flag
  mem,        \* [r][buffer][i]: buffers the peers read
  tmp,        \* [r][i]: the buffer behind the signal
  result,     \* [r][i]
  rank_data,  \* [r][slot][p]: the buffer of p
  base,       \* [r]: d_rank_data_base_
  graph_unreg_buffers_, \* [r]
  meta,       \* [r]: the buffers whose handles the peers have
  graph       \* [r]: the captured kernels

signal == <<start, end, flag>>
host == <<rank_data, base, graph_unreg_buffers_, meta, graph>>
vars == <<s, ip, status, run, pc, todo, left, signal, mem, tmp, result, host>>

-----------------------------------------------------------------------------
(* A datum is the set of inputs added up in it: <<whose, index, call>>.    *)
pre == 0                           \* pre_registered_buffer_
Buffer(x) == {pre} \cup DOMAIN x   \* and one of the caller's per capture
input(r, i, c) == {<<r, i, c>>}
Empty == [i \in Index |-> {}]
at(r) == s[ip[r]]
Over(r) == ip[r] > Len(s)

(* dispatchAllReduce: the kernel for so many packs, and its grid.          *)
CeilDiv(a, b) == (a + b - 1) \div b
smaller(a, b) == IF a < b THEN a ELSE b
stages(n) == IF Ngpus = Always \/ n < Small THEN "1stage" ELSE "2stage"
launch(slot, n, c) ==
  LET share == Threads \div Ngpus
      packs == IF stages(n) = "1stage" THEN n ELSE n \div Ngpus IN
  [kernel |-> stages(n), size |-> n, slot |-> slot, call |-> c,
   naive |-> n % Align # 0 \/ Ngpus = 6,
   blocks |-> smaller(MaxBlocks, CeilDiv(packs, share))]
None == [kernel |-> "none", size |-> 0, slot |-> 0, call |-> 0,
         naive |-> FALSE, blocks |-> 0]

(* Packs of 0 .. n - 1 that fall to a block: each of the plain kernel's    *)
(* threads takes a pack of its own, Ngpus of the other's share one.        *)
turn(k) == IF k.naive THEN Threads ELSE Threads \div Ngpus
mine(k, b, n) == {i \in 0 .. n - 1 : (i \div turn(k)) % k.blocks = b}

(* The part of a rank; the last one has the rest.                          *)
part(k) == k.size \div Ngpus
first(k, r) == IF k.kernel = "1stage" THEN 0 ELSE r * part(k)
length(k, r) == IF k.kernel = "1stage" THEN k.size
                ELSE IF r = Ngpus - 1 THEN k.size - r * part(k) ELSE part(k)
largest_part(k) == part(k) + (k.size % Ngpus)

Init ==
  /\ s \in Scenarios
  /\ ip = [r \in Rank |-> 1] /\ status = [r \in Rank |-> 0]
  /\ run = [r \in Rank |-> None]
  /\ pc = [r \in Rank |-> [b \in Block |-> "done"]]
  /\ todo = [r \in Rank |-> [b \in Block |-> {}]]
  /\ left = todo
  /\ start = [r \in Rank |-> [b \in Block |-> [p \in Rank |-> 0]]]
  /\ end = start
  /\ flag = [r \in Rank |-> [b \in Block |-> 0]]
  /\ mem = [r \in Rank |-> [x \in Buffer(s) |-> Empty]]
  /\ tmp = [r \in Rank |-> Empty] /\ result = tmp
  /\ rank_data = [r \in Rank |-> [j \in Slot |-> [p \in Rank |->
                    IF j = 0 THEN pre ELSE -1]]]
  /\ base = [r \in Rank |-> 1]
  /\ graph_unreg_buffers_ = [r \in Rank |-> <<>>]
  /\ meta = graph_unreg_buffers_ /\ graph = meta

-----------------------------------------------------------------------------
(* The host.  The kernels of a rank follow each other on its stream.       *)
Idle(r) == ~Over(r) /\ \A b \in Block : pc[r][b] = "done"
finish(r, code) == ip' = [ip EXCEPT ![r] = @ + 1] /\ status' = [status EXCEPT ![r] = code]

begin(r, k) ==
  /\ run' = [run EXCEPT ![r] = k]
  /\ pc' = [pc EXCEPT ![r] = [b \in Block |-> IF b < k.blocks THEN "start" ELSE "done"]]
  /\ todo' = [todo EXCEPT ![r] = [b \in Block |-> IF b < k.blocks THEN Rank ELSE {}]]
  /\ result' = [result EXCEPT ![r] = Empty]

(* Execute, eagerly: the input is copied to the registered buffer, before  *)
(* the length is looked at.                                                *)
copied(r, x, n) == [mem EXCEPT ![r][x] = [i \in Index |->
                      IF i < n THEN input(r, i, ip[r]) ELSE @[i]]]

TooLarge(r) == /\ Idle(r) /\ at(r).kind = "eager" /\ at(r).count > MaxSize * Pack
               /\ finish(r, -2)
               /\ UNCHANGED <<s, run, pc, todo, left, signal, mem, tmp, result, host>>

Eager(r) ==
  LET n == at(r).count \div Pack IN
  /\ Idle(r) /\ at(r).kind = "eager" /\ at(r).count <= MaxSize * Pack
  /\ mem' = copied(r, pre, n)
  /\ IF at(r).count % Pack = 0
       THEN begin(r, launch(0, n, ip[r])) /\ finish(r, 0)
       ELSE finish(r, -2) /\ UNCHANGED <<run, pc, todo, result>>
  /\ UNCHANGED <<s, left, signal, tmp, host>>

(* Captured: the slot it is going to get is the next free one behind those *)
(* of the captured calls before it (get_buffer_RD).                        *)
captured_slot(r) == base[r] + Len(graph_unreg_buffers_[r])

Capture(r) ==
  /\ Idle(r) /\ at(r).kind = "capture"
  /\ graph_unreg_buffers_' = [graph_unreg_buffers_ EXCEPT ![r] = Append(@, ip[r])]
  /\ graph' = [graph EXCEPT ![r] = Append(@,
       [slot |-> captured_slot(r), size |-> at(r).count \div Pack, buffer |-> ip[r]])]
  /\ finish(r, 0)
  /\ UNCHANGED <<s, run, pc, todo, left, signal, mem, tmp, result, rank_data, base, meta>>

(* get_graph_buffer_ipc_meta, and the exchange of the handles.             *)
Meta(r) ==
  /\ Idle(r) /\ at(r).kind = "meta"
  /\ meta' = [meta EXCEPT ![r] = graph_unreg_buffers_[r]]
  /\ finish(r, 0)
  /\ UNCHANGED <<s, run, pc, todo, left, signal, mem, tmp, result, rank_data, base,
                 graph_unreg_buffers_, graph>>

(* register_graph_buffers, with the handles of all ranks.                  *)
fits(r) == base[r] + Len(graph_unreg_buffers_[r]) <= Capacity
filled(r) == [j \in Slot |->
  LET i == j - base[r] + 1 IN
  IF i \in DOMAIN graph_unreg_buffers_[r] THEN [p \in Rank |-> meta[p][i]]
  ELSE rank_data[r][j]]

Bind(r) ==
  /\ Idle(r) /\ at(r).kind = "bind" /\ \A p \in Rank : ip[p] >= ip[r]
  /\ IF fits(r)
       THEN /\ rank_data' = [rank_data EXCEPT ![r] = filled(r)]
            /\ base' = [base EXCEPT ![r] = @ + Len(graph_unreg_buffers_[r])]
            /\ graph_unreg_buffers_' = [graph_unreg_buffers_ EXCEPT ![r] = <<>>]
            /\ finish(r, 0)
       ELSE finish(r, -2) /\ UNCHANGED <<rank_data, base, graph_unreg_buffers_>>
  /\ UNCHANGED <<s, run, pc, todo, left, signal, mem, tmp, result, meta, graph>>

(* The caller writes the captured input afresh and runs the kernel.        *)
Replay(r) ==
  LET g == graph[r][at(r).nth] IN
  /\ Idle(r) /\ at(r).kind = "replay"
  /\ mem' = copied(r, g.buffer, g.size)
  /\ begin(r, launch(g.slot, g.size, ip[r]))
  /\ finish(r, 0)
  /\ UNCHANGED <<s, left, signal, tmp, host>>

-----------------------------------------------------------------------------
(* start_sync and end_sync: each of the first lanes tells one peer, and    *)
(* waits for the word of that peer.                                        *)
goto(r, b, l) == pc' = [pc EXCEPT ![r][b] = l]
number(r, b) == (flag[r][b] + 1) % Word

Tell(r, b, p) ==
  /\ pc[r][b] \in {"start", "end"} /\ p \in todo[r][b]
  /\ todo' = [todo EXCEPT ![r][b] = @ \ {p}]
  /\ IF pc[r][b] = "start"
       THEN start' = [start EXCEPT ![p][b][r] = number(r, b)] /\ UNCHANGED end
       ELSE end' = [end EXCEPT ![p][b][r] = number(r, b)] /\ UNCHANGED start
  /\ UNCHANGED <<s, ip, status, run, pc, left, flag, mem, tmp, result, host>>

met(r, b) == LET w == IF pc[r][b] = "start" THEN start ELSE end IN
  todo[r][b] = {} /\ \A p \in Rank : w[r][b][p] >= number(r, b)

(* What the threads of a block have to add up; then, what they gather: a   *)
(* pack of every rank's part, of which only the last has the rest.         *)
sums(r, b) == {first(run[r], r) + i : i \in mine(run[r], b, length(run[r], r))}
within(k, p, i) == ~k.naive \/ p = Ngpus - 1 \/ i < part(k)
parts(r, b) ==
  {x \in Rank \X mine(run[r], b, largest_part(run[r])) : within(run[r], x[1], x[2])}

StartSync(r, b) ==
  /\ pc[r][b] = "start" /\ met(r, b)
  /\ flag' = [flag EXCEPT ![r][b] = number(r, b)]
  /\ left' = [left EXCEPT ![r][b] = sums(r, b)]
  /\ goto(r, b, "reduce")
  /\ UNCHANGED <<s, ip, status, run, todo, start, end, mem, tmp, result, host>>

(* packed_reduce: the packs of all ranks, added up.                        *)
packed_reduce(r, i) == UNION {mem[p][rank_data[r][run[r].slot][p]][i] : p \in Rank}

Reduce(r, b, i) ==
  /\ pc[r][b] = "reduce" /\ i \in left[r][b]
  /\ left' = [left EXCEPT ![r][b] = @ \ {i}]
  /\ IF run[r].kernel = "1stage"
       THEN result' = [result EXCEPT ![r][i] = packed_reduce(r, i)] /\ UNCHANGED tmp
       ELSE /\ tmp' = [tmp EXCEPT ![r][i - first(run[r], r)] = packed_reduce(r, i)]
            /\ UNCHANGED result
  /\ UNCHANGED <<s, ip, status, run, pc, todo, signal, mem, host>>

(* The fast one-stage kernel has no end_sync.                              *)
hasty(k) == k.kernel = "1stage" /\ ~k.naive

Reduced(r, b) ==
  /\ pc[r][b] = "reduce" /\ left[r][b] = {}
  /\ IF hasty(run[r]) THEN goto(r, b, "done") /\ UNCHANGED todo
     ELSE goto(r, b, "end") /\ todo' = [todo EXCEPT ![r][b] = Rank]
  /\ UNCHANGED <<s, ip, status, run, left, signal, mem, tmp, result, host>>

EndSync(r, b) ==
  /\ pc[r][b] = "end" /\ met(r, b)
  /\ flag' = [flag EXCEPT ![r][b] = number(r, b)]
  /\ IF run[r].kernel = "1stage" THEN goto(r, b, "done") /\ UNCHANGED left
     ELSE goto(r, b, "gather") /\ left' = [left EXCEPT ![r][b] = parts(r, b)]
  /\ UNCHANGED <<s, ip, status, run, todo, start, end, mem, tmp, result, host>>

Gather(r, b, x) ==
  LET i == x[1] * part(run[r]) + x[2] IN
  /\ pc[r][b] = "gather" /\ x \in left[r][b]
  /\ left' = [left EXCEPT ![r][b] = @ \ {x}]
  /\ result' = [result EXCEPT ![r][i] = tmp[x[1]][x[2]]]
  /\ UNCHANGED <<s, ip, status, run, pc, todo, signal, mem, tmp, host>>

Gathered(r, b) ==
  /\ pc[r][b] = "gather" /\ left[r][b] = {}
  /\ goto(r, b, "done")
  /\ UNCHANGED <<s, ip, status, run, todo, left, signal, mem, tmp, result, host>>

-----------------------------------------------------------------------------
Host(r) == \/ TooLarge(r) \/ Eager(r) \/ Capture(r) \/ Meta(r) \/ Bind(r) \/ Replay(r)
Device(r, b) ==
  \/ \E p \in Rank : Tell(r, b, p)
  \/ StartSync(r, b) \/ Reduced(r, b) \/ EndSync(r, b) \/ Gathered(r, b)
  \/ \E i \in left[r][b] : Reduce(r, b, i) \/ Gather(r, b, i)

Next == \E r \in Rank : Host(r) \/ \E b \in Block : Device(r, b)

Spec == Init /\ [][Next]_vars

Ended == \A r \in Rank : Over(r) /\ \A b \in Block : pc[r][b] = "done"

-----------------------------------------------------------------------------
Datum == SUBSET (Rank \X Index \X DOMAIN s)

(* Every variable has its type; every status is what the call deserves.    *)
TypeOK ==
  /\ s \in Scenarios
  /\ ip \in [Rank -> 1 .. Len(s) + 1] /\ status \in [Rank -> {0, -2}]
  /\ \A r \in Rank : run[r].kernel \in Kernel \cup {"none"} /\ run[r].slot \in Slot
  /\ pc \in [Rank -> [Block -> {"start", "reduce", "end", "gather", "done"}]]
  /\ todo \in [Rank -> [Block -> SUBSET Rank]]
  /\ flag \in [Rank -> [Block -> 0 .. Word - 1]]
  /\ {start, end} \subseteq [Rank -> [Block -> [Rank -> 0 .. Word - 1]]]
  /\ mem \in [Rank -> [Buffer(s) -> [Index -> Datum]]]
  /\ {tmp, result} \subseteq [Rank -> [Index -> Datum]]
  /\ base \in [Rank -> 1 .. Capacity]

(* When the kernel of a call is done its rank has the sum of what every    *)
(* rank passed in this very call, pack by pack, and nothing behind: through*)
(* every kernel, grids of any size one after the other, ranks a call ahead,*)
(* and captured calls whose slots are filled afterwards.  Only the fast one*)
(* of one stage, which meets nobody at its end, may have added up what a   *)
(* peer has passed in a later call that it has already begun               *)
(* (cross_device_reduce_1stage, cross_device_reduce_2stage).               *)
passed(p, k) == IF hasty(k) THEN k.call .. ip[p] - 1 ELSE {k.call}

OutputExact ==
  \A r \in Rank : run[r].kernel # "none" /\ (\A b \in Block : pc[r][b] = "done") =>
    \A i \in Index :
      IF i < run[r].size
        THEN \E c \in [Rank -> DOMAIN s] :
               /\ \A p \in Rank : c[p] \in passed(p, run[r])
               /\ result[r][i] = {<<p, i, c[p]>> : p \in Rank}
        ELSE result[r][i] = {}

(* The input of a rank is not written again while a peer has yet to add it *)
(* up, unless that peer is in the kernel that meets nobody; nor a sum while*)
(* a peer has yet to gather it: the second stage has no end_sync, the next *)
(* call's start_sync stands in for it.                                     *)
SourceKept ==
  \A r \in Rank, q \in Rank, b \in Block :
    /\ pc[q][b] = "reduce" /\ ~hasty(run[q]) =>
         LET x == rank_data[q][run[q].slot][r] IN
         \A i \in left[q][b] : mem'[r][x][i] = mem[r][x][i]
    /\ pc[q][b] = "gather" =>
         \A y \in left[q][b] : tmp'[y[1]][y[2]] = tmp[y[1]][y[2]]

(* A block that waits for its peers gets on in the end: all ranks start the*)
(* same blocks in the same order (start_sync, end_sync).                   *)
NeverStuck == Ended \/ ENABLED Next
=============================================================================
