------------------------------- MODULE MCMoriEp -------------------------------
(* The baseline's dispatch and combine in one run, one implementation to a *)
(* behaviour: inside a node and between nodes; and the bytes of a combine  *)
(* inside a node.                                                          *)
EXTENDS Integers, Sequences

CONSTANT World

VARIABLES which,   \* the component this behaviour is of
  s, call, pc, item, route, ahead, copied, grid, sent, offset, map, origin,
  snap, recv, signal, total, result, inp, flag, bell, seen, posted, out,
  round, kernel, bid, dstg, stg, q, nodeflag, blockFlag, blocks, told, gen,
  fmap, sendmap, cinp, cdone, staged, parts, wout

(* Two ranks of two experts.  Inside a node: the expert ids of the two     *)
(* slots of each token on both ranks, both on one, a dropped slot, an      *)
(* expert out of range; layers, and layers with a recorded routing.        *)
Slots(a, b) == [slot \in 0 .. 1 |-> <<a, b>>[slot + 1]]
Routes == <<[x \in 0 .. 1 |-> [t \in 0 .. 2 |->
              IF t = 0 THEN Slots(0, 2) ELSE Slots(2 - 2 * x, 3 - 2 * x)]],
            [x \in 0 .. 1 |-> [t \in 0 .. 2 |->
              IF t = 0 THEN Slots(-1, 1) ELSE Slots(4, 3)]]>>
Layers == <<"dispatch", "gemm", "combine", "dispatch", "gemm", "combine">>
Replays == <<"record", "gemm", "combine", "dispatch", "gemm", "combine",
             "replay", "gemm", "combine">>
handle(kind, push, calls, n0, n1) ==
  [kernel |-> kind, push |-> push, calls |-> calls, ids |-> Routes,
   ntok |-> [x \in 0 .. 1 |-> IF x = 0 THEN n0 ELSE n1]]
Handles == {handle("intra", FALSE, Layers, 2, 1),
            handle("intra", TRUE, Replays, 1, 2),
            handle("ll", TRUE, Layers, 3, 0)}

(* Between nodes, an expert to a rank.  Two nodes of one: only the first   *)
(* rank has tokens, one for both nodes, one for the other with a dropped   *)
(* slot; afresh, low-latency, replayed.  Two nodes of two: a token for both*)
(* ranks of the other node.                                                *)
both == [x \in 0 .. 1 |-> [t \in 0 .. 3 |->
           IF t = 0 THEN Slots(0, 1) ELSE Slots(1, -1)]]
swapped == [x \in 0 .. 1 |-> [t \in 0 .. 3 |->
              IF t = 0 THEN Slots(1, 0) ELSE Slots(1, 1)]]
across == [x \in 0 .. 3 |-> [t \in 0 .. 1 |-> Slots(2, 3)]]
first_only(n) == [x \in 0 .. 3 |-> IF x = 0 THEN n ELSE 0]
pair(f) == [x \in 0 .. 1 |-> f[x]]
between(ll, cached, ids, n) ==
  [ll |-> ll, cached |-> cached, ids |-> ids,
   ntok |-> [i \in 1 .. Len(ids) |-> pair(first_only(n[i]))]]
Shared == {between(FALSE, FALSE, <<swapped, both>>, <<1, 1>>),
           between(TRUE, FALSE, <<both, swapped>>, <<1, 1>>)}
Drawn == {between(FALSE, TRUE, <<both, both>>, <<2, 2>>)}
Across == {[ll |-> FALSE, cached |-> FALSE, ids |-> <<across>>,
            ntok |-> <<first_only(1)>>]}

(* Data: hidden sizes and blocks with and without a rest, for every codec, *)
(* one to three warps a token, few and many ranks, slots without a row;    *)
(* rows within the range of FP8 and beyond it in every other block.        *)
magnitude(r, j, b, amp) ==
  ((r + 3 * j) % 5) + (IF amp = 0 THEN 1
                       ELSE IF (j \div b) % 2 = amp - 1 /\ j % 3 = r % 3
                            THEN 7 + r ELSE 0)
shape(c, z, w, k, filled, amp) ==
  [codec |-> c, hidden |-> z[1], scaleDim |-> z[2], warps |-> w, world |-> k,
   slots |-> filled, weights |-> amp = 0,
   data |-> [r \in {filled[j] : j \in DOMAIN filled} \ {0} |->
              [j \in 0 .. z[1] - 1 |->
                 magnitude(r, j, (z[1] + z[2] - 1) \div z[2],
                           IF c \in {"fp8", "fp4"} THEN (amp + r) % 3 ELSE 0)]]]
Shapes ==
  {x \in {shape(c, z, w, k, f, amp) :
           c \in {"copy", "cast", "fp8", "fp4"},
           z \in {<<64, 4>>, <<32, 2>>, <<40, 2>>, <<24, 3>>, <<21, 2>>,
                  <<18, 4>>, <<20, 1>>},
           w \in 1 .. 3, k \in {2, 8},
           f \in {<<2, 0, 1>>, <<0, 1, 2, 3>>, <<0, 3>>}, amp \in {0, 1}} :
     x.codec = "fp4" =>
       LET b == (x.hidden + x.scaleDim - 1) \div x.scaleDim
       IN b % 2 = 0 /\ b * (x.scaleDim - 1) < x.hidden}

Intra == INSTANCE MoriIntraNode WITH T <- 3, TopK <- 2, PerRank <- 2, MaxGpus <- 2, Cta <- 2,
                                Scenarios <- Handles
Chunks == INSTANCE MoriInterNode WITH Nodes <- 2, Gpus <- 1, T <- 4, Chunk <- 2, TopK <- 2,
                             PerRank <- 1, Blocks <- 2, RecvBlocks <- 2,
                             Qps <- 2, Scenarios <- Shared
Draws == INSTANCE MoriInterNode WITH Nodes <- 2, Gpus <- 1, T <- 3, Chunk <- 1, TopK <- 2,
                            PerRank <- 1, Blocks <- 2, RecvBlocks <- 1,
                            Qps <- 2, Scenarios <- Drawn
Mesh == INSTANCE MoriInterNode WITH Nodes <- 2, Gpus <- 2, T <- 2, Chunk <- 1, TopK <- 2,
                           PerRank <- 1, Blocks <- 1, RecvBlocks <- 1,
                           Qps <- 1, Scenarios <- Across
Data == INSTANCE MoriCombineData WITH Lanes <- 8, FastDim <- 32, FastTop <- {2, 3}, Finite <- 6,
                             Scenarios <- Shapes

(* What a component does not have stays 0.                                 *)
IntraRest == <<round, kernel, bid, dstg, stg, q, nodeflag, blockFlag, blocks,
    told, gen, fmap, sendmap, cinp, cdone, staged, parts, wout>>
IntraIdle ==
  /\ round = 0 /\ kernel = 0 /\ bid = 0 /\ dstg = 0 /\ stg = 0 /\ q = 0
  /\ nodeflag = 0 /\ blockFlag = 0 /\ blocks = 0 /\ told = 0 /\ gen = 0
  /\ fmap = 0 /\ sendmap = 0 /\ cinp = 0 /\ cdone = 0 /\ staged = 0
  /\ parts = 0 /\ wout = 0
InterRest == <<call, item, route, ahead, copied, sent, origin, snap, result,
    seen, posted, staged, parts, wout>>
InterIdle ==
  /\ call = 0 /\ item = 0 /\ route = 0 /\ ahead = 0 /\ copied = 0 /\ sent = 0
  /\ origin = 0 /\ snap = 0 /\ result = 0 /\ seen = 0 /\ posted = 0
  /\ staged = 0 /\ parts = 0 /\ wout = 0
DataRest == <<call, pc, item, route, ahead, copied, grid, sent, offset, map,
    origin, snap, recv, signal, total, result, inp, flag, bell, seen, posted,
    round, kernel, bid, dstg, stg, q, nodeflag, blockFlag, blocks, told, gen,
    fmap, sendmap, cinp, cdone>>
DataIdle ==
  /\ call = 0 /\ pc = 0 /\ item = 0 /\ route = 0 /\ ahead = 0 /\ copied = 0
  /\ grid = 0 /\ sent = 0 /\ offset = 0 /\ map = 0 /\ origin = 0 /\ snap = 0
  /\ recv = 0 /\ signal = 0 /\ total = 0 /\ result = 0 /\ inp = 0 /\ flag = 0
  /\ bell = 0 /\ seen = 0 /\ posted = 0 /\ round = 0 /\ kernel = 0 /\ bid = 0
  /\ dstg = 0 /\ stg = 0 /\ q = 0 /\ nodeflag = 0 /\ blockFlag = 0
  /\ blocks = 0 /\ told = 0 /\ gen = 0 /\ fmap = 0 /\ sendmap = 0 /\ cinp = 0
  /\ cdone = 0

Init ==
  \/ which = "intra" /\ Intra!Init /\ IntraIdle
  \/ which = "chunks" /\ Chunks!Init /\ InterIdle
  \/ which = "draws" /\ Draws!Init /\ InterIdle
  \/ which = "mesh" /\ Mesh!Init /\ InterIdle
  \/ which = "data" /\ Data!Init /\ DataIdle
Next ==
  /\ UNCHANGED which
  /\ \/ which = "intra" /\ Intra!Next /\ UNCHANGED IntraRest
     \/ which = "chunks" /\ Chunks!Next /\ UNCHANGED InterRest
     \/ which = "draws" /\ Draws!Next /\ UNCHANGED InterRest
     \/ which = "mesh" /\ Mesh!Next /\ UNCHANGED InterRest
     \/ which = "data" /\ Data!Next /\ UNCHANGED DataRest
vars == <<which, s, call, pc, item, route, ahead, copied, grid, sent, offset,
    map, origin, snap, recv, signal, total, result, inp, flag, bell, seen,
    posted, out, round, kernel, bid, dstg, stg, q, nodeflag, blockFlag,
    blocks, told, gen, fmap, sendmap, cinp, cdone, staged, parts, wout>>

Spec == Init /\ [][Next]_vars

-----------------------------------------------------------------------------
ASSUME Assumptions == /\ Intra!MoriIntraNodeAssumption
                      /\ Chunks!MoriInterNodeAssumption
                      /\ Draws!MoriInterNodeAssumption
                      /\ Mesh!MoriInterNodeAssumption
                      /\ Data!MoriCombineDataAssumption

TypeOK == CASE which = "intra" -> Intra!TypeOK
            [] which = "chunks" -> Chunks!TypeOK
            [] which = "draws" -> Draws!TypeOK
            [] which = "mesh" -> Mesh!TypeOK
            [] which = "data" -> Data!TypeOK

(* After a dispatch every rank holds each token sent to it once, and knows *)
(* how many (EpDispatchIntraNodeKernel, EpDispatchIntraNodeLLKernel;       *)
(* between nodes, however several blocks numbered the chunks, and whether  *)
(* their flags or the count came first: DispatchInterNodeRecv,             *)
(* DispatchSync).                                                          *)
ReceivedExact == CASE which = "intra" -> Intra!ReceivedExact
                   [] which = "chunks" -> Chunks!ReceivedExact
                   [] which = "draws" -> Draws!ReceivedExact
                   [] which = "mesh" -> Mesh!ReceivedExact
                   [] OTHER -> TRUE

(* A combine sums this layer's results, each once, whatever warp, lane,    *)
(* vector and scale each element goes through (EpCombineIntraNodeKernel,   *)
(* EpCombineAll; WarpQuantizeToFp8Blockwise, WarpAccumFp8DequantFull and   *)
(* their kin).                                                             *)
CombinedCorrect == CASE which = "intra" -> Intra!OutputCorrect
                     [] which = "chunks" -> Chunks!OutputCorrect
                     [] which = "draws" -> Draws!OutputCorrect
                     [] which = "mesh" -> Mesh!OutputCorrect
                     [] which = "data" -> Data!SumExact

(* Between calls the allocator is as the next dispatch needs it; no rank   *)
(* stores a barrier word beyond what a peer still waits for, and the       *)
(* generations agree whenever a round is over (CrossDeviceBarrier-         *)
(* IntraNodeKernel); between nodes no word a warp waits to equal its       *)
(* generation is rung past it (EpCombineSyncBarrier, CombineInterNode).    *)
WordsReady ==
  CASE which = "intra" -> /\ Intra!AllocatorSettled
                          /\ Intra!NeverOvertaken /\ Intra!OneFlag
    [] which = "chunks" -> Chunks!NeverPassed
    [] which = "draws" -> Draws!NeverPassed
    [] which = "mesh" -> Mesh!NeverPassed
    [] OTHER -> TRUE

(* Neither the staged tokens nor the sums that go back to another node are *)
(* overwritten before the NIC has read them (CombineInterNode,             *)
(* EpDispatchCopyToStaging).                                               *)
NothingOverwritten ==
  [][CASE which = "chunks" -> Chunks!SourceKept
       [] which = "draws" -> Draws!SourceKept
       [] which = "mesh" -> Mesh!SourceKept
       [] OTHER -> TRUE]_vars
=============================================================================
