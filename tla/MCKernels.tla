------------------------------ MODULE MCKernels ------------------------------
(* The expert GEMM and the kernels around it in one run, one component to a*)
(* behaviour: the layers of the pull arms and of prefill, the fused push   *)
(* arm of prefill, the route plans, the sorts of the push and of the pull  *)
(* arms, the scans of the pull plan, the GEMM's waves.                     *)
EXTENDS Integers, Sequences, TLC

CONSTANTS World, CounterMod

VARIABLES which,   \* the component this behaviour is of
  arm, my_ids, replay, kernel, pc, all_ids, pull_src, a_src, rows, a_dst,
  part, out, flags, count, epoch, posted, pperr, expired, arms, ids, cap,
  patient, rep, step, pushing, inflight, grid_count, counter, recv, poke,
  bell, sort_count, stage, src, got, dst, nvi, pull, summed, turn, pSync,
  entered, exited, kind, launch, r, k, todo, carry, mem, recv_eid,
  hierarchical, hcnt, cnt, erb, cur, sei, sti, e_next, idx, pos, phase, left,
  c0, s_cnt, s_ccnt, s_erb, s_cur, s_wcnt, gath, perr, stray, syncs, base,
  off, f, add, incl, s_tmp, s_carry, pull_ptr, layers, layer, wave, arrived,
  lds, a2q, dq2, given, stream, cta, gbar, dest_counter, recv_doorbell, seg,
  sc_dst

(* Pull: one token per rank, both tokens on both ranks, or on rank 1 only. *)
Everywhere == [r_ \in 0 .. 1 |-> [tau \in 0 .. 0 |-> {0, 1}]]
OneSided   == [r_ \in 0 .. 1 |-> [tau \in 0 .. 0 |-> {1}]]
Uneven == {Everywhere, OneSided}

(* Prefill: two tokens per rank, one row each way and one that stays; and  *)
(* four rows for rank 1, one token owned by both; three rows for rank 1 and*)
(* room for two.  Pairs of arms with room, a time-out, an overflow.        *)
Swap == <<<< <<1>>, <<0>> >>, << <<0>>, <<1>> >>>>
Skewed == <<<< <<1>>, <<1>> >>, << <<1, 0>>, <<1>> >>>>
Lean == <<<< <<0>>, <<1>> >>, << <<1>>, <<1>> >>>>
routing(x) == [r_ \in 0 .. 1 |-> [t \in 0 .. 1 |-> x[r_ + 1][t + 1]]]
replays(a, x, c, p) == [arms |-> a, ids |-> routing(x), cap |-> c, patient |-> p]
Layers ==
  {replays(a, Skewed, 4, TRUE) : a \in {<<"pf_full", "pf_full">>,
                                      <<"pf_full", "pf3_pd">>}}
  \cup {replays(a, Swap, 4, TRUE) : a \in {<<"pf3_pd", "pf3_pd">>,
                                         <<"pf3_mega", "frozen">>,
                                         <<"pf3_pd", "pf4h">>}}
  \cup {replays(<<"pf3_pd", "pf3_pd">>, Swap, 4, FALSE),
        replays(<<"pf3_pd", "pf3_pd">>, Lean, 2, TRUE)}

(* Plans: three tokens per rank, two experts per token, one on each rank or*)
(* both on one, in either order of the slots; room for everything, or too  *)
(* little of one kind.                                                     *)
Routings ==
  {[j \in 0 .. 11 |-> c[j \div 2][1 + (j % 2)]] : c \in
     {[i \in 0 .. 5 |-> IF i % 2 = 0 THEN <<0, 2>> ELSE <<3, 0>>],
      [i \in 0 .. 5 |-> IF i \in {0, 4} THEN <<1, 0>> ELSE <<2, 3>>],
      [i \in 0 .. 5 |-> IF i < 3 THEN <<0, 1>> ELSE <<2, 0>>],
      [i \in 0 .. 5 |-> <<2, 3>>]}}
Sizes == {[rows |-> 6, pad |-> 14, parts |-> 2],
          [rows |-> 4, pad |-> 14, parts |-> 2],
          [rows |-> 6, pad |-> 8, parts |-> 2],
          [rows |-> 6, pad |-> 14, parts |-> 1]}

(* Sort: every routing of up to three pairs, and two of five pairs that    *)
(* need three blocks, where PADMAX = 5 has room for two and a half: the    *)
(* last position is padding, or a pair's.  Expert 2 is another rank's.     *)
Mixed == (0 :> 0 @@ 1 :> 1 @@ 2 :> 2 @@ 3 :> 0 @@ 4 :> 0)
Full  == (0 :> 0 @@ 1 :> 1 @@ 2 :> 0 @@ 3 :> 1 @@ 4 :> 0)
AnyPairs == UNION {[0 .. x - 1 -> 0 .. 2] : x \in 0 .. 3} \cup {Mixed, Full}

(* Sort of a pull arm: eight tokens for this rank's experts 0 and 1 and the*)
(* peer's 2 and 3, in three chunks, the last with room, in two turns; the  *)
(* tokens or the rows fit, or do not.                                      *)
routes(x) == [j \in 0 .. 15 |-> x[1 + (j % Len(x))]]
Routes == {routes(<<0, 2>>), routes(<<1, 0, 2, 3>>), routes(<<3, 2>>),
           routes(<<3, 1, 0, 1, 2, 0, 2, 3>>),
           [j \in 0 .. 15 |-> IF j < 6 THEN j % 2 ELSE 2 + (j % 2)],
           [j \in 0 .. 15 |-> IF j < 13 THEN j % 2 ELSE 3]}

(* Scans: every sequence of fan-outs up to two; every choice among two     *)
(* producers.                                                              *)
FanOuts == [0 .. 4 -> {{}, {1}, {0, 1}}]
Producers == [0 .. 3 -> SUBSET {0, 1}]

(* GEMM: layers of one or two blocks, 2 is padding; the hand-over and the  *)
(* LDS are used again by other tokens, and by the other kernel.            *)
gemm(o, x) == [fused |-> o, ids |-> [i \in DOMAIN x |-> [v \in 0 .. Len(x[i]) - 1
                                                         |-> x[i][v + 1]]]]
Narrow == {<<gemm(TRUE, <<<<0, 1>>, <<0, 2>>>>)>>,
           <<gemm(FALSE, <<<<0, 1>>, <<1, 2>>>>), gemm(FALSE, <<<<1, 0>>>>)>>,
           <<gemm(FALSE, <<<<1, 0>>>>), gemm(TRUE, <<<<1, 0>>>>)>>}
Wider == {<<gemm(y, <<<<0, 1, 0, 2>>, <<0, 2, 2, 2>>>>)>> : y \in BOOLEAN}

(* Mega: one token per rank, a row each way and one that stays, or two rows*)
(* for one; twice, with one impatient CTA, or with too little room.  Three *)
(* tokens on one rank, in any of the three ways.                           *)
mega(x, c, p, n, y) ==
  [ids |-> [q \in 0 .. Len(x) - 1 |-> [t \in 0 .. Len(x[1]) - 1 |->
              [z \in 0 .. 1 |-> x[q + 1][t + 1][z + 1]]]],
   T_loc_max |-> c, PADMAX |-> p, replays |-> n, hasty |-> y]
Both == <<<< <<0, 2>> >>, << <<2, 3>> >>>>
Three == <<<< <<0, 1>>, <<1, 0>>, <<0, 1>> >>>>
Pushes == {mega(Both, 2, 4, 2, {}), mega(Both, 2, 4, 1, {<<1, 0, "doorbell">>}),
           mega(Both, 2, 4, 1, {<<0, 2, "doorbell">>}), mega(Both, 1, 4, 1, {})}
Local == {mega(Three, 3, 8, 2, {}), mega(Three, 3, 4, 1, {<<0, 1, "grid">>}),
          mega(Three, 2, 8, 2, {})}

Pull == INSTANCE K0dPull WITH Grid <- 2, T <- 1, Inputs <- Uneven, MaxReplay <- 2,
                         Arms <- {"s", "b2f", "f"}, MaxTimeOut <- 1
Layer == INSTANCE K0pfPrefill WITH T <- 2, Cta <- 2, Scenarios <- Layers
Plan == INSTANCE RoutePlan WITH T <- 3, TOPK <- 2, E <- 2, Dim <- 2, CHUNK <- 3, ITEMS <- 4,
                          BLOCK_M <- 2, Inputs <- Routings, Caps <- Sizes,
                          MaxLaunch <- 2
Sort == INSTANCE DestSort WITH Grid <- 2, E <- 2, BlockM <- 2, PADMAX <- 5,
                         Inputs <- AnyPairs, Schemes <- BOOLEAN, MaxLaunch <- 2
Fused == INSTANCE FusedSort WITH T <- 4, TOPK <- 2, E <- 2, Groups <- 2, Waves <- 2, Lanes <- 3,
                          BlockM <- 3, T_loc_max <- 7, PADMAX <- 14, Cur <- 0,
                          Inputs <- Routes, MaxLaunch <- 2
Block == INSTANCE BlockScan WITH T <- 5, Cap <- 10, Width <- 4, Inputs <- FanOuts
Wave == INSTANCE WaveScan WITH T <- 4, Cap <- 8, Lanes <- 4, Inputs <- Producers
Gemm == INSTANCE ExpertGemm WITH Ctas <- 2, Waves <- 2, PerScale <- 2, KGroups <- 4,
                           Chunks <- 2, NChunks <- 2, T <- 2, Capacity <- 2,
                           Scenarios <- Narrow
Wide == INSTANCE ExpertGemm WITH Ctas <- 1, Waves <- 4, PerScale <- 2, KGroups <- 2,
                           Chunks <- 2, NChunks <- 2, T <- 2, Capacity <- 2,
                           Scenarios <- Wider
Mega == INSTANCE K0pf3Mega WITH Grid <- 3, T <- 1, TOPK <- 2, E <- 2, BlockM <- 2,
                          Scenarios <- Pushes
Alone == INSTANCE K0pf3Mega WITH World <- 1, Grid <- 3, T <- 3, TOPK <- 2, E <- 2,
                           BlockM <- 2, Scenarios <- Local

(* What a component does not have stays 0.                                 *)
PullRest == <<arms, ids, cap, patient, rep, step, pushing, inflight,
    grid_count, counter, recv, poke, bell, sort_count, stage, src, got, dst,
    nvi, pull, summed, turn, pSync, entered, exited, kind, launch, r, k, todo,
    carry, mem, recv_eid, hierarchical, hcnt, cnt, erb, cur, sei, sti, e_next,
    idx, pos, phase, left, c0, s_cnt, s_ccnt, s_erb, s_cur, s_wcnt, gath,
    perr, stray, syncs, base, off, f, add, incl, s_tmp, s_carry, pull_ptr,
    layers, layer, wave, arrived, lds, a2q, dq2, given, stream, cta, gbar,
    dest_counter, recv_doorbell, seg, sc_dst>>
PullIdle ==
  /\ arms = 0 /\ ids = 0 /\ cap = 0 /\ patient = 0 /\ rep = 0 /\ step = 0
  /\ pushing = 0 /\ inflight = 0 /\ grid_count = 0 /\ counter = 0 /\ recv = 0
  /\ poke = 0 /\ bell = 0 /\ sort_count = 0 /\ stage = 0 /\ src = 0 /\ got = 0
  /\ dst = 0 /\ nvi = 0 /\ pull = 0 /\ summed = 0 /\ turn = 0 /\ pSync = 0
  /\ entered = 0 /\ exited = 0 /\ kind = 0 /\ launch = 0 /\ r = 0 /\ k = 0
  /\ todo = 0 /\ carry = 0 /\ mem = 0 /\ recv_eid = 0 /\ hierarchical = 0
  /\ hcnt = 0 /\ cnt = 0 /\ erb = 0 /\ cur = 0 /\ sei = 0 /\ sti = 0
  /\ e_next = 0 /\ idx = 0 /\ pos = 0 /\ phase = 0 /\ left = 0 /\ c0 = 0
  /\ s_cnt = 0 /\ s_ccnt = 0 /\ s_erb = 0 /\ s_cur = 0 /\ s_wcnt = 0
  /\ gath = 0 /\ perr = 0 /\ stray = 0 /\ syncs = 0 /\ base = 0 /\ off = 0
  /\ f = 0 /\ add = 0 /\ incl = 0 /\ s_tmp = 0 /\ s_carry = 0 /\ pull_ptr = 0
  /\ layers = 0 /\ layer = 0 /\ wave = 0 /\ arrived = 0 /\ lds = 0 /\ a2q = 0
  /\ dq2 = 0 /\ given = 0 /\ stream = 0 /\ cta = 0 /\ gbar = 0
  /\ dest_counter = 0 /\ recv_doorbell = 0 /\ seg = 0 /\ sc_dst = 0
LayerRest == <<arm, my_ids, replay, kernel, all_ids, pull_src, a_src, rows,
    a_dst, flags, count, epoch, expired, kind, launch, r, k, todo, carry, mem,
    recv_eid, hierarchical, hcnt, cnt, erb, cur, sei, sti, e_next, idx, pos,
    phase, left, c0, s_cnt, s_ccnt, s_erb, s_cur, s_wcnt, gath, perr, stray,
    syncs, base, off, f, add, incl, s_tmp, s_carry, pull_ptr, layers, layer,
    wave, arrived, lds, a2q, dq2, given, stream, cta, gbar, dest_counter,
    recv_doorbell, seg, sc_dst>>
LayerIdle ==
  /\ arm = 0 /\ my_ids = 0 /\ replay = 0 /\ kernel = 0 /\ all_ids = 0
  /\ pull_src = 0 /\ a_src = 0 /\ rows = 0 /\ a_dst = 0 /\ flags = 0
  /\ count = 0 /\ epoch = 0 /\ expired = 0 /\ kind = 0 /\ launch = 0 /\ r = 0
  /\ k = 0 /\ todo = 0 /\ carry = 0 /\ mem = 0 /\ recv_eid = 0
  /\ hierarchical = 0 /\ hcnt = 0 /\ cnt = 0 /\ erb = 0 /\ cur = 0 /\ sei = 0
  /\ sti = 0 /\ e_next = 0 /\ idx = 0 /\ pos = 0 /\ phase = 0 /\ left = 0
  /\ c0 = 0 /\ s_cnt = 0 /\ s_ccnt = 0 /\ s_erb = 0 /\ s_cur = 0 /\ s_wcnt = 0
  /\ gath = 0 /\ perr = 0 /\ stray = 0 /\ syncs = 0 /\ base = 0 /\ off = 0
  /\ f = 0 /\ add = 0 /\ incl = 0 /\ s_tmp = 0 /\ s_carry = 0 /\ pull_ptr = 0
  /\ layers = 0 /\ layer = 0 /\ wave = 0 /\ arrived = 0 /\ lds = 0 /\ a2q = 0
  /\ dq2 = 0 /\ given = 0 /\ stream = 0 /\ cta = 0 /\ gbar = 0
  /\ dest_counter = 0 /\ recv_doorbell = 0 /\ seg = 0 /\ sc_dst = 0
PlanRest == <<arm, my_ids, replay, kernel, pc, pull_src, a_src, rows, a_dst,
    part, out, flags, count, epoch, posted, pperr, expired, arms, ids,
    patient, rep, step, pushing, inflight, grid_count, counter, recv, poke,
    bell, sort_count, stage, src, got, dst, nvi, pull, summed, turn, pSync,
    entered, exited, recv_eid, hierarchical, hcnt, cnt, erb, cur, sei, sti,
    e_next, idx, pos, phase, left, c0, s_cnt, s_ccnt, s_erb, s_cur, s_wcnt,
    gath, perr, stray, syncs, base, off, f, add, incl, s_tmp, s_carry,
    pull_ptr, layers, layer, wave, arrived, lds, a2q, dq2, given, stream, cta,
    gbar, dest_counter, recv_doorbell, seg, sc_dst>>
PlanIdle ==
  /\ arm = 0 /\ my_ids = 0 /\ replay = 0 /\ kernel = 0 /\ pc = 0
  /\ pull_src = 0 /\ a_src = 0 /\ rows = 0 /\ a_dst = 0 /\ part = 0 /\ out = 0
  /\ flags = 0 /\ count = 0 /\ epoch = 0 /\ posted = 0 /\ pperr = 0
  /\ expired = 0 /\ arms = 0 /\ ids = 0 /\ patient = 0 /\ rep = 0 /\ step = 0
  /\ pushing = 0 /\ inflight = 0 /\ grid_count = 0 /\ counter = 0 /\ recv = 0
  /\ poke = 0 /\ bell = 0 /\ sort_count = 0 /\ stage = 0 /\ src = 0 /\ got = 0
  /\ dst = 0 /\ nvi = 0 /\ pull = 0 /\ summed = 0 /\ turn = 0 /\ pSync = 0
  /\ entered = 0 /\ exited = 0 /\ recv_eid = 0 /\ hierarchical = 0 /\ hcnt = 0
  /\ cnt = 0 /\ erb = 0 /\ cur = 0 /\ sei = 0 /\ sti = 0 /\ e_next = 0
  /\ idx = 0 /\ pos = 0 /\ phase = 0 /\ left = 0 /\ c0 = 0 /\ s_cnt = 0
  /\ s_ccnt = 0 /\ s_erb = 0 /\ s_cur = 0 /\ s_wcnt = 0 /\ gath = 0 /\ perr = 0
  /\ stray = 0 /\ syncs = 0 /\ base = 0 /\ off = 0 /\ f = 0 /\ add = 0
  /\ incl = 0 /\ s_tmp = 0 /\ s_carry = 0 /\ pull_ptr = 0 /\ layers = 0
  /\ layer = 0 /\ wave = 0 /\ arrived = 0 /\ lds = 0 /\ a2q = 0 /\ dq2 = 0
  /\ given = 0 /\ stream = 0 /\ cta = 0 /\ gbar = 0 /\ dest_counter = 0
  /\ recv_doorbell = 0 /\ seg = 0 /\ sc_dst = 0
SortRest == <<arm, my_ids, replay, kernel, all_ids, pull_src, a_src, rows,
    a_dst, part, out, flags, count, epoch, posted, expired, arms, ids, cap,
    patient, rep, step, pushing, inflight, grid_count, counter, recv, poke,
    bell, sort_count, stage, src, got, dst, pull, summed, turn, pSync,
    entered, exited, kind, r, k, todo, carry, mem, phase, left, c0, s_cnt,
    s_ccnt, s_erb, s_cur, s_wcnt, gath, perr, stray, syncs, base, off, f, add,
    incl, s_tmp, s_carry, pull_ptr, layers, layer, wave, arrived, lds, a2q,
    dq2, given, stream, cta, gbar, dest_counter, recv_doorbell, seg, sc_dst>>
SortIdle ==
  /\ arm = 0 /\ my_ids = 0 /\ replay = 0 /\ kernel = 0 /\ all_ids = 0
  /\ pull_src = 0 /\ a_src = 0 /\ rows = 0 /\ a_dst = 0 /\ part = 0 /\ out = 0
  /\ flags = 0 /\ count = 0 /\ epoch = 0 /\ posted = 0 /\ expired = 0
  /\ arms = 0 /\ ids = 0 /\ cap = 0 /\ patient = 0 /\ rep = 0 /\ step = 0
  /\ pushing = 0 /\ inflight = 0 /\ grid_count = 0 /\ counter = 0 /\ recv = 0
  /\ poke = 0 /\ bell = 0 /\ sort_count = 0 /\ stage = 0 /\ src = 0 /\ got = 0
  /\ dst = 0 /\ pull = 0 /\ summed = 0 /\ turn = 0 /\ pSync = 0 /\ entered = 0
  /\ exited = 0 /\ kind = 0 /\ r = 0 /\ k = 0 /\ todo = 0 /\ carry = 0
  /\ mem = 0 /\ phase = 0 /\ left = 0 /\ c0 = 0 /\ s_cnt = 0 /\ s_ccnt = 0
  /\ s_erb = 0 /\ s_cur = 0 /\ s_wcnt = 0 /\ gath = 0 /\ perr = 0 /\ stray = 0
  /\ syncs = 0 /\ base = 0 /\ off = 0 /\ f = 0 /\ add = 0 /\ incl = 0
  /\ s_tmp = 0 /\ s_carry = 0 /\ pull_ptr = 0 /\ layers = 0 /\ layer = 0
  /\ wave = 0 /\ arrived = 0 /\ lds = 0 /\ a2q = 0 /\ dq2 = 0 /\ given = 0
  /\ stream = 0 /\ cta = 0 /\ gbar = 0 /\ dest_counter = 0 /\ recv_doorbell = 0
  /\ seg = 0 /\ sc_dst = 0
FusedRest == <<arm, my_ids, replay, kernel, pc, pull_src, a_src, rows, a_dst,
    part, out, flags, count, epoch, posted, pperr, expired, arms, ids, cap,
    patient, rep, step, pushing, inflight, grid_count, counter, recv, poke,
    bell, sort_count, stage, src, got, dst, pull, summed, turn, pSync,
    entered, exited, kind, r, k, todo, carry, mem, recv_eid, hierarchical,
    hcnt, cnt, erb, cur, e_next, idx, pos, syncs, base, off, f, add, incl,
    s_tmp, s_carry, pull_ptr, layers, layer, wave, arrived, lds, a2q, dq2,
    given, stream, cta, gbar, dest_counter, recv_doorbell, seg, sc_dst>>
FusedIdle ==
  /\ arm = 0 /\ my_ids = 0 /\ replay = 0 /\ kernel = 0 /\ pc = 0
  /\ pull_src = 0 /\ a_src = 0 /\ rows = 0 /\ a_dst = 0 /\ part = 0 /\ out = 0
  /\ flags = 0 /\ count = 0 /\ epoch = 0 /\ posted = 0 /\ pperr = 0
  /\ expired = 0 /\ arms = 0 /\ ids = 0 /\ cap = 0 /\ patient = 0 /\ rep = 0
  /\ step = 0 /\ pushing = 0 /\ inflight = 0 /\ grid_count = 0 /\ counter = 0
  /\ recv = 0 /\ poke = 0 /\ bell = 0 /\ sort_count = 0 /\ stage = 0 /\ src = 0
  /\ got = 0 /\ dst = 0 /\ pull = 0 /\ summed = 0 /\ turn = 0 /\ pSync = 0
  /\ entered = 0 /\ exited = 0 /\ kind = 0 /\ r = 0 /\ k = 0 /\ todo = 0
  /\ carry = 0 /\ mem = 0 /\ recv_eid = 0 /\ hierarchical = 0 /\ hcnt = 0
  /\ cnt = 0 /\ erb = 0 /\ cur = 0 /\ e_next = 0 /\ idx = 0 /\ pos = 0
  /\ syncs = 0 /\ base = 0 /\ off = 0 /\ f = 0 /\ add = 0 /\ incl = 0
  /\ s_tmp = 0 /\ s_carry = 0 /\ pull_ptr = 0 /\ layers = 0 /\ layer = 0
  /\ wave = 0 /\ arrived = 0 /\ lds = 0 /\ a2q = 0 /\ dq2 = 0 /\ given = 0
  /\ stream = 0 /\ cta = 0 /\ gbar = 0 /\ dest_counter = 0 /\ recv_doorbell = 0
  /\ seg = 0 /\ sc_dst = 0
BlockRest == <<arm, my_ids, replay, kernel, all_ids, a_src, rows, a_dst, part,
    out, flags, count, epoch, posted, expired, arms, ids, cap, patient, rep,
    step, pushing, inflight, grid_count, counter, recv, poke, bell,
    sort_count, src, got, dst, nvi, pull, summed, turn, pSync, entered,
    exited, kind, launch, r, k, todo, carry, mem, recv_eid, hierarchical,
    hcnt, cnt, erb, cur, sei, sti, e_next, idx, pos, phase, left, c0, s_cnt,
    s_ccnt, s_erb, s_cur, s_wcnt, gath, perr, stray, layers, layer, wave,
    arrived, lds, a2q, dq2, given, stream, cta, gbar, dest_counter,
    recv_doorbell, seg, sc_dst>>
BlockIdle ==
  /\ arm = 0 /\ my_ids = 0 /\ replay = 0 /\ kernel = 0 /\ all_ids = 0
  /\ a_src = 0 /\ rows = 0 /\ a_dst = 0 /\ part = 0 /\ out = 0 /\ flags = 0
  /\ count = 0 /\ epoch = 0 /\ posted = 0 /\ expired = 0 /\ arms = 0 /\ ids = 0
  /\ cap = 0 /\ patient = 0 /\ rep = 0 /\ step = 0 /\ pushing = 0
  /\ inflight = 0 /\ grid_count = 0 /\ counter = 0 /\ recv = 0 /\ poke = 0
  /\ bell = 0 /\ sort_count = 0 /\ src = 0 /\ got = 0 /\ dst = 0 /\ nvi = 0
  /\ pull = 0 /\ summed = 0 /\ turn = 0 /\ pSync = 0 /\ entered = 0
  /\ exited = 0 /\ kind = 0 /\ launch = 0 /\ r = 0 /\ k = 0 /\ todo = 0
  /\ carry = 0 /\ mem = 0 /\ recv_eid = 0 /\ hierarchical = 0 /\ hcnt = 0
  /\ cnt = 0 /\ erb = 0 /\ cur = 0 /\ sei = 0 /\ sti = 0 /\ e_next = 0
  /\ idx = 0 /\ pos = 0 /\ phase = 0 /\ left = 0 /\ c0 = 0 /\ s_cnt = 0
  /\ s_ccnt = 0 /\ s_erb = 0 /\ s_cur = 0 /\ s_wcnt = 0 /\ gath = 0 /\ perr = 0
  /\ stray = 0 /\ layers = 0 /\ layer = 0 /\ wave = 0 /\ arrived = 0 /\ lds = 0
  /\ a2q = 0 /\ dq2 = 0 /\ given = 0 /\ stream = 0 /\ cta = 0 /\ gbar = 0
  /\ dest_counter = 0 /\ recv_doorbell = 0 /\ seg = 0 /\ sc_dst = 0
WaveRest == <<arm, my_ids, replay, kernel, all_ids, a_src, rows, a_dst, part,
    out, flags, count, epoch, posted, expired, arms, ids, cap, patient, rep,
    step, pushing, inflight, grid_count, counter, recv, poke, bell,
    sort_count, src, got, dst, nvi, pull, summed, turn, pSync, entered,
    exited, kind, launch, r, k, todo, mem, recv_eid, hierarchical, hcnt, cnt,
    erb, cur, sei, sti, e_next, idx, pos, phase, left, c0, s_cnt, s_ccnt,
    s_erb, s_cur, s_wcnt, gath, perr, stray, syncs, add, s_tmp, s_carry,
    layers, layer, wave, arrived, lds, a2q, dq2, given, stream, cta, gbar,
    dest_counter, recv_doorbell, seg, sc_dst>>
WaveIdle ==
  /\ arm = 0 /\ my_ids = 0 /\ replay = 0 /\ kernel = 0 /\ all_ids = 0
  /\ a_src = 0 /\ rows = 0 /\ a_dst = 0 /\ part = 0 /\ out = 0 /\ flags = 0
  /\ count = 0 /\ epoch = 0 /\ posted = 0 /\ expired = 0 /\ arms = 0 /\ ids = 0
  /\ cap = 0 /\ patient = 0 /\ rep = 0 /\ step = 0 /\ pushing = 0
  /\ inflight = 0 /\ grid_count = 0 /\ counter = 0 /\ recv = 0 /\ poke = 0
  /\ bell = 0 /\ sort_count = 0 /\ src = 0 /\ got = 0 /\ dst = 0 /\ nvi = 0
  /\ pull = 0 /\ summed = 0 /\ turn = 0 /\ pSync = 0 /\ entered = 0
  /\ exited = 0 /\ kind = 0 /\ launch = 0 /\ r = 0 /\ k = 0 /\ todo = 0
  /\ mem = 0 /\ recv_eid = 0 /\ hierarchical = 0 /\ hcnt = 0 /\ cnt = 0
  /\ erb = 0 /\ cur = 0 /\ sei = 0 /\ sti = 0 /\ e_next = 0 /\ idx = 0
  /\ pos = 0 /\ phase = 0 /\ left = 0 /\ c0 = 0 /\ s_cnt = 0 /\ s_ccnt = 0
  /\ s_erb = 0 /\ s_cur = 0 /\ s_wcnt = 0 /\ gath = 0 /\ perr = 0 /\ stray = 0
  /\ syncs = 0 /\ add = 0 /\ s_tmp = 0 /\ s_carry = 0 /\ layers = 0
  /\ layer = 0 /\ wave = 0 /\ arrived = 0 /\ lds = 0 /\ a2q = 0 /\ dq2 = 0
  /\ given = 0 /\ stream = 0 /\ cta = 0 /\ gbar = 0 /\ dest_counter = 0
  /\ recv_doorbell = 0 /\ seg = 0 /\ sc_dst = 0
GemmRest == <<arm, my_ids, replay, pc, all_ids, pull_src, a_src, rows, a_dst,
    part, flags, count, epoch, posted, pperr, expired, arms, ids, cap,
    patient, rep, step, pushing, inflight, grid_count, counter, recv, poke,
    bell, sort_count, stage, src, got, dst, nvi, pull, summed, turn, pSync,
    entered, exited, kind, launch, r, k, todo, carry, mem, recv_eid,
    hierarchical, hcnt, cnt, erb, cur, sei, sti, e_next, idx, pos, phase,
    left, c0, s_cnt, s_ccnt, s_erb, s_cur, s_wcnt, gath, perr, stray, syncs,
    base, off, f, add, incl, s_tmp, s_carry, pull_ptr, given, stream, cta,
    gbar, dest_counter, recv_doorbell, seg, sc_dst>>
GemmIdle ==
  /\ arm = 0 /\ my_ids = 0 /\ replay = 0 /\ pc = 0 /\ all_ids = 0
  /\ pull_src = 0 /\ a_src = 0 /\ rows = 0 /\ a_dst = 0 /\ part = 0
  /\ flags = 0 /\ count = 0 /\ epoch = 0 /\ posted = 0 /\ pperr = 0
  /\ expired = 0 /\ arms = 0 /\ ids = 0 /\ cap = 0 /\ patient = 0 /\ rep = 0
  /\ step = 0 /\ pushing = 0 /\ inflight = 0 /\ grid_count = 0 /\ counter = 0
  /\ recv = 0 /\ poke = 0 /\ bell = 0 /\ sort_count = 0 /\ stage = 0 /\ src = 0
  /\ got = 0 /\ dst = 0 /\ nvi = 0 /\ pull = 0 /\ summed = 0 /\ turn = 0
  /\ pSync = 0 /\ entered = 0 /\ exited = 0 /\ kind = 0 /\ launch = 0 /\ r = 0
  /\ k = 0 /\ todo = 0 /\ carry = 0 /\ mem = 0 /\ recv_eid = 0
  /\ hierarchical = 0 /\ hcnt = 0 /\ cnt = 0 /\ erb = 0 /\ cur = 0 /\ sei = 0
  /\ sti = 0 /\ e_next = 0 /\ idx = 0 /\ pos = 0 /\ phase = 0 /\ left = 0
  /\ c0 = 0 /\ s_cnt = 0 /\ s_ccnt = 0 /\ s_erb = 0 /\ s_cur = 0 /\ s_wcnt = 0
  /\ gath = 0 /\ perr = 0 /\ stray = 0 /\ syncs = 0 /\ base = 0 /\ off = 0
  /\ f = 0 /\ add = 0 /\ incl = 0 /\ s_tmp = 0 /\ s_carry = 0 /\ pull_ptr = 0
  /\ given = 0 /\ stream = 0 /\ cta = 0 /\ gbar = 0 /\ dest_counter = 0
  /\ recv_doorbell = 0 /\ seg = 0 /\ sc_dst = 0
MegaRest == <<arm, my_ids, replay, kernel, pc, all_ids, pull_src, a_src, rows,
    a_dst, flags, count, epoch, posted, expired, arms, ids, cap, patient,
    step, pushing, grid_count, counter, poke, bell, src, got, dst, nvi,
    summed, turn, pSync, entered, exited, kind, launch, r, k, todo, carry,
    mem, recv_eid, hierarchical, hcnt, cnt, erb, cur, sei, sti, e_next, idx,
    pos, phase, left, c0, s_cnt, s_ccnt, s_erb, s_cur, s_wcnt, gath, perr,
    stray, syncs, base, off, f, add, incl, s_tmp, s_carry, pull_ptr, layers,
    layer, wave, arrived, lds, a2q, dq2>>
MegaIdle ==
  /\ arm = 0 /\ my_ids = 0 /\ replay = 0 /\ kernel = 0 /\ pc = 0 /\ all_ids = 0
  /\ pull_src = 0 /\ a_src = 0 /\ rows = 0 /\ a_dst = 0 /\ flags = 0
  /\ count = 0 /\ epoch = 0 /\ posted = 0 /\ expired = 0 /\ arms = 0 /\ ids = 0
  /\ cap = 0 /\ patient = 0 /\ step = 0 /\ pushing = 0 /\ grid_count = 0
  /\ counter = 0 /\ poke = 0 /\ bell = 0 /\ src = 0 /\ got = 0 /\ dst = 0
  /\ nvi = 0 /\ summed = 0 /\ turn = 0 /\ pSync = 0 /\ entered = 0
  /\ exited = 0 /\ kind = 0 /\ launch = 0 /\ r = 0 /\ k = 0 /\ todo = 0
  /\ carry = 0 /\ mem = 0 /\ recv_eid = 0 /\ hierarchical = 0 /\ hcnt = 0
  /\ cnt = 0 /\ erb = 0 /\ cur = 0 /\ sei = 0 /\ sti = 0 /\ e_next = 0
  /\ idx = 0 /\ pos = 0 /\ phase = 0 /\ left = 0 /\ c0 = 0 /\ s_cnt = 0
  /\ s_ccnt = 0 /\ s_erb = 0 /\ s_cur = 0 /\ s_wcnt = 0 /\ gath = 0 /\ perr = 0
  /\ stray = 0 /\ syncs = 0 /\ base = 0 /\ off = 0 /\ f = 0 /\ add = 0
  /\ incl = 0 /\ s_tmp = 0 /\ s_carry = 0 /\ pull_ptr = 0 /\ layers = 0
  /\ layer = 0 /\ wave = 0 /\ arrived = 0 /\ lds = 0 /\ a2q = 0 /\ dq2 = 0

Init ==
  \/ which = "pull" /\ Pull!Init /\ PullIdle
  \/ which = "layer" /\ Layer!Init /\ LayerIdle
  \/ which = "plan" /\ Plan!Init /\ PlanIdle
  \/ which = "sort" /\ Sort!Init /\ SortIdle
  \/ which = "fused" /\ Fused!Init /\ FusedIdle
  \/ which = "block" /\ Block!Init /\ BlockIdle
  \/ which = "wave" /\ Wave!Init /\ WaveIdle
  \/ which = "gemm" /\ Gemm!Init /\ GemmIdle
  \/ which = "wide" /\ Wide!Init /\ GemmIdle
  \/ which = "mega" /\ Mega!Init /\ MegaIdle
  \/ which = "alone" /\ Alone!Init /\ MegaIdle
vars == <<which, arm, my_ids, replay, kernel, pc, all_ids, pull_src, a_src,
    rows, a_dst, part, out, flags, count, epoch, posted, pperr, expired, arms,
    ids, cap, patient, rep, step, pushing, inflight, grid_count, counter,
    recv, poke, bell, sort_count, stage, src, got, dst, nvi, pull, summed,
    turn, pSync, entered, exited, kind, launch, r, k, todo, carry, mem,
    recv_eid, hierarchical, hcnt, cnt, erb, cur, sei, sti, e_next, idx, pos,
    phase, left, c0, s_cnt, s_ccnt, s_erb, s_cur, s_wcnt, gath, perr, stray,
    syncs, base, off, f, add, incl, s_tmp, s_carry, pull_ptr, layers, layer,
    wave, arrived, lds, a2q, dq2, given, stream, cta, gbar, dest_counter,
    recv_doorbell, seg, sc_dst>>

(* The end of a behaviour: no other state is a dead end.                   *)
Ended ==
  \/ which = "pull" /\ replay = [x \in 0 .. 1 |-> 2] /\ kernel = [x \in 0 .. 1 |-> "idle"]
  \/ which = "plan" /\ Plan!planned /\ r = 1 /\ launch = 2
  \/ which = "sort" /\ Sort!sorted /\ launch = 2
  \/ which = "fused" /\ Fused!sorted /\ launch = 2
  \/ which = "block" /\ Block!finished
  \/ which = "wave" /\ pc = "done"
  \/ which = "gemm" /\ Gemm!Ended
  \/ which = "wide" /\ Wide!Ended
  \/ which = "mega" /\ Mega!Ended
  \/ which = "alone" /\ Alone!Ended

Next ==
  \/ /\ UNCHANGED which
     /\ \/ which = "pull" /\ Pull!Next /\ UNCHANGED PullRest
        \/ which = "layer" /\ Layer!Next /\ UNCHANGED LayerRest
        \/ which = "plan" /\ Plan!Next /\ UNCHANGED PlanRest
        \/ which = "sort" /\ Sort!Next /\ UNCHANGED SortRest
        \/ which = "fused" /\ Fused!Next /\ UNCHANGED FusedRest
        \/ which = "block" /\ Block!Next /\ UNCHANGED BlockRest
        \/ which = "wave" /\ Wave!Next /\ UNCHANGED WaveRest
        \/ which = "gemm" /\ Gemm!Next /\ UNCHANGED GemmRest
        \/ which = "wide" /\ Wide!Next /\ UNCHANGED GemmRest
        \/ which = "mega" /\ Mega!Next /\ UNCHANGED MegaRest
        \/ which = "alone" /\ Alone!Next /\ UNCHANGED MegaRest
  \/ Ended /\ UNCHANGED vars

Spec == Init /\ [][Next]_vars

-----------------------------------------------------------------------------
ASSUME Assumptions == /\ Pull!K0dPullAssumption
                      /\ Layer!K0pfPrefillAssumption
                      /\ Plan!RoutePlanAssumption
                      /\ Sort!DestSortAssumption
                      /\ Fused!FusedSortAssumption
                      /\ Block!CsrAssumption /\ Block!BlockScanAssumption
                      /\ Wave!CsrAssumption /\ Wave!WaveScanAssumption
                      /\ Gemm!ExpertGemmAssumption /\ Wide!ExpertGemmAssumption
                      /\ Mega!K0pf3MegaAssumption /\ Alone!K0pf3MegaAssumption

TypeOK == CASE which = "pull" -> Pull!TypeOK
            [] which = "layer" -> Layer!TypeOK
            [] which = "plan" -> Plan!TypeOK
            [] which = "sort" -> Sort!TypeOK
            [] which = "fused" -> Fused!TypeOK
            [] which = "block" -> Block!TypeOK
            [] which = "gemm" -> Gemm!TypeOK
            [] which = "wide" -> Wide!TypeOK
            [] which = "mega" -> Mega!TypeOK
            [] which = "alone" -> Alone!TypeOK
            [] OTHER -> TRUE

(* The output of a combine is this replay's or an error word is set, in    *)
(* whatever order the pull arms follow each other, one wait giving up, and *)
(* in prefill through shmem barriers, doorbells, time-outs and overflow,   *)
(* with the push in two kernels or fused in one; the expert GEMM adds to a *)
(* token's row the addend of each of its sorted rows once, of the right    *)
(* operands (k0d_fused, k0d_gather_zero, k0d_combine; k0pf3_qpush,         *)
(* k0pf_combine; k0pf3_mega; n1g_fused_moe, n2_phase1, n2_phase2).         *)
OutputCorrect == /\ which = "pull" => Pull!OutputCorrect
                 /\ which = "layer" => Layer!OutputCorrect
                 /\ which = "mega" => Mega!OutputCorrect
                 /\ which = "alone" => Alone!OutputCorrect
                 /\ which = "gemm" => Gemm!OutputExact
                 /\ which = "wide" => Wide!OutputExact

(* Rows a peer still has to fetch are not quantised over, and partial rows *)
(* a peer's combine still has to pull are not cleared; every row of the    *)
(* hand-over between the GEMM kernels is this layer's (k0d_fused,          *)
(* k0d_gather_zero, k0pf_quant, k0pf_combine; n2_phase1).                  *)
BuffersStable ==
  /\ which = "pull" => Pull!SourceStable /\ Pull!PartStable
  /\ which = "layer" => Layer!SourceStable /\ Layer!PartStable
  /\ which = "gemm" => Gemm!HandoffFresh
  /\ which = "wide" => Wide!HandoffFresh

(* Between replays the counters of the folded arm agree with its flags, and*)
(* the allocator is reset between the last claim of a replay and the first *)
(* of the next (k0d_fused, k0d_combine; k0pf3_dsort).                      *)
CountersAgree == /\ which = "pull" => Pull!EpochsAgree
                 /\ which = "layer" => Layer!ResetExact

(* Too much for a buffer shows in the error word, and so does every write  *)
(* past one (k0pf3_qpush; kernels/plan; cursors_sei of hkp_sort.hpp;       *)
(* k0d_fused).                                                             *)
OverflowReported ==
  /\ which = "layer" => Layer!OverflowReported
  /\ which = "plan" => Plan!OverflowReported /\ Plan!StrayReported
  /\ which = "sort" => Sort!OverflowReported
  /\ which = "fused" => Fused!OverflowReported

(* Plans and segments without an error bit are exact whatever the launch   *)
(* before left behind: what a rank's plan pulls, its peers' plans gather   *)
(* there; lists are not filled before their pointers are final             *)
(* (kernels/plan, hkp_sort.hpp, csr_scan_block256, csr_scan_warp64,        *)
(* k0pf3_mega, k0d_fused).                                                 *)
PlansExact ==
  /\ which = "plan" => Plan!PlanExact /\ Plan!PullMeetsGather
  /\ which = "sort" => Sort!SegmentsExact
  /\ which = "fused" => Fused!SegmentsExact
  /\ which = "block" => Block!PlanExact /\ Block!PointersFinal
  /\ which = "wave" => Wave!PlanExact
  /\ which = "mega" => Mega!SegmentsExact
  /\ which = "alone" => Alone!SegmentsExact

(* No position of the sort is written twice in a launch, and overflow is   *)
(* only reported of segments that do not fit (hkp_sort.hpp).               *)
SortFaithful == [][which = "sort" => Sort!WritesOnce /\ Sort!NoAlarm]_vars

(* Every replay of the pull arms can go on to its end, and no barrier of   *)
(* the block scan waits for a thread that is gone.                         *)
NeverStuck == /\ which = "pull" => Pull!NeverStuck
              /\ which = "block" => Block!NeverStuck
=============================================================================
