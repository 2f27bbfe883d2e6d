# TLA+ models and proofs of MoE-Kittens

MoE-Kittens runs one expert-parallel mixture-of-experts layer on the GPUs
(*ranks*) of one node. Kernels write into the memory of other ranks and
synchronise with counters in that memory; the whole layer is a captured graph
that is replayed, on the same buffers and counters, without the host taking
part. It carries its baseline with it: mori, which does the same with dispatch
and combine kernels over several transports. What is hard to test in all of it
is what depends on the order in which ranks, CTAs, waves, copy engines, NICs
and posted stores happen to act. This directory models that, checks it with
TLC, and proves the barriers, the decode layer in its push and pull arms and
the destination sort for every size with TLAPS.

All paths are relative to `src/`; mori's to `src/baseline/mori/`.

1. Inventory - 2. Modules - 3. Runs - 4. Proofs - 5. What is not modelled -
6. Where code and documentation part - 7. Seen in passing - 8. Plan

## 1. Inventory

| part | state it keeps | operations | what makes it correct |
|---|---|---|---|
| peer barrier: `kernels/hkp/hkp_sync.hpp`, `kernels/decode/k0d_barrier.hip`, head of `k0d_combine.hip` | cumulative arrival counter, one flag per source rank, epoch cell, error word `pperr` | arrive and publish, poll with a spin limit, time out, next launch | nobody leaves before everybody arrived, or an error bit is set; everybody leaves |
| grid barrier: `hkp_sync.hpp`, inlined in `k0d_mega`, `k0d_dsort`, `k0pf3_dsort`, `k0pf3_mega` | cumulative counter | arrive, poll, time out | phases are separated although the counter is never reset |
| decode push pipeline: `k0d_push.hip`, `k0d_dsort.hip` or `k0d_mega.hip`, GEMM, `k0d_combine.hip` | receive buffers and their row allocator, doorbells, partial sums, pull plan, expert segments, output | claim a row on a peer and push, fence and publish, wait, plan, cross, scatter, reset, accumulate, pull | the output is this replay's or an error word is set; no buffer is reused while in use; the reset loses no claim; no circular wait |
| decode pull pipeline: `k0d_fused.hip`, `k0d_gather_zero.hip`, `k0d_combine.hip` | source rows, gathered rows, partial sums, plan, quantisation, arrival and completion epochs | all-gather routes, plan, lagging wait, quantise, publish, clear and gather, accumulate, pull, signal | as above; nothing is overwritten while a peer still reads it; the epochs stay in step |
| destination sort: `hkp_sort.hpp`, `prefill/k0pf4_dsort.hip`; sort of `k0d_fused` | histograms, counts, offsets, cursors, segments, block labels | count, reduce, scan, pad, claim, store | segments are exact; nothing is written twice; overflow is reported, and only overflow |
| pull plan: `hkp_sort.hpp`, inlined in most kernels | per-thread registers, LDS, row pointers, lists | block scan, wave scan, carry, fill | row pointers are prefix sums; lists have neither gaps nor overlaps; barriers are met by all threads |
| route plans: `kernels/plan/*` | chunk tables, row and gather maps, frozen plan, workspace | count, prefix, order, pad, check, kernel by kernel | what a rank pulls its peers gather there; too much of anything sets a bit |
| prefill pipeline: `kernels/prefill/*` | as the push and the pull pipeline, with shmem's barrier between launches | quantise, push, sort, gather, accumulate, combine; the fused push arm in one launch | as the push pipeline, in any order of the arms that share buffers |
| expert GEMM: `kernels/gemm/*` | LDS of persistent CTAs, tile buffers, shared maxima, the quantised hand-over between two kernels | stage, load, multiply, reduce, quantise, add | every scattered pair once, of the right operands; no wave overwrites what another reads |
| mori dispatch and combine: `src/ops/dispatch_combine/*` | staging and receive buffers, allocators, maps, counts, flags, generations | dispatch, record and replay a routing, combine, cross-device barrier; between nodes in chunks by proxy; asynchronous over copy engines or queue pairs | every token once at every rank it is sent to; sums are this layer's; allocators and words ready for the next call |
| mori shmem: `include/mori/shmem` | symmetric memory, send and completion queues, barrier words | put, get, atomics, signals, quiet, fence, waits, barrier | entries once and in order; a quiet means done; a signal follows its data |
| mori transports: `include/mori/core/transport`, `application/transport` | rings of copy engines and NICs, doorbells | reserve, write, submit, drain | rings are not overwritten, doorbells follow the reservations |
| mori collectives and cco: `include/mori/collective`, `include/mori/cco` | slots, flags, generations; inboxes, shadows, contexts | all-gather, all-to-all, all-reduce; put, signal, flush, barriers | data of this call and no other; nobody passes a barrier early or waits for good |
| harness: `harness/region_ab.py` | captured graphs, gates, statistics | replay, gate, report | a gate sees every error |

How they interact: launches of a rank follow each other in a stream, and the
end of a launch completes what it posted. In decode ranks meet in two places
only: the doorbells between push and sort, and the arrival flags at the head
of the combine; in prefill shmem's barrier stands between launches. Inside a
launch CTAs meet at grid barriers, threads at `__syncthreads`. Errors are bits
of `pperr`; no wait stops the kernel, so everything after a wait that gave up
runs on whatever is there, and only the host's gates look at the bits.

Hard behaviour: posted stores that land late and in any order; ranks up to a
replay apart on shared buffers; counters that are never reset, words that are;
waits that time out and are ignored; early returns that skip a reset; atomic
cursors; LDS read and written between two barriers; sums carried across tiles;
rings that wrap while several warps fill and drain them. Nothing is persisted
and no rank restarts, so there is no crash recovery. The hazards are listed
line by line in `PROJECT.json`, each with the properties that would notice it.

## 2. Modules

The kernels of this repository:

| module | models | state and actions |
|---|---|---|
| `HkpSync` | the counter arithmetic of `hkp_sync.hpp`, modulo `CounterMod` (2^32) | operators |
| `Barrier` | abstract: a fail-closed barrier between workers | workers arrive, leave when all arrived, or fail |
| `PeerBarrier` | `publish_after_writes`, `wait_before_reads`, `k0d_barrier`, the head of `k0d_combine` | `Arrive`, `Deliver` (a posted poke lands), `Pass`, `TimeOut`, `NextLaunch` |
| `GridBarrier` | `grid_barrier` | `Arrive`, `Pass`, `TimeOut` |
| `K0dDecode` | one decode layer of the push arms on all ranks, replayed | one action per phase of a CTA: `Start`, `Push`, `Publish`, `Acquire`, `Plan`, `Cross`, `Scatter`, `Tail`, `Arrive`, `Enter`, `Pull`; time-out variants of the three waits; `Deliver` for the fabric; `Launch`, `KernelEnd`, `Gemm` for the stream; `Gate` for the host |
| `K0dDecodeBarriers` | maps the barriers inside `K0dDecode` to the two barrier modules | refinement mappings |
| `K0dPull` | one decode layer of the pull arms `k0d_s`, `k0d_sq`, `k0d_sq_b2f`, `k0d_f` on all ranks, replayed in any order of arms | `Plan`, `Combined`, `Quantise` (`k0d_fused`); `BarrierArrive`, `BarrierPass` (`k0d_barrier`); `ClearRow`, `FetchRow` (`k0d_gather_zero`, per row); `Gemm`; `Arrive`, `Enter`, `Pull`, `SignalDone` (`k0d_combine`, per CTA); time-out variants; `Deliver`; `Launch`, `KernelEnd`; `Host` |
| `K0dPullInv` | what the counters, flags and buffers of `K0dPull` stand for | the invariant of its proofs |
| `DestSort` | the destination sort, both counting schemes (`hierarchical`) | one action per phase; `AddColumn`, `Scan`, `Pad`, `Claim` and `Store` per turn of their loops |
| `FusedSort` | the stable sort of `k0d_fused` | wave by wave between the barriers of its CTA |
| `Csr` | the pull plan's data and what it must be | operators |
| `BlockScan` | `csr_scan_block256`, `pull_src_fill`, `e12_tof_kernel`'s prefix | one action per thread and stretch of code between two barriers |
| `WaveScan` | the scans by one wave | `Load`, `Shuffle`, `Publish`, `Fill`, `NextTile` |
| `RoutePlan` | `tile_plan`, `k0pf_frozen_plan` ("tile"), `k0pf_plan` ("prod") | a block of a kernel is a step, in any order within the kernel |
| `K0pfPrefill` | the prefill layer: pull and push arms sharing buffers, with `ShmemBarrier`'s steps | launches of the stream, push by CTA, the two ends of the sort, time-outs, overflow |
| `K0pf3Mega` | `k0pf3_mega`, CTA by CTA | grid barrier, plan, scans, clearing, scatter, reset |
| `ExpertGemm` | `n1g_fused_moe`; `n2_phase1` and `n2_phase2` | tasks, waves, LDS, the K pipeline, hand-over, atomic adds |

The baseline:

| module | models |
|---|---|
| `ShmemBarrier` | `ShmemInternalBarrierThread`, whose words are cleared by their reader |
| `MoriIntraNode` | dispatch (staged and low-latency) and combine (pull and push) inside a node, recorded routing, the cross-device barrier |
| `MoriInterNode` | dispatch and combine between nodes: chunks, proxies, counts, the low-latency kernels, replayed routing |
| `MoriAsync` | the asynchronous dispatch and combine over copy engines or queue pairs |
| `MoriCombineData` | which lane touches which elements of a combine, with which block's scale |
| `ShmemOps` | shmem's operations over peer-to-peer memory and copy engines |
| `Ibgda` | shmem's send queue on mlx5, bnxt and psd: room, doorbells, completions, result words |
| `RdmaPost` | what goes into that queue: lanes served peer by peer and chunk by chunk, entries in each NIC's format, packet numbers, signals, doorbells; psd's completions polled by all lanes |
| `SdmaQueue` | anvil's ring to a copy engine and mori's puts on it |
| `SdmaCollectives` | all-gather, all-to-all, two-shot all-reduce over copy engines |
| `IntraNodeReduce` | the all-reduce of the intra-node executor, eager and captured into graphs, with its four kernels |
| `CcoQueue`, `CcoBarriers` | cco's queue pairs and its two barriers |

`MC*` modules hold small inputs. Three of them select: a behaviour of
`MCKernels` is a behaviour of one of `K0dPull`, `K0pfPrefill`, `RoutePlan`,
`DestSort`, `FusedSort`, `BlockScan`, `WaveScan`, `ExpertGemm` (two shapes) or
`K0pf3Mega` (two shapes), chosen by `which` in the first state; the other
variables stay 0. `MCMoriEp` selects among `MoriIntraNode`, `MoriInterNode`
(three shapes) and `MoriCombineData`; `MCTransport` among `SdmaCollectives`,
`SdmaQueue`, `Ibgda`, `RdmaPost`, `CcoQueue`, `ShmemOps`, `CcoBarriers`,
`IntraNodeReduce` and `MoriAsync` (two shapes). A property of a selector is the conjunction of the properties of
that kind of its components, which are stated in their modules. `*Proofs`
modules hold theorems, `K0dDecodeInv` and `K0dPullInv` the invariants of the
two longest.

Abstractions. A row's bytes are its origin (rank, token, replay, expert ids);
a partial sum is the set of its addends, so a stale or doubled addend shows
and arithmetic does not. `Push` merges the claim with the posting of the
payload; the payload lands on its own, any time before the CTA's system fence
completes. `Publish` is the fence, the arrival and the pokes: nothing else can
see the arrival without the pokes being posted. Planning CTAs act in one step
each (CTA 0 sorts, CTA 1 builds the pull plan, the others clear and
transpose): their interleavings are the subject of `DestSort`, `BlockScan` and
`K0pf3Mega`. The combine's per-token sum is one step per CTA. A GEMM is one
step per launch in the pipelines, wave by wave in `ExpertGemm`. In `K0dPull` a
route is the set of ranks that own one of a token's experts, since the protocol
sees nothing finer; `k0d_sq` is `k0d_s` with the quantisation in a launch of its
own right after the plan, which the model does not tell apart. Loops that deal
work out by index give index `i` to thread `i % Grid`, as the code does. In
`ExpertGemm` LDS and registers hold tags; fragment layouts, swizzles and
rounding are left out. In `K0pf3Mega` a CTA has one warp, and a wait and what
follows it are one action. NICs and copy engines are modelled from how the code
uses them: entries carried out once, in order where the code relies on it, and
reported when asked for. `Ibgda` and `RdmaPost` share the send queue: in
`RdmaPost` a drain of mlx5 or bnxt takes over the count that was reported,
which is what `Ibgda` shows it does, and a fetch's result is left to `Ibgda`.

Mutated forms of definitions stand beside the definitions they mutate and are
named as mutants; nothing uses them, and each breaks a property when it takes
its original's place.

## 3. Runs

| run | configuration | asks |
|---|---|---|
| `decode` | 2 ranks, 3 CTAs, 1 token each, 2 experts per rank, 2 replays; routing chosen anew in every replay with room for all; both ranks' rows in room for one; push and sort in two launches with any one wait giving up; the host may clear the error words | outputs are this replay's (`OutputCorrect`), receive buffers are not written while consumed (`ReceiveStable`), partial sums are not cleared under a peer's combine (`PartStable`), the reset loses no claim (`ResetExact`), or an error word is set |
| `decode_live` | the same sizes, fairness, no failures | both replays complete on both ranks, and the embedded barriers are `PeerBarrier` and `GridBarrier` step by step |
| `peer_barrier`, `grid_barrier` | 2 ranks of 2 CTAs, 3 launches; 4 CTAs, 3 phases; any wait may time out; fairness | separation, refinement of `Barrier`, and everybody gets through (`Progress`; in the grid barrier unless a wait timed out) |
| `shmem_barrier` | 4 PEs, 3 rounds, fairness | separation, clean words, refinement of `Barrier`, progress |
| `kernels` | each component with sizes of its own (`MCKernels` names every input) | outputs, plans and segments exact or an error bit; buffers stable; counters agree; overflow reported; no double write and no false alarm; nobody stuck |
| `mori_ep` | 2 ranks (once 4), up to 3 rounds; for the data, rows of seven sizes in every codec, by one to three warps | received exactly once, sums exact, words ready for the next call, nothing overwritten before it is read |
| `transport` | rings of 4 entries gone round twice, a completion counter of 3 bits, 2 or 3 producers; for the entries a ring of 8, two warps of up to 3 lanes, 2 peers, chunks of 2 bytes; for the all-reduce 2 ranks of 2 blocks, two or three calls | entries once, in order, intact until acknowledged and right for their chunks; completions true, barriers hold, collectives exact, shards kept, nobody stuck |
| `peer_wrap`, `wave_tiles`, `all_reduce_sum`, `ibgda_prompt` | | violated: section 6 |

Why these bounds are enough. The protocol state that survives a replay is the
epoch, the allocator and the stale contents of buffers: two replays show every
reuse, and a rank can be at most one replay ahead. Two ranks have all pairs of
roles (early and late, producer and owner, own flag and peer's flag); the code
treats all peers alike. Three CTAs are the fewest that have the planner, the
CSR builder and a clearer. In the pull arms, one-sided routes leave one rank
with nothing to gather, so that it runs ahead as far as the flags let it, and
two replays take every pair of arms one after the other. Two tiles and two scan
rounds show every carry and every neighbour read. One time-out per behaviour
reaches every bounded wait's exit; two together are not explored by the runs,
but the theorems allow any number. Rings of four entries wrap within the
programs given; the completion counter is wider than the ring, as in the code.
What the bounds of the decode layer cannot show is what the proofs are for.

Fairness. Only the four runs that check liveness assume any. Weak fairness of
every CTA's progress step: the grid has 16 CTAs of 256 threads with
`__launch_bounds__(256, 8)` on a device with many more compute units, so all
are resident and none waits for another to be scheduled. Weak fairness of
delivery: a posted store or atomic lands. Weak fairness of the stream. None
for time-outs, nor for the host's gate. `NeverStuck` in the other runs is a
safety property: until everything is done, somebody can take a step that is
not a time-out.

## 4. Proofs

All theorems hold for every number of ranks, CTAs, tokens, experts and
replays, from the assumptions on the constants (which TLC evaluates) and the
hypotheses named below. Each component has an inductive invariant of its own,
which TLC checked before it was proved.

**The barriers** (`PeerBarrierProofs`, `GridBarrierProofs`,
`ShmemBarrierProofs`): type correctness, separation, and `Implements`, that the
barrier is the abstract fail-closed one of `Barrier`; for shmem also that its
words are clean. `Separation` is not inductive: it speaks of arrivals, but a CTA
looks at flags. The invariant ties them together. For the peer barrier: the
arrival counter is a whole number of launches plus the CTAs present
(`CountInv`), so the epoch an arrival computes is the launch's number and the
last arrival is the one that completes the grid (`TargetInv`); a flag plus the
pokes on their way to it is the number of grids its source completed
(`SentInv`), so a flag that has reached the epoch witnesses a completed grid;
hence a clean rank has only left when every rank's grid was complete
(`CleanInv`). A time-out sets the rank's bit and leaves the invariant alone. For
the grid barrier: while no wait has timed out, the counter is the complete
phases plus the number of waiting CTAs one phase ahead; everybody is in one of
two neighbouring phases. For shmem's: an arrival word is set or under way
exactly while its PE waits and the coordinator has not collected it, a release
word exactly from the coordinator's release to the PE's reading it.

**The barriers of cco** (`CcoBarriersProofs`): `CcoTypeCorrect`, `CcoSeparates`
(`Separation`) and `CcoDataSeen` (`DataSeen`), together `CcoBarrierHolds`
(`BarrierHolds`), for every number of ranks,
barriers, sessions and waits given up, and every even width of the epoch from 4
on; no other hypothesis. `CcoInvariance` is the invariant behind them, one half
for each barrier. Between ranks of a node a slot holds an epoch modulo the word,
which alone says nothing: the invariant reads it from the sender's side, as how
many barriers ago the sender stored it (`back`), and says that this barrier is
one the receiver has not gone past and the sender has fenced (`SlotInv`), that
stores on their way are of later ones in order (`StoreInv`), and that data is
behind by no more than the barrier being fenced (`FencedInv`). Hence nothing in
a slot is more than two barriers old (`Window`), which is what makes entering
one more harmless, and the half-range comparison of `waitInternal` is not taken
in by the arrival at the barrier just passed (`Ahead`). Across nodes the n-th
request on a queue is a put or a signal as n is odd or even; the signals
received and the data seen are each half of what has been carried out
(`QueueInv`), and the shadow counts the barriers seen (`SignalInv`).

**The push arms of the decode layer** (`K0dDecodeInv` and the two modules that
extend it, one after the other):

| module | theorem | says |
|---|---|---|
| `K0dDecodeSyncProofs` | `TypeCorrect` | types and places, whatever gives up or overflows |
| | `ProtocolCorrect`, `ResetLosesNothing`, `PartSumsStable` | what counters, flags and targets stand for; `ResetExact`; `PartStable` |
| `K0dDecodeDataProofs` | `ReceiveCorrect`, `ReceiveBufferStable` | whose rows a receive buffer holds; `ReceiveStable` |
| | `SumCorrect`, `OutputsCorrect`, `PatientWaits` | plans, partial sums, outputs; `OutputCorrect`; all of it without the hypothesis on the gate where waits are patient |
| | `NeverAlarmed`, `OutputsAlwaysExact` | where buffers have room and waits patience, no error word is ever set and every output is the expected one |
| | `HeadImplements`, `SortImplements`, `BarriersAreImplemented` | the barriers inside the layer are `PeerBarrier` and `GridBarrier` step by step: what is proved of them holds in the layer |

The argument goes in layers, each of which needs the one before.

1. `TypeInv`: every CTA is in a place of its kernel, what is posted comes from
   a CTA that may post it.
2. `CoreInv`: as long as no wait has given up, each counter is whole replays
   plus the CTAs that have come so far (`CountInv`); a flag and the signal on
   its way to it make up the replays of its sender (`FlagInv`); so epochs and
   targets are the replay's (`TargetInv`) and no rank is more than the barriers
   allow ahead of another (`SyncInv`). A rank plans with the count as it stays
   until CTA 0 resets it (`CountedInv`). A rank that found too many rows never
   advances its epoch again; the others get no further than its arrival flag
   lets them, and an error word is set, or the host has cleared it and the rank
   has yet to look at the count again (`EarlyInv`). `ResetExact` and
   `PartStable` follow.
3. `ReceiveInv`: every row below the count belongs to exactly one token of the
   replay the buffer collects, with the payload in it or on its way
   (`ClaimInv`); what is on its way was claimed (`RowInv`); senders' lists hold
   one row for each destination not still to do (`StageInv`, `TodoInv`).
   `ReceiveStable` follows: a later replay's row would need its sender past a
   barrier that this rank has not reached.
4. `SumInv`: the plan covers the live rows (`PlanInv`), a finished GEMM's partial
   rows are the sums their tokens want (`PartInv`), written outputs are the
   expected ones (`OutInv`). `OutputCorrect` follows.
5. `RoomInv`: with room for `World * T` rows nobody's count exceeds them, because
   claims are distinct rows of distinct tokens; with patience nothing else sets
   a bit. `HeadInv`: after a time-out, when the layers above no longer hold,
   what the arrival counter and flags stand for still does, which is why
   `HeadImplements` needs neither room nor patience.

The hypotheses. `NoWrap`: replays times CTAs stay below the counters' width;
what happens beyond is section 6. `TrustedGate`: the host does not clear the
error words and go on after a wait has given up. `harness/region_ab.py` raises
when a phase has seen an error word (its gates around lines 2922-2943), and the
hypothesis cannot be dropped: after a time-out of all CTAs of a rank a late
peer's row stays claimed behind the reset, and a host that cleared the word and
went on would replay with a stale live row. Clearing the words after an
overflow is allowed and covered. `Roomy`: the buffers have a row for every token
of the node, which `region_ab.py:94-96` insists on, and waits do not give up.
Neither makes the theorems empty: `PatientWaits` has no hypothesis on the host,
and `NeverAlarmed` says that "or an error word is set" is not how the
properties hold.

**The pull arms of the decode layer** (`K0dPullInv`, `K0dPullProofs`): for every
number of ranks, CTAs, tokens and replays, every routing, any order of arms and
any number of time-outs. The only hypothesis beside the ranges of the constants
is `NoWrap`.

| theorem | says |
|---|---|
| `PullCountersRight`, `PullEpochsAgree` | types, and what counters and flags stand for; `EpochsAgree`; both whatever has timed out |
| `PullInvariance`, `PullTypeCorrect` | the whole invariant; `TypeOK` |
| `PullOutputCorrect` | `OutputCorrect` |
| `PullSourceStable`, `PullPartStable` | `SourceStable`, `PartStable` |

The six counters and their flags are treated alike, as *channels*: a channel is
used by some arms, belongs to one launch, has one member or as many as the grid
has CTAs, and a rank has told it when its last member has come. Two layers.

1. `CountersInv` holds whatever gives up. A counter is the rank's level times
   the width of the channel, plus the members present (`CountInv`); a flag and
   the poke on its way to it make up its sender's level (`SentInv`). A level
   cannot be the number of replays, since an arm does not advance the channels
   of the others; but levels of two ranks differ by as much as the replays in
   which the two have told the channel (`LevelInv`), and so do those of the three
   channels of the folded arm (`AgreeInv`). A waiting CTA's epoch is the level its
   rank has or is about to have (`EpochInv`). `EpochsAgree` is what is left of
   this where the ranks are joined.
2. While no error word is set, `SyncInv`: who is through a channel's wait has seen
   every rank tell it in this replay, and in the folded arm who has got past the
   lagging wait has seen every combine of the replay before completed. With it,
   the invariant says whose rows are where: gathered rows are this replay's
   (`GatherInv`), partial rows are the sums that a rank of the same replay is to
   pull (`PartInv`), written outputs are the expected ones (`OutInv`). That the plan
   is that of the routes (`PlanInv`) and the source rows those quantised last
   (`SourceInv`) needs no clean error word.

Why the arms are right is in `SyncInv`. The folded arm has no wait before a rank
clears partial rows: what protects them is the wait for the completion flags of
the previous epoch two launches earlier, before the quantisation. The source
rows are protected twice: a rank gets out of its own combine only after every
rank has arrived there, behind its gather; and the completion flags say so
again. With standalone barriers the first one does it all. The host may
clear the error words between replays, when it changes the arm and all ranks are
idle with nothing on its way (`Host`): the counters are right whatever timed out
before, and these arms claim nothing that a late peer could leave behind, so the
next replay is as good as the first. No hypothesis on the gate is needed here.

**The destination sort** (`DestSortProofs`): for every grid, block size,
number of experts and positions, routing and counting scheme, over any number
of launches that reuse the scratch, `SortExact` (`SegmentsExact`),
`SortReports` (`OverflowReported`), `SortWritesOnce` and `SortNoAlarm`; the run
`kernels` checks the same four on its instance. The only hypothesis is
`DestSortAssumption`, the ranges of the constants. The invariant once more in
layers: where the threads can be together (`PlaceInv`); the counts, column by
column (`CountInv`); the layout of the scan, turn by turn, in whole blocks with
none left out (`ScanInv`), so that segments and blocks are disjoint; the plan
(`PlanInv`); the claims (`ClaimInv`: a cursor is its segment's start plus the
number of pairs claimed, hence never past the expert's last pair, whatever the
order); what this launch has not written yet (`FreshInv`), which is why nothing
is written twice: pairs and padding of a segment never meet, a held position is
one thread's, a row to pad waits for one thread; and what has been written
(`StoreInv`), from which exactness follows when all threads are through. The
scan and the reduction are loops of steps in the model, as in the code, so that
no induction over data is needed.

Out of the prover's reach, and left to TLC: liveness (`Completes`, `Progress`)
and `NeverStuck`, which speaks of ENABLED; what recursive definitions compute
(`Csr`'s prefix sums and lists, `RoutePlan`, the block sums of
`MoriCombineData`). Only checked, not proved: the invariants of prefill, the
plans, the GEMM, the scans and the baseline but for the barriers of shmem and cco.
The runs check the properties of the pull arms and of the sort through the
selector `MCKernels`, those of cco's barriers through `BarrierHolds` of
`MCTransport`; the theorems state them as their components do.

## 5. What is not modelled

* `k0_region_kernels`, `k0d_phase_marker`, conversions, stores, layouts, MFMA
  pipelines: data the properties do not tell apart.
* The variant `K0D_SORT_SERIAL` of `k0d_fused` (same ranks, one thread); its
  limit checks, which depend on the launch parameters alone; changes of
  `my_ids` while a replay is under way, which nothing in the kernel guards
  against and the harness does not make.
* The weak-memory effects inside a CTA beyond what fences and barriers order;
  memory between a device-scope release and acquire is taken as coherent.
* Several time-outs in one behaviour in the runs of the pipelines (the proofs
  allow them); counters past the wrap except in `peer_wrap` and `CcoBarriers`.
* mori's older kernels between nodes (`internode.hpp`), its older all-reduce
  executors, `WarpAccumPipelineImpl` (behind `#if 0`), queue-pair set-up,
  bootstrap, io, metrics, profiler; aiter's fused MoE; the build.
* The harness's measurements and reports.

## 6. Where code and documentation part

* `peer_wrap`: the epoch of a launch is derived from a 32-bit count of CTA
  arrivals, which wraps gridDim times earlier than the flags; from then on the
  barrier lets everybody through without an error bit.
* `wave_tiles`: `k0d_fused` carries the sum of a tile of 64 tokens in lane 63
  only; its guard admits more than 64 tokens per rank when there are fewer than
  8 ranks.
* `all_reduce_sum`: the second kernel of the two-shot all-reduce puts sums into
  slots that a slower PE's first kernel still reads.
* `ibgda_prompt`: on bnxt a NIC that completes before the host of the queue has
  noted its doorbell makes the count of entries done run ahead.

## 7. Seen in passing

Found while reading, outside the checked instances or excluded by an
assumption there; none is a run.

* The push kernels take a negative expert id for one of rank -1
  (`k0pf3_mega.hip:86-103` and its like).
* The grid barrier's target is computed as 0 in the phase that fills the
  counter (`hkp_sync.hpp:166`): one phase in 2^28 at 16 CTAs does not wait.
* After a grid time-out of `k0pf3_mega` the arrivals of the next phase are out
  of step; all waits then end by their limit and the bit stays set.
* `k0d_fused`'s pad loop writes before it notices that it is past `PADMAX`, and
  its error word tells of the last replay only.
* `Ibgda`, `RdmaPost`: a put with signal to an address asks for a completion
  with its last chunk only (`shmem_ibgda_kernels.hpp:2092`): one of more chunks
  than the ring has room for, or two at once, wait for ever. With a signal of
  each lane, a lane that is through a round before the others sends none
  (lines 936 and 1008), nor does a put of no bytes (line 863). On bnxt a
  fetching atomic reads its result before it is known to be there; on psd a
  quiet ignores how far it was to drain.
* `CcoQueue`: two warps on one bnxt queue pair can take slots and packet
  numbers in opposite orders; an aggregated put that nobody flushes holds up a
  later default put. `CcoBarriers`: lanes leave a timed-out wait apart.
* `IntraNodeReduce`: `cross_device_reduce_1stage` ends without the barrier its
  plain form has (`kernel_impl.cuh:209`), so the next call's copy may change
  what a slower peer still adds; `OutputExact` says how far that goes.
* `SdmaCollectives`: a block that reads its generation after block 0 has
  broadcast it waits for ever (`BroadcastMissed`).
* `SdmaQueue`: `SdmaPutThread` is for one producer only; `SdmaPutWarp` gives
  every queue the same start of the source.
* `MoriIntraNode`: two dispatches without a combine between them are not
  supported; overflow is an assertion. `MoriInterNode`: the count can be
  cleared before it has come when every chunk of a region is sent; the default
  `rdmaBlockNum` of 1 loses rows unless the receivers divide it; expert ids out
  of range leave a stale map entry.
* `ShmemOps`: puts with signal and fetches over copy engines are stubs; a
  64-bit immediate to an object is cut to 32 bits
  (`shmem_device_api.hpp:414-418`); object and address versions of the warp's
  put with signal differ in who signals; `ShmemPtrP2p` does not return 0 where
  its comment says it does.

## 8. Plan

1. *Done:* barriers, both decode pipelines, prefill, plans, sorts, scans, GEMM,
   the baseline's dispatch, combine and transports; proofs of the barriers, those
   of shmem and cco included, of the push and pull arms of the decode layer and of the destination sort.
2. Proofs about prefill, `OutputCorrect` first: its launches are those of the
   decode layer with `ShmemBarrier` between them, so that the invariant of the
   pull arms is where to start from.
