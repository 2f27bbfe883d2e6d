------------------------------ MODULE K0dDecode ------------------------------
(* One decode layer of the push arms, on every rank of the node: route and *)
(* quantised rows are pushed into the owners' receive buffers and a        *)
(* doorbell published; the owner waits for all doorbells, sorts the rows   *)
(* by expert and clears its partial sums, the expert GEMM adds into them,  *)
(* and k0d_combine pulls them back after a cross-rank barrier.  The layer  *)
(* is replayed without any synchronisation by the host, on buffers and     *)
(* counters that are reused by every replay.                               *)
(*                                                                         *)
(* One launch of k0d_mega, or (split) k0d_push then k0d_dsort,             *)
(* then the two GEMM phases and k0d_combine                *)
(* (harness/region_ab.py, k0d_mega_body and k0d_pd_body).                  *)
(*                                                                         *)
(* A row's bytes are its origin: the rank, token and replay that pushed it *)
(* and the expert ids sent along.  A partial sum is the set of its         *)
(* addends; where an addend lies in an expert segment is DestSort's        *)
(* subject.  Stores and result-less atomics on a peer are posted: they     *)
(* take effect later and in any order, unless a system fence of the CTA or *)
(* the end of the kernel completes them.                                   *)
EXTENDS HkpSync, FiniteSets

CONSTANTS World,        \* ranks
          Grid,         \* gridDim.x of every launch
          T,            \* tokens per rank
          E,            \* experts per rank
          MaxReplay,    \* bound: replays of the layer
          Scenarios     \* what to replay, a set of records:
                        \* split: k0d_push and k0d_dsort are two launches
                        \* rows: T_loc_max, the rows of a receive buffer
                        \* inputs: possible my_ids, token -> set of experts
                        \* giving_up: bounded waits that reach spin_limit

Rank  == 0 .. World - 1
Block == 0 .. Grid - 1
Token == 0 .. T - 1

ASSUME K0dDecodeAssumption ==
         /\ World \in Nat \ {0} /\ T \in Nat \ {0} /\ E \in Nat \ {0}
         /\ MaxReplay \in Nat
         /\ Grid \in Nat /\ Grid >= 3     \* planner, CSR builder, clearers
         /\ \A x \in Scenarios :
              /\ x.inputs \subseteq [Token -> SUBSET (0 .. World * E - 1)]
              /\ x.split \in BOOLEAN /\ x.giving_up \in Nat
              /\ x.rows \in Nat \ {0}

(* The bits of pperr this model raises.                                    *)
ErrArrival == 8
Overflow == 128
ErrDoorbell == 1024
ErrTloc == 2048
ErrGrid == 8192
ErrBits == {ErrArrival, Overflow, ErrDoorbell, ErrTloc, ErrGrid}

VARIABLES
  scenario,
  \* the stream of a rank
  kernel,        \* the launch in progress
  pc,            \* pc[r][c]: where CTA c of that launch is
  replay,        \* replays started
  my_ids,        \* routing of the replay in progress
  \* symmetric memory, written by peers
  dest_counter, recv, recv_doorbell, arr_flags,
  \* symmetric memory, read by peers
  part,
  \* memory of the rank
  grid_count, gbar, sort_count, arr_count,
  pull_stage, pull_src,     \* token -> {<<producer, row>>}
  counted,                  \* pairs <<row, expert>> the segments are sized for
  sti,                      \* pairs scattered into the segments
  sc_dst,                   \* row -> origin of the transposed scales
  out,                      \* token -> addends of the combined output
  pperr,
  \* registers of a CTA
  todo,          \* <<token, destination>> still to be pushed
  epoch,         \* sort epoch: the doorbell value the CTA waits for
  s_N,           \* combine epoch: the arrival flags the CTA waits for
  T_loc,         \* live rows
  target,        \* grid-barrier target
  \* the fabric
  posted,        \* stores and pokes that have not taken effect
  expired        \* bounded waits that have reached spin_limit so far

stream   == <<scenario, kernel, pc, replay, my_ids>>
inbox    == <<dest_counter, recv, recv_doorbell, arr_flags>>
counters == <<grid_count, gbar, sort_count, arr_count>>
plan     == <<pull_stage, pull_src, counted, sti, sc_dst>>
regs     == <<todo, epoch, s_N, T_loc, target>>
vars == <<stream, inbox, part, counters, plan, out, pperr, regs, posted, expired>>

-----------------------------------------------------------------------------
Row == 0 .. scenario.rows - 1

owner(e) == e \div E
dests(ids) == {owner(e) : e \in ids}
local_experts(r) == {e \in 0 .. World * E - 1 : owner(e) = r}

(* What a pushed row carries.                                              *)
Origin(r, tau) ==
  [src |-> r, tau |-> tau, replay |-> replay[r], ids |-> my_ids[r][tau]]
NoRow == [src |-> -1, tau |-> -1, replay |-> 0, ids |-> {}]

Garbage == <<-1, -1, -1, -1, -1>>        \* entries nobody wrote for this replay
NotWritten == {<<-2, -2, -2, -2, -2>>}   \* an output row the host has cleared

(* CTA 0 plans and scatters first: work is dealt out by index.             *)
mine(c, S) == {x \in S : x % Grid = c}

addends(d, o) == {<<d, o.src, o.tau, o.replay, e>> : e \in o.ids \cap local_experts(d)}
expected(r, tau) == UNION {addends(d, Origin(r, tau)) : d \in Rank}

TypeOK ==
  /\ scenario \in Scenarios
  /\ kernel \in [Rank -> {"idle", "push", "mega", "dsort", "gemm", "combine"}]
  /\ pc \in [Rank -> [Block -> {"start", "push", "wait", "plan", "gbar",
                                "scatter", "tail", "pull", "done"}]]
  /\ replay \in [Rank -> 0 .. MaxReplay]
  /\ my_ids \in [Rank -> scenario.inputs]
  /\ dest_counter \in [Rank -> Nat]
  /\ recv_doorbell \in [Rank -> [Rank -> 0 .. CounterMod - 1]]
  /\ arr_flags \in [Rank -> [Rank -> 0 .. CounterMod - 1]]
  /\ grid_count \in [Rank -> 0 .. CounterMod - 1]
  /\ gbar \in [Rank -> 0 .. CounterMod - 1]
  /\ sort_count \in [Rank -> 0 .. CounterMod - 1]
  /\ arr_count \in [Rank -> 0 .. CounterMod - 1]
  /\ pull_stage \in [Rank -> [Token -> SUBSET (Rank \X Nat)]]
  /\ pull_src \in [Rank -> [Token -> SUBSET (Rank \X Nat)]]
  /\ counted \in [Rank -> SUBSET (Row \X (0 .. World * E - 1))]
  /\ sti \in [Rank -> SUBSET (Row \X (0 .. World * E - 1))]
  /\ pperr \in [Rank -> SUBSET ErrBits]
  /\ expired \in 0 .. scenario.giving_up
  /\ todo \in [Rank -> [Block -> SUBSET (Token \X Rank)]]
  /\ epoch \in [Rank -> [Block -> 0 .. CounterMod - 1]]
  /\ s_N \in [Rank -> [Block -> Nat]]
  /\ T_loc \in [Rank -> [Block -> 0 .. scenario.rows]]
  /\ target \in [Rank -> [Block -> Nat]]

Init ==
  /\ scenario \in Scenarios
  /\ kernel = [r \in Rank |-> "idle"]
  /\ pc = [r \in Rank |-> [c \in Block |-> "done"]]
  /\ replay = [r \in Rank |-> 0]
  /\ \E ids \in scenario.inputs : my_ids = [r \in Rank |-> ids]
  /\ dest_counter = [r \in Rank |-> 0]
  /\ recv = [r \in Rank |-> [t \in Row |-> NoRow]]
  /\ recv_doorbell = [r \in Rank |-> [s \in Rank |-> 0]]
  /\ arr_flags = [r \in Rank |-> [s \in Rank |-> 0]]
  /\ part = [r \in Rank |-> [t \in Row |-> {Garbage}]]
  /\ grid_count = [r \in Rank |-> 0]
  /\ gbar = [r \in Rank |-> 0]
  /\ sort_count = [r \in Rank |-> 0]
  /\ arr_count = [r \in Rank |-> 0]
  /\ pull_stage = [r \in Rank |-> [tau \in Token |-> {}]]
  /\ pull_src = [r \in Rank |-> [tau \in Token |-> {}]]
  /\ counted = [r \in Rank |-> {}]
  /\ sti = [r \in Rank |-> {}]
  /\ sc_dst = [r \in Rank |-> [t \in Row |-> NoRow]]
  /\ out = [r \in Rank |-> [tau \in Token |-> NotWritten]]
  /\ pperr = [r \in Rank |-> {}]
  /\ todo = [r \in Rank |-> [c \in Block |-> {}]]
  /\ epoch = [r \in Rank |-> [c \in Block |-> 0]]
  /\ s_N = [r \in Rank |-> [c \in Block |-> 0]]
  /\ T_loc = [r \in Rank |-> [c \in Block |-> 0]]
  /\ target = [r \in Rank |-> [c \in Block |-> 0]]
  /\ posted = {}
  /\ expired = 0

-----------------------------------------------------------------------------
(* The stream of a rank: a kernel starts when its predecessor has ended,   *)
(* and the end of a kernel completes what it posted.                       *)
begin(r, k) == /\ kernel' = [kernel EXCEPT ![r] = k]
               /\ pc' = [pc EXCEPT ![r] = [c \in Block |-> "start"]]

at(r, c, label) == pc[r][c] = label
goto(r, c, label) == pc' = [pc EXCEPT ![r][c] = label]

time_out == expired < scenario.giving_up /\ expired' = expired + 1

raise(r, bits) == pperr' = [pperr EXCEPT ![r] = @ \cup bits]

(* Quantisation and the routing of the next replay precede the push in the *)
(* stream; the replayed graph does not wait for any other rank.            *)
Launch(r) == /\ kernel[r] = "idle"
             /\ replay[r] < MaxReplay
             /\ replay' = [replay EXCEPT ![r] = @ + 1]
             /\ \E ids \in scenario.inputs : my_ids' = [my_ids EXCEPT ![r] = ids]
             /\ begin(r, IF scenario.split THEN "push" ELSE "mega")
             /\ UNCHANGED <<scenario, inbox, part, counters, plan, out, pperr, regs,
                            posted, expired>>

successor(k) == CASE k = "push" -> "dsort"
                  [] k \in {"mega", "dsort"} -> "gemm"
                  [] k = "gemm" -> "combine"
                  [] k = "combine" -> "idle"

KernelEnd(r) == /\ kernel[r] \in {"push", "mega", "dsort", "combine"}
                /\ \A c \in Block : at(r, c, "done")
                /\ \A m \in posted : m.from # r
                /\ kernel' = [kernel EXCEPT ![r] = successor(@)]
                /\ pc' = IF kernel[r] = "combine" THEN pc
                         ELSE [pc EXCEPT ![r] = [c \in Block |-> "start"]]
                /\ UNCHANGED <<scenario, replay, my_ids, inbox, part, counters, plan,
                               out, pperr, regs, posted, expired>>

(* A CTA starts: it reads the epoch cell, and owns the warps of its tokens.*)
sorts(r) == kernel[r] \in {"mega", "dsort"}
Start(r, c) ==
  /\ kernel[r] \in {"push", "mega", "dsort"}
  /\ at(r, c, "start")
  /\ epoch' = IF sorts(r)
              THEN [epoch EXCEPT ![r][c] = epoch_from_cell(sort_count[r])]
              ELSE epoch
  /\ IF kernel[r] = "dsort"
     THEN goto(r, c, "wait") /\ UNCHANGED <<todo, pull_stage>>
     ELSE /\ goto(r, c, "push")
          /\ todo' = [todo EXCEPT ![r][c] =
               UNION {{tau} \X dests(my_ids[r][tau]) : tau \in mine(c, Token)}]
          /\ pull_stage' = [pull_stage EXCEPT ![r] =
               [tau \in Token |-> IF tau \in mine(c, Token) THEN {} ELSE @[tau]]]
  /\ UNCHANGED <<scenario, kernel, replay, my_ids, inbox, part, counters, pull_src,
                 counted, sti, sc_dst, out, pperr, s_N, T_loc, target, posted,
                 expired>>

-----------------------------------------------------------------------------
(* M1.  One row per token and destination rank, claimed on the owner; a    *)
(* row past the buffer is recorded but carries no payload.                 *)
Push(r, c) ==
  /\ at(r, c, "push")
  /\ \E p \in todo[r][c] :
       LET tau == p[1]   d == p[2]   row == dest_counter[d] IN
       /\ dest_counter' = [dest_counter EXCEPT ![d] = @ + 1]
       /\ pull_stage' = [pull_stage EXCEPT ![r][tau] = @ \cup {<<d, row>>}]
       /\ todo' = [todo EXCEPT ![r][c] = @ \ {p}]
       /\ IF row \in Row
          THEN /\ posted' = posted \cup
                    {[kind |-> "row", from |-> r, cta |-> c, to |-> d,
                      row |-> row, val |-> Origin(r, tau)]}
               /\ UNCHANGED pperr
          ELSE raise(r, {Overflow}) /\ UNCHANGED posted
  /\ UNCHANGED <<stream, recv, recv_doorbell, arr_flags, part, counters,
                 pull_src, counted, sti, sc_dst, out, epoch, s_N, T_loc, target,
                 expired>>

(* Mutant: no fence before the arrival.                                    *)
no_fence(r, c) == TRUE

(* A system fence returns when what the CTA has stored is visible.         *)
system_fence(r, c) ==
  \A m \in posted : ~(m.kind = "row" /\ m.from = r /\ m.cta = c)

signal(k, r) == {[kind |-> k, from |-> r, to |-> d] : d \in Rank}

(* M2.  The CTA that completes the grid rings every rank's doorbell.       *)
Publish(r, c) ==
  /\ at(r, c, "push")
  /\ todo[r][c] = {}
  /\ system_fence(r, c)
  /\ grid_count' = [grid_count EXCEPT ![r] = bump(@)]
  /\ posted' = IF last_arrival(grid_count[r], Grid)
               THEN posted \cup signal("doorbell", r) ELSE posted
  /\ goto(r, c, IF kernel[r] = "push" THEN "done" ELSE "wait")
  /\ UNCHANGED <<scenario, kernel, replay, my_ids, inbox, part, gbar, sort_count,
                 arr_count, plan, out, pperr, regs, expired>>

(* The fabric makes one posted operation take effect.                      *)
Deliver(m) ==
  /\ posted' = posted \ {m}
  /\ CASE m.kind = "row" ->
            /\ recv' = [recv EXCEPT ![m.to][m.row] = m.val]
            /\ UNCHANGED <<recv_doorbell, arr_flags>>
       [] m.kind = "doorbell" ->
            /\ recv_doorbell' = [recv_doorbell EXCEPT ![m.to][m.from] = bump(@)]
            /\ UNCHANGED <<recv, arr_flags>>
       [] m.kind = "arrival" ->
            /\ arr_flags' = [arr_flags EXCEPT ![m.to][m.from] = bump(@)]
            /\ UNCHANGED <<recv, recv_doorbell>>
  /\ UNCHANGED <<stream, dest_counter, part, counters, plan, out, pperr, regs, expired>>

-----------------------------------------------------------------------------
(* M3.  Every CTA polls the doorbells and reads the live row count, which  *)
(* it checks; CTA 0 reports a count that does not fit and nobody plans.    *)
rung(r, c) == \A s \in Rank : reached(recv_doorbell[r][s], epoch[r][c])

fits_plus_one(n) == n <= scenario.rows + 1        \* mutant: off by one
fits(n) == n <= scenario.rows

read_T_loc(r, c, bits) ==
  /\ IF fits(dest_counter[r])
     THEN /\ T_loc' = [T_loc EXCEPT ![r][c] = dest_counter[r]]
          /\ goto(r, c, "plan")
          /\ raise(r, bits)
     ELSE /\ UNCHANGED T_loc
          /\ goto(r, c, "done")
          /\ raise(r, bits \cup IF c = 0 THEN {ErrTloc} ELSE {})
  /\ UNCHANGED <<scenario, kernel, replay, my_ids, inbox, part, counters, plan, out,
                 todo, epoch, s_N, target, posted>>

Acquire(r, c) == /\ sorts(r)
                 /\ at(r, c, "wait")
                 /\ rung(r, c)
                 /\ read_T_loc(r, c, {})
                 /\ UNCHANGED expired

(* Mutant: the time-out proceeds without setting its bit.                  *)
AcquireTimeOutSilent(r, c) == /\ time_out
                              /\ sorts(r)
                              /\ at(r, c, "wait")
                              /\ ~rung(r, c)
                              /\ read_T_loc(r, c, {})

AcquireTimeOut(r, c) == /\ time_out
                        /\ sorts(r)
                        /\ at(r, c, "wait")
                        /\ ~rung(r, c)
                        /\ read_T_loc(r, c, {ErrDoorbell})

live(r, c) == 0 .. T_loc[r][c] - 1
pairs(r, rows) ==
  {p \in rows \X local_experts(r) : p[2] \in recv[r][p[1]].ids}

(* The live rows that clearing CTA c is dealt.                             *)
cleared(r, c) == {t \in live(r, c) : t % (Grid - 2) = c - 2}

(* M4.  CTA 0 sizes the expert segments, CTA 1 builds the combine's pull   *)
(* lists, the others clear the live partial rows and transpose the scales. *)
plan_work(r, c) ==
  CASE c = 0 -> /\ counted' = [counted EXCEPT ![r] = pairs(r, live(r, c))]
                /\ sti' = [sti EXCEPT ![r] = {}]
                /\ UNCHANGED <<part, sc_dst, pull_src>>
    [] c = 1 -> /\ pull_src' = [pull_src EXCEPT ![r] = pull_stage[r]]
                /\ UNCHANGED <<part, sc_dst, counted, sti>>
    [] OTHER ->
         LET rows == cleared(r, c) IN
         /\ part' = [part EXCEPT ![r] =
                       [t \in Row |-> IF t \in rows THEN {} ELSE @[t]]]
         /\ sc_dst' = [sc_dst EXCEPT ![r] =
                       [t \in Row |-> IF t \in rows THEN recv[r][t] ELSE @[t]]]
         /\ UNCHANGED <<pull_src, counted, sti>>

(* Each CTA does its share of the plan and arrives at the grid barrier.    *)
Plan(r, c) ==
  /\ at(r, c, "plan")
  /\ plan_work(r, c)
  /\ gbar' = [gbar EXCEPT ![r] = bump(@)]
  /\ target' = [target EXCEPT ![r][c] = grid_target(gbar[r], Grid)]
  /\ goto(r, c, "gbar")
  /\ UNCHANGED <<scenario, kernel, replay, my_ids, inbox, grid_count, sort_count,
                 arr_count, pull_stage, out, pperr, todo, epoch, s_N, T_loc, posted,
                 expired>>

opened_early(r, c) == reached(gbar[r] + 1, target[r][c])       \* mutant
opened(r, c) == reached(gbar[r], target[r][c])

cross(r, c, bits) ==
  /\ goto(r, c, "scatter")
  /\ raise(r, bits)
  /\ UNCHANGED <<scenario, kernel, replay, my_ids, inbox, part, counters, plan, out,
                 regs, posted>>

Cross(r, c) == /\ at(r, c, "gbar")
               /\ opened(r, c)
               /\ cross(r, c, {})
               /\ UNCHANGED expired

CrossTimeOut(r, c) == /\ time_out
                      /\ at(r, c, "gbar")
                      /\ ~opened(r, c)
                      /\ cross(r, c, {ErrGrid})

Scatter(r, c) ==
  /\ at(r, c, "scatter")
  /\ sti' = [sti EXCEPT ![r] = @ \cup pairs(r, mine(c, live(r, c)))]
  /\ goto(r, c, IF c = 0 THEN "tail" ELSE "done")
  /\ UNCHANGED <<scenario, kernel, replay, my_ids, inbox, part, counters, pull_stage,
                 pull_src, counted, sc_dst, out, pperr, regs, posted, expired>>

(* Mutant: the epoch cell is not advanced.                                 *)
TailKeepsEpoch(r, c) ==
  /\ at(r, c, "tail")
  /\ dest_counter' = [dest_counter EXCEPT ![r] = 0]
  /\ goto(r, c, "done")
  /\ UNCHANGED <<scenario, kernel, replay, my_ids, recv, recv_doorbell, arr_flags, part,
                 counters, plan, out, pperr, regs, posted, expired>>

(* CTA 0 gives the receive buffer back: no producer may have started on    *)
(* the next epoch's rows.                                                  *)
Tail(r, c) ==
  /\ at(r, c, "tail")
  /\ dest_counter' = [dest_counter EXCEPT ![r] = 0]
  /\ sort_count' = [sort_count EXCEPT ![r] = epoch[r][c]]
  /\ goto(r, c, "done")
  /\ UNCHANGED <<scenario, kernel, replay, my_ids, recv, recv_doorbell, arr_flags, part,
                 grid_count, gbar, arr_count, plan, out, pperr, regs, posted, expired>>

-----------------------------------------------------------------------------
(* The two GEMM launches: every scattered pair adds its expert's share to  *)
(* its row.  Segments that were not filled exactly hold stale entries.     *)
products(r, t) ==
  IF sti[r] = counted[r] /\ sc_dst[r][t] = recv[r][t]
  THEN UNION {addends(r, [recv[r][t] EXCEPT !.ids = {p[2]}]) :
                p \in {q \in sti[r] : q[1] = t}}
  ELSE {Garbage}

Gemm(r) ==
  /\ kernel[r] = "gemm"
  /\ part' = [part EXCEPT ![r] = [t \in Row |-> @[t] \cup products(r, t)]]
  /\ begin(r, successor("gemm"))
  /\ UNCHANGED <<scenario, replay, my_ids, inbox, counters, plan, out, pperr, regs,
                 posted, expired>>

(* k0d_combine, head: one more cross-rank barrier, on its own flags.       *)
Arrive(r, c) ==
  LET old == arr_count[r] IN
  /\ kernel[r] = "combine"
  /\ at(r, c, "start")
  /\ arr_count' = [arr_count EXCEPT ![r] = bump(@)]
  /\ s_N' = [s_N EXCEPT ![r][c] = epoch_from_cumulative(old, Grid)]
  /\ posted' = IF last_arrival(old, Grid)
               THEN posted \cup signal("arrival", r) ELSE posted
  /\ goto(r, c, "wait")
  /\ UNCHANGED <<scenario, kernel, replay, my_ids, inbox, part, grid_count, gbar,
                 sort_count, plan, out, pperr, todo, epoch, T_loc, target, expired>>

own_arrived(r, c) == reached(arr_flags[r][r], s_N[r][c])       \* mutant
all_arrived(r, c) == \A s \in Rank : reached(arr_flags[r][s], s_N[r][c])

enter(r, c, bits) ==
  /\ goto(r, c, "pull")
  /\ raise(r, bits)
  /\ UNCHANGED <<scenario, kernel, replay, my_ids, inbox, part, counters, plan, out,
                 regs, posted>>

Enter(r, c) == /\ kernel[r] = "combine"
               /\ at(r, c, "wait")
               /\ all_arrived(r, c)
               /\ enter(r, c, {})
               /\ UNCHANGED expired

EnterTimeOut(r, c) == /\ time_out
                      /\ kernel[r] = "combine"
                      /\ at(r, c, "wait")
                      /\ ~all_arrived(r, c)
                      /\ enter(r, c, {ErrArrival})

(* k0d_combine, body: the rows of a token are summed where they lie.       *)
row_sum(d, row) == IF row \in Row THEN part[d][row] ELSE {Garbage}

Pull(r, c) ==
  /\ at(r, c, "pull")
  /\ out' = [out EXCEPT ![r] =
       [tau \in Token |-> IF tau \in mine(c, Token)
                          THEN UNION {row_sum(p[1], p[2]) : p \in pull_src[r][tau]}
                          ELSE @[tau]]]
  /\ goto(r, c, "done")
  /\ UNCHANGED <<scenario, kernel, replay, my_ids, inbox, part, counters, plan, pperr,
                 regs, posted, expired>>

(* Between replays the host may join the ranks, look at the error words    *)
(* and the outputs, and clear both before it goes on (harness gates).      *)
joined == /\ \A r \in Rank : kernel[r] = "idle" /\ replay[r] = replay[0]
          /\ posted = {}
Gate == /\ joined
        /\ \E r \in Rank : pperr[r] # {}
        /\ replay[0] < MaxReplay
        /\ pperr' = [r \in Rank |-> {}]
        /\ out' = [r \in Rank |-> [tau \in Token |-> NotWritten]]
        /\ UNCHANGED <<stream, inbox, part, counters, plan, regs, posted, expired>>

-----------------------------------------------------------------------------
Wait(r, c) == Acquire(r, c) \/ Cross(r, c) \/ Enter(r, c)
TimeOut(r, c) == AcquireTimeOut(r, c) \/ CrossTimeOut(r, c) \/ EnterTimeOut(r, c)
Work(r, c) == \/ Start(r, c) \/ Push(r, c) \/ Publish(r, c) \/ Plan(r, c)
              \/ Scatter(r, c) \/ Tail(r, c) \/ Arrive(r, c) \/ Pull(r, c)

Next == \/ \E r \in Rank : Launch(r) \/ KernelEnd(r) \/ Gemm(r)
        \/ \E r \in Rank, c \in Block : Work(r, c) \/ Wait(r, c) \/ TimeOut(r, c)
        \/ \E m \in posted : Deliver(m)
        \/ Gate

Spec == Init /\ [][Next]_vars

(* The 16 CTAs of a launch are co-resident, streams are served, and posted *)
(* operations land.                                                        *)
Fairness == /\ \A r \in Rank : WF_vars(Launch(r) \/ KernelEnd(r) \/ Gemm(r))
            /\ \A r \in Rank, c \in Block : WF_vars(Work(r, c) \/ Wait(r, c))
            /\ WF_vars(\E m \in posted : Deliver(m))
FairSpec == Spec /\ Fairness

-----------------------------------------------------------------------------
clean == \A r \in Rank : pperr[r] = {}

(* The output of a finished replay is exactly the sum over the token's     *)
(* experts of this replay's partial results, or some rank's error word is  *)
(* set: nothing that times out, overflows, or is left over from an earlier *)
(* replay is ever combined silently (the all-rank pperr == 0 gates of      *)
(* harness/region_ab.py rest on this).                                     *)
OutputCorrect ==
  clean => \A r \in Rank : kernel[r] = "idle" /\ replay[r] > 0 =>
             \A tau \in Token : out[r][tau] \in {NotWritten, expected(r, tau)}

(* From the moment a CTA has acquired the doorbells to the end of the GEMM *)
(* nobody writes the receive buffer, and its live rows are this replay's   *)
(* (k0d_push.hip:8: stream order prevents push(N+1) from overwriting the   *)
(* buffers epoch N uses).                                                  *)
consuming(r, c) == \/ kernel[r] = "gemm"
                   \/ pc[r][c] \in {"plan", "gbar", "scatter", "tail"}
ReceiveStable ==
  clean => \A r \in Rank, c \in Block : consuming(r, c) =>
             /\ \A m \in posted : ~(m.kind = "row" /\ m.to = r)
             /\ \A t \in live(r, c) : recv[r][t].replay = replay[r]

(* No rank clears or accumulates partial rows for a replay while a combine *)
(* of an earlier replay is still to pull them (k0d_mega.hip:2-3: waiting   *)
(* for every peer also proves the previous epoch's combines have stopped   *)
(* reading part).                                                          *)
rewriting(r) == \/ kernel[r] = "gemm"
                \/ \E c \in Block : c >= 2 /\ pc[r][c] = "plan"
PartStable ==
  clean => \A r, q \in Rank :
             rewriting(r) => ~(kernel[q] = "combine" /\ replay[q] < replay[r])

(* The reset of the row allocator loses no claim: when CTA 0 zeroes it,    *)
(* the rows claimed are those the plan was made for (hkp_alloc.hpp:4-5).   *)
ResetExact ==
  clean => \A r \in Rank : pc[r][0] = "tail" => dest_counter[r] = T_loc[r][0]

(* Every replay of every rank completes: the doorbell and arrival waits of *)
(* the ranks, and the grid barriers inside them, never wait in a circle.   *)
Completes ==
  <>(\A r \in Rank : kernel[r] = "idle" /\ replay[r] = MaxReplay)
=============================================================================
