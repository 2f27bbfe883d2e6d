------------------------------- MODULE K0dPull -------------------------------
(* One decode layer of the pull arms, on every rank of the node: k0d_fused *)
(* gathers the routes of all ranks, plans, and quantises the rank's own    *)
(* tokens into a_src; k0d_gather_zero clears the partial rows and pulls    *)
(* the rows of other ranks' a_src; after the GEMM, k0d_combine pulls the   *)
(* partial rows back (harness/region_ab.py, k0d_s_body, k0d_sq_b2f_body,   *)
(* k0d_f_body).                                                            *)
(*                                                                         *)
(* The arms differ in what keeps the ranks apart: "s" has two launches of  *)
(* k0d_barrier, "b2f" the first of them and the head of k0d_combine, and   *)
(* "f" has flags only: quantised (per row of the gather), arrived (head of *)
(* the combine), and combined (of the previous epoch, before quantising).  *)
(* The harness replays them in one process on the same buffers, each with  *)
(* flags of its own, and joins the ranks before it goes from one to        *)
(* another.                                                                *)
(*                                                                         *)
(* Routing gives a token the set of ranks that own one of its experts; it  *)
(* changes when the ranks are joined, as in the harness: nothing orders    *)
(* k0d_fused's reads of the peers' my_ids.  The bytes of a row are the     *)
(* replay that quantised them.                                             *)
EXTENDS HkpSync, FiniteSets

CONSTANTS World,        \* ranks
          Grid,         \* CTAs of k0d_combine
          T,            \* tokens per rank
          Inputs,       \* possible routes: rank -> token -> set of ranks
          Arms,         \* arms the host replays
          MaxTimeOut,   \* bound: bounded waits that reach spin_limit
          MaxReplay     \* bound: replays of the layer

Rank  == 0 .. World - 1
Block == 0 .. Grid - 1
Token == 0 .. T - 1
Gtok  == Rank \X Token          \* gtok = rank * T + token
Row   == 0 .. World * T - 1     \* T_loc_max is world * T: every row fits

K0dPullAssumption ==
         /\ World \in Nat \ {0} /\ Grid \in Nat \ {0} /\ T \in Nat \ {0}
         /\ Inputs \subseteq [Rank -> [Token -> SUBSET Rank]]
         /\ Arms \subseteq {"s", "b2f", "f"}
         /\ MaxTimeOut \in Nat /\ MaxReplay \in Nat

ErrBarrier == 1
ErrCombined == 2
ErrQuantised == 4
ErrArrival == 8
ErrBits == {ErrBarrier, ErrCombined, ErrQuantised, ErrArrival}

(* One pair <flags, count> each; the folded heads of two arms differ.      *)
Channel == {"b1", "b2", "quant", "comb", "arr_f", "arr_b2f"}

VARIABLES
  arm, my_ids, replay,
  kernel, pc,               \* launch in progress; where its CTAs are
  all_ids, pull_src,        \* the plan of a rank: routes, producers' rows
  a_src,                    \* token -> replay that quantised it
  rows,                     \* gather: what is left to do for a live row
  a_dst, part, out,
  flags, count, epoch,      \* epoch: the register a wait compares with
  posted, pperr, expired

stream == <<kernel, pc, replay>>
host   == <<arm, my_ids>>
sync   == <<flags, count, epoch, posted>>
data   == <<all_ids, pull_src, a_src, rows, a_dst, part, out>>
vars   == <<stream, host, sync, data, pperr, expired>>

Garbage == <<-1, -1, -1, -1>>            \* bytes of an earlier use
NotWritten == {<<-2, -2, -2, -2>>}       \* an output the host has cleared

-----------------------------------------------------------------------------
(* The plan, as k0d_fused computes it from the gathered routes: producers  *)
(* number the tokens they own in global order.                             *)
before(g, h) == g[1] * T + g[2] < h[1] * T + h[2]
own(ids, p) == {g \in Gtok : p \in ids[g[1]][g[2]]}

tof(ids, p, g) == Cardinality({h \in own(ids, p) : before(h, g)})

T_loc(r) == Cardinality(own(all_ids[r], r))
gath(r, t) == CHOOSE g \in own(all_ids[r], r) : tof(all_ids[r], r, g) = t

TypeOK ==
  /\ arm \in Arms /\ my_ids \in Inputs /\ replay \in [Rank -> 0 .. MaxReplay]
  /\ kernel \in [Rank -> {"idle", "fused", "b1", "gather", "gemm", "b2", "combine"}]
  /\ pc \in [Rank -> [Block -> {"start", "wait", "quant", "pull", "signal", "done"}]]
  /\ all_ids \in [Rank -> Inputs]
  /\ pull_src \in [Rank -> [Token -> SUBSET (Rank \X Row)]]
  /\ a_src \in [Rank -> [Token -> 0 .. MaxReplay]]
  /\ rows \in [Rank -> [Row -> {"clear", "fetch", "done"}]]
  /\ flags \in [Channel -> [Rank -> [Rank -> 0 .. CounterMod - 1]]]
  /\ count \in [Channel -> [Rank -> 0 .. CounterMod - 1]]
  /\ epoch \in [Rank -> [Block -> Nat]]
  /\ pperr \in [Rank -> SUBSET ErrBits]
  /\ expired \in 0 .. MaxTimeOut

Init ==
  /\ arm \in Arms /\ my_ids \in Inputs
  /\ replay = [r \in Rank |-> 0]
  /\ kernel = [r \in Rank |-> "idle"]
  /\ pc = [r \in Rank |-> [c \in Block |-> "done"]]
  /\ all_ids = [r \in Rank |-> my_ids]
  /\ pull_src = [r \in Rank |-> [tau \in Token |-> {}]]
  /\ a_src = [r \in Rank |-> [tau \in Token |-> 0]]
  /\ rows = [r \in Rank |-> [t \in Row |-> "done"]]
  /\ a_dst = [r \in Rank |-> [t \in Row |-> Garbage]]
  /\ part = [r \in Rank |-> [t \in Row |-> {Garbage}]]
  /\ out = [r \in Rank |-> [tau \in Token |-> NotWritten]]
  /\ flags = [ch \in Channel |-> [r \in Rank |-> [s \in Rank |-> 0]]]
  /\ count = [ch \in Channel |-> [r \in Rank |-> 0]]
  /\ epoch = [r \in Rank |-> [c \in Block |-> 0]]
  /\ posted = {}
  /\ pperr = [r \in Rank |-> {}]
  /\ expired = 0

-----------------------------------------------------------------------------
at(r, c, k, label) == kernel[r] = k /\ pc[r][c] = label
goto(r, c, label) == pc' = [pc EXCEPT ![r][c] = label]
raise(r, bits) == pperr' = [pperr EXCEPT ![r] = @ \cup bits]
time_out == expired < MaxTimeOut /\ expired' = expired + 1

signal(ch, r) == {[ch |-> ch, from |-> r, to |-> d] : d \in Rank}
all_reached(ch, r, e) == \A s \in Rank : reached(flags[ch][r][s], e)

Deliver(m) == /\ posted' = posted \ {m}
              /\ flags' = [flags EXCEPT ![m.ch][m.to][m.from] = bump(@)]
              /\ UNCHANGED <<stream, host, count, epoch, data, pperr, expired>>

(* The stream: launches of an arm in order; the end of a launch completes  *)
(* what it posted.  The gather has a warp for every live row, the other    *)
(* kernels but the combine one CTA.                                        *)
successor(k) ==
  CASE k = "fused"   -> IF arm = "f" THEN "gather" ELSE "b1"
    [] k = "b1"      -> "gather"
    [] k = "gather"  -> "gemm"
    [] k = "gemm"    -> IF arm = "s" THEN "b2" ELSE "combine"
    [] k = "b2"      -> "combine"
    [] k = "combine" -> "idle"

ctas(k) == CASE k = "combine" -> Block
             [] k \in {"fused", "b1", "b2"} -> {0}
             [] OTHER -> {}

begin(r, k) ==
  /\ kernel' = [kernel EXCEPT ![r] = k]
  /\ pc' = [pc EXCEPT ![r] = [c \in Block |-> IF c \in ctas(k) THEN "start"
                                              ELSE "done"]]
  /\ rows' = IF k = "gather"
             THEN [rows EXCEPT ![r] = [t \in Row |-> IF t < T_loc(r) THEN "clear"
                                                     ELSE "done"]]
             ELSE rows

Launch(r) == /\ kernel[r] = "idle"
             /\ replay[r] < MaxReplay
             /\ replay' = [replay EXCEPT ![r] = @ + 1]
             /\ begin(r, "fused")
             /\ UNCHANGED <<host, sync, all_ids, pull_src, a_src, a_dst, part, out,
                            pperr, expired>>

KernelEnd(r) == /\ kernel[r] \notin {"idle", "gemm"}
                /\ \A c \in Block : pc[r][c] = "done"
                /\ \A t \in Row : rows[r][t] = "done"
                /\ \A m \in posted : m.from # r
                /\ begin(r, successor(kernel[r]))
                /\ UNCHANGED <<replay, host, sync, all_ids, pull_src, a_src, a_dst,
                               part, out, pperr, expired>>

(* The host joins the ranks, clears outputs and error words, and goes on   *)
(* with any arm and any routes.                                            *)
Host == /\ \A r \in Rank : kernel[r] = "idle" /\ replay[r] = replay[0]
        /\ posted = {}
        /\ 0 < replay[0] /\ replay[0] < MaxReplay
        /\ arm' \in Arms /\ my_ids' \in Inputs
        /\ pperr' = [r \in Rank |-> {}]
        /\ out' = [r \in Rank |-> [tau \in Token |-> NotWritten]]
        /\ UNCHANGED <<stream, sync, all_ids, pull_src, a_src, rows, a_dst, part,
                       expired>>

-----------------------------------------------------------------------------
(* k0d_fused: routes and plan ...                                          *)
Plan(r) ==
  /\ at(r, 0, "fused", "start")
  /\ all_ids' = [all_ids EXCEPT ![r] = my_ids]
  /\ pull_src' = [pull_src EXCEPT ![r] =
       [tau \in Token |-> {<<p, tof(my_ids, p, <<r, tau>>)>> : p \in my_ids[r][tau]}]]
  /\ goto(r, 0, IF arm = "f" THEN "wait" ELSE "quant")
  /\ UNCHANGED <<kernel, replay, host, sync, a_src, rows, a_dst, part, out, pperr,
                 expired>>

(* ... the wait for the combines of the previous epoch, which have read    *)
(* part and come after the gathers that read a_src ...                     *)
epoch_current(cell) == cell

combined(r) == all_reached("comb", r, epoch_current(count["quant"][r]))

go_quantise(r, bits) == /\ goto(r, 0, "quant")
                        /\ raise(r, bits)
                        /\ UNCHANGED <<kernel, replay, host, sync, data>>

Combined(r) == /\ at(r, 0, "fused", "wait")
               /\ combined(r)
               /\ go_quantise(r, {})
               /\ UNCHANGED expired

CombinedTimeOut(r) == /\ time_out
                      /\ at(r, 0, "fused", "wait")
                      /\ ~combined(r)
                      /\ go_quantise(r, {ErrCombined})

(* ... the quantisation, and in the folded arm its publication.            *)
Quantise(r) ==
  /\ at(r, 0, "fused", "quant")
  /\ a_src' = [a_src EXCEPT ![r] = [tau \in Token |-> replay[r]]]
  /\ IF arm = "f"
     THEN /\ count' = [count EXCEPT !["quant"][r] = bump(@)]
          /\ posted' = posted \cup signal("quant", r)
     ELSE UNCHANGED <<count, posted>>
  /\ goto(r, 0, "done")
  /\ UNCHANGED <<kernel, replay, host, flags, epoch, all_ids, pull_src, rows, a_dst,
                 part, out, pperr, expired>>

(* k0d_barrier, on the flags of its place in the stream.                   *)
BarrierArrive(r) ==
  LET ch == kernel[r] IN
  /\ ch \in {"b1", "b2"}
  /\ pc[r][0] = "start"
  /\ count' = [count EXCEPT ![ch][r] = bump(@)]
  /\ epoch' = [epoch EXCEPT ![r][0] = epoch_from_cell(count[ch][r])]
  /\ posted' = posted \cup signal(ch, r)
  /\ goto(r, 0, "wait")
  /\ UNCHANGED <<kernel, replay, host, flags, data, pperr, expired>>

barrier_leave(r, bits) == /\ goto(r, 0, "done")
                          /\ raise(r, bits)
                          /\ UNCHANGED <<kernel, replay, host, sync, data>>

BarrierPass(r) == /\ kernel[r] \in {"b1", "b2"}
                  /\ pc[r][0] = "wait"
                  /\ all_reached(kernel[r], r, epoch[r][0])
                  /\ barrier_leave(r, {})
                  /\ UNCHANGED expired

BarrierTimeOut(r) == /\ time_out
                     /\ kernel[r] \in {"b1", "b2"}
                     /\ pc[r][0] = "wait"
                     /\ ~all_reached(kernel[r], r, epoch[r][0])
                     /\ barrier_leave(r, {ErrBarrier})

(* k0d_gather_zero, one warp per live row: the partial row is cleared,     *)
(* then, when the row's source rank has quantised, the row is fetched.     *)
ClearRow(r, t) == /\ kernel[r] = "gather"
                  /\ rows[r][t] = "clear"
                  /\ part' = [part EXCEPT ![r][t] = {}]
                  /\ rows' = [rows EXCEPT ![r][t] = "fetch"]
                  /\ UNCHANGED <<stream, host, sync, all_ids, pull_src, a_src, a_dst,
                                 out, pperr, expired>>

quantised(r, src) == \/ arm # "f"
                     \/ reached(flags["quant"][r][src], epoch_current(count["quant"][r]))

fetch(r, t, bits) ==
  LET g == gath(r, t) IN
  /\ a_dst' = [a_dst EXCEPT ![r][t] = <<r, g[1], g[2], a_src[g[1]][g[2]]>>]
  /\ rows' = [rows EXCEPT ![r][t] = "done"]
  /\ raise(r, bits)
  /\ UNCHANGED <<stream, host, sync, all_ids, pull_src, a_src, part, out>>

FetchRow(r, t) == /\ kernel[r] = "gather"
                  /\ rows[r][t] = "fetch"
                  /\ quantised(r, gath(r, t)[1])
                  /\ fetch(r, t, {})
                  /\ UNCHANGED expired

FetchTimeOut(r, t) == /\ time_out
                      /\ kernel[r] = "gather"
                      /\ rows[r][t] = "fetch"
                      /\ ~quantised(r, gath(r, t)[1])
                      /\ fetch(r, t, {ErrQuantised})

(* The GEMM accumulates every live row.                                    *)
Gemm(r) == /\ kernel[r] = "gemm"
           /\ part' = [part EXCEPT ![r] =
                [t \in Row |-> IF t < T_loc(r) THEN @[t] \cup {a_dst[r][t]} ELSE @[t]]]
           /\ kernel' = [kernel EXCEPT ![r] = successor("gemm")]
           /\ pc' = [pc EXCEPT ![r] = [c \in Block |->
                       IF c \in ctas(successor("gemm")) THEN "start" ELSE "done"]]
           /\ UNCHANGED <<replay, host, sync, all_ids, pull_src, a_src, rows, a_dst,
                          out, pperr, expired>>

(* k0d_combine: the arrival barrier at its head, if the arm has it, ...    *)
head == CASE arm = "f" -> "arr_f" [] arm = "b2f" -> "arr_b2f" [] OTHER -> "none"

Arrive(r, c) ==
  LET old == count[head][r] IN
  /\ at(r, c, "combine", "start")
  /\ head # "none"
  /\ count' = [count EXCEPT ![head][r] = bump(@)]
  /\ epoch' = [epoch EXCEPT ![r][c] = epoch_from_cumulative(old, Grid)]
  /\ posted' = IF last_arrival(old, Grid) THEN posted \cup signal(head, r) ELSE posted
  /\ goto(r, c, "wait")
  /\ UNCHANGED <<kernel, replay, host, flags, data, pperr, expired>>

enter(r, c, bits) == /\ goto(r, c, "pull")
                     /\ raise(r, bits)
                     /\ UNCHANGED <<kernel, replay, host, sync, data>>

Enter(r, c) == /\ \/ at(r, c, "combine", "start") /\ head = "none"
                  \/ at(r, c, "combine", "wait") /\ all_reached(head, r, epoch[r][c])
               /\ enter(r, c, {})
               /\ UNCHANGED expired

EnterTimeOut(r, c) == /\ time_out
                      /\ at(r, c, "combine", "wait")
                      /\ ~all_reached(head, r, epoch[r][c])
                      /\ enter(r, c, {ErrArrival})

(* ... the pulls of the CTA's tokens, ...                                  *)
Pull(r, c) ==
  /\ at(r, c, "combine", "pull")
  /\ out' = [out EXCEPT ![r] = [tau \in Token |->
       IF tau % Grid = c THEN UNION {part[p[1]][p[2]] : p \in pull_src[r][tau]}
       ELSE @[tau]]]
  /\ goto(r, c, IF arm = "f" THEN "signal" ELSE "done")
  /\ UNCHANGED <<kernel, replay, host, sync, all_ids, pull_src, a_src, rows, a_dst,
                 part, pperr, expired>>

(* Mutants: the first CTA to finish signals; the last one does not.        *)
combine_done_early(old) == old % Grid = 0
combine_done_never(old) == FALSE
combine_done(old) == last_arrival(old, Grid)

(* ... and the signal that the combine is done, for the next ingress.      *)
SignalDone(r, c) ==
  LET old == count["comb"][r] IN
  /\ at(r, c, "combine", "signal")
  /\ count' = [count EXCEPT !["comb"][r] = bump(@)]
  /\ posted' = IF combine_done(old) THEN posted \cup signal("comb", r) ELSE posted
  /\ goto(r, c, "done")
  /\ UNCHANGED <<kernel, replay, host, flags, epoch, data, pperr, expired>>

-----------------------------------------------------------------------------
Work(r) == \/ Plan(r) \/ Combined(r) \/ Quantise(r) \/ BarrierArrive(r)
           \/ BarrierPass(r) \/ Gemm(r) \/ Launch(r) \/ KernelEnd(r)
RowWork(r, t) == ClearRow(r, t) \/ FetchRow(r, t)
CombineWork(r, c) == Arrive(r, c) \/ Enter(r, c) \/ Pull(r, c) \/ SignalDone(r, c)
TimeOut(r) == \/ CombinedTimeOut(r) \/ BarrierTimeOut(r)
              \/ \E t \in Row : FetchTimeOut(r, t)
              \/ \E c \in Block : EnterTimeOut(r, c)

Next == \/ \E r \in Rank : Work(r) \/ TimeOut(r)
        \/ \E r \in Rank, t \in Row : RowWork(r, t)
        \/ \E r \in Rank, c \in Block : CombineWork(r, c)
        \/ \E m \in posted : Deliver(m)
        \/ Host

Spec == Init /\ [][Next]_vars

-----------------------------------------------------------------------------
clean == \A r \in Rank : pperr[r] = {}
expected(r, tau) == {<<d, r, tau, replay[r]>> : d \in my_ids[r][tau]}

(* In every arm, and from one arm to the next, the output of a finished    *)
(* combine is the sum of this replay's rows, or an error word is set       *)
(* (kernels/decode/k0d_fused.hip, k0d_gather_zero.hip, k0d_combine.hip;    *)
(* the 16-replay poison gate of harness/region_ab.py looks for the same).  *)
OutputCorrect ==
  clean => \A r \in Rank :
             kernel[r] = "combine" /\ (\A c \in Block : pc[r][c] = "done") =>
               \A tau \in Token : out[r][tau] = expected(r, tau)

(* Nobody quantises into rows that a peer still has to fetch for an        *)
(* earlier replay (k0d_fused.hip:310, "Wait before quantization reuses     *)
(* a_src or part; combine completion implies gather completion").          *)
unfetched(q, r) == \E t \in Row : rows[q][t] # "done" /\ gath(q, t)[1] = r
SourceStable ==
  clean => \A r, q \in Rank :
             at(r, 0, "fused", "quant") =>
               ~(kernel[q] = "gather" /\ replay[q] < replay[r] /\ unfetched(q, r))

overwriting(r) == \/ kernel[r] = "gemm"
                  \/ kernel[r] = "gather" /\ \E t \in Row : rows[r][t] = "clear"
pulling(q) == /\ kernel[q] = "combine"
              /\ \E c \in Block : pc[q][c] \in {"start", "wait", "pull"}

(* Nobody clears or accumulates partial rows while a combine of an earlier *)
(* replay is still to pull: the gather itself waits for nothing before it  *)
(* clears (k0d_gather_zero.hip, k0d_fused.hip:310).                        *)
PartStable ==
  clean => \A r, q \in Rank :
             overwriting(r) /\ replay[q] < replay[r] => ~pulling(q)

(* When the ranks are joined, the counters of the folded arm agree with    *)
(* its flags on every rank, whatever arms and time-outs came before: a     *)
(* replay advances each by one per launch or per CTA, never by none or     *)
(* two (harness/region_ab.py, the state deltas of the 16-replay gate).     *)
EpochsAgree ==
  (posted = {} /\ \A r \in Rank : kernel[r] = "idle" /\ replay[r] = replay[0]) =>
    \A r, s \in Rank : /\ flags["quant"][r][s] = count["quant"][r]
                       /\ flags["comb"][r][s] * Grid = count["comb"][r]
                       /\ flags["arr_f"][r][s] * Grid = count["arr_f"][r]
                       /\ count["quant"][r] = flags["comb"][r][s]
                       /\ count["quant"][r] = flags["arr_f"][r][s]

(* Until every replay of every rank is complete some rank can go on, or a  *)
(* poke can land, without any wait giving up (every step brings the end    *)
(* nearer: the replays complete, in every arm).                            *)
NeverStuck ==
  \/ \A r \in Rank : kernel[r] = "idle" /\ replay[r] = MaxReplay
  \/ posted # {}
  \/ ENABLED Host
  \/ \E r \in Rank : \/ ENABLED Work(r)
                     \/ \E t \in Row : ENABLED RowWork(r, t)
                     \/ \E c \in Block : ENABLED CombineWork(r, c)
=============================================================================
