----------------------------- MODULE K0pf3Mega ------------------------------
(* The push arm of prefill that does in one launch what k0pf3_qpush and    *)
(* k0pf3_dsort do in two: k0pf3_mega on all ranks, CTA by CTA, replay after*)
(* replay, with the GEMM, the barrier and the combine that follow it in    *)
(* the stream.  A cumulative grid barrier parts the push from the plan and *)
(* the plan from the scatter; CTA 0 plans the segments, CTA 1 scans the    *)
(* fan-outs, the others clear the partial rows; CTA 0 resets the allocator *)
(* and ends the epoch while the others may still be scattering.            *)
(*                                                                         *)
(* CTAs have one warp.  A CTA's wait and what it does when it is through   *)
(* are one action; so is its part of a phase and its arrival.  GEMM and    *)
(* barrier are as in K0pfPrefill, the barrier without its messages.        *)
EXTENDS Integers, FiniteSets, Sequences, FiniteSetsExt

CONSTANTS World, Grid,
          T, TOPK,     \* tokens per rank, experts per token
          E,           \* experts per rank
          BlockM,      \* rows of a GEMM block
          Scenarios    \* what to run: [ids, T_loc_max, PADMAX, replays, hasty]

Rank == 0 .. World - 1
Cta == 0 .. Grid - 1
Token == 0 .. T - 1
Slot == 0 .. TOPK - 1
Expert == 0 .. E - 1

(* The kernel refuses to start with fewer than three CTAs.  The experts are*)
(* valid: a negative one would claim a row of rank -1.                     *)
K0pf3MegaAssumption ==
  /\ {World, T, TOPK, E, BlockM} \subseteq Nat \ {0} /\ Grid \in Nat /\ Grid >= 3
  /\ \A x \in Scenarios :
       /\ x.ids \in [Rank -> [Token -> [Slot -> 0 .. World * E - 1]]]
       /\ {x.T_loc_max, x.PADMAX, x.replays} \subseteq Nat
       /\ x.PADMAX % BlockM = 0 /\ x.hasty \subseteq Rank \X Cta \X {"grid", "doorbell"}

VARIABLES given,        \* the scenario; hasty: waits of CTAs that may give up
          rep,          \* [r]: replays begun
          stream,       \* [r]: "idle", "mega", "gemm", "barrier", "combine"
          cta,          \* [r][c]: [pc, epoch, T_loc, target]
          inflight,     \* [r][c]: posted rows that have not landed
          gbar,         \* [r]: cumulative arrivals
          dest_counter, \* [r]: the row allocator
          recv,         \* [r]: rows received, with scales, ids and weights
          recv_doorbell,\* [r][s]
          sort_count,   \* [r]: epochs ended
          stage,        \* [r][t]: pull_stage, per slot <<rank, row>> or NoPull
          seg,          \* [r]: [erb, cnt, cur, sei, sti, nvi]
          pull,         \* [r]: [ptr, src]
          sc_dst,       \* [r]: transposed scales, by row
          part,         \* [r]: partial rows
          out, pperr

posted == <<inflight, recv>>
counts == <<gbar, dest_counter, recv_doorbell, sort_count>>
local == <<stage, seg, pull, sc_dst, part>>
vars == <<given, rep, stream, cta, posted, counts, local, out, pperr>>

ids == given.ids
T_loc_max == given.T_loc_max
PADMAX == given.PADMAX
Empty == [rank |-> -1, token |-> -1, rep |-> 0]
NoPull == <<-1, -1>>
Padding == <<-1, -1>>

Init ==
  /\ given \in Scenarios
  /\ rep = [r \in Rank |-> 0] /\ stream = [r \in Rank |-> "idle"]
  /\ cta = [r \in Rank |-> [c \in Cta |->
              [pc |-> "done", epoch |-> 0, T_loc |-> 0, target |-> 0]]]
  /\ inflight = [r \in Rank |-> [c \in Cta |-> {}]]
  /\ gbar = [r \in Rank |-> 0] /\ dest_counter = [r \in Rank |-> 0]
  /\ recv = [r \in Rank |-> [i \in 0 .. T_loc_max - 1 |-> Empty]]
  /\ recv_doorbell = [r \in Rank |-> [s \in Rank |-> 0]]
  /\ sort_count = [r \in Rank |-> 0]
  /\ stage = [r \in Rank |-> [t \in Token |-> [s \in Slot |-> NoPull]]]
  /\ seg = [r \in Rank |-> [erb |-> [e \in 0 .. E |-> 0], cnt |-> [e \in Expert |-> 0],
              cur |-> [e \in Expert |-> 0], nvi |-> 0,
              sei |-> [b \in 0 .. PADMAX \div BlockM - 1 |-> 0],
              sti |-> [i \in 0 .. PADMAX - 1 |-> Padding]]]
  /\ pull = [r \in Rank |-> [ptr |-> [t \in 0 .. T |-> 0],
                             src |-> [k \in 0 .. T * World - 1 |-> NoPull]]]
  /\ sc_dst = [r \in Rank |-> [i \in 0 .. T_loc_max - 1 |-> Empty]]
  /\ part = [r \in Rank |-> [i \in 0 .. T_loc_max - 1 |-> {}]]
  /\ out = [r \in Rank |-> [t \in Token |-> {}]]
  /\ pperr = [r \in Rank |-> {}]

-----------------------------------------------------------------------------
at(r, c, label) == stream[r] = "mega" /\ cta[r][c].pc = label
report(r, bits) == pperr' = [pperr EXCEPT ![r] = @ \cup bits]

Launch(r) == /\ stream[r] = "idle" /\ rep[r] < given.replays
             /\ rep' = [rep EXCEPT ![r] = @ + 1]
             /\ stream' = [stream EXCEPT ![r] = "mega"]
             /\ cta' = [cta EXCEPT ![r] = [c \in Cta |-> [@[c] EXCEPT !.pc = "push"]]]
             /\ UNCHANGED <<given, posted, counts, local, out, pperr>>

(* The quantised push.  Of the slots that go to one rank, the first claims *)
(* a row there (the primary).                                              *)
dest(r, t, s) == ids[r][t][s] \div E
primary(r, t, s) == \A u \in 0 .. s - 1 : dest(r, t, u) # dest(r, t, s)
tokens(c) == {t \in Token : t % Grid = c}

claims(r, c, p) ==
  {x \in tokens(c) \X Slot : dest(r, x[1], x[2]) = p /\ primary(r, x[1], x[2])}

row(r, c, t, s) ==
  LET p == dest(r, t, s) IN
  dest_counter[p] + Cardinality({x \in claims(r, c, p) :
                       x[1] < t \/ (x[1] = t /\ x[2] < s)})

Push(r, c) ==
  LET mine == UNION {claims(r, c, p) : p \in Rank}
      at_row(x) == row(r, c, x[1], x[2]) IN
  /\ at(r, c, "push")
  /\ dest_counter' = [p \in Rank |-> dest_counter[p] + Cardinality(claims(r, c, p))]
  /\ stage' = [stage EXCEPT ![r] = [t \in Token |->
        IF t \in tokens(c)
        THEN [s \in Slot |-> IF <<t, s>> \in mine
                             THEN <<dest(r, t, s), at_row(<<t, s>>)>> ELSE NoPull]
        ELSE @[t]]]
  /\ inflight' = [inflight EXCEPT ![r][c] =
        {[pe |-> dest(r, x[1], x[2]), at |-> at_row(x),
          val |-> [rank |-> r, token |-> x[1], rep |-> rep[r]]] :
            x \in {y \in mine : at_row(y) < T_loc_max}}]
  /\ report(r, IF \E x \in mine : at_row(x) >= T_loc_max THEN {"row"} ELSE {})
  /\ cta' = [cta EXCEPT ![r][c] = [@ EXCEPT !.pc = "publish",
                                            !.epoch = sort_count[r] + 1]]
  /\ UNCHANGED <<given, rep, stream, recv, gbar, recv_doorbell, sort_count, seg,
                 pull, sc_dst, part, out>>

Land(r, c) == \E w \in inflight[r][c] :
  /\ inflight' = [inflight EXCEPT ![r][c] = @ \ {w}]
  /\ recv' = [recv EXCEPT ![w.pe][w.at] = w.val]
  /\ UNCHANGED <<given, rep, stream, cta, counts, local, out, pperr>>

(* Arrival at the grid barrier: the target is the end of the phase.        *)
arrive(r, c, label) ==
  /\ gbar' = [gbar EXCEPT ![r] = @ + 1]
  /\ cta' = [cta EXCEPT ![r][c] = [@ EXCEPT !.pc = label,
               !.target = (gbar[r] \div Grid + 1) * Grid]]

(* The system fence is through when the CTA's rows have landed; the last   *)
(* CTA rings the doorbells of all ranks.                                   *)
Publish(r, c) ==
  /\ at(r, c, "publish") /\ inflight[r][c] = {}
  /\ arrive(r, c, "enter")
  /\ recv_doorbell' = IF gbar[r] % Grid = Grid - 1
                      THEN [p \in Rank |-> [recv_doorbell[p] EXCEPT ![r] = @ + 1]]
                      ELSE recv_doorbell
  /\ UNCHANGED <<given, rep, stream, posted, dest_counter, sort_count, local,
                 out, pperr>>

(* Then the CTA waits for its grid, and for the doorbells of the epoch, of *)
(* which either wait may give up; and it reads the row count.  With too    *)
(* many rows it returns, without a second arrival.                         *)
crossed(r, c) == gbar[r] >= cta[r][c].target
rung(r, c) == \A s \in Rank : recv_doorbell[r][s] >= cta[r][c].epoch

enter(r, c, bits) ==
  LET n == dest_counter[r] IN
  /\ cta' = [cta EXCEPT ![r][c] =
       [@ EXCEPT !.pc = IF n > T_loc_max THEN "done" ELSE "plan", !.T_loc = n]]
  /\ report(r, bits \cup IF n > T_loc_max /\ c = 0 THEN {"T_loc"} ELSE {})
  /\ UNCHANGED <<rep, stream, posted, counts, local, out>>

Enter(r, c) == /\ at(r, c, "enter") /\ crossed(r, c) /\ rung(r, c)
               /\ enter(r, c, {})
               /\ UNCHANGED given

(* A wait that gave up may leave others without an arrival or a doorbell:  *)
(* when a rank has come to a halt after the first, any wait may give up.   *)
late(r, c) ==
  (IF cta[r][c].pc \in {"enter", "scatter"} /\ ~crossed(r, c) THEN {"grid"} ELSE {})
    \cup (IF at(r, c, "enter") /\ ~rung(r, c) THEN {"doorbell"} ELSE {})
halted(r) == /\ \E s \in Rank : pperr[s] \cap {"grid", "doorbell"} # {}
             /\ \A c \in Cta : late(r, c) # {} \/ cta[r][c].pc = "done"

give_up(r, c) ==
  LET x == {<<r, c, wait>> : wait \in late(r, c)} IN
  /\ x # {} /\ (x \subseteq given.hasty \/ halted(r))
  /\ given' = [given EXCEPT !.hasty = @ \ x]

EnterTimeOut(r, c) == /\ at(r, c, "enter") /\ give_up(r, c)
                      /\ enter(r, c, late(r, c))

-----------------------------------------------------------------------------
(* The plan: each CTA its part.  CTA 0 plans the expert segments: padded to*)
(* whole blocks, a cursor each, the expert of every block there is room    *)
(* for.  The pairs are those of the rows received.                         *)
pair(r, n) == {x \in (0 .. n - 1) \X Slot : recv[r][x[1]].rank >= 0}
expert(r, x) == ids[recv[r][x[1]].rank][recv[r][x[1]].token][x[2]] - r * E
pairs_of(r, n, e) == {x \in pair(r, n) : expert(r, x) = e}
padded(n) == ((n + BlockM - 1) \div BlockM) * BlockM

planned(r, n) ==
  LET count == [e \in Expert |-> Cardinality(pairs_of(r, n, e))]
      first == [e \in 0 .. E |->
                  FoldSet(LAMBDA f, sum : sum + padded(count[f]), 0, 0 .. e - 1)]
      owner(b) == {e \in Expert : /\ first[e] <= b * BlockM
                                  /\ b * BlockM < first[e + 1]} IN
  [seg[r] EXCEPT !.cnt = count, !.erb = first, !.nvi = first[E],
                 !.cur = [e \in Expert |-> first[e]],
                 !.sei = [b \in DOMAIN @ |-> IF owner(b) = {} THEN @[b]
                                             ELSE CHOOSE e \in owner(b) : TRUE]]

PlanSegments(r) ==
  LET s == planned(r, cta[r][0].T_loc) IN
  /\ at(r, 0, "plan")
  /\ seg' = [seg EXCEPT ![r] = s]
  /\ report(r, IF s.nvi > PADMAX THEN {"pad"} ELSE {})
  /\ arrive(r, 0, "scatter")
  /\ UNCHANGED <<given, rep, stream, posted, dest_counter, recv_doorbell,
                 sort_count, stage, pull, sc_dst, part, out>>

(* CTA 1: where each token's list begins (pull_cnt is the fan-out).        *)
fanout(r, t) == Cardinality({s \in Slot : stage[r][t][s] # NoPull})

PlanPointers(r) ==
  /\ at(r, 1, "plan")
  /\ pull' = [pull EXCEPT ![r].ptr = [t \in 0 .. T |->
        FoldSet(LAMBDA u, sum : sum + fanout(r, u), 0, 0 .. t - 1)]]
  /\ arrive(r, 1, "scatter")
  /\ UNCHANGED <<given, rep, stream, posted, dest_counter, recv_doorbell,
                 sort_count, stage, seg, sc_dst, part, out, pperr>>

(* The others: the live partial rows are cleared, the scales transposed.   *)
ClearRows(r, c) ==
  LET mine == {i \in 0 .. cta[r][c].T_loc - 1 : i % (Grid - 2) = c - 2} IN
  /\ at(r, c, "plan") /\ c >= 2
  /\ part' = [part EXCEPT ![r] = [i \in DOMAIN @ |-> IF i \in mine THEN {} ELSE @[i]]]
  /\ sc_dst' = [sc_dst EXCEPT ![r] = [i \in DOMAIN @ |->
                                        IF i \in mine THEN recv[r][i] ELSE @[i]]]
  /\ arrive(r, c, "scatter")
  /\ UNCHANGED <<given, rep, stream, posted, dest_counter, recv_doorbell,
                 sort_count, stage, seg, pull, out, pperr>>

-----------------------------------------------------------------------------
(* After the second barrier: padding, the pairs into their segments at the *)
(* cursors, the lists of sources; each CTA its share.                      *)
share(c, n) == n % Grid = c
pads(r) == UNION {seg[r].erb[e] + seg[r].cnt[e] .. seg[r].erb[e + 1] - 1 : e \in Expert}
mine_of(r, c, e) == {x \in pairs_of(r, cta[r][c].T_loc, e) :
                       share(c, x[1] * TOPK + x[2])}
rank_in(S, x) == Cardinality({y \in S : y[1] < x[1] \/ (y[1] = x[1] /\ y[2] < x[2])})
placed(r, c) == UNION {{<<seg[r].cur[e] + rank_in(mine_of(r, c, e), x), x>> :
                          x \in mine_of(r, c, e)} : e \in Expert}
listed(r, t) == {<<pull[r].ptr[t] + Cardinality({u \in 0 .. s - 1 :
                     stage[r][t][u] # NoPull}), stage[r][t][s]>> :
                   s \in {v \in Slot : stage[r][t][v] # NoPull}}

scatter(r, c, bits) ==
  LET puts  == placed(r, c)
      lists == UNION {listed(r, t) : t \in tokens(c)}
      pad   == {i \in pads(r) : share(c, i)}
      over  == \/ \E x \in puts : x[1] >= PADMAX
               \/ \E x \in lists : x[1] >= T * World IN
  /\ seg' = [seg EXCEPT
       ![r].cur = [e \in Expert |-> @[e] + Cardinality(mine_of(r, c, e))],
       ![r].sti = [i \in DOMAIN @ |->
          IF \E x \in puts : x[1] = i THEN (CHOOSE x \in puts : x[1] = i)[2]
          ELSE IF i \in pad THEN Padding ELSE @[i]]]
  /\ pull' = [pull EXCEPT ![r].src = [k \in DOMAIN @ |->
       IF \E x \in lists : x[1] = k THEN (CHOOSE x \in lists : x[1] = k)[2]
       ELSE @[k]]]
  /\ report(r, bits \cup (IF over THEN {"scatter"} ELSE {})
                    \cup (IF \E i \in pad : i >= PADMAX THEN {"pad"} ELSE {}))
  /\ cta' = [cta EXCEPT ![r][c].pc = IF c = 0 THEN "reset" ELSE "done"]
  /\ UNCHANGED <<rep, stream, posted, counts, stage, sc_dst, part, out>>

Scatter(r, c) == /\ at(r, c, "scatter") /\ crossed(r, c)
                 /\ scatter(r, c, {})
                 /\ UNCHANGED given

ScatterTimeOut(r, c) == /\ at(r, c, "scatter") /\ give_up(r, c)
                        /\ scatter(r, c, {"grid"})

Reset(r) == /\ at(r, 0, "reset")
            /\ dest_counter' = [dest_counter EXCEPT ![r] = 0]
            /\ sort_count' = [sort_count EXCEPT ![r] = cta[r][0].epoch]
            /\ cta' = [cta EXCEPT ![r][0].pc = "done"]
            /\ UNCHANGED <<given, rep, stream, posted, gbar, recv_doorbell,
                           local, out, pperr>>

-----------------------------------------------------------------------------
(* The rest of the replay.  The launch has ended; the GEMM adds to the     *)
(* partial rows what the segments say, with the expert of the block; a row *)
(* whose scales are another's is spoilt.                                   *)
value(r, i) == IF sc_dst[r][i] = recv[r][i] THEN recv[r][i] ELSE Empty
addends(r, i) == {<<seg[r].sei[p \div BlockM] + r * E, seg[r].sti[p][2], value(r, i)>> :
                    p \in {q \in DOMAIN seg[r].sti :
                             q < seg[r].nvi /\ seg[r].sti[q][1] = i}}

ended(r) == stream[r] = "mega" /\ \A c \in Cta : cta[r][c].pc = "done"

Gemm(r) == /\ ended(r)
           /\ part' = [part EXCEPT ![r] = [i \in DOMAIN @ |-> @[i] \cup addends(r, i)]]
           /\ stream' = [stream EXCEPT ![r] = "barrier"]
           /\ UNCHANGED <<given, rep, cta, posted, counts, stage, seg, pull,
                          sc_dst, out, pperr>>

(* All ranks are at this replay's barrier, or past it.                     *)
Barrier(r) ==
  /\ stream[r] = "barrier"
  /\ \A s \in Rank : rep[s] > rep[r] \/ (rep[s] = rep[r] /\ stream[s] # "mega")
  /\ stream' = [stream EXCEPT ![r] = "combine"]
  /\ UNCHANGED <<given, rep, cta, posted, counts, local, out, pperr>>

pulls(r, t) == {pull[r].src[k] : k \in pull[r].ptr[t] .. pull[r].ptr[t + 1] - 1}

Combine(r) ==
  /\ stream[r] = "combine"
  /\ out' = [out EXCEPT ![r] = [t \in Token |->
       UNION {IF x # NoPull /\ x[2] < T_loc_max THEN {<<x, a>> : a \in part[x[1]][x[2]]}
              ELSE {<<x, Padding>>} : x \in pulls(r, t)}]]
  /\ stream' = [stream EXCEPT ![r] = "idle"]
  /\ UNCHANGED <<given, rep, cta, posted, counts, local, pperr>>

-----------------------------------------------------------------------------
Block(r, c) == \/ Push(r, c) \/ Land(r, c) \/ Publish(r, c) \/ Enter(r, c)
               \/ EnterTimeOut(r, c) \/ ClearRows(r, c) \/ Scatter(r, c)
               \/ ScatterTimeOut(r, c)

Stream(r) == \/ Launch(r) \/ PlanSegments(r) \/ PlanPointers(r) \/ Reset(r)
             \/ Gemm(r) \/ Barrier(r) \/ Combine(r) \/ \E c \in Cta : Block(r, c)

Next == \E r \in Rank : Stream(r)

Spec == Init /\ [][Next]_vars

Ended == \A r \in Rank : stream[r] = "idle" /\ rep[r] = given.replays

-----------------------------------------------------------------------------
TypeOK ==
  /\ stream \in [Rank -> {"idle", "mega", "barrier", "combine"}]
  /\ rep \in [Rank -> 0 .. given.replays]
  /\ \A r \in Rank : /\ gbar[r] \in 0 .. 2 * Grid * given.replays
                     /\ sort_count[r] \in 0 .. given.replays
                     /\ pperr[r] \subseteq {"row", "T_loc", "doorbell", "grid",
                                            "pad", "scatter"}
                     /\ \A c \in Cta : cta[r][c].pc \in {"push", "publish", "enter",
                          "plan", "scatter", "reset", "done"}

clean == \A r \in Rank : pperr[r] = {}

(* With no error bit on any rank, a finished replay leaves in the output of*)
(* a token the addend of each of its slots, from this replay's row and with*)
(* the slot's expert, once, however the CTAs of the fused kernel interleave*)
(* and however far apart the ranks are (k0pf3_mega.hip).                   *)
OutputCorrect ==
  \A r \in Rank : stream[r] = "idle" /\ rep[r] > 0 /\ clean =>
    \A t \in Token :
      /\ {x[2] : x \in out[r][t]} =
           {<<ids[r][t][s], s, [rank |-> r, token |-> t, rep |-> rep[r]]>> : s \in Slot}
      /\ Cardinality(out[r][t]) = TOPK

(* When the launch is over and clean, each pair is at one position, in its *)
(* expert's segment, and nothing else is there but padding: no CTA planned *)
(* or scattered with a count another one did not use                       *)
(* (k0pf3_mega.hip: 235 the count is read, 358 it is reset).               *)
SegmentsExact ==
  \A r \in Rank : ended(r) /\ clean =>
    LET s == seg[r]  n == cta[r][0].T_loc  live == 0 .. s.nvi - 1 IN
    /\ \A c \in Cta : cta[r][c].T_loc = n
    /\ \A e \in Expert : \A x \in pairs_of(r, n, e) :
         \E p \in s.erb[e] .. s.erb[e + 1] - 1 :
           s.sti[p] = x /\ \A q \in live : s.sti[q] = x => q = p
    /\ \A p \in live : s.sti[p] # Padding => s.sti[p] \in pair(r, n)
=============================================================================
