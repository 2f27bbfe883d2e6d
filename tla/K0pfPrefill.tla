---------------------------- MODULE K0pfPrefill ----------------------------
(* The prefill layer on all ranks, replay after replay, in any order of    *)
(* the arms that share the partial rows, the pull plan and the error word: *)
(*   pull arms (frozen, pf_full, ...): plan, quantise, mori barrier, fetch *)
(*     the rows from their sources, GEMM, barrier, combine;                *)
(*   push arms (pf3_pd, pf4h, pf3_mega): quantise and push the rows to     *)
(*     their experts' ranks, sort what arrived, GEMM, barrier, combine.    *)
(* The barrier is ShmemBarrier, whose steps are steps of this module.  The *)
(* push is told apart by CTAs, the sort by its two ends; what lies between *)
(* and the grid barriers in it are as in K0dDecode and DestSort.  The      *)
(* plan of the pull arms is RoutePlan's.                                   *)
EXTENDS Integers, FiniteSets, Sequences, FiniteSetsExt

CONSTANTS World,       \* ranks
          T,           \* tokens per rank
          Cta,         \* CTAs of the push
          Scenarios    \* what to replay: [arms, ids, cap, patient]

Rank == 0 .. World - 1
Token == 0 .. T - 1
Block == 0 .. Cta - 1
PullArm == {"frozen", "pf_full"}
PushArm == {"pf3_pd", "pf4h", "pf3_mega"}

(* ids: the owners of a token, the ranks of its experts in the order of    *)
(* the slots.  The pull arms are run with room for every row only, as the  *)
(* harness demands.                                                        *)
K0pfPrefillAssumption ==
  /\ {World, T, Cta} \subseteq Nat \ {0}
  /\ \A x \in Scenarios :
       /\ x.arms \in Seq(PullArm \cup PushArm) /\ x.patient \in BOOLEAN
       /\ \A r \in Rank, t \in Token : LET o == x.ids[r][t] IN
            /\ o \in Seq(Rank)
            /\ \A i, j \in DOMAIN o : i # j => o[i] # o[j]
       /\ x.cap \in Nat
       /\ x.cap >= World * T \/ \A i \in DOMAIN x.arms : x.arms[i] \in PushArm

VARIABLES
  (* the scenario *)
  arms,        \* the arm of each replay
  ids,         \* the routing
  cap,         \* T_loc_max
  patient,     \* FALSE: one bounded wait may still time out
  (* the stream of each rank *)
  rep,         \* replays begun
  step,        \* index of the running step, 0 between replays
  (* the push: state of its own for every push arm (pf3_state) *)
  pushing,     \* [r][c]: "ready", "pushed" or "done"
  inflight,    \* [r][c]: rows posted by a CTA that have not landed
  grid_count,  \* [a][r]: cumulative arrivals
  counter,     \* [a][r]: dest_counter, the row allocator
  recv,        \* [a][r]: receive buffer
  poke,        \* [a][s][r]: doorbell pokes of s on their way to r
  bell,        \* [a][r][s]: recv_doorbell
  sort_count,  \* [a][r]: epochs sorted
  stage,       \* [r]: pull_stage, the rows this push claimed
  (* buffers of all arms *)
  src,         \* [r]: the replay whose quantised rows a_src holds
  got,         \* [r]: sources this replay's gather has read
  dst,         \* [r]: gathered rows
  nvi,         \* [r]: live rows T_loc
  pull,        \* [r]: pull plan: [token -> sequence of <<rank, row>>]
  part,        \* [r]: partial rows, each the set of its addends
  out,         \* [r]: output rows
  summed,      \* [r]: tokens this replay's combine has written
  pperr,       \* [r]: error bits
  (* the barrier *)
  pc, turn, pSync, posted, entered, exited

scenario == <<arms, ids, cap>>
pushed == <<pushing, inflight, grid_count, counter, recv, poke, stage>>
sorted == <<bell, sort_count, nvi, pull, patient>>
data == <<src, got, dst, part, out, summed>>
sync == <<pc, turn, pSync, posted, entered, exited>>
vars == <<scenario, rep, step, pushed, sorted, data, pperr, sync>>

S == INSTANCE ShmemBarrier WITH PEs <- World, MaxRound <- 2 * Len(arms)

-----------------------------------------------------------------------------
(* Mutants: no barrier between the quantisation and the gather; none       *)
(* between the GEMM and the combine.                                       *)
StepsNoFirst(a) ==
  IF a \in PullArm
  THEN <<"plan", "quant", "gather", "gemm", "barrier", "combine">>
  ELSE <<"push", "sort", "clear", "gemm", "barrier", "combine">>
StepsNoSecond(a) ==
  IF a \in PullArm
  THEN <<"plan", "quant", "barrier", "gather", "gemm", "barrier", "combine">>
  ELSE <<"push", "sort", "clear", "gemm", "combine">>

(* The bodies of the arms: launches in stream order.                       *)
Steps(a) ==
  IF a \in PullArm
  THEN <<"plan", "quant", "barrier", "gather", "gemm", "barrier", "combine">>
  ELSE <<"push", "sort", "clear", "gemm", "barrier", "combine">>

arm(r) == arms[rep[r]]
at(r, s) == step[r] # 0 /\ Steps(arm(r))[step[r]] = s
advance(r) ==
  step' = [step EXCEPT ![r] = IF @ = Len(Steps(arm(r))) THEN 0 ELSE @ + 1]

Empty == [rank |-> -1, token |-> -1, rep |-> 0]
row_of(r, t) == [rank |-> r, token |-> t, rep |-> rep[r]]
on(p, w) == [own |-> p, row |-> w]

Init ==
  /\ \E x \in Scenarios : /\ arms = x.arms /\ ids = x.ids
                           /\ cap = x.cap /\ patient = x.patient
  /\ rep = [r \in Rank |-> 0] /\ step = [r \in Rank |-> 0]
  /\ pushing = [r \in Rank |-> [c \in Block |-> "ready"]]
  /\ inflight = [r \in Rank |-> [c \in Block |-> {}]]
  /\ grid_count = [a \in PushArm |-> [r \in Rank |-> 0]]
  /\ counter = [a \in PushArm |-> [r \in Rank |-> 0]]
  /\ recv = [a \in PushArm |-> [r \in Rank |-> [i \in 0 .. cap - 1 |-> Empty]]]
  /\ poke = [a \in PushArm |-> [s \in Rank |-> [r \in Rank |-> 0]]]
  /\ bell = [a \in PushArm |-> [r \in Rank |-> [s \in Rank |-> 0]]]
  /\ sort_count = [a \in PushArm |-> [r \in Rank |-> 0]]
  /\ stage = [r \in Rank |-> [t \in Token |-> <<>>]]
  /\ src = [r \in Rank |-> 0] /\ got = [r \in Rank |-> {}]
  /\ dst = [r \in Rank |-> [i \in 0 .. cap - 1 |-> Empty]]
  /\ nvi = [r \in Rank |-> 0]
  /\ pull = [r \in Rank |-> [t \in Token |-> <<>>]]
  /\ part = [r \in Rank |-> [i \in 0 .. cap - 1 |-> {}]]
  /\ out = [r \in Rank |-> [t \in Token |-> {}]]
  /\ summed = [r \in Rank |-> {}]
  /\ pperr = [r \in Rank |-> {}]
  /\ S!Init

(* Replays are begun by the hosts, each on its own.                        *)
Replay(r) == /\ step[r] = 0 /\ rep[r] < Len(arms)
             /\ rep' = [rep EXCEPT ![r] = @ + 1]
             /\ step' = [step EXCEPT ![r] = 1]
             /\ pushing' = [pushing EXCEPT ![r] = [c \in Block |-> "ready"]]
             /\ got' = [got EXCEPT ![r] = {}]
             /\ summed' = [summed EXCEPT ![r] = {}]
             /\ UNCHANGED <<scenario, inflight, grid_count, counter, recv, poke,
                            stage, sorted, src, dst, part, out, pperr, sync>>

-----------------------------------------------------------------------------
(* Pull arms.  The sources of rank r's rows, by rank and then by token.    *)
wants(r, s, t) == \E i \in DOMAIN ids[s][t] : ids[s][t][i] = r
before(s, t, u, v) == s < u \/ (s = u /\ t < v)
plan_row(r, s, t) ==
  Cardinality({<<u, v>> \in Rank \X Token : wants(r, u, v) /\ before(u, v, s, t)})
owners(r, t) == {p \in Rank : wants(p, r, t)}

(* all-gather of the routes and the plan computed from them.               *)
Plan(r) == /\ at(r, "plan")
           /\ nvi' = [nvi EXCEPT ![r] = Cardinality({<<s, t>> \in Rank \X Token :
                                                       wants(r, s, t)})]
           /\ pull' = [pull EXCEPT ![r] = [t \in Token |->
                [i \in DOMAIN ids[r][t] |->
                   <<ids[r][t][i], plan_row(ids[r][t][i], r, t)>>]]]
           /\ advance(r)
           /\ UNCHANGED <<scenario, rep, pushed, bell, sort_count, patient, data,
                          pperr, sync>>

Quant(r) == /\ at(r, "quant")
            /\ src' = [src EXCEPT ![r] = rep[r]]
            /\ advance(r)
            /\ UNCHANGED <<scenario, rep, pushed, sorted, got, dst, part, out,
                           summed, pperr, sync>>

(* gather_rows reads the rows it needs from rank s.                        *)
Gather(r, s) ==
  /\ at(r, "gather") /\ s \notin got[r]
  /\ dst' = [dst EXCEPT ![r] = [i \in DOMAIN @ |->
        IF \E t \in Token : wants(r, s, t) /\ plan_row(r, s, t) = i
        THEN [rank |-> s, token |-> CHOOSE t \in Token : /\ wants(r, s, t)
                                                         /\ plan_row(r, s, t) = i,
              rep |-> src[s]]
        ELSE @[i]]]
  /\ got' = [got EXCEPT ![r] = @ \cup {s}]
  /\ IF got'[r] = Rank THEN advance(r) ELSE UNCHANGED step
  /\ UNCHANGED <<scenario, rep, pushed, sorted, src, part, out, summed, pperr,
                 sync>>

-----------------------------------------------------------------------------
(* Push arms.  CTA c takes the tokens c, c + Cta, ...; for every owner of a*)
(* token it claims a row and posts the quantised row, its scales, expert   *)
(* ids and weights.  A claim beyond the buffer is reported and not stored. *)
tokens(c) == {t \in Token : t % Cta = c}
claims(r, c) == {<<t, p>> \in tokens(c) \X Rank : wants(p, r, t)}
claimed(a, r, c, t, p) ==
  counter[a][p] + Cardinality({x \in claims(r, c) : x[2] = p /\ x[1] < t})

Push(r, c) ==
  LET a == arm(r)
      row(x) == claimed(a, r, c, x[1], x[2]) IN
  /\ at(r, "push") /\ pushing[r][c] = "ready"
  /\ counter' = [counter EXCEPT ![a] = [p \in Rank |->
        @[p] + Cardinality({x \in claims(r, c) : x[2] = p})]]
  /\ stage' = [stage EXCEPT ![r] = [t \in Token |->
        IF t \in tokens(c)
        THEN [i \in DOMAIN ids[r][t] |-> <<ids[r][t][i], row(<<t, ids[r][t][i]>>)>>]
        ELSE @[t]]]
  /\ inflight' = [inflight EXCEPT ![r][c] =
        {[pe |-> x[2], at |-> row(x), val |-> row_of(r, x[1])] :
            x \in {y \in claims(r, c) : row(y) < cap}}]
  /\ pperr' = [pperr EXCEPT ![r] = @ \cup
        IF \E x \in claims(r, c) : row(x) >= cap THEN {"row"} ELSE {}]
  /\ pushing' = [pushing EXCEPT ![r][c] = "pushed"]
  /\ UNCHANGED <<scenario, rep, step, grid_count, recv, poke, sorted, data, sync>>

(* A posted row lands, any time before the CTA's system fence is through.  *)
Land(r, c) ==
  \E w \in inflight[r][c] :
    /\ inflight' = [inflight EXCEPT ![r][c] = @ \ {w}]
    /\ recv' = [recv EXCEPT ![arm(r)][w.pe][w.at] = w.val]
    /\ UNCHANGED <<scenario, rep, step, pushing, grid_count, counter, poke, stage,
                   sorted, data, pperr, sync>>

(* Mutant: the fence is missing.                                           *)
fence_missing(r, c) == pushing[r][c] = "pushed"

fence(r, c) == inflight[r][c] = {}

(* Fence, arrival; the CTA that completes the grid rings all doorbells.    *)
Publish(r, c) ==
  LET a == arm(r) IN
  /\ at(r, "push") /\ pushing[r][c] = "pushed"
  /\ fence(r, c)
  /\ pushing' = [pushing EXCEPT ![r][c] = "done"]
  /\ grid_count' = [grid_count EXCEPT ![a][r] = @ + 1]
  /\ IF grid_count[a][r] % Cta = Cta - 1
     THEN /\ poke' = [poke EXCEPT ![a][r] = [p \in Rank |-> @[p] + 1]]
          /\ advance(r)
     ELSE UNCHANGED <<poke, step>>
  /\ UNCHANGED <<scenario, rep, inflight, counter, recv, stage, sorted, data,
                 pperr, sync>>

Ring(a, s, r) == /\ poke[a][s][r] > 0
                 /\ poke' = [poke EXCEPT ![a][s][r] = @ - 1]
                 /\ bell' = [bell EXCEPT ![a][r][s] = @ + 1]
                 /\ UNCHANGED <<scenario, rep, step, pushing, inflight, grid_count,
                                counter, recv, stage, sort_count, nvi, pull,
                                patient, data, pperr, sync>>

(* The sort begins: doorbells of every source, or the wait gives up.  A    *)
(* row count beyond the buffer makes every CTA return, with the reset and  *)
(* the epoch undone.                                                       *)
rung(r) == \A s \in Rank : bell[arm(r)][r][s] >= sort_count[arm(r)][r] + 1

skip(r) == step' = [step EXCEPT ![r] = @ + 2]

(* Mutant: the row count is not compared with the buffer.                  *)
acquire_unchecked(r, bits) ==
  LET T_loc == counter[arm(r)][r] IN
  /\ pperr' = [pperr EXCEPT ![r] = @ \cup bits]
  /\ nvi' = [nvi EXCEPT ![r] = T_loc]
  /\ part' = [part EXCEPT ![r] =
                [i \in DOMAIN @ |-> IF i < T_loc THEN {} ELSE @[i]]]
  /\ advance(r)

acquire(r, bits) ==
  LET T_loc == counter[arm(r)][r] IN
  IF T_loc > cap
  THEN /\ pperr' = [pperr EXCEPT ![r] = @ \cup bits \cup {"T_loc"}]
       /\ skip(r)
       /\ UNCHANGED <<nvi, part>>
  ELSE /\ pperr' = [pperr EXCEPT ![r] = @ \cup bits]
       /\ nvi' = [nvi EXCEPT ![r] = T_loc]
       /\ part' = [part EXCEPT ![r] =
                     [i \in DOMAIN @ |-> IF i < T_loc THEN {} ELSE @[i]]]
       /\ advance(r)

Sort(r) == /\ at(r, "sort") /\ rung(r)
           /\ acquire(r, {})
           /\ UNCHANGED <<scenario, rep, pushed, bell, sort_count, pull, patient,
                          src, got, dst, out, summed, sync>>

SortTimeOut(r) == /\ at(r, "sort") /\ ~rung(r) /\ ~patient
                  /\ acquire(r, {"doorbell"})
                  /\ patient' = TRUE
                  /\ UNCHANGED <<scenario, rep, pushed, bell, sort_count, pull,
                                 src, got, dst, out, summed, sync>>

(* The sort ends: the pull plan is filled, the allocator reset and the     *)
(* epoch advanced.                                                         *)
Clear(r) == LET a == arm(r) IN
            /\ at(r, "clear")
            /\ counter' = [counter EXCEPT ![a][r] = 0]
            /\ sort_count' = [sort_count EXCEPT ![a][r] = @ + 1]
            /\ pull' = [pull EXCEPT ![r] = stage[r]]
            /\ advance(r)
            /\ UNCHANGED <<scenario, rep, pushing, inflight, grid_count, recv, poke,
                           stage, bell, nvi, patient, data, pperr, sync>>

-----------------------------------------------------------------------------
(* The rows the GEMM reads, and the partial rows it adds to: the pull arms *)
(* clear all of them first, the sort has cleared the live ones.            *)
operand(r) == IF arm(r) \in PullArm THEN dst[r] ELSE recv[arm(r)][r]

base(r) == IF arm(r) \in PullArm THEN [i \in DOMAIN part[r] |-> {}] ELSE part[r]

Gemm(r) == /\ at(r, "gemm")
           /\ part' = [part EXCEPT ![r] = [i \in DOMAIN @ |->
                 base(r)[i] \cup IF i < nvi[r] THEN {on(r, operand(r)[i])} ELSE {}]]
           /\ advance(r)
           /\ UNCHANGED <<scenario, rep, pushed, sorted, src, got, dst, out, summed,
                          pperr, sync>>

(* The combine sums the partial rows of a token where they are.            *)
Combine(r, t) ==
  /\ at(r, "combine") /\ t \notin summed[r]
  /\ out' = [out EXCEPT ![r][t] =
        UNION {IF x[2] < cap THEN part[x[1]][x[2]] ELSE {on(x[1], Empty)} :
                 x \in {pull[r][t][i] : i \in DOMAIN pull[r][t]}}]
  /\ summed' = [summed EXCEPT ![r] = @ \cup {t}]
  /\ IF summed'[r] = Token THEN advance(r) ELSE UNCHANGED step
  /\ UNCHANGED <<scenario, rep, pushed, sorted, src, got, dst, part, pperr, sync>>

-----------------------------------------------------------------------------
(* The barrier's kernel runs while its rank's stream is there; its end is  *)
(* the end of that launch.                                                 *)
asked(r) == Cardinality({i \in 1 .. step[r] : Steps(arm(r))[i] = "barrier"})
              + FoldSet(LAMBDA i, n : n + Cardinality({j \in DOMAIN Steps(arms[i]) :
                                                  Steps(arms[i])[j] = "barrier"}),
                        0, 1 .. rep[r] - 1)

Enter(r) == /\ at(r, "barrier") /\ entered[r] < asked(r)
            /\ IF r = 0 THEN S!Begin ELSE S!Arrive(r)
            /\ UNCHANGED <<scenario, rep, step, pushed, sorted, data, pperr>>

Cross == /\ S!Collect \/ S!Collected \/ S!Release
         /\ UNCHANGED <<scenario, rep, step, pushed, sorted, data, pperr>>

Wake(r) == /\ r # 0 /\ S!Released(r)
           /\ UNCHANGED <<scenario, rep, step, pushed, sorted, data, pperr>>

Exit(r) == /\ IF r = 0 THEN S!End ELSE S!Leave(r)
           /\ advance(r)
           /\ UNCHANGED <<scenario, rep, pushed, sorted, data, pperr>>

Fabric(r) == /\ S!Fabric(r)
             /\ UNCHANGED <<scenario, rep, step, pushed, sorted, data, pperr>>

-----------------------------------------------------------------------------
Stream(r) == \/ Replay(r) \/ Plan(r) \/ Quant(r) \/ Sort(r) \/ Clear(r) \/ Gemm(r)
             \/ Enter(r) \/ Wake(r) \/ Exit(r)
             \/ \E s \in Rank : Gather(r, s)
             \/ \E t \in Token : Combine(r, t)
             \/ \E c \in Block : Push(r, c) \/ Publish(r, c)

Deliver(r) == \/ Fabric(r)
              \/ \E c \in Block : Land(r, c)
              \/ \E a \in PushArm, s \in Rank : Ring(a, s, r)

(* The hosts stop.  As every step takes some rank or some store further,   *)
(* that no other state is a dead end means that every replay completes.    *)
Finished == /\ \A r \in Rank : rep[r] = Len(arms) /\ step[r] = 0
            /\ UNCHANGED vars

Next == \/ Cross \/ Finished
        \/ \E r \in Rank : Stream(r) \/ Deliver(r) \/ SortTimeOut(r)

Spec == Init /\ [][Next]_vars

-----------------------------------------------------------------------------
TypeOK ==
  /\ patient \in BOOLEAN
  /\ rep \in [Rank -> 0 .. Len(arms)] /\ step \in [Rank -> 0 .. 7]
  /\ pushing \in [Rank -> [Block -> {"ready", "pushed", "done"}]]
  /\ \A a \in PushArm : /\ grid_count[a] \in [Rank -> 0 .. Cta * Len(arms)]
                        /\ counter[a] \in [Rank -> 0 .. World * T * Len(arms)]
                        /\ bell[a] \in [Rank -> [Rank -> 0 .. Len(arms)]]
                        /\ poke[a] \in [Rank -> [Rank -> 0 .. Len(arms)]]
                        /\ sort_count[a] \in [Rank -> 0 .. Len(arms)]
  /\ nvi \in [Rank -> 0 .. cap]
  /\ \A r \in Rank : pperr[r] \subseteq {"row", "T_loc", "doorbell"}
  /\ S!TypeOK

clean == \A r \in Rank : pperr[r] = {}

(* Whatever the arms before it were and however far apart the ranks are, a *)
(* replay leaves in a token's output this replay's row from each of its    *)
(* owners once, or an error bit is set on some rank (harness/region_ab.py, *)
(* the bodies of the prefill arms; k0pf_combine.hip).                      *)
OutputCorrect ==
  \A r \in Rank : \A t \in summed[r] :
    clean => out[r][t] = {on(p, row_of(r, t)) : p \in owners(r, t)}

(* A row that was claimed beyond the buffer and that a combine is going to *)
(* sum up is on record on both sides: with the rank that claimed it and    *)
(* with the rank that had no room, even if that one's wait gave up         *)
(* (k0pf3_qpush.hip:76, k0pf3_dsort.hip:93).                              *)
OverflowReported ==
  \A r \in Rank, t \in Token : \A i \in DOMAIN pull[r][t] :
    at(r, "combine") /\ pull[r][t][i][2] >= cap =>
      "row" \in pperr[r] /\ pperr[pull[r][t][i][1]] # {}

(* The quantised rows of a rank are not replaced while a peer in an earlier*)
(* replay still has to fetch them.                                         *)
SourceStable ==
  \A r, s \in Rank :
    at(s, "gather") /\ r \notin got[s] => src[r] = rep[s]

(* Nobody clears or adds to a partial row a peer's combine still has to    *)
(* read, although the rows are shared by all arms: a rank that is past its *)
(* own barrier in the peer's replay has no later replay's GEMM or sort.    *)
PartStable ==
  \A r, s \in Rank :
    at(s, "combine") /\ clean =>
      \A t \in Token \ summed[s] : \A i \in DOMAIN pull[s][t] :
        pull[s][t][i][1] = r =>
          part[r][pull[s][t][i][2]] = {on(r, row_of(s, t))}

(* No push of a later replay takes a row while the rank has not reset its  *)
(* allocator: what the sort resets is what it counted.                     *)
ResetExact ==
  \A r \in Rank : at(r, "clear") /\ clean => counter[arm(r)][r] = nvi[r]
=============================================================================
