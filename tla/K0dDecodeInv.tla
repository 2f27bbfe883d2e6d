---------------------------- MODULE K0dDecodeInv ----------------------------
(* The inductive invariant of K0dDecode that its proofs establish, in      *)
(* layers: what the counters and flags of the cross-rank and grid barriers *)
(* stand for, which ranks can be how far apart, whose rows a receive       *)
(* buffer holds, and what is left of them in the partial sums.             *)
(*                                                                         *)
(* All of it is about behaviours in which no bounded wait has given up yet *)
(* (expired = 0): after a time-out the counters no longer say who has done *)
(* what, and the error word is all there is to go by.  A rank whose rows   *)
(* ran out of buffer (dead) never advances its sort epoch again; what the  *)
(* layers say of the destination d then holds no longer, and fits(...)     *)
(* guards it.                                                              *)
EXTENDS K0dDecode

(* The counters do not wrap within MaxReplay replays.                      *)
NoWrap == MaxReplay * Grid < CounterMod

(* The host does not clear the error words and go on after a wait has      *)
(* given up: harness/region_ab.py raises when a phase has seen an error.   *)
TrustedGate == [][Gate => expired = 0]_vars

-----------------------------------------------------------------------------
(* Where the CTAs of a launch can be.                                      *)
places(k) == CASE k = "push" -> {"start", "push", "done"}
               [] k = "mega" -> {"start", "push", "wait", "plan", "gbar",
                                 "scatter", "tail", "done"}
               [] k = "dsort" -> {"start", "wait", "plan", "gbar", "scatter",
                                  "tail", "done"}
               [] k = "gemm" -> {"start"}
               [] k = "combine" -> {"start", "wait", "pull", "done"}
               [] k = "idle" -> {"done"}

PlaceInv ==
  \A r \in Rank :
    /\ kernel[r] # "idle" => replay[r] > 0
    /\ \A c \in Block : /\ pc[r][c] \in places(kernel[r])
                        /\ pc[r][c] = "tail" => c = 0

(* A posted signal is one to another rank, a posted row one of a CTA that  *)
(* has still to publish.                                                   *)
Signal == [kind : {"doorbell", "arrival"}, from : Rank, to : Rank]
is_row(m) == /\ m.kind = "row" /\ m.from \in Rank /\ m.to \in Rank
             /\ m.cta \in Block /\ m.row \in Row
pushes(r, c) == kernel[r] \in {"push", "mega"} /\ pc[r][c] = "push"
PostedInv == \A m \in posted : m \in Signal \/ (is_row(m) /\ pushes(m.from, m.cta))

ShapeInv ==
  /\ DOMAIN recv = Rank /\ \A r \in Rank : DOMAIN recv[r] = Row
  /\ DOMAIN part = Rank /\ \A r \in Rank : DOMAIN part[r] = Row
  /\ DOMAIN sc_dst = Rank /\ \A r \in Rank : DOMAIN sc_dst[r] = Row
  /\ DOMAIN out = Rank /\ \A r \in Rank : DOMAIN out[r] = Token

(* The typing of every variable, which holds whatever gives up.            *)
TypeInv == TypeOK /\ PlaceInv /\ PostedInv /\ ShapeInv

-----------------------------------------------------------------------------
(* The CTAs that have published, arrived at the combine's barrier, planned.*)
published(r) == {c \in Block : ~(/\ kernel[r] \in {"push", "mega"}
                                 /\ pc[r][c] \in {"start", "push"})}
present(r) == {c \in Block : \/ kernel[r] = "idle"
                             \/ kernel[r] = "combine" /\ pc[r][c] # "start"}
behind(r) == kernel[r] \in {"gemm", "combine", "idle"}
planned(r) == {c \in Block : \/ behind(r)
                             \/ /\ sorts(r)
                                /\ pc[r][c] \in {"gbar", "scatter", "tail", "done"}}
tailed(r) == behind(r) \/ (sorts(r) /\ pc[r][0] = "done")
acquired(r, c) == \/ behind(r)
                  \/ /\ sorts(r)
                     /\ pc[r][c] \in {"plan", "gbar", "scatter", "tail", "done"}
crossed(r, c) == \/ behind(r)
                 \/ sorts(r) /\ pc[r][c] \in {"scatter", "tail", "done"}

(* The replays of a rank that all its CTAs have pushed, that all have      *)
(* arrived to combine, that are finished.                                  *)
pushed(r) == IF published(r) = Block THEN replay[r] ELSE replay[r] - 1
combined(r) == IF present(r) = Block THEN replay[r] ELSE replay[r] - 1
finished(r) == IF kernel[r] = "idle" THEN replay[r] ELSE replay[r] - 1

alive(r) == fits(dest_counter[r])

(* What the counters of a rank count.                                      *)
Count(r) ==
  /\ grid_count[r] + Grid = replay[r] * Grid + Cardinality(published(r))
  /\ arr_count[r] + Grid = replay[r] * Grid + Cardinality(present(r))
  /\ alive(r) => /\ gbar[r] + Grid = replay[r] * Grid + Cardinality(planned(r))
                 /\ sort_count[r] + 1 = replay[r] + IF tailed(r) THEN 1 ELSE 0
CountInv == \A r \in Rank : Count(r)

(* A flag and the signal still on its way to it make up the replays of the *)
(* sender; a signal is on its way only before the kernel that sent it ends.*)
on_way(k, s, r) == [kind |-> k, from |-> s, to |-> r] \in posted
one(P) == IF P THEN 1 ELSE 0
FlagInv ==
  \A r, s \in Rank :
    /\ recv_doorbell[r][s] + one(on_way("doorbell", s, r)) = pushed(s)
    /\ arr_flags[r][s] + one(on_way("arrival", s, r)) = combined(s)
    /\ on_way("doorbell", s, r) => /\ kernel[s] \in {"push", "mega"}
                                   /\ published(s) = Block
    /\ on_way("arrival", s, r) => kernel[s] = "combine" /\ present(s) = Block

(* What the waiting CTAs of a rank wait for.                               *)
Target(r) ==
  \A c \in Block :
    /\ alive(r) /\ sorts(r) /\ pc[r][c] # "start" => epoch[r][c] = replay[r]
    /\ kernel[r] = "combine" /\ pc[r][c] = "wait" => s_N[r][c] = replay[r]
    /\ alive(r) /\ pc[r][c] = "gbar" => target[r][c] = replay[r] * Grid
TargetInv == \A r \in Rank : Target(r)

(* How far apart ranks can be.                                             *)
SyncInv ==
  /\ \A r, s \in Rank : finished(r) <= combined(s)
  /\ \A r, s \in Rank, c \in Block :
       kernel[r] = "combine" /\ pc[r][c] \in {"pull", "done"} =>
         replay[r] <= combined(s)
  /\ \A r, s \in Rank, c \in Block :
       alive(r) /\ acquired(r, c) => replay[r] <= pushed(s)
  /\ \A r \in Rank, c \in Block :
       alive(r) /\ crossed(r, c) => planned(r) = Block

(* The live rows: a CTA that plans has read the count, and until CTA 0 has *)
(* reset it nobody adds to it.                                             *)
rows(r) == IF kernel[r] = "gemm" \/ (sorts(r) /\ pc[r][0] = "done")
           THEN T_loc[r][0] ELSE dest_counter[r]
Counted(r) ==
  /\ \A c \in Block :
       /\ pc[r][c] \in {"plan", "gbar", "scatter", "tail"} => alive(r)
       /\ alive(r) /\ (kernel[r] = "gemm" \/ (sorts(r) /\ acquired(r, c)))
            => T_loc[r][c] = rows(r)
  /\ alive(r) /\ (kernel[r] = "gemm" \/ (sorts(r) /\ pc[r][0] = "done"))
       => dest_counter[r] = 0
CountedInv == \A r \in Rank : Counted(r)

(* A rank that ran out of rows, and the error words cleared since, has not *)
(* yet looked at the count again, and the others are held up behind it.    *)
early(r) == \/ kernel[r] \in {"idle", "push"}
            \/ sorts(r) /\ pc[r][0] \in {"start", "push", "wait"}
EarlyInv == clean => \A d \in Rank : alive(d) \/
              /\ early(d)
              /\ \A r \in Rank : finished(d) <= finished(r)

CoreInv == CountInv /\ FlagInv /\ TargetInv /\ SyncInv /\ CountedInv /\ EarlyInv

ProtocolInv == /\ clean => expired = 0
               /\ expired = 0 => CoreInv

-----------------------------------------------------------------------------
(* The replay whose rows a receive buffer collects or holds, and the       *)
(* tokens that have a claim on it.                                         *)
filling(d) == IF kernel[d] \in {"combine", "idle"} THEN replay[d] + 1 ELSE replay[d]
begun(s, tau) == ~(kernel[s] \in {"push", "mega"} /\ pc[s][tau % Grid] = "start")
claims(s, tau, d, i) == /\ replay[s] = filling(d) /\ begun(s, tau)
                        /\ <<d, i>> \in pull_stage[s][tau]

row_message(s, tau, d, i) ==
  [kind |-> "row", from |-> s, cta |-> tau % Grid, to |-> d, row |-> i,
   val |-> Origin(s, tau)]

(* A row of the buffer belongs to one token, whose payload is in it or on  *)
(* its way; every row below the count belongs to one.                      *)
Claim(d) ==
  /\ \A s \in Rank, tau \in Token, i \in Nat : claims(s, tau, d, i) =>
       /\ i < rows(d)
       /\ row_message(s, tau, d, i) \in posted \/ recv[d][i] = Origin(s, tau)
  /\ \A s, q \in Rank, tau, sigma \in Token, i \in Nat :
       claims(s, tau, d, i) /\ claims(q, sigma, d, i) => s = q /\ tau = sigma
  /\ \A i \in 0 .. rows(d) - 1 :
       \E s \in Rank, tau \in Token : claims(s, tau, d, i)
ClaimInv == \A d \in Rank : alive(d) => Claim(d)

(* Posted rows are claimed ones.                                           *)
RowInv ==
  \A m \in posted : m.kind = "row" =>
    \E tau \in Token : /\ m = row_message(m.from, tau, m.to, m.row)
                       /\ <<m.to, m.row>> \in pull_stage[m.from][tau]

(* Once a CTA has started, each of its tokens has a row with each of its   *)
(* destinations, except those it has still to push to.                     *)
StageInv ==
  \A s \in Rank, tau \in Token : replay[s] > 0 /\ begun(s, tau) =>
    /\ \A p \in pull_stage[s][tau] : /\ p[1] \in dests(my_ids[s][tau])
                                     /\ <<tau, p[1]>> \notin todo[s][tau % Grid]
    /\ \A p, q \in pull_stage[s][tau] : p[1] = q[1] => p = q
    /\ \A d \in dests(my_ids[s][tau]) :
         \/ <<tau, d>> \in todo[s][tau % Grid]
         \/ \E p \in pull_stage[s][tau] : p[1] = d
TodoInv ==
  \A s \in Rank, c \in Block :
    /\ \A p \in todo[s][c] : p[1] % Grid = c /\ p[2] \in dests(my_ids[s][p[1]])
    /\ todo[s][c] # {} => pushes(s, c)

ReceiveInv == expired = 0 => ClaimInv /\ RowInv /\ StageInv /\ TodoInv

-----------------------------------------------------------------------------
(* The plan of a rank: what CTA 0 has sized and the CTAs have scattered    *)
(* since, what CTA 1 has listed, what the others have cleared.             *)
live_rows(d) == 0 .. rows(d) - 1
consumed(d) == sorts(d) \/ kernel[d] = "gemm"
scattered(d, c) == kernel[d] = "gemm" \/ pc[d][c] \in {"tail", "done"}
Sized(d) == consumed(d) /\ 0 \in planned(d) =>
  /\ counted[d] = pairs(d, live_rows(d))
  /\ sti[d] = {p \in pairs(d, live_rows(d)) : scattered(d, p[1] % Grid)}
Listed(d) == 1 \in planned(d) => pull_src[d] = pull_stage[d]
Cleared(d) == consumed(d) =>
  \A t \in live_rows(d) : (t % (Grid - 2)) + 2 \in planned(d) =>
    part[d][t] = {} /\ sc_dst[d][t] = recv[d][t]
PlanInv == \A d \in Rank : alive(d) => Sized(d) /\ Listed(d) /\ Cleared(d)

(* The partial sums of a finished GEMM stay until no token wants them.     *)
summed(d) == IF kernel[d] \in {"combine", "idle"} THEN replay[d] ELSE replay[d] - 1
PartInv ==
  \A d, s \in Rank, tau \in Token, i \in Nat :
    alive(d) /\ replay[s] = summed(d) /\ <<d, i>> \in pull_stage[s][tau] =>
      i \in Row /\ part[d][i] = addends(d, Origin(s, tau))

(* Outputs are written once all is in.                                     *)
OutInv ==
  clean => \A r \in Rank, tau \in Token :
    /\ kernel[r] = "combine" /\ pc[r][tau % Grid] = "done" =>
         out[r][tau] = expected(r, tau)
    /\ kernel[r] = "idle" /\ replay[r] > 0 =>
         out[r][tau] \in {NotWritten, expected(r, tau)}

SumInv == expired = 0 => PlanInv /\ PartInv /\ OutInv
=============================================================================
