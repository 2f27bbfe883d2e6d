----------------------------- MODULE K0dPullInv -----------------------------
(* The inductive invariant of K0dPull that its proofs establish: what the  *)
(* counters and flags of its six channels stand for, whatever arms and     *)
(* time-outs came before; how far apart the ranks can be as long as no     *)
(* error word is set; and, with that, which replay's rows are where.       *)
EXTENDS K0dPull

(* The counters do not wrap within MaxReplay replays.                      *)
NoWrap == MaxReplay * Grid < CounterMod

-----------------------------------------------------------------------------
(* Where the CTAs of a launch can be.                                      *)
places(k) == CASE k = "fused" -> {"start", "wait", "quant", "done"}
               [] k \in {"b1", "b2"} -> {"start", "wait", "done"}
               [] k = "combine" -> {"start", "wait", "pull", "signal", "done"}
               [] OTHER -> {"done"}
only_in(label, k) == CASE label = "wait" /\ k = "combine" -> arm # "s"
                       [] label = "wait" /\ k = "fused" -> arm = "f"
                       [] label = "signal" -> arm = "f"
                       [] OTHER -> TRUE

PlaceInv ==
  \A r \in Rank :
    /\ kernel[r] # "idle" => replay[r] > 0
    /\ kernel[r] = "b1" => arm # "f"
    /\ kernel[r] = "b2" => arm = "s"
    /\ kernel[r] # "gather" => \A t \in Row : rows[r][t] = "done"
    /\ \A c \in Block : /\ pc[r][c] \in places(kernel[r])
                        /\ only_in(pc[r][c], kernel[r])
                        /\ c \notin ctas(kernel[r]) => pc[r][c] = "done"

ShapeInv ==
  /\ DOMAIN a_dst = Rank /\ \A r \in Rank : DOMAIN a_dst[r] = Row
  /\ DOMAIN part = Rank /\ \A r \in Rank : DOMAIN part[r] = Row
  /\ DOMAIN out = Rank /\ \A r \in Rank : DOMAIN out[r] = Token

-----------------------------------------------------------------------------
(* A channel belongs to a launch of the arms that use it; it is told once  *)
(* in a replay, by the last of its members to come.                        *)
used(ch) == CASE ch = "b1" -> arm \in {"s", "b2f"}
              [] ch = "b2" -> arm = "s"
              [] ch = "arr_b2f" -> arm = "b2f"
              [] OTHER -> arm = "f"
home(ch) == CASE ch \in {"b1", "b2"} -> ch
              [] ch = "quant" -> "fused"
              [] OTHER -> "combine"
members(ch) == IF ch \in {"comb", "arr_f", "arr_b2f"} THEN Block ELSE {0}
width(ch) == IF ch \in {"comb", "arr_f", "arr_b2f"} THEN Grid ELSE 1
come(ch, label) == IF ch \in {"quant", "comb"} THEN label = "done"
                                               ELSE label # "start"

(* A launch's place in the stream of a replay.                             *)
place(k) == CASE k = "fused" -> 1 [] k = "b1" -> 2 [] k = "gather" -> 3
              [] k = "gemm" -> 4 [] k = "b2" -> 5 [] k = "combine" -> 6
              [] OTHER -> 7
later(ch, r) == place(kernel[r]) > place(home(ch))

present(ch, r) == {c \in members(ch) : kernel[r] = home(ch) /\ come(ch, pc[r][c])}
told(ch, r) == later(ch, r) \/ present(ch, r) = members(ch)

(* The replays in which a rank has told a channel, if it is in use.        *)
rounds(ch, r) == IF told(ch, r) THEN replay[r] ELSE replay[r] - 1
done(ch, r) == IF used(ch) THEN rounds(ch, r) ELSE 0

sent(ch, r, d) == IF [ch |-> ch, from |-> r, to |-> d] \in posted THEN 1 ELSE 0
level(ch, r) == flags[ch][r][r] + sent(ch, r, r)
partial(ch, r) == IF used(ch) /\ ~told(ch, r) THEN Cardinality(present(ch, r)) ELSE 0

PostInv == \A m \in posted : /\ m \in [ch : Channel, from : Rank, to : Rank]
                             /\ used(m.ch) /\ kernel[m.from] = home(m.ch)
                             /\ told(m.ch, m.from)
SentInv == \A ch \in Channel : \A r, d \in Rank :
             flags[ch][d][r] + sent(ch, r, d) = level(ch, r)
CountInv == \A ch \in Channel : \A r \in Rank :
              count[ch][r] = level(ch, r) * width(ch) + partial(ch, r)
LevelInv == \A ch \in Channel : \A r, q \in Rank :
              level(ch, r) - done(ch, r) = level(ch, q) - done(ch, q)
AgreeInv == \A r \in Rank : \A ch \in {"comb", "arr_f"} :
              level("quant", r) - done("quant", r) = level(ch, r) - done(ch, r)
BoundInv == \A ch \in Channel : \A r \in Rank : level(ch, r) <= rounds(ch, r)
EpochAt(r) ==
  /\ kernel[r] \in {"b1", "b2"} /\ pc[r][0] = "wait" =>
       epoch[r][0] = level(kernel[r], r)
  /\ \A c \in Block : kernel[r] = "combine" /\ pc[r][c] = "wait" =>
       epoch[r][c] = level(head, r) + IF told(head, r) THEN 0 ELSE 1
EpochInv == \A r \in Rank : EpochAt(r)

(* No rank takes back what it has told, except that the host may change the *)
(* arm.                                                                     *)
Growth == \A ch \in Channel : \A r \in Rank : done(ch, r) <= done(ch, r)'

CountersInv == /\ PostInv /\ SentInv /\ CountInv /\ LevelInv
               /\ AgreeInv /\ BoundInv /\ EpochInv

-----------------------------------------------------------------------------
(* Who is through the wait of a channel has seen everybody tell it.        *)
Meeting == {"b1", "b2", "arr_f", "arr_b2f"}
through(ch, r) ==
  \/ later(ch, r)
  \/ kernel[r] = home(ch) /\ \E c \in members(ch) : pc[r][c] \notin {"start", "wait"}
passed(ch, r) == IF through(ch, r) THEN replay[r] ELSE replay[r] - 1
let_go(r) == ~(kernel[r] = "fused" /\ pc[r][0] \in {"start", "wait"})

SyncInv ==
  /\ \A ch \in Meeting : used(ch) =>
       \A r, q \in Rank : passed(ch, r) <= done(ch, q)
  /\ arm = "f" => \A r, q \in Rank : let_go(r) => replay[r] - 1 <= done("comb", q)

-----------------------------------------------------------------------------
(* The plan is that of the routes; a rank's rows are those it quantised    *)
(* last; the rows it has gathered and summed are this replay's.            *)
planned(r) == kernel[r] # "idle" /\ ~at(r, 0, "fused", "start")
PlanInv ==
  \A r \in Rank : planned(r) =>
    /\ all_ids[r] = my_ids
    /\ pull_src[r] = [tau \in Token |->
         {<<p, tof(my_ids, p, <<r, tau>>)>> : p \in my_ids[r][tau]}]
version(r) == IF kernel[r] = "fused" /\ pc[r][0] # "done" THEN replay[r] - 1
                                                         ELSE replay[r]
SourceInv == \A r \in Rank : \A tau \in Token : a_src[r][tau] = version(r)

gathered(r, t) == kernel[r] = "gemm" \/ (kernel[r] = "gather" /\ rows[r][t] = "done")
cleared(r, t) == kernel[r] = "gemm" \/ (kernel[r] = "gather" /\ rows[r][t] # "clear")
GatherInv ==
  \A r \in Rank : \A g \in own(my_ids, r) :
    LET t == tof(my_ids, r, g) IN
    /\ gathered(r, t) => a_dst[r][t] = <<r, g[1], g[2], replay[r]>>
    /\ cleared(r, t) => part[r][t] = {}

holds_sums(r) == kernel[r] \in {"b2", "combine", "idle", "fused", "b1"}
summed(r) == IF kernel[r] \in {"fused", "b1"} THEN replay[r] - 1 ELSE replay[r]
PartInv ==
  \A r, q \in Rank :
    holds_sums(r) /\ kernel[q] # "idle" /\ replay[q] = summed(r) =>
      \A g \in own(my_ids, r) :
        part[r][tof(my_ids, r, g)] = {<<r, g[1], g[2], replay[q]>>}
OutInv ==
  \A r \in Rank : \A c \in Block :
    at(r, c, "combine", "signal") \/ at(r, c, "combine", "done") =>
      \A tau \in Token : tau % Grid = c => out[r][tau] = expected(r, tau)

-----------------------------------------------------------------------------
TypeInv == TypeOK /\ PlaceInv /\ ShapeInv
RowsInv == GatherInv /\ PartInv /\ OutInv
SumsInv == SyncInv /\ RowsInv
IInv == TypeInv /\ CountersInv /\ PlanInv /\ SourceInv /\ (clean => SumsInv)
=============================================================================
