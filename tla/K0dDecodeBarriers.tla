-------------------------- MODULE K0dDecodeBarriers --------------------------
(* The barriers inside K0dDecode are the barriers of PeerBarrier and        *)
(* GridBarrier: the head of k0d_combine on arr_count and arr_flags, and the *)
(* CTA barrier of the sort on gbar.                                         *)
EXTENDS K0dDecode

started(r) == IF kernel[r] = "idle" THEN replay[r] ELSE replay[r] - 1

head(r, c) == CASE kernel[r] = "combine" /\ pc[r][c] = "wait" -> "wait"
                [] kernel[r] = "combine" /\ pc[r][c] \in {"pull", "done"} -> "left"
                [] OTHER -> "ready"

in_flight(s, r) == Cardinality({m \in posted : /\ m.kind = "arrival"
                                               /\ m.from = s /\ m.to = r})

PB == INSTANCE PeerBarrier
        WITH MaxLaunch <- MaxReplay, SpinLimited <- (\E x \in Scenarios : x.giving_up > 0),
             pc <- [r \in Rank |-> [c \in Block |-> head(r, c)]],
             target <- s_N, arrive_count <- arr_count, flags <- arr_flags,
             posted <- [s \in Rank |-> [r \in Rank |-> in_flight(s, r)]],
             launched <- [r \in Rank |-> started(r)],
             pperr <- [r \in Rank |-> ErrArrival \in pperr[r]]

(* The CTAs of a rank that the sort's barrier has let through this replay. *)
through(r, c) == \/ kernel[r] \in {"idle", "gemm", "combine"}
                 \/ sorts(r) /\ pc[r][c] \in {"scatter", "tail", "done"}

(* The ranks run the same code: rank 0 stands for each of them.            *)
GB == INSTANCE GridBarrier
        WITH MaxPhase <- MaxReplay, SpinLimited <- (\E x \in Scenarios : x.giving_up > 0),
             pc <- [c \in Block |-> IF at(0, c, "gbar") THEN "wait" ELSE "work"],
             crossed <- [c \in Block |-> replay[0] -
                                         IF through(0, c) THEN 0 ELSE 1],
             target <- target[0], gbar <- gbar[0],
             pperr <- ErrGrid \in pperr[0]

(* Every behaviour of the decode layer without overflow is, seen at its    *)
(* arrival counters and flags, a behaviour of PeerBarrier: what is proved  *)
(* there holds of the barrier before the pulls (k0d_combine.hip:45-78).    *)
(* Seen at one rank's gbar it is a behaviour of GridBarrier                *)
(* (k0d_mega.hip:264-279).                                                 *)
BarriersImplemented == PB!Spec /\ GB!Spec
=============================================================================
