----------------------------- MODULE RoutePlan -----------------------------
(* The deterministic plan of the pull arms, computed from the routes of    *)
(* all ranks by a sequence of kernels in one stream: kernels/plan/         *)
(* tile_plan.cpp and k0pf_frozen_plan.cpp ("tile"), k0pf_plan.cpp          *)
(* ("prod", which scans in three levels).  A block of a kernel is one      *)
(* step, a block that scans tiles with a carry one step per tile; blocks   *)
(* of one kernel run in any order.  Ranks share nothing here: they run one *)
(* after the other, each in its own memory, launch after launch.           *)
EXTENDS Integers, FiniteSets, Sequences, FiniteSetsExt

CONSTANTS World, T,          \* ranks, tokens per rank
          TOPK, E,           \* experts per token, experts per rank
          Dim,               \* threads per block
          CHUNK,             \* pairs per block of the sort (E12_CHUNK)
          ITEMS,             \* tokens per block of L1 (K0PF_TOF_ITEMS)
          BLOCK_M,           \* rows per expert block
          Inputs,            \* routings: [0 .. World*T*TOPK-1 -> experts]
          Caps,              \* capacities: rows (T_loc_max), pad (PADMAX),
                             \* parts (chunks per rank, K0PF_TOF_MAXCHUNK)
          MaxLaunch          \* bound on the launches of a rank

N == World * T
n == N * TOPK
Rank == 0 .. World - 1
Gtok == 0 .. N - 1
Pair == 0 .. n - 1
Expert == 0 .. E - 1

(* The capacities as region_ab.py checks them, but for their size.         *)
RoutePlanAssumption ==
  /\ {World, T, TOPK, E, Dim, CHUNK, ITEMS, BLOCK_M} \subseteq Nat \ {0}
  /\ MaxLaunch \in Nat
  /\ \A ids \in Inputs : ids \in [Pair -> 0 .. World * E - 1]
  /\ ITEMS % Dim = 0
  /\ \A c \in Caps : c.pad % BLOCK_M = 0

ceil_div(a, b) == (a + b - 1) \div b
NCHUNK == ceil_div(n, CHUNK)
ntc == ceil_div(N, ITEMS)

VARIABLES kind,      \* the build of the plan: "tile" or "prod"
          cap,       \* capacities of the buffers
          all_ids,   \* the gathered routes of this launch
          launch,    \* launches begun
          r,         \* the rank now computing: cur_rank
          k,         \* index of the running kernel
          todo,      \* its blocks that have not ended
          carry,     \* [b |-> [base, sum]] of the blocks inside a tile loop
          mem        \* memory of each rank

vars == <<kind, cap, all_ids, launch, r, k, todo, carry, mem>>

g == mem[r]

-----------------------------------------------------------------------------
(* The kernels in stream order.                                            *)
Order == IF kind = "tile"
         THEN <<"reset", "own", "tof", "gath", "count", "scan", "pad",
                "sorted", "pull", "zero">>
         ELSE <<"reset", "own", "l1", "l2", "l3", "gath", "count", "scan",
                "pad", "sorted", "pscan", "pfill", "zero">>

kernel == Order[k]

(* The launched grids; e12_count and e12_reset stride over their range.    *)
Grid(name) ==
  CASE name = "own" -> 0 .. ceil_div(World * N, Dim) - 1
    [] name \in {"tof", "l2"} -> Rank
    [] name \in {"l1", "l3"} -> 0 .. World * ntc - 1
    [] name = "gath" -> 0 .. ceil_div(N, Dim) - 1
    [] name = "count" -> 0 .. ceil_div(n, Dim) - 1
    [] name = "pad" -> 0 .. ceil_div(cap.pad, Dim) - 1
    [] name = "sorted" -> 0 .. NCHUNK - 1
    [] name = "pull" -> 0 .. ceil_div(T + 1, Dim) - 1
    [] name = "pfill" -> 0 .. ceil_div(T, Dim) - 1
    [] name \in {"reset", "scan", "pscan", "zero"} -> {0}

threads(b, hi) == {i \in b * Dim .. (b + 1) * Dim - 1 : i < hi}

Unset == [pair |-> -1, tok |-> -1, slot |-> -1]

Memory(c) ==
  [own |-> [p \in Rank |-> [i \in Gtok |-> 0]],
   tof |-> [p \in Rank |-> [i \in Gtok |-> 0]],
   part |-> [p \in Rank |-> [i \in 0 .. ntc - 1 |-> 0]],
   tloc |-> [p \in Rank |-> 0],
   cnt |-> [e \in Expert |-> 0],
   ccnt |-> [i \in 0 .. NCHUNK - 1 |-> [e \in Expert |-> 0]],
   erb |-> [e \in 0 .. E |-> 0],
   gath |-> [t \in 0 .. c.rows - 1 |-> <<-1, -1>>],
   sorted |-> [i \in 0 .. c.pad - 1 |-> Unset],
   expert |-> [i \in 0 .. (c.pad \div BLOCK_M) - 1 |-> -1],
   nvi |-> <<0, 0>>,
   ptr |-> [i \in 0 .. T |-> 0],
   src |-> [i \in 0 .. T * World - 1 |-> <<-1, -1>>],
   err |-> {},
   dirty |-> 0 .. c.rows - 1,        \* partial rows that are not zero
   stray |-> FALSE]                  \* something was written out of bounds

Init == /\ kind \in {"tile", "prod"}
        /\ cap \in Caps
        /\ all_ids \in Inputs
        /\ launch = 1
        /\ r = 0
        /\ k = 1
        /\ todo = {0}
        /\ carry = [b \in {} |-> 0]
        /\ mem = [p \in Rank |-> Memory(cap)]

-----------------------------------------------------------------------------
owned(ids, p, i) == \E s \in 0 .. TOPK - 1 : ids[i * TOPK + s] \div E = p
local(j) == all_ids[j] - r * E
mine(j) == local(j) \in Expert

(* Function f with the entries of h written over it; a write outside the   *)
(* domain of f is a stray one.                                             *)
over(f, h) == [x \in DOMAIN f |-> IF x \in DOMAIN h THEN h[x] ELSE f[x]]

Reset(b) ==
  [g EXCEPT !.cnt = [e \in Expert |-> 0],
            !.ccnt = [i \in 0 .. NCHUNK - 1 |-> [e \in Expert |-> 0]],
            !.tloc = [p \in Rank |-> 0],
            !.err = {}]

Own(b) ==
  [g EXCEPT !.own = [p \in Rank |-> [i \in Gtok |->
     IF p * N + i \in threads(b, World * N)
     THEN IF owned(all_ids, p, i) THEN 1 ELSE 0
     ELSE @[p][i]]]]

(* L2: the chunk totals become chunk bases, in place.                      *)
TofL2(p) ==
  IF ntc > cap.parts THEN g
  ELSE LET base(i) == MapThenSumSet(LAMBDA j : g.part[p][j], 0 .. i - 1)
       IN [g EXCEPT !.part[p] = [i \in 0 .. ntc - 1 |-> base(i)],
                    !.tloc[p] = base(ntc)]

TofL3(b) ==
  LET p == b \div ntc
      c == b % ntc
  IN IF ntc > cap.parts \/ c = 0 THEN g
     ELSE [g EXCEPT !.tof[p] = [i \in Gtok |->
             IF i \div ITEMS = c THEN @[i] + g.part[p][c] ELSE @[i]]]

Gath(b) ==
  LET here == {i \in threads(b, N) : g.own[r][i] = 1}
      fit == {i \in here : g.tof[r][i] < cap.rows}
  IN [g EXCEPT !.nvi[2] = IF b = 0 THEN g.tloc[r] ELSE @,
               !.err = IF fit # here THEN @ \cup {1} ELSE @,
               !.gath = [t \in DOMAIN @ |->
                  IF \E i \in fit : g.tof[r][i] = t
                  THEN LET i == CHOOSE i \in fit : g.tof[r][i] = t
                       IN <<i \div T, i % T>>
                  ELSE @[t]]]

Count(b) ==
  LET here(e) == {j \in threads(b, n) : local(j) = e}
  IN [g EXCEPT !.cnt = [e \in Expert |-> @[e] + Cardinality(here(e))],
               !.ccnt = [c \in 0 .. NCHUNK - 1 |-> [e \in Expert |->
                  @[c][e] + Cardinality({j \in here(e) : j \div CHUNK = c})]]]

pad_to(c) == ceil_div(c, BLOCK_M) * BLOCK_M

Scan(b) ==
  LET erb == [e \in 0 .. E |->
                MapThenSumSet(LAMBDA x : pad_to(g.cnt[x]), 0 .. e - 1)]
      blocks == erb[E] \div BLOCK_M
      bcap == cap.pad \div BLOCK_M
      label(i) == CHOOSE e \in Expert :
                    i \in erb[e] \div BLOCK_M .. (erb[e + 1] \div BLOCK_M) - 1
      before(c, e) == MapThenSumSet(LAMBDA x : g.ccnt[x][e], 0 .. c - 1)
  IN [g EXCEPT
        !.erb = erb,
        !.nvi[1] = erb[E],
        !.expert = over(@, [i \in 0 .. blocks - 1 |-> label(i)]),
        !.err = IF kind = "prod" /\ blocks > bcap THEN @ \cup {2} ELSE @,
        !.stray = @ \/ (kind = "tile" /\ blocks > bcap),
        !.ccnt = [c \in 0 .. NCHUNK - 1 |-> [e \in Expert |->
                    erb[e] + before(c, e)]]]

Pad(b) ==
  LET last == IF kind = "prod" THEN g.nvi[1] ELSE cap.pad
      here == {i \in threads(b, cap.pad) : i < last}
  IN [g EXCEPT !.sorted = over(@, [i \in here |->
        [pair |-> -1, tok |-> g.nvi[2], slot |-> TOPK]])]

row_fits(row) == row < cap.pad

Sorted(c) ==
  LET here == {j \in Pair : j \div CHUNK = c /\ mine(j)}
      row(j) == g.ccnt[c][local(j)]
                + Cardinality({u \in here : u < j /\ local(u) = local(j)})
      fit == {j \in here : row_fits(row(j))}
      item(j) == [pair |-> j, tok |-> g.tof[r][j \div TOPK], slot |-> j % TOPK]
  IN [g EXCEPT !.err = IF fit # here THEN @ \cup {2} ELSE @,
               !.sorted = over(@, [x \in {row(j) : j \in fit} |->
                                     item(CHOOSE j \in fit : row(j) = x)]),
               !.stray = @ \/ \E j \in fit : row(j) \notin DOMAIN g.sorted]

(* The pull list of the rank's own tokens from ptr(tau) on: its producers  *)
(* in rank order, each with the token's row there.                         *)
fanout(tau) == Cardinality({p \in Rank : g.own[p][r * T + tau] = 1})

producer_row(p, tau) == g.tof[p][r * T + tau]

filled(m, ptr, taus) ==
  LET nth(tau, p) == ptr[tau] + Cardinality({q \in 0 .. p - 1 :
                                               g.own[q][r * T + tau] = 1})
      items == {<<tau, p>> \in taus \X Rank : g.own[p][r * T + tau] = 1}
      fit == {x \in items : nth(x[1], x[2]) < T * World}
  IN [m EXCEPT !.err = IF fit # items THEN @ \cup {8} ELSE @,
               !.src = over(@, [i \in {nth(x[1], x[2]) : x \in fit} |->
                  LET x == CHOOSE x \in fit : nth(x[1], x[2]) = i
                  IN <<x[2], producer_row(x[2], x[1])>>])]

Pull(b) ==
  LET here == threads(b, T + 1)
      base == [tau \in here |-> MapThenSumSet(fanout, 0 .. tau - 1)]
  IN filled([g EXCEPT !.ptr = over(@, base)], base, here \ {T})

Pfill(b) == filled(g, g.ptr, threads(b, T))

(* zero_partial, one step for its grid of T_loc_max blocks.                *)
Zero(b) == [g EXCEPT !.dirty = @ \ (0 .. g.nvi[2] - 1)]

-----------------------------------------------------------------------------
(* The blocks with a loop over tiles: a scan of Dim entries from base on,  *)
(* on top of the sum of the tiles before.  ITEMS is a multiple of Dim.     *)
scans == {"tof", "l1", "pscan"}

first(b) == IF kernel = "l1" THEN (b % ntc) * ITEMS ELSE 0
limit(b) == CASE kernel = "tof" -> N
              [] kernel = "l1" -> Min({N, first(b) + ITEMS})
              [] kernel = "pscan" -> T
at(b) == IF b \in DOMAIN carry THEN carry[b] ELSE [base |-> first(b), sum |-> 0]

scanned(b, i) == CASE kernel = "tof" -> g.own[b][i]
                   [] kernel = "l1" -> g.own[b \div ntc][i]
                   [] kernel = "pscan" -> fanout(i)

tile(b) == {i \in at(b).base .. at(b).base + Dim - 1 : i < limit(b)}
exclusive(b, i) == at(b).sum + MapThenSumSet(LAMBDA j : scanned(b, j),
                                             at(b).base .. i - 1)
tile_sum(b) == MapThenSumSet(LAMBDA j : scanned(b, j), tile(b))

carried(b) == at(b).sum + tile_sum(b)

Tile(b) ==
  LET h == [i \in tile(b) |-> exclusive(b, i)]
  IN CASE kernel = "tof" -> [g EXCEPT !.tof[b] = over(@, h)]
       [] kernel = "l1" -> [g EXCEPT !.tof[b \div ntc] = over(@, h)]
       [] kernel = "pscan" ->
            [g EXCEPT !.ptr = [i \in 0 .. T |->
               CASE i \in tile(b) -> h[i]
                 [] i = T /\ T - 1 \in tile(b) -> carried(b)
                 [] OTHER -> @[i]]]

Leave(b) ==
  CASE kernel = "tof" -> [g EXCEPT !.tloc[b] = at(b).sum]
    [] kernel = "l1" -> [g EXCEPT !.part[b \div ntc][b % ntc] = at(b).sum]
    [] kernel = "pscan" -> g

guarded == kernel = "l1" /\ ntc > cap.parts

Guard(b) == [g EXCEPT !.err = IF b = 0 THEN @ \cup {16} ELSE @]

-----------------------------------------------------------------------------
Effect(b) ==
  CASE kernel = "reset" -> Reset(b)
    [] kernel = "own" -> Own(b)
    [] kernel = "l1" -> Guard(b)
    [] kernel = "l2" -> TofL2(b)
    [] kernel = "l3" -> TofL3(b)
    [] kernel = "gath" -> Gath(b)
    [] kernel = "count" -> Count(b)
    [] kernel = "scan" -> Scan(b)
    [] kernel = "pad" -> Pad(b)
    [] kernel = "sorted" -> Sorted(b)
    [] kernel = "pull" -> Pull(b)
    [] kernel = "pfill" -> Pfill(b)
    [] kernel = "zero" -> Zero(b)

Block == \E b \in todo :
  /\ kernel \notin scans \/ guarded
  /\ mem' = [mem EXCEPT ![r] = Effect(b)]
  /\ todo' = todo \ {b}
  /\ UNCHANGED <<kind, cap, all_ids, launch, r, k, carry>>

TileStep == \E b \in todo :
  /\ kernel \in scans
  /\ ~guarded
  /\ at(b).base < limit(b)
  /\ mem' = [mem EXCEPT ![r] = Tile(b)]
  /\ carry' = [x \in DOMAIN carry \cup {b} |->
                 IF x = b THEN [base |-> at(b).base + Dim, sum |-> carried(b)]
                 ELSE carry[x]]
  /\ UNCHANGED <<kind, cap, all_ids, launch, r, k, todo>>

TileEnd == \E b \in todo :
  /\ kernel \in scans
  /\ ~guarded
  /\ at(b).base >= limit(b)
  /\ mem' = [mem EXCEPT ![r] = Leave(b)]
  /\ todo' = todo \ {b}
  /\ UNCHANGED <<kind, cap, all_ids, launch, r, k, carry>>

(* The stream starts the next kernel when the last block has ended.        *)
NextKernel ==
  /\ todo = {}
  /\ k < Len(Order)
  /\ k' = k + 1
  /\ todo' = Grid(Order[k + 1])
  /\ carry' = [b \in {} |-> 0]
  /\ UNCHANGED <<kind, cap, all_ids, launch, r, mem>>

planned == todo = {} /\ k = Len(Order)

NextRank ==
  /\ planned
  /\ r < World - 1
  /\ r' = r + 1
  /\ k' = 1
  /\ todo' = {0}
  /\ UNCHANGED <<kind, cap, all_ids, launch, carry, mem>>

(* All ranks are joined and the routes change; the GEMMs have left values  *)
(* in the partial rows.                                                    *)
NextLaunch ==
  /\ planned
  /\ r = World - 1
  /\ launch < MaxLaunch
  /\ launch' = launch + 1
  /\ all_ids' \in Inputs
  /\ r' = 0
  /\ k' = 1
  /\ todo' = {0}
  /\ mem' = [p \in Rank |-> [mem[p] EXCEPT !.dirty = 0 .. cap.rows - 1,
                                            !.stray = FALSE]]
  /\ UNCHANGED <<kind, cap, carry>>

Next == Block \/ TileStep \/ TileEnd \/ NextKernel \/ NextRank \/ NextLaunch

Spec == Init /\ [][Next]_vars

-----------------------------------------------------------------------------
(* What a rank has planned in this launch.                                 *)
done(p) == p < r \/ (p = r /\ planned)
clean(p) == done(p) /\ mem[p].err = {}

(* Reference: the rank's tokens in order, its pairs of an expert in order. *)
tokens(p) == {i \in Gtok : owned(all_ids, p, i)}
rank_in(S, x) == Cardinality({y \in S : y < x})
pairs(p, e) == {j \in Pair : all_ids[j] = p * E + e}
padded(p, e) == pad_to(Cardinality(pairs(p, e)))
segment(p, e) == MapThenSumSet(LAMBDA x : padded(p, x), 0 .. e - 1)

(* The buffers have the sizes they were allocated with, and the two counts *)
(* a later kernel trusts never exceed what there is to count.              *)
TypeOK ==
  /\ r \in Rank /\ k \in 1 .. Len(Order) /\ todo \subseteq Grid(kernel)
  /\ \A p \in Rank :
       /\ mem[p].err \subseteq {1, 2, 8, 16}
       /\ mem[p].nvi[1] \in 0 .. n * BLOCK_M
       /\ mem[p].nvi[2] \in 0 .. N
       /\ \A q \in Rank : mem[p].tof[q] \in [Gtok -> 0 .. N]
       /\ DOMAIN mem[p].sorted = 0 .. cap.pad - 1

(* A rank that reports no error has gathered its tokens once each in       *)
(* token order, sorted its pairs stably by expert, with their weights,     *)
(* padding and block labels, and zeroed the rows the GEMM adds into,       *)
(* whatever the launch before left.                                        *)
PlanExact == \A p \in Rank : clean(p) =>
  LET m == mem[p]
  IN /\ m.nvi = <<segment(p, E), Cardinality(tokens(p))>>
     /\ m.dirty \cap (0 .. m.nvi[2] - 1) = {}
     /\ \A i \in tokens(p) :
          m.gath[rank_in(tokens(p), i)] = <<i \div T, i % T>>
     /\ \A e \in Expert : \A x \in 0 .. padded(p, e) - 1 :
          LET item == m.sorted[segment(p, e) + x]
          IN /\ m.expert[(segment(p, e) + x) \div BLOCK_M] = e
             /\ IF x < Cardinality(pairs(p, e))
                THEN /\ item.pair \in pairs(p, e)
                     /\ rank_in(pairs(p, e), item.pair) = x
                     /\ item.slot = item.pair % TOPK
                     /\ m.gath[item.tok] = <<(item.pair \div TOPK) \div T,
                                            (item.pair \div TOPK) % T>>
                ELSE item.slot = TOPK /\ item.tok = m.nvi[2]

(* What one rank pulls is what another rank computes: the row a pull list  *)
(* names on a producer is the row in which the producer gathered that very *)
(* token, and every rank that owns an expert of the token is listed once,  *)
(* although the ranks never compare their plans.                           *)
PullMeetsGather == \A p \in Rank : clean(p) =>
  \A tau \in 0 .. T - 1 :
    LET m == mem[p]
        list == {m.src[i] : i \in m.ptr[tau] .. m.ptr[tau + 1] - 1}
        owners == {q \in Rank : owned(all_ids, q, p * T + tau)}
    IN /\ {x[1] : x \in list} = owners
       /\ m.ptr[tau + 1] - m.ptr[tau] = Cardinality(owners)
       /\ \A x \in list : clean(x[1]) => mem[x[1]].gath[x[2]] = <<p, tau>>

(* Too many rows, too many padded pairs or too many chunks show in the     *)
(* error word, and nothing else does.                                      *)
OverflowReported == \A p \in Rank : done(p) =>
  (mem[p].err # {} <=> \/ Cardinality(tokens(p)) > cap.rows
                       \/ segment(p, E) > cap.pad
                       \/ kind = "prod" /\ ntc > cap.parts)

(* A write past the end of a buffer never goes without an error bit once   *)
(* the plan is complete: the builds without a bound on block labels rely   *)
(* on the sort to notice.                                                  *)
StrayReported == \A p \in Rank : done(p) /\ mem[p].stray => mem[p].err # {}

=============================================================================
