------------------------- MODULE K0dDecodeSyncProofs --------------------------
(* Two layers of the decode pipeline's proof.  First its type             *)
(* correctness: every variable keeps its type, every CTA is in a place of  *)
(* its kernel, and what is posted comes from where it can come from,       *)
(* whatever gives up or overflows.  Then its synchronisation: the          *)
(* cumulative counters, doorbells, arrival flags and grid-barrier targets  *)
(* stand for what K0dDecodeInv says of them (CoreInv), one lemma per       *)
(* action; from it, that the row allocator is reset without losing a claim *)
(* and that no partial row is rewritten while an earlier combine pulls it. *)
(* K0dDecodeDataProofs builds on both.                                     *)
EXTENDS K0dDecodeInv, FiniteSetTheorems, TLAPS

-----------------------------------------------------------------------------
(* The arithmetic of the constants and of the counters.                    *)
LEMMA Constants == /\ World \in Nat \ {0} /\ T \in Nat \ {0} /\ E \in Nat \ {0}
                   /\ Grid \in Nat /\ Grid >= 3 /\ MaxReplay \in Nat
                   /\ CounterMod \in Nat \ {0}
BY K0dDecodeAssumption, CounterModAssumption

(* The owner of an expert is a rank.                                       *)
LEMMA OwnerType == \A e \in 0 .. World * E - 1 : owner(e) \in Rank
<1> SUFFICES ASSUME NEW e \in 0 .. World * E - 1 PROVE owner(e) \in Rank
  OBVIOUS
<1>1. World * E \in Nat  BY Constants
<1>2. e \in Nat /\ e < World * E  BY <1>1
<1> DEFINE n == e \div E
<1>3. n \in Nat /\ n * E <= e  BY <1>2, Constants
<1>4. ~(n >= World)
  <2> SUFFICES ASSUME n >= World PROVE FALSE  OBVIOUS
  <2> HIDE DEF n
  <2>1. World * E <= n * E  BY <1>3, Constants
  <2> QED BY <2>1, <1>1, <1>2, <1>3, Constants
<1> QED BY <1>3, <1>4, Constants DEF owner, Rank

(* A counter stays one of its width when it wraps.                         *)
LEMMA BumpType == \A x \in 0 .. CounterMod - 1 : bump(x) \in 0 .. CounterMod - 1
BY Constants DEF bump

(* The targets computed from a counter are naturals.                       *)
LEMMA TargetType ==
  ASSUME NEW x \in 0 .. CounterMod - 1
  PROVE  grid_target(x, Grid) \in Nat /\ epoch_from_cumulative(x, Grid) \in Nat
<1>1. x \div Grid \in Nat  BY Constants
<1>2. (x \div Grid + 1) * Grid \in Nat  BY <1>1, Constants
<1> QED BY <1>1, <1>2, Constants DEF grid_target, epoch_from_cumulative

(* What the assumption says of a scenario.                                 *)
LEMMA ScenarioType ==
  ASSUME NEW x \in Scenarios
  PROVE  /\ x.inputs \subseteq [Token -> SUBSET (0 .. World * E - 1)]
         /\ x.split \in BOOLEAN /\ x.giving_up \in Nat
         /\ x.rows \in Nat \ {0}
BY K0dDecodeAssumption

(* A table stays one of its type when an entry is replaced.                *)
LEMMA UpdateType ==
  ASSUME NEW A, NEW B, NEW S, NEW f \in [A -> [B -> S]],
         NEW a \in A, NEW b \in B, NEW v \in S
  PROVE  /\ [f EXCEPT ![a][b] = v] \in [A -> [B -> S]]
         /\ \A x \in A, y \in B : [f EXCEPT ![a][b] = v][x][y] =
                                     IF x = a /\ y = b THEN v ELSE f[x][y]
OBVIOUS

(* Where a CTA can be.                                                     *)
Label == {"start", "push", "wait", "plan", "gbar", "scatter", "tail", "pull", "done"}

(* A step of one CTA leaves the others where they are.                     *)
LEMMA GotoType ==
  ASSUME TypeOK, NEW r \in Rank, NEW c \in Block, NEW l \in Label,
         goto(r, c, l)
  PROVE  /\ pc' \in [Rank -> [Block -> Label]]
         /\ \A q \in Rank, b \in Block :
              pc'[q][b] = IF q = r /\ b = c THEN l ELSE pc[q][b]
<1>1. pc \in [Rank -> [Block -> Label]]  BY DEF TypeOK, Label
<1> QED BY <1>1, UpdateType DEF goto

(* The destinations of a token are ranks.                                  *)
LEMMA DestsType ==
  ASSUME TypeOK, NEW r \in Rank, NEW tau \in Token
  PROVE  dests(my_ids[r][tau]) \subseteq Rank
BY OwnerType, ScenarioType DEF dests, TypeOK

-----------------------------------------------------------------------------
(* The initial state is one of the types.                                  *)
LEMMA TypeInit == Init => TypeInv
<1> SUFFICES ASSUME Init PROVE TypeInv OBVIOUS
<1> USE DEF Init
<1>1. TypeOK BY Constants, ScenarioType DEF TypeOK, Row
<1>2. PlaceInv BY DEF PlaceInv, places
<1>3. PostedInv BY DEF PostedInv
<1>4. ShapeInv BY DEF ShapeInv
<1> QED BY <1>1, <1>2, <1>3, <1>4 DEF TypeInv

(* A launch draws the routes of the replay from the inputs.                *)
LEMMA TypeLaunch ==
  ASSUME TypeInv, NEW r \in Rank, Launch(r)
  PROVE  TypeInv'
<1> USE DEF TypeInv, Launch, stream, inbox, counters, plan, regs
<1>1. TypeOK' BY Constants DEF TypeOK, begin, Row
<1>2. PlaceInv' BY DEF PlaceInv, places, begin, TypeOK
<1>3. PostedInv' BY DEF PostedInv, begin, pushes, is_row, Row, TypeOK
<1>4. ShapeInv' BY DEF ShapeInv, Row
<1> QED BY <1>1, <1>2, <1>3, <1>4 DEF TypeInv

(* The next kernel of the stream starts where its CTAs start.              *)
LEMMA TypeKernelEnd ==
  ASSUME TypeInv, NEW r \in Rank, KernelEnd(r)
  PROVE  TypeInv'
<1> USE DEF TypeInv, KernelEnd, inbox, counters, plan, regs
<1>1. TypeOK' BY Constants DEF TypeOK, successor, Row
<1>2. PlaceInv' BY DEF PlaceInv, places, successor, TypeOK, at
<1>3. PostedInv' BY DEF PostedInv, pushes, is_row, Row, TypeOK
<1>4. ShapeInv' BY DEF ShapeInv, Row
<1> QED BY <1>1, <1>2, <1>3, <1>4 DEF TypeInv

(* What a starting CTA has to push.                                        *)
LEMMA TypeStart ==
  ASSUME TypeInv, NEW r \in Rank, NEW c \in Block, Start(r, c)
  PROVE  TypeInv'
<1> USE DEF TypeInv
<1>1. PICK l \in {"push", "wait"} : pc' = [pc EXCEPT ![r][c] = l]
  BY DEF Start, goto
<1>2. /\ kernel[r] \in {"push", "mega", "dsort"} /\ pc[r][c] = "start"
      /\ kernel[r] = "dsort" => l = "wait"
      /\ kernel[r] # "dsort" => l = "push"
  BY <1>1 DEF Start, goto, at, TypeOK
<1>3. /\ UNCHANGED <<scenario, kernel, replay, my_ids, inbox, part, counters, pull_src,
                     counted, sti, sc_dst, out, pperr, s_N, T_loc, target, posted,
                     expired>>
  BY DEF Start
<1>4. TypeOK'
  <2>1. todo' \in [Rank -> [Block -> SUBSET (Token \X Rank)]]
    <3> DEFINE work == UNION {{tau} \X dests(my_ids[r][tau]) : tau \in mine(c, Token)}
    <3>1. work \in SUBSET (Token \X Rank)  BY DestsType DEF mine
    <3>2. todo' = todo \/ todo' = [todo EXCEPT ![r][c] = work]  BY DEF Start
    <3>3. todo \in [Rank -> [Block -> SUBSET (Token \X Rank)]]  BY DEF TypeOK
    <3> HIDE DEF work
    <3> QED BY <3>1, <3>2, <3>3, UpdateType, SMTT(20)
  <2>2. pull_stage' \in [Rank -> [Token -> SUBSET (Rank \X Nat)]]
    <3> DEFINE stage == [tau \in Token |-> IF tau \in mine(c, Token) THEN {}
                                           ELSE pull_stage[r][tau]]
    <3>1. stage \in [Token -> SUBSET (Rank \X Nat)]  BY DEF TypeOK
    <3>2. pull_stage' = pull_stage \/ pull_stage' = [pull_stage EXCEPT ![r] = stage]
      BY DEF Start, TypeOK
    <3>3. pull_stage \in [Rank -> [Token -> SUBSET (Rank \X Nat)]]  BY DEF TypeOK
    <3> HIDE DEF stage
    <3> QED BY <3>1, <3>2, <3>3
  <2>3. epoch' \in [Rank -> [Block -> 0 .. CounterMod - 1]]
    <3>1. epoch_from_cell(sort_count[r]) \in 0 .. CounterMod - 1
      BY BumpType DEF TypeOK, epoch_from_cell
    <3>2. epoch \in [Rank -> [Block -> 0 .. CounterMod - 1]]  BY DEF TypeOK
    <3> QED BY <3>1, <3>2 DEF Start
  <2> QED BY <1>1, <1>3, <2>1, <2>2, <2>3 DEF TypeOK, Row, inbox, counters
<1>5. PlaceInv' BY <1>1, <1>2, <1>3 DEF PlaceInv, places, TypeOK
<1>6. PostedInv'
  BY <1>1, <1>2, <1>3, SMTT(20) DEF PostedInv, pushes, is_row, Row, TypeOK
<1>7. ShapeInv' BY <1>3 DEF ShapeInv, Row, inbox
<1> QED BY <1>4, <1>5, <1>6, <1>7

(* A pushed row is recorded with its index, a natural number; only an      *)
(* index inside the buffer is posted.                                      *)
LEMMA TypePush ==
  ASSUME TypeInv, NEW r \in Rank, NEW c \in Block, Push(r, c)
  PROVE  TypeInv'
<1> USE DEF TypeInv
<1>1. /\ pc[r][c] = "push"
      /\ UNCHANGED <<stream, recv, recv_doorbell, arr_flags, part, counters,
                     pull_src, counted, sti, sc_dst, out, epoch, s_N, T_loc, target,
                     expired>>
  BY DEF Push, at
<1>2. PICK p \in todo[r][c] :
        /\ dest_counter' = [dest_counter EXCEPT ![p[2]] = @ + 1]
        /\ pull_stage' = [pull_stage EXCEPT ![r][p[1]] =
                            @ \cup {<<p[2], dest_counter[p[2]]>>}]
        /\ todo' = [todo EXCEPT ![r][c] = @ \ {p}]
        /\ IF dest_counter[p[2]] \in Row
           THEN /\ posted' = posted \cup
                     {[kind |-> "row", from |-> r, cta |-> c, to |-> p[2],
                       row |-> dest_counter[p[2]], val |-> Origin(r, p[1])]}
                /\ UNCHANGED pperr
           ELSE raise(r, {Overflow}) /\ UNCHANGED posted
  BY DEF Push
<1>3. p[1] \in Token /\ p[2] \in Rank  BY DEF TypeOK
<1>4. TypeOK'
  <2>1. dest_counter' \in [Rank -> Nat]  BY <1>2, <1>3 DEF TypeOK
  <2>2. pull_stage' \in [Rank -> [Token -> SUBSET (Rank \X Nat)]]
    <3>1. pull_stage[r][p[1]] \cup {<<p[2], dest_counter[p[2]]>>}
            \in SUBSET (Rank \X Nat)
      BY <1>3 DEF TypeOK
    <3>2. pull_stage \in [Rank -> [Token -> SUBSET (Rank \X Nat)]]  BY DEF TypeOK
    <3> QED BY <1>2, <1>3, <3>1, <3>2, UpdateType
  <2>3. todo' \in [Rank -> [Block -> SUBSET (Token \X Rank)]]
    <3>1. todo[r][c] \ {p} \in SUBSET (Token \X Rank)  BY DEF TypeOK
    <3>2. todo \in [Rank -> [Block -> SUBSET (Token \X Rank)]]  BY DEF TypeOK
    <3> QED BY <1>2, <3>1, <3>2, UpdateType
  <2>4. pperr' \in [Rank -> SUBSET ErrBits]
    <3>1. pperr[r] \cup {Overflow} \in SUBSET ErrBits  BY DEF TypeOK, ErrBits
    <3>2. pperr' = pperr \/ pperr' = [pperr EXCEPT ![r] = @ \cup {Overflow}]
      BY <1>2 DEF raise
    <3>3. pperr \in [Rank -> SUBSET ErrBits]  BY DEF TypeOK
    <3> QED BY <3>1, <3>2, <3>3
  <2> QED BY <1>1, <2>1, <2>2, <2>3, <2>4 DEF TypeOK, Row, stream, counters
<1>5. PlaceInv'  BY <1>1 DEF PlaceInv, stream
<1>6. PostedInv'
  <2>1. pushes(r, c)  BY <1>1 DEF pushes, PlaceInv, places, TypeOK
  <2>2. \A m \in posted' \ posted : is_row(m) /\ m.from = r /\ m.cta = c
    BY <1>2, <1>3 DEF is_row
  <2>3. \A q \in Rank, b \in Block : pushes(q, b)' <=> pushes(q, b)
    BY <1>1 DEF pushes, stream
  <2>4. \A m : is_row(m)' <=> is_row(m)  BY <1>1 DEF is_row, Row, stream
  <2> QED BY <2>1, <2>2, <2>3, <2>4 DEF PostedInv, is_row
<1>7. ShapeInv'  BY <1>1 DEF ShapeInv, Row, stream
<1> QED BY <1>4, <1>5, <1>6, <1>7

(* Publishing posts doorbells to ranks and leaves no row of the CTA        *)
(* posted.                                                                 *)
LEMMA TypePublish ==
  ASSUME TypeInv, NEW r \in Rank, NEW c \in Block, Publish(r, c)
  PROVE  TypeInv'
<1> USE DEF TypeInv
<1>1. PICK l \in {"done", "wait"} : /\ goto(r, c, l)
                                    /\ kernel[r] = "push" <=> l = "done"
  BY DEF Publish
<1>2. /\ pc[r][c] = "push" /\ system_fence(r, c)
      /\ grid_count' = [grid_count EXCEPT ![r] = bump(@)]
      /\ posted' = posted \/ posted' = posted \cup signal("doorbell", r)
      /\ UNCHANGED <<scenario, kernel, replay, my_ids, inbox, part, gbar, sort_count,
                     arr_count, plan, out, pperr, regs, expired>>
  BY DEF Publish, at
<1>3. kernel[r] \in {"push", "mega"}  BY <1>2 DEF PlaceInv, places, TypeOK
<1>a. /\ pc' \in [Rank -> [Block -> Label]]
      /\ \A q \in Rank, b \in Block :
           pc'[q][b] = IF q = r /\ b = c THEN l ELSE pc[q][b]
  BY <1>1, GotoType DEF Label
<1>4. TypeOK'
  <2>1. grid_count' \in [Rank -> 0 .. CounterMod - 1]
    BY <1>2, BumpType DEF TypeOK
  <2> QED BY <1>a, <1>2, <2>1 DEF TypeOK, Label, Row, inbox, plan, regs
<1>5. PlaceInv'
  <2> SUFFICES ASSUME NEW q \in Rank, NEW b \in Block
               PROVE  /\ kernel'[q] # "idle" => replay'[q] > 0
                      /\ pc'[q][b] \in places(kernel'[q])
                      /\ pc'[q][b] = "tail" => b = 0
    BY DEF PlaceInv, places
  <2>1. kernel' = kernel /\ replay' = replay  BY <1>2
  <2>2. CASE q = r /\ b = c
    BY <1>a, <1>1, <1>2, <1>3, <2>1, <2>2 DEF PlaceInv, places
  <2>3. CASE ~(q = r /\ b = c)
    BY <1>a, <2>1, <2>3 DEF PlaceInv
  <2> QED BY <2>2, <2>3
<1>6. PostedInv'
  <2>1. \A m \in posted' \ posted : m \in Signal
    BY <1>2 DEF signal, Signal
  <2>2. \A m \in posted : m \notin Signal => pushes(m.from, m.cta)'
    <3> SUFFICES ASSUME NEW m \in posted, m \notin Signal
                 PROVE  pushes(m.from, m.cta)'
      OBVIOUS
    <3>1. is_row(m) /\ pushes(m.from, m.cta)  BY DEF PostedInv
    <3>2. ~(m.from = r /\ m.cta = c)  BY <3>1, <1>2 DEF system_fence, is_row
    <3> QED BY <3>1, <3>2, <1>a, <1>2 DEF pushes, is_row
  <2>3. \A m : is_row(m)' <=> is_row(m)  BY <1>2 DEF is_row, Row
  <2> QED BY <2>1, <2>2, <2>3, <1>2 DEF PostedInv
<1>7. ShapeInv'  BY <1>2 DEF ShapeInv, Row, inbox, plan
<1> QED BY <1>4, <1>5, <1>6, <1>7

(* What is delivered lands in the table of its kind.                       *)
LEMMA TypeDeliver ==
  ASSUME TypeInv, NEW m \in posted, Deliver(m)
  PROVE  TypeInv'
<1> USE DEF TypeInv
<1>1. /\ posted' = posted \ {m}
      /\ UNCHANGED <<stream, dest_counter, part, counters, plan, out, pperr, regs,
                     expired>>
  BY DEF Deliver
<1>2. m \in Signal \/ is_row(m)  BY DEF PostedInv
<1>3. PICK s \in Rank, d \in Rank : s = m.from /\ d = m.to
  BY <1>2 DEF Signal, is_row
<1>4. /\ \/ recv_doorbell' = recv_doorbell
         \/ recv_doorbell' = [recv_doorbell EXCEPT ![d][s] = bump(@)]
      /\ \/ arr_flags' = arr_flags
         \/ arr_flags' = [arr_flags EXCEPT ![d][s] = bump(@)]
      /\ recv' = recv \/ recv' = [recv EXCEPT ![d][m.row] = m.val]
  BY <1>2, <1>3 DEF Deliver, Signal, is_row
<1>5. TypeOK'
  <2>1. recv_doorbell' \in [Rank -> [Rank -> 0 .. CounterMod - 1]]
    <3>1. recv_doorbell \in [Rank -> [Rank -> 0 .. CounterMod - 1]]  BY DEF TypeOK
    <3>2. bump(recv_doorbell[d][s]) \in 0 .. CounterMod - 1  BY <3>1, BumpType
    <3> QED BY <1>4, <3>1, <3>2
  <2>2. arr_flags' \in [Rank -> [Rank -> 0 .. CounterMod - 1]]
    <3>1. arr_flags \in [Rank -> [Rank -> 0 .. CounterMod - 1]]  BY DEF TypeOK
    <3>2. bump(arr_flags[d][s]) \in 0 .. CounterMod - 1  BY <3>1, BumpType
    <3> QED BY <1>4, <3>1, <3>2
  <2> QED BY <1>1, <2>1, <2>2 DEF TypeOK, Row, stream, counters, plan, regs
<1>6. PlaceInv'  BY <1>1 DEF PlaceInv, stream
<1>7. PostedInv'
  <2>1. \A q \in Rank, b \in Block : pushes(q, b)' <=> pushes(q, b)
    BY <1>1 DEF pushes, stream
  <2>2. \A n : is_row(n)' <=> is_row(n)  BY <1>1 DEF is_row, Row, stream
  <2> QED BY <1>1, <2>1, <2>2 DEF PostedInv, is_row
<1>8. ShapeInv'  BY <1>1, <1>4 DEF ShapeInv, Row, stream, plan
<1> QED BY <1>5, <1>6, <1>7, <1>8

(* A step that moves one CTA of a kernel past its push.                    *)
LEMMA TypeGoto ==
  ASSUME TypeInv, NEW r \in Rank, NEW c \in Block, NEW l \in Label,
         goto(r, c, l), l \in places(kernel[r]), l = "tail" => c = 0,
         pc[r][c] # "push",
         UNCHANGED <<scenario, kernel, replay, posted, recv>>,
         part' = part \/ part' = [part EXCEPT ![r] = part'[r]],
         DOMAIN part'[r] = Row,
         sc_dst' = sc_dst \/ sc_dst' = [sc_dst EXCEPT ![r] = sc_dst'[r]],
         DOMAIN sc_dst'[r] = Row,
         out' = out \/ out' = [out EXCEPT ![r] = out'[r]],
         DOMAIN out'[r] = Token
  PROVE  PlaceInv' /\ PostedInv' /\ ShapeInv'
<1> USE DEF TypeInv
<1>1. \A q \in Rank, b \in Block :
        pc'[q][b] = IF q = r /\ b = c THEN l ELSE pc[q][b]
  BY GotoType
<1>2. PlaceInv'
  <2> SUFFICES ASSUME NEW q \in Rank, NEW b \in Block
               PROVE  /\ kernel'[q] # "idle" => replay'[q] > 0
                      /\ pc'[q][b] \in places(kernel'[q])
                      /\ pc'[q][b] = "tail" => b = 0
    BY DEF PlaceInv, places
  <2>1. CASE q = r /\ b = c  BY <1>1, <2>1 DEF PlaceInv
  <2>2. CASE ~(q = r /\ b = c)  BY <1>1, <2>2 DEF PlaceInv
  <2> QED BY <2>1, <2>2
<1>3. PostedInv'
  <2>1. \A q \in Rank, b \in Block : pushes(q, b) => pushes(q, b)'
    BY <1>1 DEF pushes
  <2>2. \A m : is_row(m)' <=> is_row(m)  BY DEF is_row, Row
  <2> QED BY <2>1, <2>2 DEF PostedInv, is_row
<1>4. ShapeInv'  BY DEF ShapeInv, Row
<1> QED BY <1>2, <1>3, <1>4

(* The live count a CTA reads is one that fits the buffer.                 *)
LEMMA TypeRead ==
  ASSUME TypeInv, NEW r \in Rank, NEW c \in Block, NEW bits \in SUBSET ErrBits,
         sorts(r), at(r, c, "wait"), read_T_loc(r, c, bits),
         expired' \in 0 .. scenario.giving_up
  PROVE  TypeInv'
<1> USE DEF TypeInv
<1>1. /\ UNCHANGED <<scenario, kernel, replay, my_ids, inbox, part, counters, plan, out,
                     todo, epoch, s_N, target, posted>>
      /\ kernel[r] \in {"mega", "dsort"} /\ pc[r][c] = "wait"
  BY DEF read_T_loc, sorts, at
<1>2. PICK l \in {"plan", "done"} : goto(r, c, l)  BY DEF read_T_loc
<1>3. TypeOK'
  <2>1. pc' \in [Rank -> [Block -> Label]]  BY <1>2, GotoType DEF Label
  <2>2. T_loc' \in [Rank -> [Block -> 0 .. scenario.rows]]
    <3>1. fits(dest_counter[r]) => dest_counter[r] \in 0 .. scenario.rows
      BY ScenarioType DEF fits, TypeOK
    <3>2. T_loc \in [Rank -> [Block -> 0 .. scenario.rows]]  BY DEF TypeOK
    <3>3. \/ T_loc' = T_loc
          \/ fits(dest_counter[r]) /\ T_loc' = [T_loc EXCEPT ![r][c] = dest_counter[r]]
      BY DEF read_T_loc
    <3>4. CASE T_loc' = T_loc  BY <3>2, <3>4, <1>1
    <3>5. CASE fits(dest_counter[r]) /\ T_loc' = [T_loc EXCEPT ![r][c] = dest_counter[r]]
      <4>1. dest_counter[r] \in 0 .. scenario.rows  BY <3>1, <3>5
      <4> QED BY <3>2, <3>5, <4>1, <1>1
    <3> QED BY <3>3, <3>4, <3>5
  <2>3. pperr' \in [Rank -> SUBSET ErrBits]
    <3>1. PICK b \in SUBSET ErrBits : pperr' = [pperr EXCEPT ![r] = @ \cup b]
      <4>1. bits \cup {ErrTloc} \in SUBSET ErrBits /\ bits \cup {} \in SUBSET ErrBits
        BY DEF ErrBits
      <4> QED BY <4>1 DEF read_T_loc, raise
    <3>2. pperr \in [Rank -> SUBSET ErrBits]  BY DEF TypeOK
    <3> QED BY <3>1, <3>2
  <2> QED BY <1>1, <2>1, <2>2, <2>3 DEF TypeOK, Label, Row, inbox, counters, plan
<1>4. PlaceInv' /\ PostedInv' /\ ShapeInv'
  <2>1. /\ part' = part /\ sc_dst' = sc_dst /\ out' = out /\ recv' = recv
        /\ UNCHANGED <<scenario, kernel, replay, posted>>
    BY <1>1 DEF plan, inbox
  <2>2. l \in Label /\ l \in places(kernel[r]) /\ l # "tail"
    BY <1>1, <1>2 DEF Label, places
  <2>3. DOMAIN part'[r] = Row /\ DOMAIN sc_dst'[r] = Row /\ DOMAIN out'[r] = Token
    BY <2>1 DEF ShapeInv
  <2> QED BY <1>1, <1>2, <2>1, <2>2, <2>3, TypeGoto
<1> QED BY <1>3, <1>4

(* Acquiring, in time or not, reads the count.                             *)
LEMMA TypeAcquire ==
  ASSUME TypeInv, NEW r \in Rank, NEW c \in Block,
         Acquire(r, c) \/ AcquireTimeOut(r, c)
  PROVE  TypeInv'
<1>1. scenario.giving_up \in Nat /\ expired \in 0 .. scenario.giving_up
  BY ScenarioType DEF TypeInv, TypeOK
<1>2. expired' \in 0 .. scenario.giving_up
  BY <1>1 DEF Acquire, AcquireTimeOut, time_out
<1>3. PICK bits \in SUBSET ErrBits : read_T_loc(r, c, bits)
  BY DEF Acquire, AcquireTimeOut, ErrBits
<1>4. sorts(r) /\ at(r, c, "wait")  BY DEF Acquire, AcquireTimeOut
<1> QED BY <1>2, <1>3, <1>4, TypeRead

(* The live rows of a CTA are rows of the buffer.                          *)
LEMMA LiveType ==
  ASSUME TypeOK, NEW r \in Rank, NEW c \in Block
  PROVE  live(r, c) \subseteq Row
<1>1. T_loc[r][c] \in 0 .. scenario.rows  BY DEF TypeOK
<1>2. scenario.rows \in Nat  BY ScenarioType DEF TypeOK
<1> QED BY <1>1, <1>2 DEF live, Row

(* Segments, pull lists and cleared rows keep their types: live rows are   *)
(* rows of the buffer.                                                     *)
LEMMA TypePlan ==
  ASSUME TypeInv, NEW r \in Rank, NEW c \in Block, Plan(r, c)
  PROVE  TypeInv'
<1> USE DEF TypeInv
<1>1. /\ UNCHANGED <<scenario, kernel, replay, my_ids, inbox, grid_count, sort_count,
                     arr_count, pull_stage, out, pperr, todo, epoch, s_N, T_loc,
                     posted, expired>>
      /\ pc[r][c] = "plan" /\ goto(r, c, "gbar")
      /\ gbar' = [gbar EXCEPT ![r] = bump(@)]
      /\ target' = [target EXCEPT ![r][c] = grid_target(gbar[r], Grid)]
  BY DEF Plan, at
<1>2. kernel[r] \in {"mega", "dsort"}
  BY <1>1 DEF PlaceInv, places, TypeOK
<1>3. TypeOK'
  <2>1. pc' \in [Rank -> [Block -> Label]]  BY <1>1, GotoType DEF Label
  <2>2. gbar' \in [Rank -> 0 .. CounterMod - 1]  BY <1>1, BumpType DEF TypeOK
  <2>3. target' \in [Rank -> [Block -> Nat]]
    <3>1. grid_target(gbar[r], Grid) \in Nat  BY TargetType DEF TypeOK
    <3>2. target \in [Rank -> [Block -> Nat]]  BY DEF TypeOK
    <3> QED BY <1>1, <3>1, <3>2
  <2>4. /\ counted' \in [Rank -> SUBSET (Row \X (0 .. World * E - 1))]
        /\ sti' \in [Rank -> SUBSET (Row \X (0 .. World * E - 1))]
    <3> DEFINE some == pairs(r, live(r, c))
    <3>1. some \in SUBSET (Row \X (0 .. World * E - 1))
      BY LiveType DEF pairs, local_experts
    <3>2. \/ counted' = counted /\ sti' = sti
          \/ /\ counted' = [counted EXCEPT ![r] = some]
             /\ sti' = [sti EXCEPT ![r] = {}]
      BY DEF Plan, plan_work
    <3> HIDE DEF some
    <3> QED BY <3>1, <3>2 DEF TypeOK
  <2>5. pull_src' \in [Rank -> [Token -> SUBSET (Rank \X Nat)]]
    <3>1. pull_src' = pull_src \/ pull_src' = [pull_src EXCEPT ![r] = pull_stage[r]]
      BY DEF Plan, plan_work
    <3> QED BY <3>1 DEF TypeOK
  <2> QED BY <1>1, <2>1, <2>2, <2>3, <2>4, <2>5 DEF TypeOK, Label, Row, inbox
<1>4. PlaceInv' /\ PostedInv' /\ ShapeInv'
  <2>1. /\ part' = part \/ part' = [part EXCEPT ![r] = part'[r]]
        /\ DOMAIN part'[r] = Row
    BY DEF Plan, plan_work, ShapeInv
  <2>2. /\ sc_dst' = sc_dst \/ sc_dst' = [sc_dst EXCEPT ![r] = sc_dst'[r]]
        /\ DOMAIN sc_dst'[r] = Row
    BY DEF Plan, plan_work, ShapeInv
  <2>3. /\ out' = out /\ recv' = recv /\ UNCHANGED <<scenario, kernel, replay, posted>>
        /\ DOMAIN out'[r] = Token
    BY <1>1 DEF inbox, ShapeInv
  <2>4. "gbar" \in Label /\ "gbar" \in places(kernel[r])
    BY <1>2 DEF Label, places
  <2> QED BY <1>1, <2>1, <2>2, <2>3, <2>4, TypeGoto
<1> QED BY <1>3, <1>4

(* Crossing the grid barrier moves the CTA on.                             *)
LEMMA TypeCross ==
  ASSUME TypeInv, NEW r \in Rank, NEW c \in Block,
         Cross(r, c) \/ CrossTimeOut(r, c)
  PROVE  TypeInv'
<1> USE DEF TypeInv
<1>1. scenario.giving_up \in Nat /\ expired \in 0 .. scenario.giving_up
  BY ScenarioType DEF TypeOK
<1>2. expired' \in 0 .. scenario.giving_up
  BY <1>1 DEF Cross, CrossTimeOut, time_out
<1>3. PICK bits \in SUBSET ErrBits : cross(r, c, bits)
  BY DEF Cross, CrossTimeOut, ErrBits
<1>4. pc[r][c] = "gbar" /\ goto(r, c, "scatter")
  BY <1>3 DEF Cross, CrossTimeOut, at, cross
<1>5. UNCHANGED <<scenario, kernel, replay, my_ids, inbox, part, counters, plan, out,
                  regs, posted>>
  BY <1>3 DEF cross
<1>6. TypeOK'
  <2>1. pc' \in [Rank -> [Block -> Label]]  BY <1>4, GotoType DEF Label
  <2>2. pperr' \in [Rank -> SUBSET ErrBits]  BY <1>3 DEF cross, raise, TypeOK
  <2> QED BY <1>2, <1>5, <2>1, <2>2 DEF TypeOK, Label, Row, inbox, counters, plan, regs
<1>7. PlaceInv' /\ PostedInv' /\ ShapeInv'
  <2>1. "scatter" \in Label /\ "scatter" \in places(kernel[r])
    BY <1>4 DEF Label, places, PlaceInv, TypeOK
  <2>2. DOMAIN part[r] = Row /\ DOMAIN sc_dst[r] = Row /\ DOMAIN out[r] = Token
    BY DEF ShapeInv
  <2> QED BY <1>4, <1>5, <2>1, <2>2, TypeGoto DEF plan, inbox
<1> QED BY <1>6, <1>7

(* Scattered pairs are pairs of a row and an expert.                       *)
LEMMA TypeScatter ==
  ASSUME TypeInv, NEW r \in Rank, NEW c \in Block, Scatter(r, c)
  PROVE  TypeInv'
<1> USE DEF TypeInv
<1>1. /\ UNCHANGED <<scenario, kernel, replay, my_ids, inbox, part, counters,
                     pull_stage, pull_src, counted, sc_dst, out, pperr, regs, posted,
                     expired>>
      /\ pc[r][c] = "scatter"
  BY DEF Scatter, at
<1>2. PICK l \in {"tail", "done"} : goto(r, c, l) /\ (l = "tail" => c = 0)
  BY DEF Scatter
<1>3. TypeOK'
  <2>1. pc' \in [Rank -> [Block -> Label]]  BY <1>2, GotoType DEF Label
  <2>2. sti' \in [Rank -> SUBSET (Row \X (0 .. World * E - 1))]
    <3> DEFINE some == pairs(r, mine(c, live(r, c)))
    <3>1. some \in SUBSET (Row \X (0 .. World * E - 1))
      BY LiveType DEF pairs, local_experts, mine
    <3>2. sti' = [sti EXCEPT ![r] = @ \cup some]  BY DEF Scatter
    <3> HIDE DEF some
    <3> QED BY <3>1, <3>2 DEF TypeOK
  <2> QED BY <1>1, <2>1, <2>2 DEF TypeOK, Label, Row, inbox, counters, regs
<1>4. PlaceInv' /\ PostedInv' /\ ShapeInv'
  <2>1. l \in Label /\ l \in places(kernel[r])
    BY <1>1, <1>2 DEF Label, places, PlaceInv, TypeOK
  <2>2. DOMAIN part[r] = Row /\ DOMAIN sc_dst[r] = Row /\ DOMAIN out[r] = Token
    BY DEF ShapeInv
  <2> QED BY <1>1, <1>2, <2>1, <2>2, TypeGoto DEF inbox
<1> QED BY <1>3, <1>4

(* CTA 0 resets the count and stores its epoch, a value of the width of    *)
(* the cell.                                                               *)
LEMMA TypeTail ==
  ASSUME TypeInv, NEW r \in Rank, NEW c \in Block, Tail(r, c)
  PROVE  TypeInv'
<1> USE DEF TypeInv
<1>1. /\ UNCHANGED <<scenario, kernel, replay, my_ids, recv, recv_doorbell, arr_flags,
                     part, grid_count, gbar, arr_count, plan, out, pperr, regs, posted,
                     expired>>
      /\ pc[r][c] = "tail" /\ goto(r, c, "done")
      /\ dest_counter' = [dest_counter EXCEPT ![r] = 0]
      /\ sort_count' = [sort_count EXCEPT ![r] = epoch[r][c]]
  BY DEF Tail, at
<1>2. TypeOK'
  <2>1. pc' \in [Rank -> [Block -> Label]]  BY <1>1, GotoType DEF Label
  <2>2. dest_counter' \in [Rank -> Nat]  BY <1>1 DEF TypeOK
  <2>3. sort_count' \in [Rank -> 0 .. CounterMod - 1]  BY <1>1 DEF TypeOK
  <2> QED BY <1>1, <2>1, <2>2, <2>3 DEF TypeOK, Label, Row, plan, regs
<1>3. PlaceInv' /\ PostedInv' /\ ShapeInv'
  <2>1. "done" \in Label /\ "done" \in places(kernel[r])
    BY <1>1 DEF Label, places, PlaceInv, TypeOK
  <2>2. DOMAIN part[r] = Row /\ DOMAIN sc_dst[r] = Row /\ DOMAIN out[r] = Token
    BY DEF ShapeInv
  <2> QED BY <1>1, <2>1, <2>2, TypeGoto DEF plan
<1> QED BY <1>2, <1>3

(* The GEMM keeps the rows of the partial sums.                            *)
LEMMA TypeGemm ==
  ASSUME TypeInv, NEW r \in Rank, Gemm(r)
  PROVE  TypeInv'
<1> USE DEF TypeInv
<1>1. /\ kernel[r] = "gemm"
      /\ kernel' = [kernel EXCEPT ![r] = "combine"]
      /\ pc' = [pc EXCEPT ![r] = [c \in Block |-> "start"]]
      /\ part' = [part EXCEPT ![r] = part'[r]] /\ DOMAIN part'[r] = Row
      /\ UNCHANGED <<scenario, replay, my_ids, inbox, counters, plan, out, pperr, regs,
                     posted, expired>>
  BY DEF Gemm, begin, successor, ShapeInv
<1>2. TypeOK'  BY <1>1 DEF TypeOK, Row, inbox, counters, plan, regs
<1>3. PlaceInv'  BY <1>1 DEF PlaceInv, places, TypeOK
<1>4. PostedInv'
  <2>1. \A q \in Rank, b \in Block : pushes(q, b) => pushes(q, b)'
    BY <1>1 DEF pushes, TypeOK
  <2>2. \A m : is_row(m)' <=> is_row(m)  BY <1>1 DEF is_row, Row
  <2> QED BY <1>1, <2>1, <2>2 DEF PostedInv, is_row
<1>5. ShapeInv'  BY <1>1 DEF ShapeInv, Row, inbox, plan
<1> QED BY <1>2, <1>3, <1>4, <1>5

(* Arriving at the combine posts signals to ranks.                         *)
LEMMA TypeArrive ==
  ASSUME TypeInv, NEW r \in Rank, NEW c \in Block, Arrive(r, c)
  PROVE  TypeInv'
<1> USE DEF TypeInv
<1>1. /\ UNCHANGED <<scenario, kernel, replay, my_ids, inbox, part, grid_count, gbar,
                     sort_count, plan, out, pperr, todo, epoch, T_loc, target, expired>>
      /\ kernel[r] = "combine" /\ pc[r][c] = "start" /\ goto(r, c, "wait")
      /\ arr_count' = [arr_count EXCEPT ![r] = bump(@)]
      /\ s_N' = [s_N EXCEPT ![r][c] = epoch_from_cumulative(arr_count[r], Grid)]
      /\ posted' = posted \/ posted' = posted \cup signal("arrival", r)
  BY DEF Arrive, at
<1>2. TypeOK'
  <2>1. pc' \in [Rank -> [Block -> Label]]  BY <1>1, GotoType DEF Label
  <2>2. arr_count' \in [Rank -> 0 .. CounterMod - 1]  BY <1>1, BumpType DEF TypeOK
  <2>3. s_N' \in [Rank -> [Block -> Nat]]
    <3>1. epoch_from_cumulative(arr_count[r], Grid) \in Nat  BY TargetType DEF TypeOK
    <3>2. s_N \in [Rank -> [Block -> Nat]]  BY DEF TypeOK
    <3> QED BY <1>1, <3>1, <3>2
  <2> QED BY <1>1, <2>1, <2>2, <2>3 DEF TypeOK, Label, Row, inbox, plan
<1>3. PlaceInv' /\ ShapeInv'
  <2>1. \A q \in Rank, b \in Block :
          pc'[q][b] = IF q = r /\ b = c THEN "wait" ELSE pc[q][b]
    BY <1>1, GotoType DEF Label
  <2>2. PlaceInv'
    <3> SUFFICES ASSUME NEW q \in Rank, NEW b \in Block
                 PROVE  /\ kernel'[q] # "idle" => replay'[q] > 0
                        /\ pc'[q][b] \in places(kernel'[q])
                        /\ pc'[q][b] = "tail" => b = 0
      BY DEF PlaceInv, places
    <3>1. CASE q = r /\ b = c  BY <1>1, <2>1, <3>1 DEF PlaceInv, places
    <3>2. CASE ~(q = r /\ b = c)  BY <1>1, <2>1, <3>2 DEF PlaceInv
    <3> QED BY <3>1, <3>2
  <2>3. ShapeInv'  BY <1>1 DEF ShapeInv, Row, inbox, plan
  <2> QED BY <2>2, <2>3
<1>4. PostedInv'
  <2>1. \A q \in Rank, b \in Block : pushes(q, b) => pushes(q, b)'
    BY <1>1, GotoType DEF pushes, Label
  <2>2. \A m : is_row(m)' <=> is_row(m)  BY <1>1 DEF is_row, Row
  <2>3. \A m \in posted' \ posted : m \in Signal  BY <1>1 DEF signal, Signal
  <2> QED BY <1>1, <2>1, <2>2, <2>3 DEF PostedInv, is_row
<1> QED BY <1>2, <1>3, <1>4

(* Entering the combine moves the CTA on.                                  *)
LEMMA TypeEnter ==
  ASSUME TypeInv, NEW r \in Rank, NEW c \in Block,
         Enter(r, c) \/ EnterTimeOut(r, c)
  PROVE  TypeInv'
<1> USE DEF TypeInv
<1>1. scenario.giving_up \in Nat /\ expired \in 0 .. scenario.giving_up
  BY ScenarioType DEF TypeOK
<1>2. expired' \in 0 .. scenario.giving_up
  BY <1>1 DEF Enter, EnterTimeOut, time_out
<1>3. PICK bits \in SUBSET ErrBits : enter(r, c, bits)
  BY DEF Enter, EnterTimeOut, ErrBits
<1>4. kernel[r] = "combine" /\ pc[r][c] = "wait" /\ goto(r, c, "pull")
  BY <1>3 DEF Enter, EnterTimeOut, at, enter
<1>5. UNCHANGED <<scenario, kernel, replay, my_ids, inbox, part, counters, plan, out,
                  regs, posted>>
  BY <1>3 DEF enter
<1>6. TypeOK'
  <2>1. pc' \in [Rank -> [Block -> Label]]  BY <1>4, GotoType DEF Label
  <2>2. pperr' \in [Rank -> SUBSET ErrBits]  BY <1>3 DEF enter, raise, TypeOK
  <2> QED BY <1>2, <1>5, <2>1, <2>2 DEF TypeOK, Label, Row, inbox, counters, plan, regs
<1>7. PlaceInv' /\ PostedInv' /\ ShapeInv'
  <2>1. "pull" \in Label /\ "pull" \in places(kernel[r])  BY <1>4 DEF Label, places
  <2>2. DOMAIN part[r] = Row /\ DOMAIN sc_dst[r] = Row /\ DOMAIN out[r] = Token
    BY DEF ShapeInv
  <2> QED BY <1>4, <1>5, <2>1, <2>2, TypeGoto DEF plan, inbox
<1> QED BY <1>6, <1>7

(* A pulling CTA writes outputs of its tokens.                             *)
LEMMA TypePull ==
  ASSUME TypeInv, NEW r \in Rank, NEW c \in Block, Pull(r, c)
  PROVE  TypeInv'
<1> USE DEF TypeInv
<1>1. /\ UNCHANGED <<scenario, kernel, replay, my_ids, inbox, part, counters, plan,
                     pperr, regs, posted, expired>>
      /\ pc[r][c] = "pull" /\ goto(r, c, "done")
      /\ out' = [out EXCEPT ![r] = out'[r]] /\ DOMAIN out'[r] = Token
  BY DEF Pull, at, ShapeInv
<1>2. TypeOK'
  <2>1. pc' \in [Rank -> [Block -> Label]]  BY <1>1, GotoType DEF Label
  <2> QED BY <1>1, <2>1 DEF TypeOK, Label, Row, inbox, counters, plan, regs
<1>3. PlaceInv' /\ PostedInv' /\ ShapeInv'
  <2>1. "done" \in Label /\ "done" \in places(kernel[r])
    BY <1>1 DEF Label, places, PlaceInv, TypeOK
  <2>2. DOMAIN part[r] = Row /\ DOMAIN sc_dst[r] = Row  BY DEF ShapeInv
  <2> QED BY <1>1, <2>1, <2>2, TypeGoto DEF plan, inbox
<1> QED BY <1>2, <1>3

(* The host empties error words and outputs.                               *)
LEMMA TypeGate ==
  ASSUME TypeInv, Gate
  PROVE  TypeInv'
<1> USE DEF TypeInv
<1>1. /\ UNCHANGED <<stream, inbox, part, counters, plan, regs, posted, expired>>
      /\ pperr' = [r \in Rank |-> {}]
      /\ out' = [r \in Rank |-> [tau \in Token |-> NotWritten]]
  BY DEF Gate
<1>2. TypeOK'  BY <1>1 DEF TypeOK, Row, stream, inbox, counters, plan, regs
<1>3. PlaceInv'  BY <1>1 DEF PlaceInv, stream
<1>4. PostedInv'  BY <1>1 DEF PostedInv, pushes, is_row, Row, stream
<1>5. ShapeInv'  BY <1>1 DEF ShapeInv, Row, stream, inbox, plan
<1> QED BY <1>2, <1>3, <1>4, <1>5

(* Nothing changes in a stuttering step.                                   *)
LEMMA TypeStutter == TypeInv /\ UNCHANGED vars => TypeInv'
<1> SUFFICES ASSUME TypeInv, UNCHANGED vars PROVE TypeInv'  OBVIOUS
<1> USE DEF TypeInv, vars, stream, inbox, counters, plan, regs
<1>1. TypeOK'  BY DEF TypeOK, Row
<1>2. PlaceInv'  BY DEF PlaceInv
<1>3. PostedInv'  BY DEF PostedInv, pushes, is_row, Row
<1>4. ShapeInv'  BY DEF ShapeInv, Row
<1> QED BY <1>1, <1>2, <1>3, <1>4

(* Every variable keeps its type, whatever gives up or overflows.          *)
THEOREM TypeCorrect == Spec => []TypeInv /\ []TypeOK
<1>1. TypeInv /\ [Next]_vars => TypeInv'
  <2> SUFFICES ASSUME TypeInv, [Next]_vars PROVE TypeInv'  OBVIOUS
  <2>1. ASSUME NEW r \in Rank, Launch(r) \/ KernelEnd(r) \/ Gemm(r) PROVE TypeInv'
    BY <2>1, TypeLaunch, TypeKernelEnd, TypeGemm
  <2>2. ASSUME NEW r \in Rank, NEW c \in Block, Work(r, c) PROVE TypeInv'
    BY <2>2, TypeStart, TypePush, TypePublish, TypePlan, TypeScatter, TypeTail,
       TypeArrive, TypePull DEF Work
  <2>3. ASSUME NEW r \in Rank, NEW c \in Block, Wait(r, c) \/ TimeOut(r, c)
        PROVE  TypeInv'
    BY <2>3, TypeAcquire, TypeCross, TypeEnter DEF Wait, TimeOut
  <2>4. ASSUME NEW m \in posted, Deliver(m) PROVE TypeInv'
    BY <2>4, TypeDeliver
  <2> QED BY <2>1, <2>2, <2>3, <2>4, TypeGate, TypeStutter DEF Next
<1>2. TypeInv => TypeOK  BY DEF TypeInv
<1> QED BY TypeInit, <1>1, <1>2, PTL DEF Spec


-----------------------------------------------------------------------------
(* Sets of CTAs, and what the cumulative counters say.                     *)
LEMMA CardFacts ==
  ASSUME NEW S \in SUBSET Block
  PROVE  /\ IsFiniteSet(S) /\ Cardinality(S) \in 0 .. Grid
         /\ Cardinality(S) = Grid <=> S = Block
         /\ \A c \in Block \ S : Cardinality(S \cup {c}) = Cardinality(S) + 1
<1>1. IsFiniteSet(Block) /\ Cardinality(Block) = Grid
  BY FS_Interval, Constants DEF Block
<1>2. IsFiniteSet(S) /\ Cardinality(S) <= Grid /\ (Cardinality(S) = Grid => S = Block)
  BY <1>1, FS_Subset
<1>3. Cardinality(S) \in Nat  BY <1>2, FS_CardinalityType
<1>4. \A c \in Block \ S : Cardinality(S \cup {c}) = Cardinality(S) + 1
  BY <1>2, FS_AddElement
<1> QED BY <1>1, <1>2, <1>3, <1>4, Constants

(* A cumulative counter of the launch numbered n, k of whose CTAs have     *)
(* arrived.                                                                *)
LEMMA Cumulative ==
  ASSUME NoWrap, NEW n \in 1 .. MaxReplay, NEW k \in Nat, k < Grid,
         NEW x \in Nat, x + Grid = n * Grid + k
  PROVE  /\ bump(x) = x + 1
         /\ last_arrival(x, Grid) <=> k + 1 = Grid
         /\ epoch_from_cumulative(x, Grid) = n
         /\ grid_target(x, Grid) = n * Grid
<1>1. x = (n - 1) * Grid + k  BY Constants
<1>2. x \div Grid = n - 1 /\ x % Grid = k  BY <1>1, Constants
<1>3. n * Grid <= MaxReplay * Grid /\ n * Grid \in Nat  BY Constants
<1>4. n * Grid < CounterMod /\ x + 1 < CounterMod
  BY <1>3, Constants DEF NoWrap
<1>5. (n * Grid) % CounterMod = n * Grid  BY <1>3, <1>4, Constants
<1> QED BY <1>2, <1>4, <1>5, Constants
        DEF bump, last_arrival, epoch_from_cumulative, grid_target

(* A counter below the number of replays does not wrap.                    *)
LEMMA BumpExact ==
  ASSUME NoWrap, NEW x \in Nat, x < MaxReplay
  PROVE  bump(x) = x + 1
<1>1. MaxReplay <= MaxReplay * Grid /\ MaxReplay * Grid \in Nat  BY Constants
<1> QED BY <1>1, Constants DEF NoWrap, bump

(* The derived counters are naturals; a rank that runs a kernel before the *)
(* combine has nobody present, and the like.                               *)
LEMMA Derived ==
  ASSUME TypeInv, NEW r \in Rank
  PROVE  /\ replay[r] \in 0 .. MaxReplay /\ MaxReplay \in Nat
         /\ published(r) \subseteq Block /\ present(r) \subseteq Block
         /\ planned(r) \subseteq Block
         /\ pushed(r) \in 0 .. replay[r] /\ combined(r) \in 0 .. replay[r]
         /\ finished(r) \in 0 .. replay[r]
         /\ pushed(r) >= replay[r] - 1 /\ combined(r) >= replay[r] - 1
         /\ finished(r) >= replay[r] - 1
         /\ kernel[r] \in {"push", "mega", "dsort", "gemm"} =>
              present(r) = {} /\ combined(r) = replay[r] - 1
         /\ kernel[r] # "idle" => replay[r] \in 1 .. MaxReplay
<1>1. replay[r] \in 0 .. MaxReplay /\ MaxReplay \in Nat
  BY Constants DEF TypeInv, TypeOK
<1>2. kernel[r] # "idle" => replay[r] \in 1 .. MaxReplay
  BY <1>1 DEF TypeInv, PlaceInv
<1>3. /\ published(r) \subseteq Block /\ present(r) \subseteq Block
      /\ planned(r) \subseteq Block
  BY DEF published, present, planned
<1>4. Block # {}
  <2>1. 0 \in Block  BY Constants DEF Block
  <2> QED BY <2>1
<1>5. kernel[r] = "idle" => published(r) = Block /\ present(r) = Block
  BY DEF published, present
<1>6. kernel[r] \in {"push", "mega", "dsort", "gemm"} => present(r) = {}
  BY DEF present
<1> QED BY <1>1, <1>2, <1>3, <1>4, <1>5, <1>6 DEF pushed, combined, finished

(* What is derived of a rank that takes no step.                           *)
Same(q) == /\ kernel'[q] = kernel[q] /\ pc'[q] = pc[q] /\ replay'[q] = replay[q]

(* Everything derived of a rank that takes no step stays.                  *)
LEMMA Frame ==
  ASSUME NEW q \in Rank, Same(q)
  PROVE  /\ published(q)' = published(q) /\ present(q)' = present(q)
         /\ planned(q)' = planned(q) /\ pushed(q)' = pushed(q)
         /\ combined(q)' = combined(q) /\ finished(q)' = finished(q)
<1>1. /\ published(q)' = published(q) /\ present(q)' = present(q)
      /\ planned(q)' = planned(q)
  BY DEF Same, published, present, planned, behind, sorts
<1> QED BY <1>1 DEF Same, pushed, combined, finished

(* A CTA that pushes is ahead of the consumers of its destinations: none   *)
(* of their CTAs has acquired the rows of this replay.                     *)
LEMMA PusherAhead ==
  ASSUME TypeInv, SyncInv, NEW s \in Rank, NEW c \in Block, pushes(s, c),
         NEW d \in Rank, alive(d)
  PROVE  /\ kernel[d] # "gemm"
         /\ sorts(d) => \A b \in Block : ~acquired(d, b)
<1> SUFFICES ASSUME NEW b \in Block, acquired(d, b), kernel[d] = "gemm" \/ sorts(d)
             PROVE  FALSE
  <2>1. 0 \in Block  BY Constants DEF Block
  <2> QED BY <2>1 DEF acquired, behind
<1>1. replay[d] <= pushed(s)  BY DEF SyncInv
<1>2. c \notin published(s) /\ kernel[s] # "idle"  BY DEF pushes, published
<1>3. pushed(s) = replay[s] - 1 /\ finished(s) = replay[s] - 1
  BY <1>2 DEF pushed, finished
<1>4. finished(s) <= combined(d)  BY DEF SyncInv
<1>5. combined(d) = replay[d] - 1  BY Derived DEF sorts
<1> QED BY <1>1, <1>3, <1>4, <1>5, Derived

(* The CTAs of a launch: there are Grid of them, CTA 0 among them.         *)
LEMMA BlockFacts == /\ 0 \in Block /\ Block # {}
                    /\ Cardinality(Block) = Grid /\ Cardinality({}) = 0
<1>1. 0 \in Block  BY Constants DEF Block
<1>2. Cardinality(Block) = Grid  BY CardFacts
<1> QED BY <1>1, <1>2, FS_EmptySet

(* Before the first replay every counter and flag is zero.                 *)
LEMMA CoreInit == Init => CoreInv
<1> SUFFICES ASSUME Init PROVE CoreInv  OBVIOUS
<1>1. \A r \in Rank : /\ kernel[r] = "idle" /\ replay[r] = 0 /\ dest_counter[r] = 0
                      /\ \A c \in Block : pc[r][c] = "done"
  BY DEF Init
<1>2. \A r \in Rank : /\ published(r) = Block /\ present(r) = Block
                      /\ planned(r) = Block /\ behind(r)
  BY <1>1 DEF published, present, planned, behind
<1>3. \A r \in Rank : pushed(r) = 0 /\ combined(r) = 0 /\ finished(r) = 0
  BY <1>1, <1>2 DEF pushed, combined, finished
<1>4. CountInv
  BY <1>1, <1>2, BlockFacts, Constants DEF CountInv, Count, Init, tailed
<1>5. FlagInv  BY <1>3 DEF FlagInv, Init, on_way, one
<1>6. TargetInv  BY <1>1 DEF TargetInv, Target, sorts
<1>7. SyncInv  BY <1>1, <1>2, <1>3 DEF SyncInv
<1>8. CountedInv  BY <1>1 DEF CountedInv, Counted, sorts
<1>9. EarlyInv
  BY <1>1, <1>3 DEF EarlyInv, early
<1> QED BY <1>4, <1>5, <1>6, <1>7, <1>8, <1>9 DEF CoreInv

(* The registers and counters of a rank that nobody touches.               *)
Kept(q) == /\ dest_counter'[q] = dest_counter[q] /\ scenario' = scenario
           /\ grid_count'[q] = grid_count[q] /\ arr_count'[q] = arr_count[q]
           /\ gbar'[q] = gbar[q] /\ sort_count'[q] = sort_count[q]
           /\ epoch'[q] = epoch[q] /\ s_N'[q] = s_N[q]
           /\ T_loc'[q] = T_loc[q] /\ target'[q] = target[q]

(* What the layer says of one rank outlives a step that leaves the rank    *)
(* alone.                                                                  *)
LEMMA Others ==
  ASSUME CoreInv, NEW q \in Rank, Same(q), Kept(q)
  PROVE  Count(q)' /\ Target(q)' /\ Counted(q)'
<1>1. Count(q) /\ Target(q) /\ Counted(q)
  BY DEF CoreInv, CountInv, TargetInv, CountedInv
<1>2. alive(q)' <=> alive(q)  BY DEF Kept, alive, fits
<1>3. Count(q)'
  BY <1>1, <1>2, Frame DEF Count, Same, Kept, tailed, behind, sorts
<1>4. Target(q)'  BY <1>1, <1>2 DEF Target, Same, Kept, sorts
<1>5. Counted(q)'
  BY <1>1, <1>2 DEF Counted, Same, Kept, rows, acquired, behind, sorts
<1> QED BY <1>3, <1>4, <1>5

(* The relations between ranks outlive a step of r that keeps what the     *)
(* others rely on and puts r itself in no place it may not be.             *)
LEMMA SyncKept ==
  ASSUME TypeInv, SyncInv, NEW r \in Rank,
         \A q \in Rank : q # r => Same(q),
         \A q \in Rank : alive(q)' => alive(q),
         pushed(r)' >= pushed(r), combined(r)' >= combined(r),
         pushed(r)' \in Nat, combined(r)' \in Nat,
         \A s \in Rank : finished(r)' <= combined(s),
         \A s \in Rank, c \in Block :
           kernel'[r] = "combine" /\ pc'[r][c] \in {"pull", "done"} =>
             replay'[r] <= combined(s),
         \A s \in Rank, c \in Block :
           alive(r)' /\ acquired(r, c)' => replay'[r] <= pushed(s),
         \A c \in Block : alive(r)' /\ crossed(r, c)' => planned(r)' = Block,
         finished(r)' \in Nat, replay'[r] \in Nat
  PROVE  SyncInv'
<1>1. \A s \in Rank : /\ pushed(s)' >= pushed(s) /\ combined(s)' >= combined(s)
                      /\ pushed(s) \in Nat /\ combined(s) \in Nat
                      /\ pushed(s)' \in Nat /\ combined(s)' \in Nat
  <2> TAKE s \in Rank
  <2>1. pushed(s) \in Nat /\ combined(s) \in Nat  BY Derived
  <2>2. CASE s = r  BY <2>1, <2>2
  <2>3. CASE s # r  BY <2>1, <2>3, Frame
  <2> QED BY <2>2, <2>3
<1>2. \A q \in Rank : /\ finished(q) \in Nat /\ replay[q] \in Nat
  BY Derived
<1>3. \A q, s \in Rank : finished(q)' <= combined(s)'
  <2> TAKE q, s \in Rank
  <2>1. CASE q = r  BY <2>1, <1>1
  <2>2. CASE q # r
    <3>1. finished(q)' = finished(q) /\ finished(q) <= combined(s)
      BY <2>2, Frame DEF SyncInv
    <3> QED BY <3>1, <1>1, <1>2
  <2> QED BY <2>1, <2>2
<1>4. ASSUME NEW q \in Rank, NEW s \in Rank, NEW c \in Block,
             kernel'[q] = "combine", pc'[q][c] \in {"pull", "done"}
      PROVE  replay'[q] <= combined(s)'
  <2>1. CASE q = r  BY <2>1, <1>1, <1>4
  <2>2. CASE q # r
    <3>1. replay'[q] = replay[q] /\ replay[q] <= combined(s)
      BY <2>2, <1>4 DEF SyncInv, Same
    <3> QED BY <3>1, <1>1, <1>2
  <2> QED BY <2>1, <2>2
<1>5. ASSUME NEW q \in Rank, NEW s \in Rank, NEW c \in Block,
             alive(q)', acquired(q, c)'
      PROVE  replay'[q] <= pushed(s)'
  <2>1. CASE q = r  BY <2>1, <1>1, <1>5
  <2>2. CASE q # r
    <3>1. acquired(q, c)  BY <2>2, <1>5 DEF Same, acquired, behind, sorts
    <3>2. replay'[q] = replay[q] /\ replay[q] <= pushed(s)
      BY <2>2, <3>1, <1>5 DEF SyncInv, Same
    <3> QED BY <3>2, <1>1, <1>2
  <2> QED BY <2>1, <2>2
<1>6. ASSUME NEW q \in Rank, NEW c \in Block, alive(q)', crossed(q, c)'
      PROVE  planned(q)' = Block
  <2>1. CASE q = r  BY <2>1, <1>6
  <2>2. CASE q # r
    <3>1. crossed(q, c)  BY <2>2, <1>6 DEF Same, crossed, behind, sorts
    <3> QED BY <2>2, <3>1, <1>6, Frame DEF SyncInv
  <2> QED BY <2>1, <2>2
<1> QED BY <1>3, <1>4, <1>5, <1>6 DEF SyncInv

(* A launch: the rank was finished with the replay before, so the counts   *)
(* of its new replay start from zero CTAs.                                 *)
LEMMA CoreLaunch ==
  ASSUME TypeInv, TypeInv', CoreInv, NEW r \in Rank, Launch(r)
  PROVE  CoreInv'
<1> USE DEF CoreInv
<1>1. /\ kernel[r] = "idle" /\ kernel'[r] \in {"push", "mega"}
      /\ replay'[r] = replay[r] + 1
      /\ \A c \in Block : pc'[r][c] = "start"
      /\ \A q \in Rank : q # r => Same(q)
      /\ \A q \in Rank : Kept(q)
  BY DEF Launch, begin, Same, TypeInv, TypeOK, Kept, inbox, counters, regs
<1>2. UNCHANGED <<scenario, recv_doorbell, arr_flags, dest_counter, posted, pperr>>
  BY DEF Launch, inbox
<1>3. /\ published(r) = Block /\ present(r) = Block /\ planned(r) = Block /\ tailed(r)
      /\ published(r)' = {} /\ present(r)' = {} /\ planned(r)' = {} /\ ~tailed(r)'
  BY <1>1, BlockFacts DEF published, present, planned, tailed, behind, sorts
<1>4. replay[r] \in Nat  BY Derived
<1>5. /\ pushed(r)' = pushed(r) /\ combined(r)' = combined(r)
      /\ finished(r)' = finished(r)
  BY <1>1, <1>3, <1>4, BlockFacts DEF pushed, combined, finished
<1>6. \A q \in Rank : /\ pushed(q)' = pushed(q) /\ combined(q)' = combined(q)
                      /\ finished(q)' = finished(q)
                      /\ alive(q)' <=> alive(q)
  BY <1>1, <1>2, <1>5, Frame DEF alive, fits
<1>7. Count(r)' /\ Target(r)' /\ Counted(r)'
  <2>1. Count(r)'
    <3>1. Count(r)  BY DEF CountInv
    <3>2. (replay[r] + 1) * Grid = replay[r] * Grid + Grid  BY <1>4, Constants
    <3> QED BY <1>1, <1>3, <1>4, <1>6, <3>1, <3>2, BlockFacts, Constants
            DEF Count, Kept
  <2>2. Target(r)'  BY <1>1 DEF Target
  <2>3. Counted(r)'  BY <1>1, BlockFacts DEF Counted, acquired, behind, sorts
  <2> QED BY <2>1, <2>2, <2>3
<1>8. FlagInv'
  <2>1. \A k, s, d : on_way(k, s, d)' <=> on_way(k, s, d)  BY <1>2 DEF on_way
  <2>2. \A d \in Rank : ~on_way("doorbell", r, d) /\ ~on_way("arrival", r, d)
    BY <1>1 DEF FlagInv
  <2> QED BY <1>1, <1>2, <1>6, <2>1, <2>2, Frame DEF FlagInv, Same, one
<1>9. SyncInv'
  <2>1. \A c \in Block : ~acquired(r, c)' /\ ~crossed(r, c)'
    BY <1>1 DEF acquired, crossed, behind, sorts
  <2>2. \A s \in Rank : finished(r)' <= combined(s)  BY <1>6 DEF SyncInv
  <2> QED BY <1>1, <1>4, <1>6, <2>1, <2>2, SyncKept, Derived
<1>10. EarlyInv'
  BY <1>1, <1>2, <1>6, BlockFacts DEF EarlyInv, early, Same, sorts, clean
<1> QED BY <1>1, <1>7, <1>8, <1>9, <1>10, Others
        DEF CountInv, TargetInv, CountedInv

(* Flags and signals are left alone by a step of r that posts none.        *)
LEMMA FlagKept ==
  ASSUME FlagInv, NEW r \in Rank, \A q \in Rank : q # r => Same(q),
         pushed(r)' = pushed(r), combined(r)' = combined(r),
         \A s, d \in Rank : /\ on_way("doorbell", s, d)' <=> on_way("doorbell", s, d)
                            /\ on_way("arrival", s, d)' <=> on_way("arrival", s, d),
         UNCHANGED <<recv_doorbell, arr_flags>>,
         \A d \in Rank :
           /\ on_way("doorbell", r, d) => /\ kernel'[r] \in {"push", "mega"}
                                          /\ published(r)' = Block
           /\ on_way("arrival", r, d) => kernel'[r] = "combine" /\ present(r)' = Block
  PROVE  FlagInv'
<1>1. \A q \in Rank : pushed(q)' = pushed(q) /\ combined(q)' = combined(q)
  BY Frame
<1> SUFFICES ASSUME NEW d \in Rank, NEW s \in Rank
             PROVE  /\ recv_doorbell'[d][s] + one(on_way("doorbell", s, d))' = pushed(s)'
                    /\ arr_flags'[d][s] + one(on_way("arrival", s, d))' = combined(s)'
                    /\ on_way("doorbell", s, d)' => /\ kernel'[s] \in {"push", "mega"}
                                                    /\ published(s)' = Block
                    /\ on_way("arrival", s, d)' => kernel'[s] = "combine"
                                                   /\ present(s)' = Block
  BY DEF FlagInv
<1>2. /\ recv_doorbell[d][s] + one(on_way("doorbell", s, d)) = pushed(s)
      /\ arr_flags[d][s] + one(on_way("arrival", s, d)) = combined(s)
      /\ on_way("doorbell", s, d) => /\ kernel[s] \in {"push", "mega"}
                                     /\ published(s) = Block
      /\ on_way("arrival", s, d) => kernel[s] = "combine" /\ present(s) = Block
  BY DEF FlagInv
<1>3. CASE s = r  BY <1>1, <1>2, <1>3 DEF one
<1>4. CASE s # r
  <2>1. kernel'[s] = kernel[s] /\ published(s)' = published(s) /\ present(s)' = present(s)
    BY <1>4, Frame DEF Same
  <2> QED BY <1>1, <1>2, <2>1 DEF one
<1> QED BY <1>3, <1>4

(* The end of a kernel: all its CTAs are done and its signals have landed, *)
(* so the derived counts do not move.                                      *)
LEMMA CoreKernelEnd ==
  ASSUME TypeInv, TypeInv', CoreInv, NEW r \in Rank, KernelEnd(r)
  PROVE  CoreInv'
<1> USE DEF CoreInv
<1>1. /\ kernel[r] \in {"push", "mega", "dsort", "combine"}
      /\ \A c \in Block : pc[r][c] = "done"
      /\ \A m \in posted : m.from # r
      /\ UNCHANGED <<scenario, replay, my_ids, inbox, part, counters, plan, out, pperr,
                     regs, posted, expired>>
  BY DEF KernelEnd, at
<1>2. /\ \A q \in Rank : q # r => Same(q)
      /\ \A q \in Rank : Kept(q)
      /\ UNCHANGED <<scenario, replay, recv_doorbell, arr_flags, posted, pperr>>
  BY <1>1 DEF KernelEnd, Same, TypeInv, TypeOK, Kept, inbox, counters, regs
<1>3. \/ /\ kernel[r] = "push" /\ kernel'[r] = "dsort"
         /\ \A c \in Block : pc'[r][c] = "start"
      \/ /\ kernel[r] \in {"mega", "dsort"} /\ kernel'[r] = "gemm"
         /\ \A c \in Block : pc'[r][c] = "start"
      \/ /\ kernel[r] = "combine" /\ kernel'[r] = "idle"
         /\ \A c \in Block : pc'[r][c] = "done"
  BY <1>1 DEF KernelEnd, successor, TypeInv, TypeOK
<1>4. /\ published(r) = Block /\ published(r)' = Block
      /\ present(r)' = present(r) /\ planned(r)' = planned(r)
      /\ tailed(r)' <=> tailed(r)
      /\ kernel[r] = "combine" => present(r) = Block
      /\ kernel[r] \in {"mega", "dsort"} => planned(r) = Block
  BY <1>1, <1>3, BlockFacts
  DEF published, present, planned, tailed, behind, sorts
<1>5. replay[r] \in Nat  BY Derived
<1>6. /\ pushed(r)' = pushed(r) /\ combined(r)' = combined(r)
      /\ finished(r)' >= finished(r) /\ finished(r)' \in Nat
      /\ finished(r)' = IF kernel[r] = "combine" THEN replay[r] ELSE finished(r)
  BY <1>2, <1>3, <1>4, <1>5, Derived DEF pushed, combined, finished
<1>7. \A q \in Rank : alive(q)' <=> alive(q)  BY <1>2 DEF alive, fits, Kept
<1>8. Count(r)' /\ Target(r)' /\ Counted(r)'
  <2>1. Count(r)'
    <3>1. Count(r)  BY DEF CountInv
    <3> QED BY <1>2, <1>4, <1>7, <3>1 DEF Count, Kept
  <2>2. Target(r)'  BY <1>3 DEF Target, sorts
  <2>3. Counted(r)'
    <3>1. Counted(r)  BY DEF CountedInv
    <3>2. CASE kernel[r] \in {"mega", "dsort"}
      BY <1>1, <1>2, <1>3, <1>7, <3>1, <3>2, BlockFacts
      DEF Counted, Kept, rows, acquired, behind, sorts
    <3>3. CASE kernel[r] \notin {"mega", "dsort"}
      BY <1>3, <3>3, BlockFacts DEF Counted, acquired, behind, sorts
    <3> QED BY <3>2, <3>3
  <2> QED BY <2>1, <2>2, <2>3
<1>9. FlagInv'
  <2>1. \A k, s, d : on_way(k, s, d)' <=> on_way(k, s, d)  BY <1>2 DEF on_way
  <2>2. \A k, d : ~on_way(k, r, d)  BY <1>1 DEF on_way
  <2> QED BY <1>2, <1>6, <2>1, <2>2, FlagKept
<1>10. SyncInv'
  <2>1. \A s \in Rank : finished(r)' <= combined(s)
    BY <1>1, <1>6, BlockFacts DEF SyncInv
  <2>2. \A c \in Block : acquired(r, c)' => acquired(r, c)
    BY <1>1, <1>3 DEF acquired, behind, sorts
  <2>3. \A c \in Block : crossed(r, c)' => crossed(r, c)
    BY <1>1, <1>3 DEF crossed, behind, sorts
  <2>4. kernel'[r] # "combine"  BY <1>3
  <2>5. \A s \in Rank, c \in Block :
          alive(r)' /\ acquired(r, c)' => replay'[r] <= pushed(s)
    BY <1>2, <1>7, <2>2 DEF SyncInv
  <2>6. \A c \in Block : alive(r)' /\ crossed(r, c)' => planned(r)' = Block
    BY <1>4, <1>7, <2>3 DEF SyncInv
  <2>7. /\ replay'[r] \in Nat /\ pushed(r)' \in Nat /\ combined(r)' \in Nat
        /\ pushed(r)' >= pushed(r) /\ combined(r)' >= combined(r)
    BY <1>2, <1>5, <1>6, Derived
  <2> QED BY <1>2, <1>6, <1>7, <2>1, <2>4, <2>5, <2>6, <2>7, SyncKept
<1>11. EarlyInv'
  <2>1. \A q \in Rank : q # r => finished(q)' = finished(q) /\ (early(q)' <=> early(q))
    BY <1>2, Frame DEF early, Same, sorts
  <2>2. early(r) => early(r)' /\ finished(r)' = finished(r)
    BY <1>1, <1>3, <1>6, BlockFacts DEF early, sorts
  <2>3. clean' <=> clean  BY <1>2 DEF clean
  <2>4. \A q \in Rank : finished(q) \in Nat  BY Derived
  <2> QED BY <1>6, <1>7, <2>1, <2>2, <2>3, <2>4 DEF EarlyInv
<1> QED BY <1>2, <1>8, <1>9, <1>10, <1>11, Others DEF CountInv, TargetInv, CountedInv

(* A starting CTA reads the epoch cell before CTA 0 advances it.           *)
LEMMA CoreStart ==
  ASSUME NoWrap, TypeInv, TypeInv', CoreInv, NEW r \in Rank, NEW c \in Block,
         Start(r, c)
  PROVE  CoreInv'
<1> USE DEF CoreInv
<1>1. PICK l \in {"push", "wait"} :
        /\ goto(r, c, l)
        /\ kernel[r] = "dsort" <=> l = "wait"
  BY DEF Start
<1>2. /\ kernel[r] \in {"push", "mega", "dsort"} /\ pc[r][c] = "start"
      /\ UNCHANGED <<scenario, kernel, replay, my_ids, inbox, part, counters, pull_src,
                     counted, sti, sc_dst, out, pperr, s_N, T_loc, target, posted,
                     expired>>
      /\ epoch' = IF sorts(r)
                  THEN [epoch EXCEPT ![r][c] = epoch_from_cell(sort_count[r])]
                  ELSE epoch
  BY DEF Start, at
<1>3. \A q \in Rank, b \in Block : pc'[q][b] = IF q = r /\ b = c THEN l ELSE pc[q][b]
  BY <1>1, GotoType DEF Label, TypeInv
<1>4. /\ \A q \in Rank : q # r => Same(q) /\ Kept(q)
      /\ UNCHANGED <<scenario, kernel, replay, recv_doorbell, arr_flags, posted, pperr,
                     dest_counter, grid_count, arr_count, gbar, sort_count, s_N, T_loc,
                     target>>
  BY <1>1, <1>2 DEF Same, TypeInv, TypeOK, Kept, inbox, counters, goto
<1>5. /\ published(r)' = published(r) /\ present(r)' = present(r)
      /\ planned(r)' = planned(r) /\ (tailed(r)' <=> tailed(r))
  BY <1>1, <1>2, <1>3, <1>4, BlockFacts
  DEF published, present, planned, tailed, behind, sorts
<1>6. replay[r] \in 1 .. MaxReplay  BY <1>2, Derived
<1>7. \A q \in Rank : /\ pushed(q)' = pushed(q) /\ combined(q)' = combined(q)
                      /\ finished(q)' = finished(q)
                      /\ alive(q)' <=> alive(q)
  BY <1>4, <1>5, Frame DEF pushed, combined, finished, alive, fits
<1>8. \A b \in Block : /\ acquired(r, b)' <=> acquired(r, b)
                       /\ crossed(r, b)' <=> crossed(r, b)
  BY <1>1, <1>2, <1>3, <1>4 DEF acquired, crossed, behind, sorts
<1>9. rows(r)' = rows(r)
  BY <1>1, <1>2, <1>3, <1>4, BlockFacts DEF rows, sorts
<1>10. Count(r)' /\ Target(r)' /\ Counted(r)'
  <2>1. Count(r)'
    <3>1. Count(r)  BY DEF CountInv
    <3> QED BY <1>4, <1>5, <1>7, <3>1 DEF Count
  <2>2. Target(r)'
    <3>1. ASSUME alive(r), sorts(r) PROVE epoch'[r][c] = replay[r]
      <4>1. ~tailed(r)
        <5>1. c \notin planned(r)  BY <1>2 DEF planned, behind
        <5>2. ~crossed(r, 0)  BY <3>1, <5>1, BlockFacts DEF SyncInv
        <5> QED BY <1>2, <5>2 DEF tailed, crossed, behind
      <4>2. sort_count[r] + 1 = replay[r]  BY <3>1, <4>1, <1>6 DEF CountInv, Count
      <4>3. sort_count[r] \in Nat  BY DEF TypeInv, TypeOK
      <4>4. bump(sort_count[r]) = replay[r]
        BY <4>2, <4>3, <1>6, BumpExact, Constants
      <4> QED BY <1>2, <3>1, <4>4 DEF epoch_from_cell, TypeInv, TypeOK
    <3>2. \A b \in Block : b # c => epoch'[r][b] = epoch[r][b]
      BY <1>2 DEF TypeInv, TypeOK
    <3>3. Target(r)  BY DEF TargetInv
    <3>4. sorts(r)' <=> sorts(r)  BY <1>4 DEF sorts
    <3> SUFFICES ASSUME NEW b \in Block
                 PROVE  /\ alive(r)' /\ sorts(r)' /\ pc'[r][b] # "start" =>
                             epoch'[r][b] = replay'[r]
                        /\ kernel'[r] = "combine" /\ pc'[r][b] = "wait" =>
                             s_N'[r][b] = replay'[r]
                        /\ alive(r)' /\ pc'[r][b] = "gbar" =>
                             target'[r][b] = replay'[r] * Grid
      BY DEF Target
    <3>5. CASE b = c  BY <1>1, <1>2, <1>3, <1>4, <1>7, <3>1, <3>4, <3>5
    <3>6. CASE b # c
      BY <1>3, <1>4, <1>7, <3>2, <3>3, <3>4, <3>6 DEF Target
    <3> QED BY <3>5, <3>6
  <2>3. Counted(r)'
    <3>1. Counted(r)  BY DEF CountedInv
    <3> QED BY <1>1, <1>2, <1>3, <1>4, <1>7, <1>8, <1>9, <3>1, BlockFacts
            DEF Counted, sorts
  <2> QED BY <2>1, <2>2, <2>3
<1>11. FlagInv'
  <2>1. \A k, s, d : on_way(k, s, d)' <=> on_way(k, s, d)  BY <1>4 DEF on_way
  <2> QED BY <1>4, <1>5, <1>7, <2>1, FlagKept DEF FlagInv
<1>12. SyncInv'
  <2>1. kernel'[r] # "combine"  BY <1>2, <1>4
  <2>2. /\ replay'[r] \in Nat /\ pushed(r)' \in Nat /\ combined(r)' \in Nat
        /\ pushed(r)' >= pushed(r) /\ combined(r)' >= combined(r)
        /\ finished(r)' \in Nat
    BY <1>4, <1>6, <1>7, Derived
  <2>3. /\ \A s \in Rank : finished(r)' <= combined(s)
        /\ \A s \in Rank, b \in Block :
             alive(r)' /\ acquired(r, b)' => replay'[r] <= pushed(s)
        /\ \A b \in Block : alive(r)' /\ crossed(r, b)' => planned(r)' = Block
    BY <1>4, <1>5, <1>7, <1>8 DEF SyncInv
  <2> QED BY <1>4, <1>7, <2>1, <2>2, <2>3, SyncKept
<1>13. EarlyInv'
  <2>1. \A q \in Rank : early(q) => early(q)'
    BY <1>1, <1>2, <1>3, <1>4, BlockFacts DEF early, Same, sorts
  <2> QED BY <1>4, <1>7, <2>1 DEF EarlyInv, clean
<1> QED BY <1>4, <1>10, <1>11, <1>12, <1>13, Others
        DEF CountInv, TargetInv, CountedInv

(* A push adds a row to a count nobody has read yet, and sets the error    *)
(* bit when the count stops fitting.                                       *)
LEMMA CorePush ==
  ASSUME TypeInv, TypeInv', CoreInv, NEW r \in Rank, NEW c \in Block, Push(r, c)
  PROVE  CoreInv'
<1> USE DEF CoreInv
<1>1. PICK tau \in Token, d \in Rank :
        /\ dest_counter' = [dest_counter EXCEPT ![d] = @ + 1]
        /\ IF dest_counter[d] \in Row
           THEN /\ posted' = posted \cup
                     {[kind |-> "row", from |-> r, cta |-> c, to |-> d,
                       row |-> dest_counter[d], val |-> Origin(r, tau)]}
                /\ UNCHANGED pperr
           ELSE raise(r, {Overflow}) /\ UNCHANGED posted
  <2>1. PICK p \in todo[r][c] :
          /\ dest_counter' = [dest_counter EXCEPT ![p[2]] = @ + 1]
          /\ IF dest_counter[p[2]] \in Row
             THEN /\ posted' = posted \cup
                       {[kind |-> "row", from |-> r, cta |-> c, to |-> p[2],
                         row |-> dest_counter[p[2]], val |-> Origin(r, p[1])]}
                  /\ UNCHANGED pperr
             ELSE raise(r, {Overflow}) /\ UNCHANGED posted
    BY DEF Push
  <2>2. p[1] \in Token /\ p[2] \in Rank  BY DEF TypeInv, TypeOK
  <2> QED BY <2>1, <2>2
<1>2. /\ pc[r][c] = "push"
      /\ UNCHANGED <<stream, recv_doorbell, arr_flags, counters, epoch, s_N, T_loc,
                     target>>
  BY DEF Push, at
<1>3. pushes(r, c)
  <2>1. pc[r][c] \in places(kernel[r])  BY DEF TypeInv, PlaceInv
  <2>2. kernel[r] \in {"idle", "push", "mega", "dsort", "gemm", "combine"}
    BY DEF TypeInv, TypeOK
  <2> QED BY <1>2, <2>1, <2>2 DEF pushes, places
<1>4. /\ \A q \in Rank : Same(q)
      /\ \A q \in Rank : q # d => Kept(q)
      /\ UNCHANGED <<scenario, kernel, pc, replay, recv_doorbell, arr_flags,
                     grid_count, arr_count, gbar, sort_count, epoch, s_N, T_loc, target>>
  BY <1>1, <1>2 DEF Same, Kept, stream, counters, TypeInv, TypeOK
<1>5. /\ dest_counter[d] \in Nat /\ dest_counter'[d] = dest_counter[d] + 1
      /\ scenario.rows \in Nat
  BY <1>1, ScenarioType DEF TypeInv, TypeOK
<1>6. \A q \in Rank : alive(q)' => alive(q)
  BY <1>4, <1>5 DEF alive, fits, Kept
<1>7. \A q \in Rank : /\ published(q)' = published(q) /\ present(q)' = present(q)
                      /\ planned(q)' = planned(q) /\ pushed(q)' = pushed(q)
                      /\ combined(q)' = combined(q) /\ finished(q)' = finished(q)
  BY <1>4, Frame
<1>8. Count(d)' /\ Target(d)' /\ Counted(d)'
  <2>1. Count(d) /\ Target(d) /\ Counted(d)  BY DEF CountInv, TargetInv, CountedInv
  <2>2. Count(d)'
    BY <1>4, <1>6, <1>7, <2>1 DEF Count, tailed, behind, sorts
  <2>3. Target(d)'  BY <1>4, <1>6, <2>1 DEF Target, sorts
  <2>4. alive(d) => /\ kernel[d] # "gemm"
                    /\ sorts(d) => \A b \in Block : ~acquired(d, b)
    BY <1>3, PusherAhead
  <2>5. \A b \in Block : pc[d][b] \notin {"plan", "gbar", "scatter", "tail"}
    <3> SUFFICES ASSUME NEW b \in Block, pc[d][b] \in {"plan", "gbar", "scatter", "tail"}
                 PROVE  FALSE
      OBVIOUS
    <3>1. alive(d)  BY <2>1 DEF Counted
    <3>2. sorts(d)  BY DEF sorts, TypeInv, PlaceInv, places, TypeOK
    <3> QED BY <2>4, <3>1, <3>2 DEF acquired
  <2>6. Counted(d)'
    BY <1>4, <1>6, <2>4, <2>5, BlockFacts DEF Counted, acquired, behind, sorts
  <2> QED BY <2>2, <2>3, <2>6
<1>9. FlagInv'
  <2>1. \A s, e \in Rank : /\ on_way("doorbell", s, e)' <=> on_way("doorbell", s, e)
                           /\ on_way("arrival", s, e)' <=> on_way("arrival", s, e)
    BY <1>1 DEF on_way
  <2> QED BY <1>4, <1>7, <2>1 DEF FlagInv, one
<1>10. SyncInv'
  BY <1>4, <1>6, <1>7 DEF SyncInv, acquired, crossed, behind, sorts
<1>11. EarlyInv'
  <2> SUFFICES ASSUME clean' PROVE EarlyInv'  BY DEF EarlyInv
  <2>1. dest_counter[d] \in Row /\ pperr' = pperr
    <3> SUFFICES ASSUME raise(r, {Overflow}) PROVE FALSE  BY <1>1
    <3>1. Overflow \in pperr'[r]  BY DEF raise, TypeInv, TypeOK
    <3> QED BY <3>1 DEF clean
  <2>2. alive(d)'  BY <1>4, <1>5, <2>1 DEF Row, alive, fits
  <2>3. \A q \in Rank : q # d => (alive(q)' <=> alive(q))
    BY <1>4 DEF alive, fits, Kept
  <2>4. \A q \in Rank : early(q)' <=> early(q)  BY <1>4 DEF early, sorts
  <2> QED BY <1>7, <2>1, <2>2, <2>3, <2>4 DEF EarlyInv, clean
<1> QED BY <1>4, <1>8, <1>9, <1>10, <1>11, Others
        DEF CountInv, TargetInv, CountedInv

(* The CTA that completes the grid, and only it, posts the doorbells; the  *)
(* count of its rank completes with it.                                    *)
LEMMA CorePublish ==
  ASSUME NoWrap, TypeInv, TypeInv', CoreInv, NEW r \in Rank, NEW c \in Block,
         Publish(r, c)
  PROVE  CoreInv'
<1> USE DEF CoreInv
<1>1. PICK l \in {"done", "wait"} : /\ goto(r, c, l)
                                    /\ kernel[r] = "push" <=> l = "done"
  BY DEF Publish
<1>2. /\ pc[r][c] = "push"
      /\ grid_count' = [grid_count EXCEPT ![r] = bump(@)]
      /\ posted' = IF last_arrival(grid_count[r], Grid)
                   THEN posted \cup signal("doorbell", r) ELSE posted
      /\ UNCHANGED <<scenario, kernel, replay, my_ids, inbox, part, gbar, sort_count,
                     arr_count, plan, out, pperr, regs, expired>>
  BY DEF Publish, at
<1>3. kernel[r] \in {"push", "mega"}
  BY <1>2 DEF TypeInv, PlaceInv, places, TypeOK
<1>4. \A q \in Rank, b \in Block : pc'[q][b] = IF q = r /\ b = c THEN l ELSE pc[q][b]
  BY <1>1, GotoType DEF Label, TypeInv
<1>5. /\ \A q \in Rank : q # r => Same(q) /\ Kept(q)
      /\ UNCHANGED <<scenario, kernel, replay, recv_doorbell, arr_flags, pperr,
                     dest_counter, arr_count, gbar, sort_count, epoch, s_N, T_loc,
                     target>>
  BY <1>1, <1>2 DEF Same, TypeInv, TypeOK, Kept, inbox, regs, goto
<1>6. /\ c \notin published(r) /\ published(r)' = published(r) \cup {c}
      /\ present(r)' = present(r) /\ planned(r)' = planned(r)
      /\ tailed(r)' <=> tailed(r)
  BY <1>1, <1>2, <1>3, <1>4, <1>5, BlockFacts
  DEF published, present, planned, tailed, behind, sorts
<1>7. replay[r] \in 1 .. MaxReplay  BY <1>3, Derived
<1> DEFINE k == Cardinality(published(r))
<1>8. /\ k \in Nat /\ k < Grid /\ Cardinality(published(r)') = k + 1
      /\ k + 1 = Grid <=> published(r)' = Block
      /\ published(r) # Block
  <2>1. published(r) \in SUBSET Block /\ published(r)' \in SUBSET Block
    BY <1>6 DEF published
  <2>2. k \in 0 .. Grid /\ k # Grid /\ Cardinality(published(r)') = k + 1
    BY <1>6, <2>1, CardFacts
  <2>3. k + 1 = Grid <=> published(r)' = Block
    BY <2>1, <2>2, CardFacts
  <2> QED BY <1>6, <2>2, <2>3, Constants
<1>9. /\ grid_count[r] + Grid = replay[r] * Grid + k
      /\ grid_count[r] \in Nat
  BY DEF CountInv, Count, TypeInv, TypeOK
<1>10. /\ grid_count'[r] = grid_count[r] + 1
       /\ last_arrival(grid_count[r], Grid) <=> published(r)' = Block
  <2>1. /\ bump(grid_count[r]) = grid_count[r] + 1
        /\ last_arrival(grid_count[r], Grid) <=> k + 1 = Grid
    <3> HIDE DEF k
    <3> QED BY <1>7, <1>8, <1>9, Cumulative
  <2> QED BY <1>2, <1>8, <2>1 DEF TypeInv, TypeOK
<1>11. /\ pushed(r) = replay[r] - 1
       /\ pushed(r)' = IF published(r)' = Block THEN replay[r] ELSE replay[r] - 1
  BY <1>5, <1>8 DEF pushed
<1>12. /\ combined(r)' = combined(r) /\ finished(r)' = finished(r)
       /\ \A q \in Rank : alive(q)' <=> alive(q)
  BY <1>5, <1>6 DEF combined, finished, alive, fits
<1>13. \A b \in Block : /\ acquired(r, b)' <=> acquired(r, b)
                        /\ crossed(r, b)' <=> crossed(r, b)
  BY <1>1, <1>2, <1>3, <1>4, <1>5 DEF acquired, crossed, behind, sorts
<1>14. rows(r)' = rows(r)
  BY <1>1, <1>2, <1>3, <1>4, <1>5, BlockFacts DEF rows, sorts
<1>15. Count(r)' /\ Target(r)' /\ Counted(r)'
  <2>1. Count(r) /\ Target(r) /\ Counted(r)  BY DEF CountInv, TargetInv, CountedInv
  <2>2. Count(r)'
    <3>1. replay[r] * Grid \in Nat  BY <1>7, Constants
    <3> HIDE DEF k
    <3>2. grid_count'[r] + Grid = replay'[r] * Grid + Cardinality(published(r)')
      BY <1>5, <1>8, <1>9, <1>10, <3>1, Constants
    <3> QED BY <1>5, <1>6, <1>12, <2>1, <3>2 DEF Count
  <2>3. Target(r)'
    BY <1>1, <1>2, <1>3, <1>4, <1>5, <1>12, <2>1 DEF Target, sorts
  <2>4. Counted(r)'
    BY <1>1, <1>2, <1>3, <1>4, <1>5, <1>12, <1>13, <1>14, <2>1, BlockFacts
    DEF Counted, sorts
  <2> QED BY <2>2, <2>3, <2>4
<1>16. FlagInv'
  <2>1. \A s, d \in Rank :
          /\ on_way("arrival", s, d)' <=> on_way("arrival", s, d)
          /\ on_way("doorbell", s, d)' <=> \/ on_way("doorbell", s, d)
                                           \/ s = r /\ published(r)' = Block
    BY <1>2, <1>10 DEF on_way, signal
  <2> SUFFICES ASSUME NEW d \in Rank, NEW s \in Rank
               PROVE  /\ recv_doorbell'[d][s] + one(on_way("doorbell", s, d))' =
                           pushed(s)'
                      /\ arr_flags'[d][s] + one(on_way("arrival", s, d))' = combined(s)'
                      /\ on_way("doorbell", s, d)' => /\ kernel'[s] \in {"push", "mega"}
                                                      /\ published(s)' = Block
                      /\ on_way("arrival", s, d)' => kernel'[s] = "combine"
                                                     /\ present(s)' = Block
    BY DEF FlagInv
  <2>2. /\ recv_doorbell[d][s] + one(on_way("doorbell", s, d)) = pushed(s)
        /\ arr_flags[d][s] + one(on_way("arrival", s, d)) = combined(s)
        /\ on_way("doorbell", s, d) => /\ kernel[s] \in {"push", "mega"}
                                       /\ published(s) = Block
        /\ on_way("arrival", s, d) => kernel[s] = "combine" /\ present(s) = Block
    BY DEF FlagInv
  <2>3. CASE s = r
    <3>1. ~on_way("doorbell", s, d)  BY <1>8, <2>2, <2>3
    <3>2. recv_doorbell[d][s] \in Nat  BY DEF TypeInv, TypeOK
    <3>3. recv_doorbell[d][s] = replay[r] - 1
      BY <1>7, <1>11, <2>2, <2>3, <3>1, <3>2 DEF one
    <3>4. recv_doorbell'[d][s] + one(on_way("doorbell", s, d))' = pushed(s)'
      <4>1. CASE published(r)' = Block
        BY <1>5, <1>7, <1>11, <2>1, <2>3, <3>3, <4>1 DEF one
      <4>2. CASE published(r)' # Block
        BY <1>5, <1>7, <1>11, <2>1, <2>3, <3>1, <3>3, <4>2 DEF one
      <4> QED BY <4>1, <4>2
    <3>5. arr_flags'[d][s] + one(on_way("arrival", s, d))' = combined(s)'
      BY <1>5, <1>12, <2>1, <2>2, <2>3 DEF one
    <3> QED BY <1>3, <1>5, <1>6, <2>1, <2>2, <2>3, <3>1, <3>4, <3>5
  <2>4. CASE s # r
    <3>1. /\ kernel'[s] = kernel[s] /\ published(s)' = published(s)
          /\ present(s)' = present(s) /\ pushed(s)' = pushed(s)
          /\ combined(s)' = combined(s)
      BY <1>5, <2>4, Frame DEF Same
    <3> QED BY <1>5, <2>1, <2>2, <2>4, <3>1 DEF one
  <2> QED BY <2>3, <2>4
<1>17. SyncInv'
  <2>1. kernel'[r] # "combine"  BY <1>3, <1>5
  <2>2. /\ replay'[r] \in Nat /\ pushed(r)' \in Nat /\ combined(r)' \in Nat
        /\ pushed(r)' >= pushed(r) /\ combined(r)' >= combined(r)
        /\ finished(r)' \in Nat
    BY <1>5, <1>7, <1>11, <1>12, Derived
  <2>3. /\ \A s \in Rank : finished(r)' <= combined(s)
        /\ \A s \in Rank, b \in Block :
             alive(r)' /\ acquired(r, b)' => replay'[r] <= pushed(s)
        /\ \A b \in Block : alive(r)' /\ crossed(r, b)' => planned(r)' = Block
    BY <1>5, <1>6, <1>12, <1>13 DEF SyncInv
  <2> QED BY <1>5, <1>12, <2>1, <2>2, <2>3, SyncKept
<1>18. EarlyInv'
  <2>1. \A q \in Rank : early(q) => early(q)'
    BY <1>1, <1>2, <1>3, <1>4, <1>5, BlockFacts DEF early, Same, sorts
  <2>2. \A q \in Rank : finished(q)' = finished(q)  BY <1>5, <1>12, Frame
  <2> QED BY <1>5, <1>12, <2>1, <2>2 DEF EarlyInv, clean
<1> QED BY <1>5, <1>15, <1>16, <1>17, <1>18, Others
        DEF CountInv, TargetInv, CountedInv

(* A signal that lands adds to its flag what it stops being under way.     *)
LEMMA CoreDeliver ==
  ASSUME NoWrap, TypeInv, TypeInv', CoreInv, NEW m \in posted, Deliver(m)
  PROVE  CoreInv'
<1> USE DEF CoreInv
<1>1. /\ posted' = posted \ {m}
      /\ \A q \in Rank : Same(q) /\ Kept(q)
      /\ UNCHANGED <<scenario, kernel, replay, pperr>>
  BY DEF Deliver, stream, counters, regs, Same, Kept
<1>2. \A q \in Rank : /\ published(q)' = published(q) /\ present(q)' = present(q)
                      /\ pushed(q)' = pushed(q) /\ combined(q)' = combined(q)
                      /\ planned(q)' = planned(q) /\ finished(q)' = finished(q)
                      /\ alive(q)' <=> alive(q)
  BY <1>1, Frame DEF alive, fits, Kept
<1>3. \A d, s \in Rank :
        /\ recv_doorbell'[d][s] + one(on_way("doorbell", s, d))' =
             recv_doorbell[d][s] + one(on_way("doorbell", s, d))
        /\ arr_flags'[d][s] + one(on_way("arrival", s, d))' =
             arr_flags[d][s] + one(on_way("arrival", s, d))
        /\ on_way("doorbell", s, d)' => on_way("doorbell", s, d)
        /\ on_way("arrival", s, d)' => on_way("arrival", s, d)
  <2>1. m \in Signal \/ is_row(m)  BY DEF TypeInv, PostedInv
  <2>2. CASE is_row(m)
    <3>1. UNCHANGED <<recv_doorbell, arr_flags>>  BY <2>2 DEF Deliver, is_row
    <3>2. \A k, s, d : k # "row" => (on_way(k, s, d)' <=> on_way(k, s, d))
      BY <1>1, <2>2 DEF is_row, on_way
    <3> QED BY <3>1, <3>2 DEF one
  <2>3. CASE m \in Signal
    <3>1. PICK k \in {"doorbell", "arrival"}, p \in Rank, e \in Rank :
            m = [kind |-> k, from |-> p, to |-> e]
      BY <2>3 DEF Signal
    <3>2. \A j, s, d : on_way(j, s, d)' <=> /\ on_way(j, s, d)
                                            /\ ~(j = k /\ s = p /\ d = e)
      BY <1>1, <3>1 DEF on_way
    <3>3. on_way(k, p, e)  BY <3>1 DEF on_way
    <3>4. CASE k = "doorbell"
      <4>1. recv_doorbell' = [recv_doorbell EXCEPT ![e][p] = bump(@)]
            /\ arr_flags' = arr_flags
        BY <3>1, <3>4 DEF Deliver
      <4>2. recv_doorbell[e][p] + 1 = pushed(p) /\ recv_doorbell[e][p] \in Nat
        BY <3>3, <3>4 DEF FlagInv, one, TypeInv, TypeOK
      <4>3. bump(recv_doorbell[e][p]) = recv_doorbell[e][p] + 1
        BY <4>2, BumpExact, Derived
      <4>4. \A d, s \in Rank : recv_doorbell'[d][s] =
              IF d = e /\ s = p THEN recv_doorbell[d][s] + 1 ELSE recv_doorbell[d][s]
        BY <4>1, <4>3 DEF TypeInv, TypeOK
      <4> QED BY <3>2, <3>3, <3>4, <4>1, <4>2, <4>4 DEF one
    <3>5. CASE k = "arrival"
      <4>1. arr_flags' = [arr_flags EXCEPT ![e][p] = bump(@)]
            /\ recv_doorbell' = recv_doorbell
        BY <3>1, <3>5 DEF Deliver
      <4>2. arr_flags[e][p] + 1 = combined(p) /\ arr_flags[e][p] \in Nat
        BY <3>3, <3>5 DEF FlagInv, one, TypeInv, TypeOK
      <4>3. bump(arr_flags[e][p]) = arr_flags[e][p] + 1
        BY <4>2, BumpExact, Derived
      <4>4. \A d, s \in Rank : arr_flags'[d][s] =
              IF d = e /\ s = p THEN arr_flags[d][s] + 1 ELSE arr_flags[d][s]
        BY <4>1, <4>3 DEF TypeInv, TypeOK
      <4> QED BY <3>2, <3>3, <3>5, <4>1, <4>2, <4>4 DEF one
    <3> QED BY <3>4, <3>5
  <2> QED BY <2>1, <2>2, <2>3
<1>4. FlagInv'  BY <1>1, <1>2, <1>3 DEF FlagInv
<1>5. SyncInv'
  BY <1>1, <1>2 DEF SyncInv, acquired, crossed, behind, sorts, Same
<1>6. EarlyInv'
  BY <1>1, <1>2 DEF EarlyInv, early, clean, sorts, Same
<1> QED BY <1>1, <1>4, <1>5, <1>6, Others DEF CountInv, TargetInv, CountedInv

(* A CTA of a live rank that has not planned yet shows that nobody of its  *)
(* rank has crossed the grid barrier.                                      *)
LEMMA NotCrossed ==
  ASSUME SyncInv, NEW r \in Rank, alive(r), NEW c \in Block, c \notin planned(r)
  PROVE  \A b \in Block : ~crossed(r, b)
BY DEF SyncInv

(* A CTA that finds every doorbell rung reads a count every rank has       *)
(* finished adding to.                                                     *)
LEMMA CoreAcquire ==
  ASSUME TypeInv, TypeInv', CoreInv, NEW r \in Rank, NEW c \in Block, Acquire(r, c)
  PROVE  CoreInv'
<1> USE DEF CoreInv
<1>1. PICK l \in {"plan", "done"} :
        /\ goto(r, c, l)
        /\ l = "plan" <=> fits(dest_counter[r])
        /\ l = "plan" => T_loc' = [T_loc EXCEPT ![r][c] = dest_counter[r]]
        /\ l = "done" => T_loc' = T_loc
        /\ pperr' = [pperr EXCEPT ![r] = @ \cup
             IF l = "done" /\ c = 0 THEN {ErrTloc} ELSE {}]
  <2>1. CASE fits(dest_counter[r])
    <3>1. pperr' = [pperr EXCEPT ![r] = @ \cup {}]
      BY <2>1 DEF Acquire, read_T_loc, raise
    <3> QED BY <2>1, <3>1 DEF Acquire, read_T_loc
  <2>2. CASE ~fits(dest_counter[r])
    <3>1. pperr' = [pperr EXCEPT ![r] = @ \cup IF c = 0 THEN {ErrTloc} ELSE {}]
      BY <2>2 DEF Acquire, read_T_loc, raise
    <3> QED BY <2>2, <3>1 DEF Acquire, read_T_loc
  <2> QED BY <2>1, <2>2
<1>2. /\ pc[r][c] = "wait" /\ sorts(r) /\ rung(r, c)
      /\ UNCHANGED <<scenario, kernel, replay, my_ids, inbox, part, counters, plan, out,
                     todo, epoch, s_N, target, posted>>
  BY DEF Acquire, at, read_T_loc
<1>3. \A q \in Rank, b \in Block : pc'[q][b] = IF q = r /\ b = c THEN l ELSE pc[q][b]
  BY <1>1, GotoType DEF Label, TypeInv
<1>4. /\ \A q \in Rank : q # r => Same(q) /\ Kept(q)
      /\ UNCHANGED <<scenario, kernel, replay, recv_doorbell, arr_flags, posted,
                     dest_counter, arr_count, gbar, sort_count, epoch, s_N, grid_count,
                     target>>
  BY <1>1, <1>2 DEF Same, TypeInv, TypeOK, Kept, inbox, counters, goto
<1>5. \A q \in Rank : alive(q)' <=> alive(q)  BY <1>4 DEF alive, fits
<1>6. l = "plan" <=> alive(r)  BY <1>1 DEF alive
<1>7. /\ published(r)' = published(r) /\ present(r)' = present(r)
      /\ sorts(r)' /\ kernel[r] \in {"mega", "dsort"}
      /\ alive(r) => planned(r)' = planned(r)
  BY <1>1, <1>2, <1>3, <1>4, <1>6
  DEF published, present, planned, behind, sorts
<1>8. /\ pushed(r)' = pushed(r) /\ combined(r)' = combined(r)
      /\ finished(r)' = finished(r)
  BY <1>4, <1>7 DEF pushed, combined, finished
<1>9. ASSUME alive(r)
      PROVE  /\ \A b \in Block : ~crossed(r, b) /\ ~crossed(r, b)' /\ pc[r][b] # "done"
             /\ ~tailed(r) /\ ~tailed(r)'
             /\ \A b \in Block : acquired(r, b)' => acquired(r, b) \/ b = c
             /\ \A s \in Rank : replay[r] <= pushed(s)
             /\ rows(r) = dest_counter[r] /\ rows(r)' = dest_counter[r]
  <2>1. c \notin planned(r)  BY <1>2, <1>7 DEF planned, behind
  <2>2. \A b \in Block : ~crossed(r, b)  BY <1>9, <2>1, NotCrossed
  <2>3. \A b \in Block : ~crossed(r, b)' /\ pc[r][b] # "done" /\ pc'[r][b] # "done"
    BY <1>2, <1>3, <1>4, <1>6, <1>7, <1>9, <2>2 DEF crossed, behind, sorts
  <2>4. ~tailed(r) /\ ~tailed(r)' /\ rows(r) = dest_counter[r]
        /\ rows(r)' = dest_counter[r]
    BY <1>4, <1>7, <2>3, BlockFacts DEF tailed, behind, rows
  <2>5. \A b \in Block : acquired(r, b)' => acquired(r, b) \/ b = c
    BY <1>3, <1>4 DEF acquired, behind, sorts
  <2>6. \A s \in Rank : replay[r] <= pushed(s)
    <3> TAKE s \in Rank
    <3>1. epoch[r][c] = replay[r]  BY <1>2, <1>9 DEF TargetInv, Target
    <3>2. recv_doorbell[r][s] >= replay[r]  BY <1>2, <3>1 DEF rung, reached
    <3>3. recv_doorbell[r][s] + one(on_way("doorbell", s, r)) = pushed(s)
      BY DEF FlagInv
    <3>4. recv_doorbell[r][s] \in Nat  BY DEF TypeInv, TypeOK
    <3>5. recv_doorbell[r][s] <= pushed(s)  BY <3>3, <3>4 DEF one
    <3> QED BY <3>2, <3>4, <3>5, Derived
  <2> QED BY <2>2, <2>3, <2>4, <2>5, <2>6
<1>10. Count(r)' /\ Target(r)' /\ Counted(r)'
  <2>1. Count(r) /\ Target(r) /\ Counted(r)  BY DEF CountInv, TargetInv, CountedInv
  <2>2. Count(r)'  BY <1>4, <1>5, <1>7, <1>9, <2>1 DEF Count
  <2>3. Target(r)'
    BY <1>1, <1>2, <1>3, <1>4, <1>5, <1>7, <2>1 DEF Target, sorts
  <2>4. ASSUME ~alive(r) PROVE Counted(r)'
    BY <1>3, <1>4, <1>5, <1>6, <2>1, <2>4 DEF Counted
  <2>5. ASSUME alive(r) PROVE Counted(r)'
    <3>1. \A b \in Block : T_loc'[r][b] = IF b = c THEN dest_counter[r] ELSE T_loc[r][b]
      BY <1>1, <1>6, <2>5 DEF TypeInv, TypeOK
    <3>2. pc'[r][0] # "done" /\ kernel'[r] # "gemm"
      BY <1>3, <1>4, <1>6, <1>7, <1>9, <2>5, BlockFacts
    <3> QED BY <1>4, <1>5, <1>2, <1>9, <2>1, <2>5, <3>1, <3>2 DEF Counted
  <2> QED BY <2>2, <2>3, <2>4, <2>5
<1>11. FlagInv'
  <2>1. \A k, s, d : on_way(k, s, d)' <=> on_way(k, s, d)  BY <1>4 DEF on_way
  <2> QED BY <1>4, <1>7, <1>8, <2>1, FlagKept DEF FlagInv
<1>12. SyncInv'
  <2>1. kernel'[r] # "combine"  BY <1>4, <1>7
  <2>2. /\ replay'[r] \in Nat /\ pushed(r)' \in Nat /\ combined(r)' \in Nat
        /\ pushed(r)' >= pushed(r) /\ combined(r)' >= combined(r)
        /\ finished(r)' \in Nat
    BY <1>4, <1>8, Derived
  <2>3. /\ \A s \in Rank : finished(r)' <= combined(s)
        /\ \A s \in Rank, b \in Block :
             alive(r)' /\ acquired(r, b)' => replay'[r] <= pushed(s)
        /\ \A b \in Block : alive(r)' /\ crossed(r, b)' => planned(r)' = Block
    BY <1>4, <1>5, <1>8, <1>9 DEF SyncInv
  <2> QED BY <1>4, <1>5, <2>1, <2>2, <2>3, SyncKept
<1>13. EarlyInv'
  <2> SUFFICES ASSUME clean' PROVE EarlyInv'  BY DEF EarlyInv
  <2>1. \A q \in Rank : pperr'[q] = {}  BY DEF clean
  <2>2. \A q \in Rank : pperr[q] = {}
    <3> TAKE q \in Rank
    <3>1. pperr[q] \subseteq pperr'[q]  BY <1>1 DEF TypeInv, TypeOK
    <3> QED BY <2>1, <3>1
  <2>3. ~(l = "done" /\ c = 0)
    <3> SUFFICES ASSUME l = "done" /\ c = 0 PROVE FALSE  OBVIOUS
    <3>1. ErrTloc \in pperr'[r]  BY <1>1 DEF TypeInv, TypeOK
    <3> QED BY <2>1, <3>1
  <2>4. \A q \in Rank : ~alive(q) => (early(q) => early(q)')
    BY <1>2, <1>3, <1>4, <1>6, <2>3, BlockFacts DEF early, Same, sorts
  <2>5. \A q \in Rank : finished(q)' = finished(q)  BY <1>4, <1>8, Frame
  <2> QED BY <1>5, <2>2, <2>4, <2>5 DEF EarlyInv, clean
<1> QED BY <1>4, <1>10, <1>11, <1>12, <1>13, Others
        DEF CountInv, TargetInv, CountedInv

(* A CTA that arrives at the grid barrier computes the target of its       *)
(* replay.                                                                 *)
LEMMA CorePlan ==
  ASSUME NoWrap, TypeInv, TypeInv', CoreInv, NEW r \in Rank, NEW c \in Block,
         Plan(r, c)
  PROVE  CoreInv'
<1> USE DEF CoreInv
<1>1. /\ pc[r][c] = "plan" /\ goto(r, c, "gbar")
      /\ gbar' = [gbar EXCEPT ![r] = bump(@)]
      /\ target' = [target EXCEPT ![r][c] = grid_target(gbar[r], Grid)]
      /\ UNCHANGED <<scenario, kernel, replay, my_ids, inbox, grid_count, sort_count,
                     arr_count, pull_stage, out, pperr, todo, epoch, s_N, T_loc, posted,
                     expired>>
  BY DEF Plan, at
<1>2. sorts(r) /\ kernel[r] \in {"mega", "dsort"}
  BY <1>1 DEF sorts, TypeInv, PlaceInv, places, TypeOK
<1>3. \A q \in Rank, b \in Block :
        pc'[q][b] = IF q = r /\ b = c THEN "gbar" ELSE pc[q][b]
  BY <1>1, GotoType DEF Label, TypeInv
<1>4. /\ \A q \in Rank : q # r => Same(q) /\ Kept(q)
      /\ UNCHANGED <<scenario, kernel, replay, recv_doorbell, arr_flags, posted, pperr,
                     dest_counter, arr_count, sort_count, epoch, s_N, grid_count, T_loc>>
  BY <1>1 DEF Same, TypeInv, TypeOK, Kept, inbox, goto
<1>5. /\ \A q \in Rank : alive(q)' <=> alive(q)
      /\ alive(r)
  BY <1>1, <1>4 DEF alive, fits, CountedInv, Counted
<1>6. /\ c \notin planned(r) /\ planned(r)' = planned(r) \cup {c}
      /\ published(r)' = published(r) /\ present(r)' = present(r)
      /\ tailed(r)' <=> tailed(r)
  BY <1>1, <1>2, <1>3, <1>4, BlockFacts
  DEF published, present, planned, tailed, behind, sorts
<1>7. /\ pushed(r)' = pushed(r) /\ combined(r)' = combined(r)
      /\ finished(r)' = finished(r)
  BY <1>4, <1>6 DEF pushed, combined, finished
<1>8. /\ \A b \in Block : /\ acquired(r, b)' <=> acquired(r, b)
                          /\ ~crossed(r, b)'
  <2>1. \A b \in Block : ~crossed(r, b)  BY <1>5, <1>6, NotCrossed
  <2> QED BY <1>1, <1>2, <1>3, <1>4, <2>1 DEF acquired, crossed, behind, sorts
<1>9. replay[r] \in 1 .. MaxReplay  BY <1>2, Derived
<1> DEFINE k == Cardinality(planned(r))
<1>10. k \in Nat /\ k < Grid /\ Cardinality(planned(r)') = k + 1
  <2>1. planned(r) \in SUBSET Block  BY DEF planned
  <2>2. k \in 0 .. Grid /\ k # Grid /\ Cardinality(planned(r)') = k + 1
    BY <1>6, <2>1, CardFacts
  <2> QED BY <2>2, Constants
<1>11. /\ gbar[r] + Grid = replay[r] * Grid + k
       /\ gbar[r] \in Nat
  BY <1>5 DEF CountInv, Count, TypeInv, TypeOK
<1>12. /\ gbar'[r] = gbar[r] + 1
       /\ \A b \in Block : target'[r][b] =
                             IF b = c THEN replay[r] * Grid ELSE target[r][b]
  <2>1. /\ bump(gbar[r]) = gbar[r] + 1
        /\ grid_target(gbar[r], Grid) = replay[r] * Grid
    <3> HIDE DEF k
    <3> QED BY <1>9, <1>10, <1>11, Cumulative
  <2> QED BY <1>1, <2>1 DEF TypeInv, TypeOK
<1>13. rows(r)' = rows(r)
  BY <1>1, <1>2, <1>3, <1>4, BlockFacts DEF rows, sorts
<1>14. Count(r)' /\ Target(r)' /\ Counted(r)'
  <2>1. Count(r) /\ Target(r) /\ Counted(r)  BY DEF CountInv, TargetInv, CountedInv
  <2>2. Count(r)'
    <3>1. replay[r] * Grid \in Nat  BY <1>9, Constants
    <3> HIDE DEF k
    <3>2. gbar'[r] + Grid = replay'[r] * Grid + Cardinality(planned(r)')
      BY <1>4, <1>10, <1>11, <1>12, <3>1, Constants
    <3> QED BY <1>4, <1>5, <1>6, <2>1, <3>2 DEF Count
  <2>3. Target(r)'
    BY <1>1, <1>2, <1>3, <1>4, <1>5, <1>12, <2>1 DEF Target, sorts
  <2>4. Counted(r)'
    BY <1>1, <1>2, <1>3, <1>4, <1>5, <1>8, <1>13, <2>1, BlockFacts DEF Counted, sorts
  <2> QED BY <2>2, <2>3, <2>4
<1>15. FlagInv'
  <2>1. \A j, s, d : on_way(j, s, d)' <=> on_way(j, s, d)  BY <1>4 DEF on_way
  <2> QED BY <1>4, <1>6, <1>7, <2>1, FlagKept DEF FlagInv
<1>16. SyncInv'
  <2>1. kernel'[r] # "combine"  BY <1>2, <1>4
  <2>2. /\ replay'[r] \in Nat /\ pushed(r)' \in Nat /\ combined(r)' \in Nat
        /\ pushed(r)' >= pushed(r) /\ combined(r)' >= combined(r)
        /\ finished(r)' \in Nat
    BY <1>4, <1>7, Derived
  <2>3. /\ \A s \in Rank : finished(r)' <= combined(s)
        /\ \A s \in Rank, b \in Block :
             alive(r)' /\ acquired(r, b)' => replay'[r] <= pushed(s)
    BY <1>4, <1>5, <1>7, <1>8 DEF SyncInv
  <2> QED BY <1>4, <1>5, <1>8, <2>1, <2>2, <2>3, SyncKept
<1>17. EarlyInv'
  <2>1. \A q \in Rank : q # r => (early(q)' <=> early(q))
    BY <1>4 DEF early, Same, sorts
  <2>2. \A q \in Rank : finished(q)' = finished(q)  BY <1>4, <1>7, Frame
  <2> QED BY <1>4, <1>5, <2>1, <2>2 DEF EarlyInv, clean
<1> QED BY <1>4, <1>14, <1>15, <1>16, <1>17, Others
        DEF CountInv, TargetInv, CountedInv

(* The steps behind the two barriers, which only move the CTA on.          *)
LEMMA CoreWalk ==
  ASSUME TypeInv, TypeInv', CoreInv, NEW r \in Rank, NEW c \in Block,
         NEW l \in {"scatter", "tail", "pull", "done"}, goto(r, c, l),
         UNCHANGED <<scenario, kernel, replay, inbox, counters, regs, posted, pperr>>,
         \/ pc[r][c] = "gbar" /\ l = "scatter" /\ planned(r) = Block
         \/ pc[r][c] = "scatter" /\ l \in {"tail", "done"} /\ (l = "done" => c # 0)
         \/ /\ kernel[r] = "combine" /\ pc[r][c] = "wait" /\ l = "pull"
            /\ \A s \in Rank : replay[r] <= combined(s)
         \/ kernel[r] = "combine" /\ pc[r][c] = "pull" /\ l = "done"
  PROVE  CoreInv'
<1> USE DEF CoreInv
<1>1. \/ sorts(r) /\ kernel[r] # "combine" /\ pc[r][c] \in {"gbar", "scatter"}
      \/ ~sorts(r) /\ kernel[r] = "combine" /\ pc[r][c] \in {"wait", "pull"}
  BY DEF TypeInv, PlaceInv, places, TypeOK, sorts
<1>2. \A q \in Rank, b \in Block : pc'[q][b] = IF q = r /\ b = c THEN l ELSE pc[q][b]
  BY GotoType DEF Label, TypeInv
<1>3. /\ \A q \in Rank : q # r => Same(q)
      /\ \A q \in Rank : Kept(q)
      /\ UNCHANGED <<scenario, kernel, replay, recv_doorbell, arr_flags, posted, pperr,
                     T_loc, epoch, s_N, target>>
  BY DEF Same, TypeInv, TypeOK, Kept, inbox, counters, regs, goto
<1>4. \A q \in Rank : alive(q)' <=> alive(q)
  BY <1>3 DEF alive, fits, Kept
<1>5. /\ published(r)' = published(r) /\ present(r)' = present(r)
      /\ planned(r)' = planned(r) /\ (tailed(r)' <=> tailed(r))
      /\ \A b \in Block : acquired(r, b)' <=> acquired(r, b)
      /\ rows(r)' = rows(r)
  <2>1. CASE sorts(r) /\ pc[r][c] \in {"gbar", "scatter"} /\ kernel[r] # "combine"
    <3>1. l # "pull" /\ (l = "done" => c # 0)  BY <2>1
    <3>2. /\ published(r)' = published(r) /\ present(r)' = present(r)
          /\ planned(r)' = planned(r)
      BY <1>2, <1>3, <2>1, <3>1 DEF published, present, planned, behind, sorts
    <3>3. pc'[r][0] = "done" <=> pc[r][0] = "done"
      BY <1>2, <2>1, <3>1, BlockFacts
    <3>4. /\ tailed(r)' <=> tailed(r)
          /\ \A b \in Block : acquired(r, b)' <=> acquired(r, b)
          /\ rows(r)' = rows(r)
      BY <1>2, <1>3, <2>1, <3>1, <3>3 DEF tailed, acquired, rows, behind, sorts, Kept
    <3> QED BY <3>2, <3>4
  <2>2. CASE ~sorts(r) /\ kernel[r] = "combine" /\ pc[r][c] \in {"wait", "pull"}
    BY <1>2, <1>3, <2>2
    DEF published, present, planned, behind, sorts, tailed, acquired, rows, Kept
  <2> QED BY <1>1, <2>1, <2>2
<1>6. /\ pushed(r)' = pushed(r) /\ combined(r)' = combined(r)
      /\ finished(r)' = finished(r)
  BY <1>3, <1>5 DEF pushed, combined, finished
<1>7. Count(r)' /\ Target(r)' /\ Counted(r)'
  <2>1. Count(r) /\ Target(r) /\ Counted(r)  BY DEF CountInv, TargetInv, CountedInv
  <2>2. Count(r)'  BY <1>3, <1>4, <1>5, <2>1 DEF Count, Kept
  <2>3. Target(r)'
    <3>1. pc[r][c] # "start" /\ l \notin {"wait", "gbar"}  BY <1>1
    <3> QED BY <1>2, <1>3, <1>4, <2>1, <3>1 DEF Target, sorts
  <2>4. Counted(r)'
    <3>1. /\ l \in {"scatter", "tail"} => pc[r][c] \in {"gbar", "scatter"}
          /\ c = 0 /\ l = "done" => ~sorts(r) /\ kernel[r] # "gemm"
      BY <1>1
    <3>2. sorts(r)' <=> sorts(r)  BY <1>3 DEF sorts
    <3>3. \A b \in Block : pc'[r][b] \in {"plan", "gbar", "scatter", "tail"} => alive(r)
      BY <1>2, <2>1, <3>1 DEF Counted
    <3>4. sorts(r) /\ pc'[r][0] = "done" => pc[r][0] = "done"
      BY <1>2, <3>1, BlockFacts
    <3> QED BY <1>3, <1>4, <1>5, <2>1, <3>2, <3>3, <3>4 DEF Counted, Kept
  <2> QED BY <2>2, <2>3, <2>4
<1>8. FlagInv'
  <2>1. \A k, s, d : on_way(k, s, d)' <=> on_way(k, s, d)  BY <1>3 DEF on_way
  <2> QED BY <1>3, <1>5, <1>6, <2>1, FlagKept DEF FlagInv
<1>9. SyncInv'
  <2>1. \A s \in Rank, b \in Block :
          kernel'[r] = "combine" /\ pc'[r][b] \in {"pull", "done"} =>
            replay'[r] <= combined(s)
    <3> SUFFICES ASSUME NEW s \in Rank, NEW b \in Block, kernel[r] = "combine",
                        pc'[r][b] \in {"pull", "done"}
                 PROVE  replay[r] <= combined(s)
      BY <1>3
    <3>1. CASE pc[r][b] \in {"pull", "done"}  BY <3>1 DEF SyncInv
    <3>2. CASE pc[r][b] \notin {"pull", "done"}
      <4>1. b = c /\ pc[r][c] = "wait"  BY <1>1, <1>2, <3>2
      <4> QED BY <4>1
    <3> QED BY <3>1, <3>2
  <2>2. /\ replay'[r] \in Nat /\ pushed(r)' \in Nat /\ combined(r)' \in Nat
        /\ pushed(r)' >= pushed(r) /\ combined(r)' >= combined(r)
        /\ finished(r)' \in Nat
    BY <1>3, <1>6, Derived
  <2>3. /\ \A s \in Rank : finished(r)' <= combined(s)
        /\ \A s \in Rank, b \in Block :
             alive(r)' /\ acquired(r, b)' => replay'[r] <= pushed(s)
    BY <1>3, <1>4, <1>5, <1>6 DEF SyncInv
  <2>4. \A b \in Block : alive(r)' /\ crossed(r, b)' => planned(r)' = Block
    <3> SUFFICES ASSUME NEW b \in Block, alive(r), crossed(r, b)'
                 PROVE  planned(r) = Block
      BY <1>4, <1>5
    <3>1. CASE crossed(r, b)  BY <3>1 DEF SyncInv
    <3>2. CASE ~crossed(r, b)
      <4>1. b = c /\ pc[r][c] = "gbar"
        BY <1>1, <1>2, <1>3, <3>2 DEF crossed, behind, sorts
      <4> QED BY <4>1
    <3> QED BY <3>1, <3>2
  <2> QED BY <1>3, <1>4, <2>1, <2>2, <2>3, <2>4, SyncKept
<1>10. EarlyInv'
  <2>1. \A q \in Rank : early(q) => early(q)'
    BY <1>1, <1>2, <1>3, BlockFacts DEF early, Same, sorts
  <2>2. \A q \in Rank : finished(q)' = finished(q)  BY <1>3, <1>6, Frame
  <2> QED BY <1>3, <1>4, <2>1, <2>2 DEF EarlyInv, clean
<1> QED BY <1>3, <1>7, <1>8, <1>9, <1>10, Others
        DEF CountInv, TargetInv, CountedInv

(* The barrier opens when all CTAs of the rank have planned.               *)
LEMMA CoreCross ==
  ASSUME TypeInv, TypeInv', CoreInv, NEW r \in Rank, NEW c \in Block, Cross(r, c)
  PROVE  CoreInv'
<1>1. /\ pc[r][c] = "gbar" /\ goto(r, c, "scatter") /\ opened(r, c)
      /\ UNCHANGED <<scenario, kernel, replay, inbox, counters, regs, posted>>
      /\ pperr' = [pperr EXCEPT ![r] = @ \cup {}]
  BY DEF Cross, cross, at, raise
<1>2. pperr' = pperr  BY <1>1 DEF TypeInv, TypeOK
<1>3. planned(r) = Block
  <2>1. alive(r)  BY <1>1 DEF CoreInv, CountedInv, Counted
  <2>2. target[r][c] = replay[r] * Grid  BY <1>1, <2>1 DEF CoreInv, TargetInv, Target
  <2>3. gbar[r] + Grid = replay[r] * Grid + Cardinality(planned(r))
    BY <2>1 DEF CoreInv, CountInv, Count
  <2>4. replay[r] * Grid \in Nat /\ gbar[r] \in Nat
    BY Constants, Derived DEF TypeInv, TypeOK
  <2>5. planned(r) \in SUBSET Block  BY DEF planned
  <2>6. Cardinality(planned(r)) \in 0 .. Grid  BY <2>5, CardFacts
  <2>7. Cardinality(planned(r)) = Grid
    BY <1>1, <2>2, <2>3, <2>4, <2>6, Constants DEF opened, reached
  <2> QED BY <2>5, <2>7, CardFacts
<1> QED BY <1>1, <1>2, <1>3, CoreWalk

(* Scattering moves the CTA on.                                            *)
LEMMA CoreScatter ==
  ASSUME TypeInv, TypeInv', CoreInv, NEW r \in Rank, NEW c \in Block, Scatter(r, c)
  PROVE  CoreInv'
<1>1. PICK l \in {"tail", "done"} : goto(r, c, l) /\ (l = "done" => c # 0)
  BY DEF Scatter
<1>2. /\ pc[r][c] = "scatter"
      /\ UNCHANGED <<scenario, kernel, replay, inbox, counters, regs, posted, pperr>>
  BY DEF Scatter, at
<1> QED BY <1>1, <1>2, CoreWalk

(* A CTA that finds every arrival flag set knows that all ranks have       *)
(* arrived to combine its replay.                                          *)
LEMMA CoreEnter ==
  ASSUME TypeInv, TypeInv', CoreInv, NEW r \in Rank, NEW c \in Block, Enter(r, c)
  PROVE  CoreInv'
<1>1. /\ kernel[r] = "combine" /\ pc[r][c] = "wait" /\ goto(r, c, "pull")
      /\ all_arrived(r, c)
      /\ UNCHANGED <<scenario, kernel, replay, inbox, counters, regs, posted>>
      /\ pperr' = [pperr EXCEPT ![r] = @ \cup {}]
  BY DEF Enter, enter, at, raise
<1>2. pperr' = pperr  BY <1>1 DEF TypeInv, TypeOK
<1>3. \A s \in Rank : replay[r] <= combined(s)
  <2> TAKE s \in Rank
  <2>1. s_N[r][c] = replay[r]  BY <1>1 DEF CoreInv, TargetInv, Target
  <2>2. arr_flags[r][s] >= replay[r]  BY <1>1, <2>1 DEF all_arrived, reached
  <2>3. arr_flags[r][s] + one(on_way("arrival", s, r)) = combined(s)
    BY DEF CoreInv, FlagInv
  <2>4. arr_flags[r][s] \in Nat  BY DEF TypeInv, TypeOK
  <2>5. arr_flags[r][s] <= combined(s)  BY <2>3, <2>4 DEF one
  <2> QED BY <2>2, <2>4, <2>5, Derived
<1> QED BY <1>1, <1>2, <1>3, CoreWalk

(* Pulling ends the CTA.                                                   *)
LEMMA CorePull ==
  ASSUME TypeInv, TypeInv', CoreInv, NEW r \in Rank, NEW c \in Block, Pull(r, c)
  PROVE  CoreInv'
<1>1. /\ pc[r][c] = "pull" /\ goto(r, c, "done")
      /\ UNCHANGED <<scenario, kernel, replay, inbox, counters, regs, posted, pperr>>
  BY DEF Pull, at
<1>2. kernel[r] = "combine"  BY <1>1 DEF TypeInv, PlaceInv, places, TypeOK
<1> QED BY <1>1, <1>2, CoreWalk

(* CTA 0 resets the count after all CTAs of its rank have read it, and     *)
(* advances the epoch cell.                                                *)
LEMMA CoreTail ==
  ASSUME TypeInv, TypeInv', CoreInv, NEW r \in Rank, NEW c \in Block, Tail(r, c)
  PROVE  CoreInv'
<1> USE DEF CoreInv
<1>1. /\ pc[r][c] = "tail" /\ goto(r, c, "done")
      /\ dest_counter' = [dest_counter EXCEPT ![r] = 0]
      /\ sort_count' = [sort_count EXCEPT ![r] = epoch[r][c]]
      /\ UNCHANGED <<scenario, kernel, replay, my_ids, recv, recv_doorbell, arr_flags,
                     part, grid_count, gbar, arr_count, plan, out, pperr, regs, posted,
                     expired>>
  BY DEF Tail, at
<1>2. c = 0 /\ sorts(r) /\ kernel[r] \in {"mega", "dsort"}
  BY <1>1 DEF sorts, TypeInv, PlaceInv, places, TypeOK
<1>3. \A q \in Rank, b \in Block :
        pc'[q][b] = IF q = r /\ b = c THEN "done" ELSE pc[q][b]
  BY <1>1, GotoType DEF Label, TypeInv
<1>4. /\ \A q \in Rank : q # r => Same(q) /\ Kept(q)
      /\ dest_counter'[r] = 0 /\ sort_count'[r] = epoch[r][c]
      /\ UNCHANGED <<scenario, kernel, replay, recv_doorbell, arr_flags, posted, pperr,
                     arr_count, gbar, epoch, s_N, grid_count, T_loc, target>>
  BY <1>1 DEF Same, TypeInv, TypeOK, Kept, regs, goto
<1>5. /\ alive(r) /\ alive(r)'
      /\ \A q \in Rank : q # r => (alive(q)' <=> alive(q))
  <2>1. alive(r)  BY <1>1 DEF CountedInv, Counted
  <2>2. alive(r)'  BY <1>4, ScenarioType DEF alive, fits, TypeInv, TypeOK
  <2> QED BY <1>4, <2>1, <2>2 DEF Kept, alive, fits
<1>6. /\ published(r)' = published(r) /\ present(r)' = present(r)
      /\ planned(r)' = planned(r) /\ tailed(r)'
      /\ \A b \in Block : /\ acquired(r, b)' <=> acquired(r, b)
                          /\ crossed(r, b)' <=> crossed(r, b)
  BY <1>1, <1>2, <1>3, <1>4
  DEF published, present, planned, tailed, behind, sorts, acquired, crossed
<1>7. /\ pushed(r)' = pushed(r) /\ combined(r)' = combined(r)
      /\ finished(r)' = finished(r)
  BY <1>4, <1>6 DEF pushed, combined, finished
<1>8. Count(r)' /\ Target(r)' /\ Counted(r)'
  <2>1. Count(r) /\ Target(r) /\ Counted(r)  BY DEF CountInv, TargetInv, CountedInv
  <2>2. Count(r)'
    <3>1. epoch[r][c] = replay[r]  BY <1>1, <1>2, <1>5, <2>1 DEF Target
    <3>2. sort_count'[r] + 1 = replay'[r] + 1  BY <1>4, <3>1
    <3> QED BY <1>4, <1>5, <1>6, <2>1, <3>2 DEF Count
  <2>3. Target(r)'
    BY <1>1, <1>2, <1>3, <1>4, <1>5, <2>1 DEF Target, sorts
  <2>4. Counted(r)'
    <3>1. rows(r) = dest_counter[r]
      BY <1>1, <1>2 DEF rows
    <3>2. T_loc[r][0] = rows(r)
      BY <1>1, <1>2, <1>5, <2>1, BlockFacts DEF Counted, acquired
    <3>3. rows(r)' = T_loc[r][0]
      BY <1>2, <1>3, <1>4, BlockFacts DEF rows, sorts
    <3> QED BY <1>2, <1>3, <1>4, <1>5, <1>6, <2>1, <3>1, <3>2, <3>3 DEF Counted, sorts
  <2> QED BY <2>2, <2>3, <2>4
<1>9. FlagInv'
  <2>1. \A k, s, d : on_way(k, s, d)' <=> on_way(k, s, d)  BY <1>4 DEF on_way
  <2> QED BY <1>4, <1>6, <1>7, <2>1, FlagKept DEF FlagInv
<1>10. SyncInv'
  <2>1. kernel'[r] # "combine"  BY <1>2, <1>4
  <2>2. /\ replay'[r] \in Nat /\ pushed(r)' \in Nat /\ combined(r)' \in Nat
        /\ pushed(r)' >= pushed(r) /\ combined(r)' >= combined(r)
        /\ finished(r)' \in Nat
    BY <1>4, <1>7, Derived
  <2>3. /\ \A s \in Rank : finished(r)' <= combined(s)
        /\ \A s \in Rank, b \in Block :
             alive(r)' /\ acquired(r, b)' => replay'[r] <= pushed(s)
        /\ \A b \in Block : alive(r)' /\ crossed(r, b)' => planned(r)' = Block
    BY <1>4, <1>5, <1>6, <1>7 DEF SyncInv
  <2>4. \A q \in Rank : alive(q)' => alive(q)  BY <1>5
  <2> QED BY <1>4, <2>1, <2>2, <2>3, <2>4, SyncKept
<1>11. EarlyInv'
  <2>1. \A q \in Rank : q # r => (early(q)' <=> early(q))
    BY <1>4 DEF early, Same, sorts
  <2>2. \A q \in Rank : finished(q)' = finished(q)  BY <1>4, <1>7, Frame
  <2> QED BY <1>4, <1>5, <2>1, <2>2 DEF EarlyInv, clean
<1> QED BY <1>4, <1>8, <1>9, <1>10, <1>11, Others
        DEF CountInv, TargetInv, CountedInv

(* The GEMM ends with the count reset and nobody present at the combine.   *)
LEMMA CoreGemm ==
  ASSUME TypeInv, TypeInv', CoreInv, NEW r \in Rank, Gemm(r)
  PROVE  CoreInv'
<1> USE DEF CoreInv
<1>1. /\ kernel[r] = "gemm" /\ kernel'[r] = "combine"
      /\ \A c \in Block : pc'[r][c] = "start"
      /\ \A q \in Rank : q # r => Same(q)
      /\ \A q \in Rank : Kept(q)
      /\ UNCHANGED <<scenario, replay, recv_doorbell, arr_flags, posted, pperr>>
  BY DEF Gemm, begin, successor, Same, TypeInv, TypeOK, Kept, inbox, counters, regs
<1>2. \A q \in Rank : alive(q)' <=> alive(q)  BY <1>1 DEF alive, fits, Kept
<1>3. /\ published(r)' = published(r) /\ present(r)' = present(r)
      /\ planned(r)' = planned(r) /\ tailed(r) /\ tailed(r)'
      /\ \A b \in Block : acquired(r, b) /\ crossed(r, b)
  BY <1>1 DEF published, present, planned, tailed, behind, acquired, crossed
<1>4. /\ pushed(r)' = pushed(r) /\ combined(r)' = combined(r)
      /\ finished(r)' = finished(r)
  BY <1>1, <1>3 DEF pushed, combined, finished
<1>5. Count(r)' /\ Target(r)' /\ Counted(r)'
  <2>1. Count(r)  BY DEF CountInv
  <2>2. Count(r)'  BY <1>1, <1>2, <1>3, <2>1 DEF Count, Kept
  <2>3. Target(r)'  BY <1>1 DEF Target, sorts
  <2>4. Counted(r)'  BY <1>1 DEF Counted, sorts
  <2> QED BY <2>2, <2>3, <2>4
<1>6. FlagInv'
  <2>1. \A k, s, d : on_way(k, s, d)' <=> on_way(k, s, d)  BY <1>1 DEF on_way
  <2>2. \A d \in Rank : ~on_way("doorbell", r, d) /\ ~on_way("arrival", r, d)
    BY <1>1 DEF FlagInv
  <2> QED BY <1>1, <1>4, <2>1, <2>2, FlagKept
<1>7. SyncInv'
  <2>1. \A b \in Block : pc'[r][b] \notin {"pull", "done"}  BY <1>1
  <2>2. /\ replay'[r] \in Nat /\ pushed(r)' \in Nat /\ combined(r)' \in Nat
        /\ pushed(r)' >= pushed(r) /\ combined(r)' >= combined(r)
        /\ finished(r)' \in Nat
    BY <1>1, <1>4, Derived
  <2>3. /\ \A s \in Rank : finished(r)' <= combined(s)
        /\ \A s \in Rank, b \in Block :
             alive(r)' /\ acquired(r, b)' => replay'[r] <= pushed(s)
        /\ \A b \in Block : alive(r)' /\ crossed(r, b)' => planned(r)' = Block
    BY <1>1, <1>2, <1>3, <1>4 DEF SyncInv
  <2> QED BY <1>1, <1>2, <2>1, <2>2, <2>3, SyncKept
<1>8. EarlyInv'
  <2>1. ~early(r)  BY <1>1 DEF early, sorts
  <2>2. \A q \in Rank : q # r => (early(q)' <=> early(q))
    BY <1>1 DEF early, Same, sorts
  <2>3. \A q \in Rank : finished(q)' = finished(q)  BY <1>1, <1>4, Frame
  <2> QED BY <1>1, <1>2, <2>1, <2>2, <2>3 DEF EarlyInv, clean
<1> QED BY <1>1, <1>5, <1>6, <1>7, <1>8, Others
        DEF CountInv, TargetInv, CountedInv

(* The CTA that completes the grid, and only it, posts the arrivals.       *)
LEMMA CoreArrive ==
  ASSUME NoWrap, TypeInv, TypeInv', CoreInv, NEW r \in Rank, NEW c \in Block,
         Arrive(r, c)
  PROVE  CoreInv'
<1> USE DEF CoreInv
<1>1. /\ kernel[r] = "combine" /\ pc[r][c] = "start" /\ goto(r, c, "wait")
      /\ arr_count' = [arr_count EXCEPT ![r] = bump(@)]
      /\ s_N' = [s_N EXCEPT ![r][c] = epoch_from_cumulative(arr_count[r], Grid)]
      /\ posted' = IF last_arrival(arr_count[r], Grid)
                   THEN posted \cup signal("arrival", r) ELSE posted
      /\ UNCHANGED <<scenario, kernel, replay, my_ids, inbox, part, grid_count, gbar,
                     sort_count, plan, out, pperr, todo, epoch, T_loc, target, expired>>
  BY DEF Arrive, at
<1>2. \A q \in Rank, b \in Block :
        pc'[q][b] = IF q = r /\ b = c THEN "wait" ELSE pc[q][b]
  BY <1>1, GotoType DEF Label, TypeInv
<1>3. /\ \A q \in Rank : q # r => Same(q) /\ Kept(q)
      /\ UNCHANGED <<scenario, kernel, replay, recv_doorbell, arr_flags, pperr,
                     dest_counter, grid_count, gbar, sort_count, epoch, T_loc, target>>
  BY <1>1 DEF Same, TypeInv, TypeOK, Kept, inbox, goto
<1>4. \A q \in Rank : alive(q)' <=> alive(q)  BY <1>3 DEF alive, fits
<1>5. /\ c \notin present(r) /\ present(r)' = present(r) \cup {c}
      /\ published(r)' = published(r) /\ planned(r)' = planned(r)
      /\ tailed(r) /\ tailed(r)'
      /\ \A b \in Block : acquired(r, b) /\ crossed(r, b)
  BY <1>1, <1>2, <1>3
  DEF published, present, planned, tailed, behind, sorts, acquired, crossed
<1>6. replay[r] \in 1 .. MaxReplay  BY <1>1, Derived
<1> DEFINE k == Cardinality(present(r))
<1>7. /\ k \in Nat /\ k < Grid /\ Cardinality(present(r)') = k + 1
      /\ k + 1 = Grid <=> present(r)' = Block
      /\ present(r) # Block
  <2>1. present(r) \in SUBSET Block /\ present(r)' \in SUBSET Block
    BY <1>5 DEF present
  <2>2. k \in 0 .. Grid /\ k # Grid /\ Cardinality(present(r)') = k + 1
    BY <1>5, <2>1, CardFacts
  <2>3. k + 1 = Grid <=> present(r)' = Block
    BY <2>1, <2>2, CardFacts
  <2> QED BY <1>5, <2>2, <2>3, Constants
<1>8. /\ arr_count[r] + Grid = replay[r] * Grid + k
      /\ arr_count[r] \in Nat
  BY DEF CountInv, Count, TypeInv, TypeOK
<1>9. /\ arr_count'[r] = arr_count[r] + 1
      /\ \A b \in Block : s_N'[r][b] = IF b = c THEN replay[r] ELSE s_N[r][b]
      /\ last_arrival(arr_count[r], Grid) <=> present(r)' = Block
  <2>1. /\ bump(arr_count[r]) = arr_count[r] + 1
        /\ epoch_from_cumulative(arr_count[r], Grid) = replay[r]
        /\ last_arrival(arr_count[r], Grid) <=> k + 1 = Grid
    <3> HIDE DEF k
    <3> QED BY <1>6, <1>7, <1>8, Cumulative
  <2> QED BY <1>1, <1>7, <2>1 DEF TypeInv, TypeOK
<1>10. /\ combined(r) = replay[r] - 1
       /\ combined(r)' = IF present(r)' = Block THEN replay[r] ELSE replay[r] - 1
  BY <1>3, <1>7 DEF combined
<1>11. pushed(r)' = pushed(r) /\ finished(r)' = finished(r)
  BY <1>3, <1>5 DEF pushed, finished
<1>12. Count(r)' /\ Target(r)' /\ Counted(r)'
  <2>1. Count(r) /\ Target(r) /\ Counted(r)  BY DEF CountInv, TargetInv, CountedInv
  <2>2. Count(r)'
    <3>1. replay[r] * Grid \in Nat  BY <1>6, Constants
    <3> HIDE DEF k
    <3>2. arr_count'[r] + Grid = replay'[r] * Grid + Cardinality(present(r)')
      BY <1>3, <1>7, <1>8, <1>9, <3>1, Constants
    <3> QED BY <1>3, <1>4, <1>5, <2>1, <3>2 DEF Count
  <2>3. Target(r)'
    BY <1>1, <1>2, <1>3, <1>4, <1>9, <2>1 DEF Target, sorts
  <2>4. Counted(r)'
    BY <1>1, <1>2, <1>3, <1>4, <2>1 DEF Counted, sorts
  <2> QED BY <2>2, <2>3, <2>4
<1>13. FlagInv'
  <2>1. \A s, d \in Rank :
          /\ on_way("doorbell", s, d)' <=> on_way("doorbell", s, d)
          /\ on_way("arrival", s, d)' <=> \/ on_way("arrival", s, d)
                                          \/ s = r /\ present(r)' = Block
    BY <1>1, <1>9 DEF on_way, signal
  <2> SUFFICES ASSUME NEW d \in Rank, NEW s \in Rank
               PROVE  /\ recv_doorbell'[d][s] + one(on_way("doorbell", s, d))' =
                           pushed(s)'
                      /\ arr_flags'[d][s] + one(on_way("arrival", s, d))' = combined(s)'
                      /\ on_way("doorbell", s, d)' => /\ kernel'[s] \in {"push", "mega"}
                                                      /\ published(s)' = Block
                      /\ on_way("arrival", s, d)' => kernel'[s] = "combine"
                                                     /\ present(s)' = Block
    BY DEF FlagInv
  <2>2. /\ recv_doorbell[d][s] + one(on_way("doorbell", s, d)) = pushed(s)
        /\ arr_flags[d][s] + one(on_way("arrival", s, d)) = combined(s)
        /\ on_way("doorbell", s, d) => /\ kernel[s] \in {"push", "mega"}
                                       /\ published(s) = Block
        /\ on_way("arrival", s, d) => kernel[s] = "combine" /\ present(s) = Block
    BY DEF FlagInv
  <2>3. CASE s = r
    <3>1. ~on_way("arrival", s, d)  BY <1>7, <2>2, <2>3
    <3>2. arr_flags[d][s] \in Nat  BY DEF TypeInv, TypeOK
    <3>3. arr_flags[d][s] = replay[r] - 1
      BY <1>6, <1>10, <2>2, <2>3, <3>1, <3>2 DEF one
    <3>4. arr_flags'[d][s] + one(on_way("arrival", s, d))' = combined(s)'
      <4>1. CASE present(r)' = Block
        BY <1>3, <1>6, <1>10, <2>1, <2>3, <3>3, <4>1 DEF one
      <4>2. CASE present(r)' # Block
        BY <1>3, <1>6, <1>10, <2>1, <2>3, <3>1, <3>3, <4>2 DEF one
      <4> QED BY <4>1, <4>2
    <3>5. recv_doorbell'[d][s] + one(on_way("doorbell", s, d))' = pushed(s)'
      BY <1>3, <1>11, <2>1, <2>2, <2>3 DEF one
    <3> QED BY <1>1, <1>3, <1>5, <2>1, <2>2, <2>3, <3>1, <3>4, <3>5
  <2>4. CASE s # r
    <3>1. /\ kernel'[s] = kernel[s] /\ published(s)' = published(s)
          /\ present(s)' = present(s) /\ pushed(s)' = pushed(s)
          /\ combined(s)' = combined(s)
      BY <1>3, <2>4, Frame DEF Same
    <3> QED BY <1>3, <2>1, <2>2, <2>4, <3>1 DEF one
  <2> QED BY <2>3, <2>4
<1>14. SyncInv'
  <2>1. \A s \in Rank, b \in Block :
          pc'[r][b] \in {"pull", "done"} => replay'[r] <= combined(s)
    BY <1>1, <1>2, <1>3 DEF SyncInv
  <2>2. /\ replay'[r] \in Nat /\ pushed(r)' \in Nat /\ combined(r)' \in Nat
        /\ pushed(r)' >= pushed(r) /\ combined(r)' >= combined(r)
        /\ finished(r)' \in Nat
    BY <1>3, <1>6, <1>10, <1>11, Derived
  <2>3. /\ \A s \in Rank : finished(r)' <= combined(s)
        /\ \A s \in Rank, b \in Block :
             alive(r)' /\ acquired(r, b)' => replay'[r] <= pushed(s)
        /\ \A b \in Block : alive(r)' /\ crossed(r, b)' => planned(r)' = Block
    BY <1>3, <1>4, <1>5, <1>11 DEF SyncInv
  <2> QED BY <1>3, <1>4, <2>1, <2>2, <2>3, SyncKept
<1>15. EarlyInv'
  <2>1. \A q \in Rank : early(q) => early(q)'
    BY <1>1, <1>2, <1>3, BlockFacts DEF early, Same, sorts
  <2>2. \A q \in Rank : finished(q)' = finished(q)  BY <1>3, <1>11, Frame
  <2> QED BY <1>3, <1>4, <2>1, <2>2 DEF EarlyInv, clean
<1> QED BY <1>3, <1>12, <1>13, <1>14, <1>15, Others
        DEF CountInv, TargetInv, CountedInv

(* The host clears the error words of joined ranks: all are idle in one    *)
(* replay, and what is left of an overflow holds everyone up behind it.    *)
LEMMA CoreGate ==
  ASSUME TypeInv, TypeInv', CoreInv, Gate
  PROVE  CoreInv'
<1> USE DEF CoreInv
<1>1. /\ \A q \in Rank : Same(q) /\ Kept(q)
      /\ UNCHANGED <<scenario, kernel, pc, replay, recv_doorbell, arr_flags, posted>>
  BY DEF Gate, Same, Kept, stream, inbox, counters, regs
<1>2. \A q \in Rank : /\ published(q)' = published(q) /\ present(q)' = present(q)
                      /\ pushed(q)' = pushed(q) /\ combined(q)' = combined(q)
                      /\ planned(q)' = planned(q) /\ finished(q)' = finished(q)
                      /\ alive(q)' <=> alive(q)
  BY <1>1, Frame DEF alive, fits, Kept
<1>3. FlagInv'
  <2>1. \A k, s, d : on_way(k, s, d)' <=> on_way(k, s, d)  BY <1>1 DEF on_way
  <2> QED BY <1>1, <1>2, <2>1 DEF FlagInv, one
<1>4. SyncInv'
  BY <1>1, <1>2 DEF SyncInv, acquired, crossed, behind, sorts
<1>5. EarlyInv'
  <2>1. \A q \in Rank : kernel[q] = "idle" /\ replay[q] = replay[0]  BY DEF Gate, joined
  <2>2. 0 \in Rank  BY Constants DEF Rank
  <2>3. \A q \in Rank : finished(q)' = replay[0] /\ early(q)'
    BY <1>1, <1>2, <2>1 DEF finished, early
  <2>4. replay[0] \in Nat  BY <2>2, Derived
  <2> QED BY <2>3, <2>4 DEF EarlyInv
<1> QED BY <1>1, <1>3, <1>4, <1>5, Others DEF CountInv, TargetInv, CountedInv

(* Nothing changes in a stuttering step.                                   *)
LEMMA CoreStutter ==
  ASSUME TypeInv, CoreInv, UNCHANGED vars
  PROVE  CoreInv'
<1> USE DEF CoreInv
<1>1. /\ \A q \in Rank : Same(q) /\ Kept(q)
      /\ UNCHANGED <<scenario, kernel, pc, replay, recv_doorbell, arr_flags, posted,
                     pperr>>
  BY DEF vars, Same, Kept, stream, inbox, counters, regs
<1>2. \A q \in Rank : /\ published(q)' = published(q) /\ present(q)' = present(q)
                      /\ pushed(q)' = pushed(q) /\ combined(q)' = combined(q)
                      /\ planned(q)' = planned(q) /\ finished(q)' = finished(q)
                      /\ alive(q)' <=> alive(q)
  BY <1>1, Frame DEF alive, fits, Kept
<1>3. FlagInv'
  <2>1. \A k, s, d : on_way(k, s, d)' <=> on_way(k, s, d)  BY <1>1 DEF on_way
  <2> QED BY <1>1, <1>2, <2>1 DEF FlagInv, one
<1>4. SyncInv'
  BY <1>1, <1>2 DEF SyncInv, acquired, crossed, behind, sorts
<1>5. EarlyInv'  BY <1>1, <1>2 DEF EarlyInv, early, clean, sorts
<1> QED BY <1>1, <1>3, <1>4, <1>5, Others DEF CountInv, TargetInv, CountedInv

(* A wait that gives up leaves its bit; every other step leaves the error  *)
(* words as they are or adds to them, and only the host clears them.       *)
LEMMA GivenUp ==
  ASSUME TypeInv, NEW r \in Rank, NEW c \in Block, TimeOut(r, c)
  PROVE  pperr'[r] # {} /\ expired' # 0
<1>1. time_out /\ expired \in Nat
  BY ScenarioType DEF TimeOut, AcquireTimeOut, CrossTimeOut, EnterTimeOut, TypeInv,
                      TypeOK
<1>2. PICK b \in SUBSET ErrBits : b # {} /\ raise(r, b)
  <2>1. /\ {ErrDoorbell} \in SUBSET ErrBits /\ {ErrGrid} \in SUBSET ErrBits
        /\ {ErrArrival} \in SUBSET ErrBits /\ {ErrDoorbell, ErrTloc} \in SUBSET ErrBits
    BY DEF ErrBits
  <2>2. /\ {ErrDoorbell} \cup {ErrTloc} = {ErrDoorbell, ErrTloc}
        /\ {ErrDoorbell} \cup {} = {ErrDoorbell}
    OBVIOUS
  <2>3. CASE AcquireTimeOut(r, c)
    <3>1. raise(r, {ErrDoorbell}) \/ raise(r, {ErrDoorbell, ErrTloc})
      BY <2>2, <2>3 DEF AcquireTimeOut, read_T_loc
    <3> QED BY <2>1, <3>1
  <2>4. CASE CrossTimeOut(r, c)  BY <2>1, <2>4 DEF CrossTimeOut, cross
  <2>5. CASE EnterTimeOut(r, c)  BY <2>1, <2>5 DEF EnterTimeOut, enter
  <2> QED BY <2>3, <2>4, <2>5 DEF TimeOut
<1>3. b \subseteq pperr'[r]  BY <1>2 DEF raise, TypeInv, TypeOK
<1>4. pperr'[r] # {}  BY <1>2, <1>3
<1>5. expired' # 0  BY <1>1 DEF time_out
<1> QED BY <1>4, <1>5

(* Only the host clears error words: every other step that does not give   *)
(* up keeps them or adds to them.                                          *)
LEMMA PerrKept ==
  ASSUME TypeInv, Next, ~Gate, \A r \in Rank, c \in Block : ~TimeOut(r, c)
  PROVE  (clean' => clean) /\ expired' = expired
<1>1. /\ expired' = expired
      /\ pperr' = pperr \/ \E r \in Rank, b \in SUBSET ErrBits : raise(r, b)
  <2>1. ASSUME NEW r \in Rank, Launch(r) \/ KernelEnd(r) \/ Gemm(r)
        PROVE  expired' = expired /\ pperr' = pperr
    BY <2>1 DEF Launch, KernelEnd, Gemm
  <2>2. ASSUME NEW r \in Rank, NEW c \in Block, Work(r, c)
        PROVE  expired' = expired /\ (pperr' = pperr \/ raise(r, {Overflow}))
    <3>1. CASE Push(r, c)  BY <3>1 DEF Push
    <3>2. CASE ~Push(r, c)
      BY <2>2, <3>2 DEF Work, Start, Publish, Plan, Scatter, Tail, Arrive, Pull
    <3> QED BY <3>1, <3>2
  <2>3. ASSUME NEW r \in Rank, NEW c \in Block, Wait(r, c)
        PROVE  expired' = expired /\ \E b \in SUBSET ErrBits : raise(r, b)
    <3>1. {} \in SUBSET ErrBits /\ {ErrTloc} \in SUBSET ErrBits  BY DEF ErrBits
    <3>2. {} \cup {} = {} /\ {} \cup {ErrTloc} = {ErrTloc}  OBVIOUS
    <3>3. CASE Acquire(r, c)
      <4>1. raise(r, {}) \/ raise(r, {ErrTloc})
        BY <3>2, <3>3 DEF Acquire, read_T_loc
      <4> QED BY <3>1, <3>3, <4>1 DEF Acquire
    <3>4. CASE Cross(r, c)  BY <3>1, <3>4 DEF Cross, cross
    <3>5. CASE Enter(r, c)  BY <3>1, <3>5 DEF Enter, enter
    <3> QED BY <2>3, <3>3, <3>4, <3>5 DEF Wait
  <2>4. ASSUME NEW m \in posted, Deliver(m)
        PROVE  expired' = expired /\ pperr' = pperr
    BY <2>4 DEF Deliver
  <2>5. {Overflow} \in SUBSET ErrBits  BY DEF ErrBits
  <2> QED BY <2>1, <2>2, <2>3, <2>4, <2>5 DEF Next
<1>2. \A r \in Rank : pperr[r] \subseteq pperr'[r]
  <2>1. pperr \in [Rank -> SUBSET ErrBits]  BY DEF TypeInv, TypeOK
  <2> QED BY <1>1, <2>1 DEF raise
<1>3. expired' = expired  BY <1>1
<1>4. \A r \in Rank : pperr'[r] = {} => pperr[r] = {}  BY <1>2
<1>5. clean' => clean  BY <1>4 DEF clean
<1> QED BY <1>3, <1>5

(* As long as nothing has given up, a step keeps the protocol layer.       *)
LEMMA CoreStep ==
  ASSUME NoWrap, TypeInv, TypeInv', CoreInv, Next,
         \A r \in Rank, c \in Block : ~TimeOut(r, c)
  PROVE  CoreInv'
<1>1. ASSUME NEW r \in Rank, Launch(r) \/ KernelEnd(r) \/ Gemm(r) PROVE CoreInv'
  BY <1>1, CoreLaunch, CoreKernelEnd, CoreGemm
<1>2. ASSUME NEW r \in Rank, NEW c \in Block, Work(r, c) PROVE CoreInv'
  BY <1>2, CoreStart, CorePush, CorePublish, CorePlan, CoreScatter, CoreTail,
     CoreArrive, CorePull DEF Work
<1>3. ASSUME NEW r \in Rank, NEW c \in Block, Wait(r, c) PROVE CoreInv'
  BY <1>3, CoreAcquire, CoreCross, CoreEnter DEF Wait
<1>4. ASSUME NEW m \in posted, Deliver(m) PROVE CoreInv'
  BY <1>4, CoreDeliver
<1> QED BY <1>1, <1>2, <1>3, <1>4, CoreGate DEF Next

(* A step that gives up sets an error word, which the trusted host never   *)
(* clears; every other step keeps the layer.                               *)
LEMMA ProtocolStep ==
  ASSUME NoWrap, TypeInv, TypeInv', ProtocolInv, [Next]_vars,
         [Gate => expired = 0]_vars
  PROVE  ProtocolInv'
<1>1. CASE UNCHANGED vars
  BY <1>1, CoreStutter DEF ProtocolInv, vars, clean
<1>2. CASE Next /\ \E r \in Rank, c \in Block : TimeOut(r, c)
  BY <1>2, GivenUp DEF ProtocolInv, clean
<1>3. CASE Next /\ Gate /\ vars' # vars
  <2>1. expired = 0 /\ expired' = 0  BY <1>3 DEF Gate
  <2> QED BY <2>1, <1>3, CoreGate DEF ProtocolInv
<1>4. CASE /\ Next /\ ~Gate /\ \A r \in Rank, c \in Block : ~TimeOut(r, c)
  <2>1. (clean' => clean) /\ expired' = expired  BY <1>4, PerrKept
  <2>2. expired = 0 => CoreInv'  BY <1>4, CoreStep DEF ProtocolInv
  <2> QED BY <2>1, <2>2 DEF ProtocolInv
<1> QED BY <1>1, <1>2, <1>3, <1>4

(* The counters, flags and targets stand for what the layer says, as long  *)
(* as no wait has given up.                                                *)
THEOREM ProtocolCorrect ==
  ASSUME NoWrap PROVE Spec /\ TrustedGate => []ProtocolInv
<1>1. Init => ProtocolInv
  BY CoreInit DEF ProtocolInv, Init
<1>2. TypeInv /\ TypeInv' /\ ProtocolInv /\ [Next]_vars /\ [Gate => expired = 0]_vars
        => ProtocolInv'
  BY ProtocolStep
<1> QED BY <1>1, <1>2, TypeCorrect, PTL DEF Spec, TrustedGate

(* A CTA 0 that is about to reset the count has read it, and nobody has    *)
(* added to it since.                                                      *)
LEMMA ResetFact == TypeInv /\ ProtocolInv => ResetExact
<1> SUFFICES ASSUME TypeInv, ProtocolInv, clean, NEW r \in Rank, pc[r][0] = "tail"
             PROVE  dest_counter[r] = T_loc[r][0]
  BY DEF ResetExact
<1>1. Counted(r)  BY DEF ProtocolInv, CoreInv, CountedInv
<1>2. sorts(r) /\ kernel[r] # "gemm"
  BY BlockFacts DEF sorts, TypeInv, PlaceInv, places, TypeOK
<1> QED BY <1>1, <1>2, BlockFacts DEF Counted, acquired, rows

(* A rank that rewrites its partial rows has seen every rank push, hence   *)
(* finish the combine before.                                              *)
LEMMA PartFact == TypeInv /\ ProtocolInv => PartStable
<1> SUFFICES ASSUME TypeInv, ProtocolInv, clean, NEW r \in Rank, NEW q \in Rank,
                    rewriting(r), kernel[q] = "combine", replay[q] < replay[r]
             PROVE  FALSE
  BY DEF PartStable
<1> CoreInv  BY DEF ProtocolInv
<1>1. /\ replay[q] \in Nat /\ replay[r] \in Nat
      /\ finished(r) \in Nat /\ finished(r) >= replay[r] - 1
      /\ finished(q) = replay[q] - 1
      /\ kernel[r] \in {"push", "mega", "dsort", "gemm"} => combined(r) = replay[r] - 1
  BY Derived DEF finished
<1>2. PICK b \in Block : acquired(r, b) /\ kernel[r] \in {"mega", "dsort", "gemm"}
  BY BlockFacts
  DEF rewriting, acquired, behind, sorts, TypeInv, PlaceInv, places, TypeOK
<1>3. CASE alive(r)
  <2>1. replay[r] <= pushed(q)  BY <1>2, <1>3 DEF CoreInv, SyncInv
  <2> QED BY <1>1, <2>1, Derived
<1>4. CASE ~alive(r)
  <2>1. early(r) /\ finished(r) <= finished(q)  BY <1>4 DEF CoreInv, EarlyInv
  <2> QED BY <1>1, <2>1
<1> QED BY <1>3, <1>4

(* When CTA 0 gives the receive buffer back, the rows claimed are those    *)
(* the plan was made for: no producer's claim is lost (hkp_alloc.hpp:4-5). *)
THEOREM ResetLosesNothing ==
  ASSUME NoWrap PROVE Spec /\ TrustedGate => []ResetExact
<1> QED BY TypeCorrect, ProtocolCorrect, ResetFact, PTL

(* No rank clears or adds to partial rows that the combine of an earlier   *)
(* replay still pulls (k0d_mega.hip:2-3).                                  *)
THEOREM PartSumsStable ==
  ASSUME NoWrap PROVE Spec /\ TrustedGate => []PartStable
<1> QED BY TypeCorrect, ProtocolCorrect, PartFact, PTL
===============================================================================
