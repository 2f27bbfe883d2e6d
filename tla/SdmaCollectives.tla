-------------------------- MODULE SdmaCollectives --------------------------
(* mori's collectives over the copy engines of the node: the one-shot      *)
(* all-gather and all-to-all, and the two-shot all-reduce, whose first     *)
(* kernel scatters and reduces and whose second gathers the reduced shards *)
(* in the same buffer.  A put returns at once; the engine carries it out   *)
(* later, piece by piece.  A lane that has its puts to a peer completed    *)
(* tells the peer with a flag word: a generation number, or, in the        *)
(* all-to-all, a count that the receiver clears.                           *)
(*                                                                         *)
(* A slot of a buffer is one piece per block of the reduction.  Ranks are  *)
(* synchronised between calls, which the classes leave to the caller.      *)
EXTENDS Integers, FiniteSets, Sequences

CONSTANTS Npes,        \* npes
          Blocks,      \* gridDim.x of the reducing kernel
          Scenarios    \* the calls of every rank, sequences of operations

Pe == 0 .. Npes - 1
Block == 0 .. Blocks - 1
Op == {"allgather", "all2all", "allreduce"}

SdmaCollectivesAssumption ==
  /\ {Npes, Blocks} \subseteq Nat \ {0}
  /\ \A x \in Scenarios : x \in Seq(Op) /\ x # <<>>

VARIABLES
  s,       \* the scenario
  call,    \* the running call
  pc,      \* [r][b]: where the block is
  next,    \* [r][b]: the generation it works for (s_next, ag_token, flagVal)
  todo,    \* [r]: the peers its lanes have yet to tell
  gen,     \* [r]: CrossPeBarrier.flag
  flags,   \* [r][p]
  buf,     \* [r][p][piece]: the slots of the transit buffer
  posted,  \* [r]: pieces the engines have yet to copy
  out      \* [r][p][piece]: the caller's output

words == <<next, todo, gen, flags>>
vars == <<s, call, pc, words, buf, posted, out>>

-----------------------------------------------------------------------------
op == s[call]
summing == op = "allreduce"

(* A datum is the set of the inputs added up in it: <<whose, shard, call>>.*)
input(r, p) == {<<r, IF op = "allgather" THEN 0 ELSE p, call>>}

Init ==
  /\ s \in Scenarios
  /\ call = 1
  /\ pc = [r \in Pe |-> [b \in Block |-> "start"]]
  /\ next = [r \in Pe |-> [b \in Block |-> 0]]
  /\ todo = [r \in Pe |-> {}]
  /\ gen = [r \in Pe |-> 0]
  /\ flags = [r \in Pe |-> [p \in Pe |-> 0]]
  /\ buf = [r \in Pe |-> [p \in Pe |-> [b \in Block |-> {}]]]
  /\ posted = [r \in Pe |-> {}]
  /\ out = buf

goto(r, b, l) == pc' = [pc EXCEPT ![r][b] = l]
post(r, what) == posted' = [posted EXCEPT ![r] = @ \cup
                              {[what |-> what, pe |-> p, piece |-> b] :
                                 p \in Pe, b \in Block}]

(* Block 0 reads the generation and posts this rank's input to every peer, *)
(* itself included.  The all-gather has its generation from the host, the  *)
(* all-to-all has none.                                                    *)
Send(r) ==
  /\ pc[r][0] = "start"
  /\ goto(r, 0, "told")
  /\ next' = [next EXCEPT ![r][0] = CASE op = "allreduce" -> gen[r] + 1
                                       [] op = "allgather" -> call
                                       [] OTHER -> 1]
  /\ post(r, "input")
  /\ todo' = [todo EXCEPT ![r] = Pe]
  /\ UNCHANGED <<s, call, gen, flags, buf, out>>

(* Every other block reads the generation when it gets to run.             *)
Join(r, b) ==
  /\ summing /\ b # 0
  /\ pc[r][b] = "start"
  /\ goto(r, b, "await")
  /\ next' = [next EXCEPT ![r][b] = gen[r] + 1]
  /\ UNCHANGED <<s, call, todo, gen, flags, buf, posted, out>>

(* Mutant: the flag is set behind the puts.                                *)
quiet_none(r, p) == TRUE

(* The lane of peer p waits for its puts, then sets its word at the peer.  *)
quiet(r, p) == \A x \in posted[r] : x.pe # p

Tell(r, p) ==
  /\ pc[r][0] \in {"told", "told_shard"}
  /\ p \in todo[r]
  /\ quiet(r, p)
  /\ todo' = [todo EXCEPT ![r] = @ \ {p}]
  /\ flags' = [flags EXCEPT ![p][r] = IF op = "all2all" THEN @ + 1 ELSE next[r][0]]
  /\ UNCHANGED <<s, call, pc, next, gen, buf, posted, out>>

(* Mutant: a word of an earlier generation is good enough.                 *)
arrived_old(r) == \A p \in Pe \ {r} : flags[r][p] >= next[r][0] - 1

(* All peers' words are there.                                             *)
arrived(r) == \A p \in Pe \ {r} : flags[r][p] >= next[r][0]

(* Mutant: the words of the all-to-all stay.                               *)
cleared_none(r) == IF op = "all2all" THEN [flags EXCEPT ![r][r] = 0] ELSE flags

(* The all-to-all clears its words for the next call.                      *)
cleared(r) == IF op = "all2all" THEN [flags EXCEPT ![r] = [p \in Pe |-> 0]] ELSE flags

Received(r) ==
  /\ pc[r][0] \in {"told", "told_shard"} /\ todo[r] = {}
  /\ arrived(r)
  /\ flags' = cleared(r)
  /\ IF summing /\ pc[r][0] = "told"
       THEN goto(r, 0, "reduce") /\ gen' = [gen EXCEPT ![r] = next[r][0]]
       ELSE goto(r, 0, "copy") /\ UNCHANGED gen
  /\ UNCHANGED <<s, call, next, todo, buf, posted, out>>

(* Block 0's broadcast releases the others.                                *)
Follow(r, b) ==
  /\ pc[r][b] = "await"
  /\ gen[r] >= next[r][b]
  /\ goto(r, b, "reduce")
  /\ UNCHANGED <<s, call, words, buf, posted, out>>

(* A block writes its piece of the own slot afresh and adds all slots up.  *)
Reduce(r, b) ==
  /\ pc[r][b] = "reduce"
  /\ goto(r, b, "reduced")
  /\ buf' = [buf EXCEPT ![r][r][b] =
               input(r, r) \cup UNION {buf[r][p][b] : p \in Pe \ {r}}]
  /\ UNCHANGED <<s, call, words, posted, out>>

(* The second kernel of the all-reduce sends the reduced shard to all.     *)
Gather(r) ==
  /\ \A b \in Block : pc[r][b] = "reduced"
  /\ goto(r, 0, "told_shard")
  /\ next' = [next EXCEPT ![r][0] = gen[r] + 1]
  /\ gen' = [gen EXCEPT ![r] = @ + 1]
  /\ post(r, "shard")
  /\ todo' = [todo EXCEPT ![r] = Pe]
  /\ UNCHANGED <<s, call, flags, buf, out>>

CopyOut(r) ==
  /\ pc[r][0] = "copy"
  /\ out' = [out EXCEPT ![r] = buf[r]]
  /\ goto(r, 0, "end")
  /\ UNCHANGED <<s, call, words, buf, posted>>

ended == \A r \in Pe : pc[r][0] = "end"

NextCall ==
  /\ ended /\ call < Len(s)
  /\ call' = call + 1
  /\ pc' = [r \in Pe |-> [b \in Block |-> "start"]]
  /\ UNCHANGED <<s, words, buf, posted, out>>

(* An engine copies a piece.                                               *)
Deliver(r, x) ==
  /\ x \in posted[r]
  /\ posted' = [posted EXCEPT ![r] = @ \ {x}]
  /\ buf' = [buf EXCEPT ![x.pe][r][x.piece] =
               IF x.what = "input" THEN input(r, x.pe) ELSE buf[r][r][x.piece]]
  /\ UNCHANGED <<s, call, pc, words, out>>

Finished == ended /\ call = Len(s) /\ UNCHANGED vars

RankStep(r) == \/ Send(r) \/ Received(r) \/ Gather(r) \/ CopyOut(r)
               \/ \E b \in Block : Join(r, b) \/ Follow(r, b) \/ Reduce(r, b)
               \/ \E p \in Pe : Tell(r, p)
Engine(r) == \E x \in posted[r] : Deliver(r, x)

Next == NextCall \/ Finished \/ \E r \in Pe : RankStep(r) \/ Engine(r)

Spec == Init /\ [][Next]_vars

-----------------------------------------------------------------------------
Datum == SUBSET (Pe \X Pe \X (1 .. Len(s)))

(* Every variable has its type; in particular no word of the all-to-all    *)
(* counts past the one call it is for.                                     *)
TypeOK ==
  /\ s \in Scenarios /\ call \in DOMAIN s
  /\ pc \in [Pe -> [Block -> {"start", "told", "await", "reduce", "reduced",
                              "told_shard", "copy", "end"}]]
  /\ todo \in [Pe -> SUBSET Pe]
  /\ gen \in [Pe -> 0 .. 2 * Len(s)]
  /\ next \in [Pe -> [Block -> 0 .. 2 * Len(s) + 1]]
  /\ flags \in [Pe -> [Pe -> IF op = "all2all" THEN {0, 1} ELSE 0 .. 2 * Len(s)]]
  /\ buf \in [Pe -> [Pe -> [Block -> Datum]]]
  /\ \A r \in Pe : \A x \in posted[r] : x.pe \in Pe /\ x.piece \in Block
  /\ out \in [Pe -> [Pe -> [Block -> Datum]]]

due(r, p) == CASE op = "allgather" -> {<<p, 0, call>>}
               [] op = "all2all" -> {<<p, r, call>>}
               [] OTHER -> {<<q, p, call>> : q \in Pe}
exact(r) == \A p \in Pe, b \in Block : out[r][p][b] = due(r, p)

(* An all-gather and an all-to-all leave every rank with exactly what each *)
(* peer sent it in this call, whatever was left over from the last.        *)
GatheredExact == \A r \in Pe : ~summing /\ pc[r][0] = "end" => exact(r)

(* No block adds up a slot that still holds a datum of an earlier call: the*)
(* generations of the two kernels keep the scatters of a call apart from   *)
(* the gathers of the one before, though they share words and slots.       *)
NeverOld == \A r \in Pe, b \in Block : pc[r][b] = "reduce" =>
  \A p \in Pe \ {r} : buf[r][p][b] # {} /\ \A d \in buf[r][p][b] : d[3] = call

(* The shard of a rank does not change while an engine has yet to copy it. *)
ShardKept == \A r \in Pe : \A x \in posted[r] :
  x.what = "shard" => buf'[r][r][x.piece] = buf[r][r][x.piece]

(* Block 0 has broadcast the generation of its kernel before another block *)
(* has read it: that block waits for ever, see the README.                 *)
BroadcastMissed == \E r \in Pe, b \in Block :
  pc[r][0] \in {"reduce", "reduced"} /\ pc[r][b] = "await" /\ next[r][b] > gen[r]

(* Every collective can go on until it has come to an end, all-reduces as  *)
(* long as no block has missed the broadcast of its generation.            *)
NeverStuck ==
  \/ ended /\ call = Len(s)
  \/ BroadcastMissed
  \/ ENABLED NextCall
  \/ \E r \in Pe : posted[r] # {} \/ ENABLED RankStep(r)

(* An all-reduce leaves every rank with the sums of all shards.  The code  *)
(* does not keep this: see the README.                                     *)
AllReduceExact == \A r \in Pe : summing /\ pc[r][0] = "end" => exact(r)
=============================================================================
