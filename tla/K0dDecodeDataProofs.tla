-------------------------- MODULE K0dDecodeDataProofs -------------------------
(* The data of the decode pipeline.  First the receive buffers: what a     *)
(* sender keeps of its tokens, and that every row of a buffer is claimed by*)
(* one token of the replay the buffer collects; from it, that a buffer is  *)
(* stable while it is consumed.  Then what becomes of the rows: the plan of*)
(* a rank is made for exactly its live rows, the partial sums of the last  *)
(* GEMM are what the tokens want, and the outputs are the sums over all    *)
(* ranks; from it, that a finished output is correct or an error word is   *)
(* set.  One lemma per action and layer.  Last, what a decode layer with   *)
(* room for every token does: it never sets an error word, its outputs are *)
(* exactly the expected ones, and its two inner barriers are PeerBarrier   *)
(* and GridBarrier (K0dDecodeBarriers); the cross-rank barrier is one      *)
(* whether or not there is room and waits give up.                         *)
EXTENDS K0dDecodeSyncProofs, K0dDecodeBarriers

(* What a sender keeps of its own tokens.                                  *)
SenderInv == RowInv /\ StageInv /\ TodoInv

(* A step that touches neither rows nor lists, nor un-starts a CTA, keeps  *)
(* what the senders keep.                                                  *)
LEMMA SenderKept ==
  ASSUME TypeInv, SenderInv, UNCHANGED <<pull_stage, todo, my_ids, replay>>,
         \A m \in posted' : m.kind = "row" => m \in posted,
         \A s \in Rank, tau \in Token : begun(s, tau)' => begun(s, tau),
         \A s \in Rank, c \in Block :
           pushes(s, c) /\ todo[s][c] # {} => pushes(s, c)'
  PROVE  SenderInv'
<1> USE DEF SenderInv
<1>1. RowInv'  BY DEF RowInv, row_message, Origin
<1>2. StageInv'  BY DEF StageInv
<1>3. TodoInv'  BY DEF TodoInv
<1> QED BY <1>1, <1>2, <1>3

(* A CTA that is not where it pushes has nothing left to push, and no row  *)
(* under way.                                                              *)
LEMMA Settled ==
  ASSUME TypeInv, SenderInv, NEW r \in Rank, NEW c \in Block, ~pushes(r, c)
  PROVE  todo[r][c] = {} /\ \A m \in posted : ~(m.kind = "row" /\ m.from = r /\ m.cta = c)
BY DEF SenderInv, TodoInv, TypeInv, PostedInv, Signal

(* The CTA a token is dealt to.                                            *)
LEMMA TokenCTA == \A tau \in Token : tau % Grid \in Block
BY Constants DEF Token, Block

(* At a launch no CTA has begun, and the last replay left nothing posted.  *)
LEMMA SenderLaunch ==
  ASSUME TypeInv, SenderInv, NEW r \in Rank, Launch(r)
  PROVE  SenderInv'
<1>1. /\ kernel[r] = "idle" /\ kernel'[r] \in {"push", "mega"}
      /\ \A c \in Block : pc'[r][c] = "start"
      /\ \A q \in Rank : q # r => Same(q) /\ my_ids'[q] = my_ids[q]
      /\ UNCHANGED <<pull_stage, todo, posted>>
  BY DEF Launch, begin, Same, TypeInv, TypeOK, plan, regs
<1>2. \A c \in Block : ~pushes(r, c)  BY <1>1 DEF pushes
<1>3. \A m \in posted : m.kind = "row" => m.from # r /\ m.from \in Rank
  BY <1>2, Settled DEF TypeInv, PostedInv, is_row, Signal
<1>4. RowInv'
  <2> SUFFICES ASSUME NEW m \in posted, m.kind = "row"
               PROVE  \E tau \in Token :
                        /\ m = row_message(m.from, tau, m.to, m.row)'
                        /\ <<m.to, m.row>> \in pull_stage[m.from][tau]
    BY <1>1 DEF RowInv
  <2>1. PICK tau \in Token : /\ m = row_message(m.from, tau, m.to, m.row)
                             /\ <<m.to, m.row>> \in pull_stage[m.from][tau]
    BY DEF SenderInv, RowInv
  <2>2. Origin(m.from, tau)' = Origin(m.from, tau)
    BY <1>1, <1>3 DEF Origin, Same
  <2> QED BY <2>1, <2>2 DEF row_message
<1>5. StageInv'
  <2>1. \A tau \in Token : ~begun(r, tau)'  BY <1>1, TokenCTA DEF begun
  <2>2. \A s \in Rank, tau \in Token : s # r =>
          /\ begun(s, tau)' <=> begun(s, tau)
          /\ replay'[s] = replay[s] /\ my_ids'[s] = my_ids[s]
    BY <1>1 DEF begun, Same
  <2> QED BY <1>1, <2>1, <2>2 DEF SenderInv, StageInv
<1>6. TodoInv'
  <2>1. \A c \in Block : todo[r][c] = {}  BY <1>2, Settled
  <2>2. \A s \in Rank, c \in Block : s # r => (pushes(s, c)' <=> pushes(s, c))
    BY <1>1 DEF pushes, Same
  <2>3. \A s \in Rank : s # r => my_ids'[s] = my_ids[s]  BY <1>1
  <2> QED BY <1>1, <2>1, <2>2, <2>3 DEF SenderInv, TodoInv
<1> QED BY <1>4, <1>5, <1>6 DEF SenderInv

(* A CTA that starts empties the lists of its tokens and has all their     *)
(* destinations to push to.                                                *)
LEMMA SenderStart ==
  ASSUME TypeInv, SenderInv, NEW r \in Rank, NEW c \in Block, Start(r, c)
  PROVE  SenderInv'
<1>1. PICK l \in {"push", "wait"} : /\ goto(r, c, l)
                                    /\ kernel[r] = "dsort" <=> l = "wait"
  BY DEF Start
<1>2. /\ kernel[r] \in {"push", "mega", "dsort"} /\ pc[r][c] = "start"
      /\ UNCHANGED <<kernel, replay, my_ids, posted>>
  BY DEF Start, at
<1>3. \A q \in Rank, b \in Block : pc'[q][b] = IF q = r /\ b = c THEN l ELSE pc[q][b]
  BY <1>1, GotoType DEF Label, TypeInv
<1>4. CASE kernel[r] = "dsort"
  <2>1. UNCHANGED <<pull_stage, todo>>  BY <1>4 DEF Start
  <2>2. \A s \in Rank, tau \in Token : begun(s, tau)' => begun(s, tau)
    BY <1>1, <1>2, <1>3, <1>4, TokenCTA DEF begun
  <2>3. \A s \in Rank, b \in Block : pushes(s, b) => pushes(s, b)'
    BY <1>1, <1>2, <1>3 DEF pushes
  <2> QED BY <1>2, <2>1, <2>2, <2>3, SenderKept
<1>5. CASE kernel[r] # "dsort"
  <2> DEFINE work == UNION {{tau} \X dests(my_ids[r][tau]) : tau \in mine(c, Token)}
  <2>1. /\ \A q \in Rank, b \in Block :
             todo'[q][b] = IF q = r /\ b = c THEN work ELSE todo[q][b]
        /\ \A q \in Rank, tau \in Token :
             pull_stage'[q][tau] = IF q = r /\ tau % Grid = c THEN {}
                                   ELSE pull_stage[q][tau]
    <3>1. todo' = [todo EXCEPT ![r][c] = work]  BY <1>5 DEF Start
    <3>2. \A q \in Rank, b \in Block :
             todo'[q][b] = IF q = r /\ b = c THEN work ELSE todo[q][b]
      <4>1. todo \in [Rank -> [Block -> SUBSET (Token \X Rank)]]  BY DEF TypeInv, TypeOK
      <4> HIDE DEF work
      <4> QED BY <3>1, <4>1
    <3>3. pull_stage' = [pull_stage EXCEPT ![r] =
             [tau \in Token |-> IF tau \in mine(c, Token) THEN {} ELSE @[tau]]]
      BY <1>5 DEF Start
    <3>4. \A q \in Rank, tau \in Token :
             pull_stage'[q][tau] = IF q = r /\ tau % Grid = c THEN {}
                                   ELSE pull_stage[q][tau]
      BY <3>3 DEF TypeInv, TypeOK, mine
    <3> QED BY <3>2, <3>4
  <2>2. \A p \in work : /\ p[1] \in Token /\ p[1] % Grid = c
                       /\ p[2] \in dests(my_ids[r][p[1]])
    BY DEF mine
  <2>3. \A tau \in Token : \A d \in dests(my_ids[r][tau]) :
          tau % Grid = c => <<tau, d>> \in work
    BY DEF mine
  <2> HIDE DEF work
  <2>4. l = "push" /\ pushes(r, c)'  BY <1>1, <1>2, <1>3, <1>5 DEF pushes
  <2>5. ~pushes(r, c)  BY <1>2 DEF pushes
  <2>6. \A q \in Rank, b \in Block :
          ~(q = r /\ b = c) => (pushes(q, b)' <=> pushes(q, b))
    BY <1>2, <1>3 DEF pushes
  <2>7. \A q \in Rank, tau \in Token :
          ~(q = r /\ tau % Grid = c) => (begun(q, tau)' <=> begun(q, tau))
    BY <1>2, <1>3, TokenCTA DEF begun
  <2>8. RowInv'
    <3> SUFFICES ASSUME NEW m \in posted, m.kind = "row"
                 PROVE  \E tau \in Token :
                          /\ m = row_message(m.from, tau, m.to, m.row)'
                          /\ <<m.to, m.row>> \in pull_stage'[m.from][tau]
      BY <1>2 DEF RowInv
    <3>1. PICK tau \in Token : /\ m = row_message(m.from, tau, m.to, m.row)
                               /\ <<m.to, m.row>> \in pull_stage[m.from][tau]
      BY DEF SenderInv, RowInv
    <3>2. ~(m.from = r /\ m.cta = c)  BY <2>5, Settled
    <3>3. m.cta = tau % Grid /\ m.from \in Rank
      BY <3>1 DEF row_message, TypeInv, PostedInv, is_row, Signal
    <3>4. pull_stage'[m.from][tau] = pull_stage[m.from][tau]  BY <2>1, <3>2, <3>3
    <3>5. row_message(m.from, tau, m.to, m.row)' = row_message(m.from, tau, m.to, m.row)
      BY <1>2 DEF row_message, Origin
    <3> QED BY <3>1, <3>4, <3>5
  <2>9. StageInv'
    <3> SUFFICES ASSUME NEW s \in Rank, NEW tau \in Token, replay[s] > 0, begun(s, tau)'
                 PROVE  /\ \A p \in pull_stage'[s][tau] :
                             /\ p[1] \in dests(my_ids[s][tau])
                             /\ <<tau, p[1]>> \notin todo'[s][tau % Grid]
                        /\ \A p, q \in pull_stage'[s][tau] : p[1] = q[1] => p = q
                        /\ \A d \in dests(my_ids[s][tau]) :
                             \/ <<tau, d>> \in todo'[s][tau % Grid]
                             \/ \E p \in pull_stage'[s][tau] : p[1] = d
      BY <1>2 DEF StageInv
    <3>1. CASE s = r /\ tau % Grid = c
      BY <2>1, <2>3, <3>1, TokenCTA
    <3>2. CASE ~(s = r /\ tau % Grid = c)
      <4>1. /\ begun(s, tau) /\ pull_stage'[s][tau] = pull_stage[s][tau]
            /\ todo'[s][tau % Grid] = todo[s][tau % Grid]
        BY <2>1, <2>7, <3>2, TokenCTA
      <4> QED BY <4>1 DEF SenderInv, StageInv
    <3> QED BY <3>1, <3>2
  <2>10. TodoInv'
    <3> SUFFICES ASSUME NEW s \in Rank, NEW b \in Block
                 PROVE  /\ \A p \in todo'[s][b] : /\ p[1] % Grid = b
                                                 /\ p[2] \in dests(my_ids[s][p[1]])
                        /\ todo'[s][b] # {} => pushes(s, b)'
      BY <1>2 DEF TodoInv
    <3>1. CASE s = r /\ b = c  BY <2>1, <2>2, <2>4, <3>1
    <3>2. CASE ~(s = r /\ b = c)
      BY <2>1, <2>6, <3>2 DEF SenderInv, TodoInv
    <3> QED BY <3>1, <3>2
  <2> QED BY <2>8, <2>9, <2>10 DEF SenderInv
<1> QED BY <1>4, <1>5

(* A push moves a destination from what is to be done to the list, with    *)
(* the row claimed for it.                                                 *)
LEMMA SenderPush ==
  ASSUME TypeInv, SenderInv, NEW r \in Rank, NEW c \in Block, Push(r, c)
  PROVE  SenderInv'
<1>1. PICK tau \in Token, d \in Rank :
        /\ <<tau, d>> \in todo[r][c]
        /\ pull_stage' = [pull_stage EXCEPT ![r][tau] = @ \cup {<<d, dest_counter[d]>>}]
        /\ todo' = [todo EXCEPT ![r][c] = @ \ {<<tau, d>>}]
        /\ \/ posted' = posted
           \/ posted' = posted \cup
                {[kind |-> "row", from |-> r, cta |-> c, to |-> d,
                  row |-> dest_counter[d], val |-> Origin(r, tau)]}
  <2>1. PICK p \in todo[r][c] :
          /\ pull_stage' = [pull_stage EXCEPT ![r][p[1]] =
                               @ \cup {<<p[2], dest_counter[p[2]]>>}]
          /\ todo' = [todo EXCEPT ![r][c] = @ \ {p}]
          /\ \/ posted' = posted
             \/ posted' = posted \cup
                  {[kind |-> "row", from |-> r, cta |-> c, to |-> p[2],
                    row |-> dest_counter[p[2]], val |-> Origin(r, p[1])]}
    BY DEF Push
  <2>2. p[1] \in Token /\ p[2] \in Rank /\ p = <<p[1], p[2]>>
    BY DEF TypeInv, TypeOK
  <2> QED BY <2>1, <2>2
<1>2. UNCHANGED <<kernel, pc, replay, my_ids>>  BY DEF Push, stream
<1>3. /\ tau % Grid = c /\ d \in dests(my_ids[r][tau]) /\ pushes(r, c)
  BY <1>1 DEF SenderInv, TodoInv
<1>4. begun(r, tau)  BY <1>3 DEF begun, pushes
<1>5. /\ \A q \in Rank, b \in Block :
           todo'[q][b] = IF q = r /\ b = c THEN todo[r][c] \ {<<tau, d>>} ELSE todo[q][b]
      /\ \A q \in Rank, sigma \in Token :
           pull_stage'[q][sigma] = IF q = r /\ sigma = tau
                                   THEN pull_stage[r][tau] \cup {<<d, dest_counter[d]>>}
                                   ELSE pull_stage[q][sigma]
  <2>1. \A q \in Rank, b \in Block :
          todo'[q][b] = IF q = r /\ b = c THEN todo[r][c] \ {<<tau, d>>} ELSE todo[q][b]
    BY <1>1 DEF TypeInv, TypeOK
  <2>2. \A q \in Rank, sigma \in Token :
          pull_stage'[q][sigma] = IF q = r /\ sigma = tau
                                  THEN pull_stage[r][tau] \cup {<<d, dest_counter[d]>>}
                                  ELSE pull_stage[q][sigma]
    BY <1>1 DEF TypeInv, TypeOK
  <2> QED BY <2>1, <2>2
<1>6. RowInv'
  <2> SUFFICES ASSUME NEW m \in posted', m.kind = "row"
               PROVE  \E sigma \in Token :
                        /\ m = row_message(m.from, sigma, m.to, m.row)
                        /\ <<m.to, m.row>> \in pull_stage'[m.from][sigma]
    BY <1>2 DEF RowInv, row_message, Origin
  <2>1. CASE m \in posted
    <3>1. PICK sigma \in Token : /\ m = row_message(m.from, sigma, m.to, m.row)
                                 /\ <<m.to, m.row>> \in pull_stage[m.from][sigma]
      BY <2>1 DEF SenderInv, RowInv
    <3>2. m.from \in Rank  BY <2>1 DEF TypeInv, PostedInv, is_row, Signal
    <3> QED BY <1>5, <3>1, <3>2
  <2>2. CASE m \notin posted
    <3>1. m = [kind |-> "row", from |-> r, cta |-> c, to |-> d,
               row |-> dest_counter[d], val |-> Origin(r, tau)]
      BY <1>1, <2>2
    <3>2. m = row_message(r, tau, d, dest_counter[d]) /\ m.from = r /\ m.to = d
          /\ m.row = dest_counter[d]
      BY <1>3, <3>1 DEF row_message
    <3>3. <<d, dest_counter[d]>> \in pull_stage'[r][tau]  BY <1>5
    <3> QED BY <3>2, <3>3
  <2> QED BY <2>1, <2>2
<1>7. StageInv'
  <2> SUFFICES ASSUME NEW s \in Rank, NEW sigma \in Token, replay[s] > 0,
                      begun(s, sigma)
               PROVE  /\ \A p \in pull_stage'[s][sigma] :
                           /\ p[1] \in dests(my_ids[s][sigma])
                           /\ <<sigma, p[1]>> \notin todo'[s][sigma % Grid]
                      /\ \A p, q \in pull_stage'[s][sigma] : p[1] = q[1] => p = q
                      /\ \A e \in dests(my_ids[s][sigma]) :
                           \/ <<sigma, e>> \in todo'[s][sigma % Grid]
                           \/ \E p \in pull_stage'[s][sigma] : p[1] = e
    BY <1>2 DEF StageInv, begun
  <2>1. /\ \A p \in pull_stage[s][sigma] :
             /\ p[1] \in dests(my_ids[s][sigma])
             /\ <<sigma, p[1]>> \notin todo[s][sigma % Grid]
        /\ \A p, q \in pull_stage[s][sigma] : p[1] = q[1] => p = q
        /\ \A e \in dests(my_ids[s][sigma]) :
             \/ <<sigma, e>> \in todo[s][sigma % Grid]
             \/ \E p \in pull_stage[s][sigma] : p[1] = e
    BY DEF SenderInv, StageInv
  <2>2. CASE s = r /\ sigma = tau
    <3>1. /\ pull_stage'[s][sigma] = pull_stage[r][tau] \cup {<<d, dest_counter[d]>>}
          /\ todo'[s][sigma % Grid] = todo[r][c] \ {<<tau, d>>}
      BY <1>3, <1>5, <2>2
    <3> DEFINE new == <<d, dest_counter[d]>>
    <3>2. \A p \in pull_stage[r][tau] : p[1] # d  BY <1>1, <1>3, <2>1, <2>2
    <3>3. new[1] = d  OBVIOUS
    <3>4. \A p \in pull_stage'[s][sigma] : p \in pull_stage[r][tau] \/ p = new
      BY <3>1
    <3> HIDE DEF new
    <3>5. \A p \in pull_stage'[s][sigma] :
            /\ p[1] \in dests(my_ids[s][sigma])
            /\ <<sigma, p[1]>> \notin todo'[s][sigma % Grid]
      BY <1>3, <2>1, <2>2, <3>1, <3>3, <3>4
    <3>6. \A p, q \in pull_stage'[s][sigma] : p[1] = q[1] => p = q
      BY <2>1, <2>2, <3>2, <3>3, <3>4
    <3>7. \A e \in dests(my_ids[s][sigma]) :
            \/ <<sigma, e>> \in todo'[s][sigma % Grid]
            \/ \E p \in pull_stage'[s][sigma] : p[1] = e
      <4> TAKE e \in dests(my_ids[s][sigma])
      <4>1. new \in pull_stage'[s][sigma]  BY <3>1 DEF new
      <4>2. CASE e = d  BY <3>3, <4>1, <4>2
      <4>3. CASE e # d  BY <1>3, <2>1, <2>2, <3>1, <4>3
      <4> QED BY <4>2, <4>3
    <3> QED BY <3>5, <3>6, <3>7
  <2>3. CASE ~(s = r /\ sigma = tau)
    <3>1. pull_stage'[s][sigma] = pull_stage[s][sigma]  BY <1>5, <2>3
    <3>2. \A e : <<sigma, e>> \in todo'[s][sigma % Grid] <=>
                   <<sigma, e>> \in todo[s][sigma % Grid]
      BY <1>5, <2>3, TokenCTA
    <3> QED BY <2>1, <3>1, <3>2
  <2> QED BY <2>2, <2>3
<1>8. TodoInv'
  <2>1. \A q \in Rank, b \in Block : todo'[q][b] \subseteq todo[q][b]  BY <1>5
  <2> QED BY <1>2, <2>1 DEF SenderInv, TodoInv, pushes
<1> QED BY <1>6, <1>7, <1>8 DEF SenderInv

(* A kernel ends with nothing to push and nothing posted.                  *)
LEMMA SenderKernelEnd ==
  ASSUME TypeInv, SenderInv, NEW r \in Rank, KernelEnd(r)
  PROVE  SenderInv'
<1>1. /\ \A c \in Block : pc[r][c] = "done"
      /\ kernel'[r] \in {"dsort", "gemm", "idle"}
      /\ \A q \in Rank : q # r => Same(q)
      /\ UNCHANGED <<pull_stage, todo, my_ids, replay, posted>>
  BY DEF KernelEnd, at, successor, Same, TypeInv, TypeOK, plan, regs
<1>2. \A s \in Rank, tau \in Token : begun(s, tau)' => begun(s, tau)
  BY <1>1, TokenCTA DEF begun, Same
<1>3. \A s \in Rank, c \in Block : pushes(s, c) => pushes(s, c)'
  BY <1>1 DEF pushes, Same
<1> QED BY <1>1, <1>2, <1>3, SenderKept

(* A CTA publishes when it has nothing left to push and its rows have      *)
(* landed.                                                                 *)
LEMMA SenderPublish ==
  ASSUME TypeInv, SenderInv, NEW r \in Rank, NEW c \in Block, Publish(r, c)
  PROVE  SenderInv'
<1>1. PICK l \in {"done", "wait"} : goto(r, c, l)  BY DEF Publish
<1>2. /\ pc[r][c] = "push" /\ todo[r][c] = {}
      /\ \A m \in posted' : m.kind = "row" => m \in posted
      /\ UNCHANGED <<kernel, pull_stage, todo, my_ids, replay>>
  BY DEF Publish, at, signal, plan, regs
<1>3. \A q \in Rank, b \in Block : pc'[q][b] = IF q = r /\ b = c THEN l ELSE pc[q][b]
  BY <1>1, GotoType DEF Label, TypeInv
<1>4. \A s \in Rank, tau \in Token : begun(s, tau)' => begun(s, tau)
  BY <1>2, <1>3, TokenCTA DEF begun
<1>5. \A s \in Rank, b \in Block : pushes(s, b) /\ todo[s][b] # {} => pushes(s, b)'
  BY <1>2, <1>3 DEF pushes
<1> QED BY <1>2, <1>4, <1>5, SenderKept

(* A CTA past its push moves on.                                           *)
LEMMA SenderWalk ==
  ASSUME TypeInv, SenderInv, NEW r \in Rank, NEW c \in Block, NEW l \in Label \ {"start"},
         goto(r, c, l), pc[r][c] # "push",
         pc[r][c] = "start" => kernel[r] = "combine",
         \A m \in posted' : m.kind = "row" => m \in posted,
         UNCHANGED <<kernel, pull_stage, todo, my_ids, replay>>
  PROVE  SenderInv'
<1>1. \A q \in Rank, b \in Block : pc'[q][b] = IF q = r /\ b = c THEN l ELSE pc[q][b]
  BY GotoType DEF Label, TypeInv
<1>2. \A s \in Rank, tau \in Token : begun(s, tau)' => begun(s, tau)
  BY <1>1, TokenCTA DEF begun
<1>3. \A s \in Rank, b \in Block : pushes(s, b) => pushes(s, b)'
  BY <1>1 DEF pushes
<1> QED BY <1>2, <1>3, SenderKept

(* Every step of a behaviour in which nothing has given up keeps what the  *)
(* senders keep.                                                           *)
LEMMA SenderStep ==
  ASSUME TypeInv, SenderInv, [Next]_vars,
         \A r \in Rank, c \in Block : ~TimeOut(r, c)
  PROVE  SenderInv'
<1>1. ASSUME NEW r \in Rank, Gemm(r) PROVE SenderInv'
  <2>1. /\ kernel[r] = "gemm" /\ kernel'[r] = "combine"
        /\ \A q \in Rank : q # r => Same(q)
        /\ UNCHANGED <<pull_stage, todo, my_ids, replay, posted>>
    BY <1>1 DEF Gemm, begin, successor, Same, TypeInv, TypeOK, plan, regs
  <2>2. \A s \in Rank, tau \in Token : begun(s, tau)' => begun(s, tau)
    BY <2>1 DEF begun, Same
  <2>3. \A s \in Rank, c \in Block : pushes(s, c) => pushes(s, c)'
    BY <2>1 DEF pushes, Same
  <2> QED BY <2>1, <2>2, <2>3, SenderKept
<1>2. ASSUME NEW r \in Rank, NEW c \in Block,
             Plan(r, c) \/ Scatter(r, c) \/ Tail(r, c) \/ Arrive(r, c) \/ Pull(r, c)
      PROVE  SenderInv'
  <2>1. /\ pc[r][c] # "push" /\ (pc[r][c] = "start" => kernel[r] = "combine")
        /\ \A m \in posted' : m.kind = "row" => m \in posted
        /\ UNCHANGED <<kernel, pull_stage, todo, my_ids, replay>>
    BY <1>2 DEF Plan, Scatter, Tail, Arrive, Pull, at, plan, regs, signal
  <2>2. PICK l \in Label \ {"start"} : goto(r, c, l)
    BY <1>2 DEF Plan, Scatter, Tail, Arrive, Pull, Label
  <2> QED BY <2>1, <2>2, SenderWalk
<1>3. ASSUME NEW r \in Rank, NEW c \in Block, Wait(r, c) PROVE SenderInv'
  <2>1. /\ pc[r][c] \in {"wait", "gbar"} /\ posted' = posted
        /\ UNCHANGED <<kernel, pull_stage, todo, my_ids, replay>>
    BY <1>3
    DEF Wait, Acquire, read_T_loc, Cross, cross, Enter, enter, at, plan, regs
  <2>2. PICK l \in Label \ {"start"} : goto(r, c, l)
    BY <1>3 DEF Wait, Acquire, read_T_loc, Cross, cross, Enter, enter, Label
  <2> QED BY <2>1, <2>2, SenderWalk
<1>4. ASSUME NEW m \in posted, Deliver(m) PROVE SenderInv'
  <2>1. /\ posted' \subseteq posted
        /\ UNCHANGED <<pull_stage, todo, my_ids, replay, kernel, pc>>
    BY <1>4 DEF Deliver, plan, regs, stream
  <2> QED BY <2>1, SenderKept DEF begun, pushes
<1>5. ASSUME Gate \/ UNCHANGED vars PROVE SenderInv'
  <2>1. UNCHANGED <<pull_stage, todo, my_ids, replay, kernel, pc, posted>>
    BY <1>5 DEF Gate, plan, regs, stream, vars
  <2> QED BY <2>1, SenderKept DEF begun, pushes
<1> QED BY <1>1, <1>2, <1>3, <1>4, <1>5, SenderLaunch, SenderKernelEnd, SenderStart,
           SenderPush, SenderPublish DEF Next, Work

-----------------------------------------------------------------------------
(* A CTA that pushes is in the replay its live destinations collect.       *)
LEMMA PusherCurrent ==
  ASSUME TypeInv, SyncInv, NEW s \in Rank, NEW c \in Block, pushes(s, c),
         NEW d \in Rank, alive(d)
  PROVE  replay[s] = filling(d)
<1>1. /\ pushed(s) = replay[s] - 1 /\ finished(s) = replay[s] - 1
      /\ combined(s) = replay[s] - 1
  <2>1. c \notin published(s) /\ kernel[s] \in {"push", "mega"}
    BY DEF pushes, published
  <2> QED BY <2>1, Derived DEF pushed, finished
<1>2. finished(s) <= combined(d) /\ finished(d) <= combined(s)  BY DEF SyncInv
<1>3. CASE kernel[d] \in {"combine", "idle"}
  <2>1. replay[d] <= pushed(s)
    <3>1. acquired(d, 0)  BY <1>3 DEF acquired, behind
    <3> QED BY <3>1, BlockFacts DEF SyncInv
  <2> QED BY <1>1, <1>2, <1>3, <2>1, Derived DEF filling
<1>4. CASE kernel[d] \notin {"combine", "idle"}
  <2>1. combined(d) = replay[d] - 1 /\ finished(d) = replay[d] - 1
    BY <1>4, Derived DEF finished, TypeInv, TypeOK
  <2> QED BY <1>1, <1>2, <1>4, <2>1, Derived DEF filling
<1> QED BY <1>3, <1>4

(* The rows of d stay with their tokens when nobody's claims on d change.  *)
LEMMA ClaimKept ==
  ASSUME NEW d \in Rank, Claim(d), rows(d)' = rows(d), recv'[d] = recv[d],
         posted \subseteq posted',
         \A s \in Rank, tau \in Token, i \in Nat :
           claims(s, tau, d, i)' <=> claims(s, tau, d, i),
         \A s \in Rank, tau \in Token, i \in Nat :
           claims(s, tau, d, i) => Origin(s, tau)' = Origin(s, tau)
  PROVE  Claim(d)'
<1>1. \A s \in Rank, tau \in Token, i \in Nat : claims(s, tau, d, i)' =>
        /\ i < rows(d)
        /\ row_message(s, tau, d, i)' \in posted' \/ recv'[d][i] = Origin(s, tau)'
  <2> SUFFICES ASSUME NEW s \in Rank, NEW tau \in Token, NEW i \in Nat,
                      claims(s, tau, d, i)'
               PROVE  /\ i < rows(d)
                      /\ \/ row_message(s, tau, d, i)' \in posted'
                         \/ recv'[d][i] = Origin(s, tau)'
    OBVIOUS
  <2>1. claims(s, tau, d, i) /\ Origin(s, tau)' = Origin(s, tau)  OBVIOUS
  <2>2. row_message(s, tau, d, i)' = row_message(s, tau, d, i)
    BY <2>1 DEF row_message
  <2> QED BY <2>1, <2>2 DEF Claim
<1>2. \A s, q \in Rank, tau, sigma \in Token, i \in Nat :
        claims(s, tau, d, i)' /\ claims(q, sigma, d, i)' => s = q /\ tau = sigma
  BY DEF Claim
<1>3. \A i \in 0 .. rows(d) - 1 :
        \E s \in Rank, tau \in Token : claims(s, tau, d, i)'
  <2> TAKE i \in 0 .. rows(d) - 1
  <2>1. PICK s \in Rank, tau \in Token : claims(s, tau, d, i)  BY DEF Claim
  <2>2. i \in Nat  OBVIOUS
  <2> QED BY <2>1, <2>2
<1> QED BY <1>1, <1>2, <1>3 DEF Claim

(* A step that changes no claims, no rows and no counts keeps every claim. *)
LEMMA ClaimStays ==
  ASSUME ClaimInv, UNCHANGED <<replay, my_ids, pull_stage, recv>>,
         posted \subseteq posted',
         \A s \in Rank, tau \in Token : begun(s, tau)' <=> begun(s, tau),
         \A d \in Rank : alive(d)' => /\ alive(d) /\ rows(d)' = rows(d)
                                      /\ filling(d)' = filling(d)
  PROVE  ClaimInv'
<1> SUFFICES ASSUME NEW d \in Rank, alive(d)' PROVE Claim(d)'
  BY DEF ClaimInv
<1>1. Claim(d)  BY DEF ClaimInv
<1>2. \A s \in Rank, tau \in Token, i \in Nat :
        claims(s, tau, d, i)' <=> claims(s, tau, d, i)
  BY DEF claims
<1>3. \A s \in Rank, tau \in Token : Origin(s, tau)' = Origin(s, tau)
  BY DEF Origin
<1> QED BY <1>1, <1>2, <1>3, ClaimKept

(* A CTA that has started moves on.                                        *)
LEMMA ClaimWalk ==
  ASSUME TypeInv, ClaimInv, NEW r \in Rank, NEW c \in Block,
         NEW l \in Label \ {"start"}, goto(r, c, l),
         pc[r][c] = "start" => kernel[r] \notin {"push", "mega"},
         UNCHANGED <<kernel, replay, my_ids, pull_stage, recv>>,
         posted \subseteq posted',
         \A d \in Rank : alive(d)' => alive(d) /\ rows(d)' = rows(d)
  PROVE  ClaimInv'
<1>1. \A q \in Rank, b \in Block : pc'[q][b] = IF q = r /\ b = c THEN l ELSE pc[q][b]
  BY GotoType DEF Label, TypeInv
<1>2. \A s \in Rank, tau \in Token : begun(s, tau)' <=> begun(s, tau)
  BY <1>1, TokenCTA DEF begun
<1>3. \A d \in Rank : filling(d)' = filling(d)  BY DEF filling
<1> QED BY <1>2, <1>3, ClaimStays

(* The rows of a rank in whose count nothing changes.                      *)
LEMMA RowsKept ==
  ASSUME TypeInv, NEW r \in Rank, NEW c \in Block, NEW l \in Label, goto(r, c, l),
         UNCHANGED <<kernel, dest_counter>>,
         sorts(r) /\ c = 0 => (pc[r][0] = "done" <=> l = "done"),
         kernel[r] = "gemm" \/ (sorts(r) /\ pc[r][0] = "done") =>
           T_loc'[r][0] = T_loc[r][0],
         \A d \in Rank : d # r => T_loc'[d][0] = T_loc[d][0]
  PROVE  \A d \in Rank : rows(d)' = rows(d)
<1>1. \A q \in Rank, b \in Block : pc'[q][b] = IF q = r /\ b = c THEN l ELSE pc[q][b]
  BY GotoType DEF TypeInv
<1> QED BY <1>1, BlockFacts DEF rows, sorts

(* A launch: nobody claims a row for the new replay of the rank yet, and   *)
(* no live destination collects another.                                   *)
LEMMA ClaimLaunch ==
  ASSUME TypeInv, CoreInv, ClaimInv, NEW r \in Rank, Launch(r)
  PROVE  ClaimInv'
<1>1. /\ kernel[r] = "idle" /\ kernel'[r] \in {"push", "mega"}
      /\ replay'[r] = replay[r] + 1
      /\ \A c \in Block : pc'[r][c] = "start"
      /\ \A q \in Rank : q # r => Same(q) /\ my_ids'[q] = my_ids[q]
      /\ UNCHANGED <<pull_stage, posted, recv, dest_counter, T_loc, scenario>>
  BY DEF Launch, begin, Same, TypeInv, TypeOK, plan, regs, inbox
<1> SUFFICES ASSUME NEW d \in Rank, alive(d)' PROVE Claim(d)'
  BY DEF ClaimInv
<1>2. alive(d) /\ Claim(d)  BY <1>1 DEF alive, fits, ClaimInv
<1>3. filling(d)' = filling(d) /\ rows(d)' = rows(d)
  <2>1. CASE d = r  BY <1>1, <2>1, BlockFacts DEF filling, rows, sorts
  <2>2. CASE d # r  BY <1>1, <2>2 DEF filling, rows, sorts, Same
  <2> QED BY <2>1, <2>2
<1>4. replay[r] # filling(d)
  <2>1. finished(r) = replay[r] /\ finished(r) <= combined(d)
    BY <1>1 DEF finished, CoreInv, SyncInv
  <2>2. CASE kernel[d] \in {"combine", "idle"}
    BY <2>1, <2>2, Derived DEF filling
  <2>3. CASE kernel[d] \notin {"combine", "idle"}
    <3>1. combined(d) = replay[d] - 1  BY <2>3, Derived DEF TypeInv, TypeOK
    <3> QED BY <2>1, <2>3, <3>1, Derived DEF filling
  <2> QED BY <2>2, <2>3
<1>5. \A s \in Rank, tau \in Token, i \in Nat :
        /\ claims(s, tau, d, i)' <=> claims(s, tau, d, i)
        /\ claims(s, tau, d, i) => Origin(s, tau)' = Origin(s, tau)
  <2> TAKE s \in Rank, tau \in Token, i \in Nat
  <2>1. CASE s = r
    <3>1. ~claims(s, tau, d, i)  BY <1>4, <2>1 DEF claims
    <3>2. ~claims(s, tau, d, i)'  BY <1>1, <2>1, TokenCTA DEF claims, begun
    <3> QED BY <3>1, <3>2
  <2>2. CASE s # r
    <3>1. /\ replay'[s] = replay[s] /\ my_ids'[s] = my_ids[s]
          /\ begun(s, tau)' <=> begun(s, tau)
      BY <1>1, <2>2 DEF Same, begun
    <3> QED BY <1>1, <1>3, <3>1 DEF claims, Origin
  <2> QED BY <2>1, <2>2
<1> QED BY <1>1, <1>2, <1>3, <1>5, ClaimKept

(* The end of a kernel begins no token.                                    *)
LEMMA ClaimKernelEnd ==
  ASSUME TypeInv, ClaimInv, NEW r \in Rank, KernelEnd(r)
  PROVE  ClaimInv'
<1>1. /\ kernel[r] \in {"push", "mega", "dsort", "combine"}
      /\ \A c \in Block : pc[r][c] = "done"
      /\ \/ kernel[r] = "push" /\ kernel'[r] = "dsort" /\ pc'[r][0] = "start"
         \/ kernel[r] \in {"mega", "dsort"} /\ kernel'[r] = "gemm"
         \/ kernel[r] = "combine" /\ kernel'[r] = "idle"
      /\ \A q \in Rank : q # r => Same(q)
      /\ UNCHANGED <<replay, my_ids, pull_stage, posted, recv, dest_counter, T_loc,
                     scenario>>
  BY BlockFacts
  DEF KernelEnd, at, successor, Same, TypeInv, TypeOK, plan, regs, inbox
<1>2. \A s \in Rank, tau \in Token : begun(s, tau)' <=> begun(s, tau)
  <2>1. \A tau \in Token : begun(r, tau) /\ begun(r, tau)'
    BY <1>1, TokenCTA DEF begun
  <2> QED BY <1>1, <2>1 DEF begun, Same
<1>3. \A d \in Rank : alive(d)' => /\ alive(d) /\ rows(d)' = rows(d)
                                   /\ filling(d)' = filling(d)
  <2> TAKE d \in Rank
  <2>1. CASE d = r
    BY <1>1, <2>1, BlockFacts DEF alive, fits, rows, filling, sorts
  <2>2. CASE d # r
    BY <1>1, <2>2 DEF alive, fits, rows, filling, sorts, Same
  <2> QED BY <2>1, <2>2
<1> QED BY <1>1, <1>2, <1>3, ClaimStays

(* A token of a CTA that starts claims nothing: its lists are empty.       *)
LEMMA ClaimStart ==
  ASSUME TypeInv, ClaimInv, NEW r \in Rank, NEW c \in Block, Start(r, c)
  PROVE  ClaimInv'
<1>1. PICK l \in {"push", "wait"} : /\ goto(r, c, l)
                                    /\ kernel[r] = "dsort" <=> l = "wait"
  BY DEF Start
<1>2. /\ kernel[r] \in {"push", "mega", "dsort"} /\ pc[r][c] = "start"
      /\ UNCHANGED <<scenario, kernel, replay, my_ids, posted, recv, dest_counter, T_loc>>
  BY DEF Start, at, inbox
<1>3. \A q \in Rank, b \in Block : pc'[q][b] = IF q = r /\ b = c THEN l ELSE pc[q][b]
  BY <1>1, GotoType DEF Label, TypeInv
<1>4. \A d \in Rank : /\ alive(d)' <=> alive(d)
                      /\ rows(d)' = rows(d) /\ filling(d)' = filling(d)
  <2>1. l \in Label /\ (sorts(r) /\ c = 0 => (pc[r][0] = "done" <=> l = "done"))
    BY <1>2 DEF Label
  <2>2. \A d \in Rank : rows(d)' = rows(d)  BY <1>1, <1>2, <2>1, RowsKept
  <2> QED BY <1>2, <2>2 DEF alive, fits, filling
<1>5. CASE kernel[r] = "dsort"
  <2>1. pull_stage' = pull_stage  BY <1>5 DEF Start
  <2>2. l \in Label \ {"start"}  BY DEF Label
  <2> QED BY <1>1, <1>2, <1>4, <1>5, <2>1, <2>2, ClaimWalk
<1>6. CASE kernel[r] # "dsort"
  <2>1. \A q \in Rank, tau \in Token :
          pull_stage'[q][tau] = IF q = r /\ tau % Grid = c THEN {}
                                ELSE pull_stage[q][tau]
    <3>1. pull_stage' = [pull_stage EXCEPT ![r] =
             [tau \in Token |-> IF tau \in mine(c, Token) THEN {} ELSE @[tau]]]
      BY <1>6 DEF Start
    <3> QED BY <3>1 DEF TypeInv, TypeOK, mine
  <2> SUFFICES ASSUME NEW d \in Rank, alive(d)' PROVE Claim(d)'
    BY DEF ClaimInv
  <2>2. alive(d) /\ Claim(d)  BY <1>4 DEF ClaimInv
  <2>3. \A s \in Rank, tau \in Token, i \in Nat :
          claims(s, tau, d, i)' <=> claims(s, tau, d, i)
    <3> TAKE s \in Rank, tau \in Token, i \in Nat
    <3>1. CASE s = r /\ tau % Grid = c
      BY <1>2, <1>6, <2>1, <3>1 DEF claims, begun
    <3>2. CASE ~(s = r /\ tau % Grid = c)
      <4>1. begun(s, tau)' <=> begun(s, tau)  BY <1>2, <1>3, <3>2, TokenCTA DEF begun
      <4> QED BY <1>2, <1>4, <2>1, <3>2, <4>1 DEF claims
    <3> QED BY <3>1, <3>2
  <2>4. \A s \in Rank, tau \in Token : Origin(s, tau)' = Origin(s, tau)
    BY <1>2 DEF Origin
  <2> QED BY <1>2, <1>4, <2>2, <2>3, <2>4, ClaimKept
<1> QED BY <1>5, <1>6

(* Publishing posts no row and delivers none.                              *)
LEMMA ClaimPublish ==
  ASSUME TypeInv, ClaimInv, NEW r \in Rank, NEW c \in Block, Publish(r, c)
  PROVE  ClaimInv'
<1>1. PICK l \in {"done", "wait"} : /\ goto(r, c, l)
                                    /\ kernel[r] = "push" <=> l = "done"
  BY DEF Publish
<1>2. /\ pc[r][c] = "push" /\ posted \subseteq posted'
      /\ UNCHANGED <<scenario, kernel, replay, my_ids, recv, dest_counter, T_loc,
                     pull_stage>>
  BY DEF Publish, at, inbox, plan, regs
<1>3. l \in Label /\ l \in Label \ {"start"}
      /\ (sorts(r) /\ c = 0 => (pc[r][0] = "done" <=> l = "done"))
  BY <1>1, <1>2 DEF Label, sorts
<1>4. \A d \in Rank : rows(d)' = rows(d)  BY <1>1, <1>2, <1>3, RowsKept
<1>5. \A d \in Rank : alive(d)' => alive(d)  BY <1>2 DEF alive, fits
<1> QED BY <1>1, <1>2, <1>3, <1>4, <1>5, ClaimWalk

(* A CTA that acquires reads the count of claimed rows.                    *)
LEMMA ClaimAcquire ==
  ASSUME TypeInv, CoreInv, ClaimInv, NEW r \in Rank, NEW c \in Block, Acquire(r, c)
  PROVE  ClaimInv'
<1>1. PICK l \in {"plan", "done"} : goto(r, c, l) /\ (l = "plan" <=> alive(r))
  BY DEF Acquire, read_T_loc, alive
<1>2. /\ pc[r][c] = "wait" /\ sorts(r)
      /\ UNCHANGED <<scenario, kernel, replay, my_ids, recv, dest_counter, pull_stage,
                     posted>>
      /\ \/ T_loc' = T_loc
         \/ T_loc' = [T_loc EXCEPT ![r][c] = dest_counter[r]]
  BY DEF Acquire, read_T_loc, at, inbox, plan
<1>3. \A d \in Rank, b \in Block : ~(d = r /\ b = c) => T_loc'[d][b] = T_loc[d][b]
  BY <1>2 DEF TypeInv, TypeOK
<1>4. ASSUME alive(r) PROVE pc[r][0] # "done"
  <2>1. c \notin planned(r)  BY <1>2 DEF planned, behind, sorts
  <2>2. ~crossed(r, 0)  BY <1>4, <2>1, NotCrossed, BlockFacts DEF CoreInv
  <2> QED BY <1>2, <2>2 DEF crossed
<1>5. \A q \in Rank, b \in Block : pc'[q][b] = IF q = r /\ b = c THEN l ELSE pc[q][b]
  BY <1>1, GotoType DEF Label, TypeInv
<1>6. \A d \in Rank : alive(d)' => alive(d) /\ rows(d)' = rows(d)
  <2> SUFFICES ASSUME NEW d \in Rank, alive(d) PROVE rows(d)' = rows(d)
    BY <1>2 DEF alive, fits
  <2>1. CASE d = r
    BY <1>1, <1>2, <1>4, <1>5, <2>1, BlockFacts DEF rows, sorts
  <2>2. CASE d # r
    BY <1>2, <1>3, <1>5, <2>2, BlockFacts DEF rows, sorts
  <2> QED BY <2>1, <2>2
<1> QED BY <1>1, <1>2, <1>6, ClaimWalk DEF Label

(* The reset of the count leaves the rows the plan was made for.           *)
LEMMA ClaimTail ==
  ASSUME TypeInv, CoreInv, ClaimInv, NEW r \in Rank, NEW c \in Block, Tail(r, c)
  PROVE  ClaimInv'
<1>1. /\ pc[r][c] = "tail" /\ goto(r, c, "done")
      /\ dest_counter' = [dest_counter EXCEPT ![r] = 0]
      /\ UNCHANGED <<scenario, kernel, replay, my_ids, recv, pull_stage, posted, T_loc>>
  BY DEF Tail, at, plan, regs
<1>2. c = 0 /\ sorts(r) /\ kernel[r] # "gemm"
  BY <1>1 DEF sorts, TypeInv, PlaceInv, places, TypeOK
<1>3. alive(r) /\ T_loc[r][0] = rows(r)
  BY <1>1, <1>2 DEF CoreInv, CountedInv, Counted, acquired
<1>4. \A q \in Rank, b \in Block :
        pc'[q][b] = IF q = r /\ b = c THEN "done" ELSE pc[q][b]
  BY <1>1, GotoType DEF Label, TypeInv
<1>5. \A d \in Rank : alive(d)' => alive(d) /\ rows(d)' = rows(d)
  <2> TAKE d \in Rank
  <2>1. CASE d = r  BY <1>1, <1>2, <1>3, <1>4, <2>1, BlockFacts DEF rows, sorts
  <2>2. CASE d # r
    BY <1>1, <1>4, <2>2, BlockFacts DEF rows, sorts, alive, fits, TypeInv, TypeOK
  <2> QED BY <2>1, <2>2
<1> QED BY <1>1, <1>5, ClaimWalk DEF Label

(* After the GEMM the buffer collects the next replay, for which no rank   *)
(* has a claim yet.                                                        *)
LEMMA ClaimGemm ==
  ASSUME TypeInv, CoreInv, ClaimInv, NEW r \in Rank, Gemm(r)
  PROVE  ClaimInv'
<1>1. /\ kernel[r] = "gemm" /\ kernel'[r] = "combine"
      /\ \A q \in Rank : q # r => Same(q)
      /\ UNCHANGED <<scenario, replay, my_ids, pull_stage, posted, recv, dest_counter,
                     T_loc>>
  BY DEF Gemm, begin, successor, Same, TypeInv, TypeOK, plan, regs, inbox
<1>2. \A s \in Rank, tau \in Token : begun(s, tau)' <=> begun(s, tau)
  BY <1>1 DEF begun, Same
<1> SUFFICES ASSUME NEW d \in Rank, alive(d)' PROVE Claim(d)'
  BY DEF ClaimInv
<1>3. alive(d) /\ Claim(d)  BY <1>1 DEF alive, fits, ClaimInv
<1>4. CASE d = r
  <2>1. rows(d)' = 0
    <3>1. dest_counter[d] = 0
      BY <1>1, <1>3, <1>4 DEF CoreInv, CountedInv, Counted
    <3> QED BY <1>1, <1>4, <3>1 DEF rows, sorts
  <2>2. filling(d)' = replay[d] + 1  BY <1>1, <1>4 DEF filling
  <2>3. \A s \in Rank : replay[s] # replay[d] + 1
    <3> TAKE s \in Rank
    <3>1. finished(s) <= combined(d)  BY DEF CoreInv, SyncInv
    <3>2. combined(d) = replay[d] - 1  BY <1>1, <1>4, Derived
    <3> QED BY <3>1, <3>2, Derived
  <2>4. \A s \in Rank, tau \in Token, i \in Nat : ~claims(s, tau, d, i)'
    BY <1>1, <2>2, <2>3 DEF claims
  <2> QED BY <2>1, <2>4 DEF Claim
<1>5. CASE d # r
  <2>1. rows(d)' = rows(d) /\ filling(d)' = filling(d)
    BY <1>1, <1>5 DEF rows, filling, sorts, Same
  <2>2. \A s \in Rank, tau \in Token, i \in Nat :
          claims(s, tau, d, i)' <=> claims(s, tau, d, i)
    BY <1>1, <1>2, <2>1 DEF claims
  <2>3. \A s \in Rank, tau \in Token : Origin(s, tau)' = Origin(s, tau)
    BY <1>1 DEF Origin
  <2> QED BY <1>1, <1>3, <2>1, <2>2, <2>3, ClaimKept
<1> QED BY <1>4, <1>5

(* A push claims the first row past the count for its token, and posts the *)
(* payload if it fits.                                                     *)
LEMMA ClaimPush ==
  ASSUME TypeInv, CoreInv, SenderInv, ClaimInv, NEW r \in Rank, NEW c \in Block,
         Push(r, c)
  PROVE  ClaimInv'
<1>1. PICK tau \in Token, e \in Rank :
        /\ <<tau, e>> \in todo[r][c]
        /\ dest_counter' = [dest_counter EXCEPT ![e] = @ + 1]
        /\ pull_stage' = [pull_stage EXCEPT ![r][tau] = @ \cup {<<e, dest_counter[e]>>}]
        /\ posted \subseteq posted'
        /\ dest_counter[e] \in Row =>
             [kind |-> "row", from |-> r, cta |-> c, to |-> e,
              row |-> dest_counter[e], val |-> Origin(r, tau)] \in posted'
  <2>1. PICK p \in todo[r][c] :
          /\ dest_counter' = [dest_counter EXCEPT ![p[2]] = @ + 1]
          /\ pull_stage' = [pull_stage EXCEPT ![r][p[1]] =
                               @ \cup {<<p[2], dest_counter[p[2]]>>}]
          /\ posted \subseteq posted'
          /\ dest_counter[p[2]] \in Row =>
               [kind |-> "row", from |-> r, cta |-> c, to |-> p[2],
                row |-> dest_counter[p[2]], val |-> Origin(r, p[1])] \in posted'
    BY DEF Push
  <2>2. p[1] \in Token /\ p[2] \in Rank /\ p = <<p[1], p[2]>>
    BY DEF TypeInv, TypeOK
  <2> QED BY <2>1, <2>2
<1>2. UNCHANGED <<scenario, kernel, pc, replay, my_ids, recv, T_loc>>
  BY DEF Push, stream
<1>3. tau % Grid = c /\ pushes(r, c)  BY <1>1 DEF SenderInv, TodoInv
<1>4. \A q \in Rank, sigma \in Token :
        pull_stage'[q][sigma] = IF q = r /\ sigma = tau
                                THEN pull_stage[r][tau] \cup {<<e, dest_counter[e]>>}
                                ELSE pull_stage[q][sigma]
  BY <1>1 DEF TypeInv, TypeOK
<1>5. dest_counter[e] \in Nat /\ scenario.rows \in Nat
  BY ScenarioType DEF TypeInv, TypeOK
<1>6. \A s \in Rank, sigma \in Token : /\ begun(s, sigma)' <=> begun(s, sigma)
                                       /\ Origin(s, sigma)' = Origin(s, sigma)
  BY <1>2 DEF begun, Origin
<1> SUFFICES ASSUME NEW d \in Rank, alive(d)' PROVE Claim(d)'
  BY DEF ClaimInv
<1>7. filling(d)' = filling(d)  BY <1>2 DEF filling
<1>8. CASE d # e
  <2>1. alive(d) /\ rows(d)' = rows(d)
    BY <1>1, <1>2, <1>8 DEF alive, fits, rows, sorts, TypeInv, TypeOK
  <2>2. \A s \in Rank, sigma \in Token, i \in Nat :
          claims(s, sigma, d, i)' <=> claims(s, sigma, d, i)
    BY <1>2, <1>4, <1>6, <1>7, <1>8 DEF claims
  <2> QED BY <1>1, <1>2, <1>6, <2>1, <2>2, ClaimKept DEF ClaimInv
<1>9. CASE d = e
  <2>a. PICK n \in Nat : n = dest_counter[e]  BY <1>5
  <2>1. dest_counter'[e] = n + 1  BY <1>1, <2>a DEF TypeInv, TypeOK
  <2>2. alive(d) /\ n \in Row  BY <1>2, <1>5, <1>9, <2>a, <2>1 DEF alive, fits, Row
  <2>3. Claim(d)  BY <2>2 DEF ClaimInv
  <2>4. rows(d) = n /\ rows(d)' = n + 1
    <3>1. kernel[d] # "gemm" /\ ~(sorts(d) /\ pc[d][0] = "done")
      <4>1. kernel[d] # "gemm" /\ (sorts(d) => ~acquired(d, 0))
        BY <1>3, <2>2, PusherAhead, BlockFacts DEF CoreInv
      <4> QED BY <4>1 DEF acquired
    <3> QED BY <1>2, <1>9, <2>a, <2>1, <3>1 DEF rows, sorts
  <2>5. row_message(r, tau, d, n)' \in posted'
    <3>1. row_message(r, tau, d, n)' =
            [kind |-> "row", from |-> r, cta |-> c, to |-> e, row |-> n,
             val |-> Origin(r, tau)]
      BY <1>2, <1>3, <1>9 DEF row_message, Origin
    <3> QED BY <1>1, <2>a, <2>2, <3>1
  <2>6. claims(r, tau, d, n)'
    <3>1. replay[r] = filling(d)  BY <1>3, <2>2, PusherCurrent DEF CoreInv
    <3>2. begun(r, tau)  BY <1>3 DEF begun, pushes
    <3>3. <<d, n>> \in pull_stage'[r][tau]  BY <1>4, <1>9, <2>a
    <3> QED BY <1>2, <1>6, <1>7, <3>1, <3>2, <3>3 DEF claims
  <2>7. \A s \in Rank, sigma \in Token, i \in Nat :
          claims(s, sigma, d, i)' <=> \/ claims(s, sigma, d, i)
                                      \/ s = r /\ sigma = tau /\ i = n
    <3> TAKE s \in Rank, sigma \in Token, i \in Nat
    <3>1. CASE s = r /\ sigma = tau /\ i = n  BY <2>6, <3>1
    <3>2. CASE ~(s = r /\ sigma = tau /\ i = n)
      <4>1. <<d, i>> \in pull_stage'[s][sigma] <=> <<d, i>> \in pull_stage[s][sigma]
        BY <1>4, <1>9, <2>a, <3>2
      <4> QED BY <1>2, <1>6, <1>7, <3>2, <4>1 DEF claims
    <3> QED BY <3>1, <3>2
  <2>8. \A s \in Rank, sigma \in Token, i \in Nat : claims(s, sigma, d, i) => i < n
    BY <2>3, <2>4 DEF Claim
  <2>9. \A s \in Rank, sigma \in Token, i \in Nat : claims(s, sigma, d, i)' =>
          /\ i < rows(d)'
          /\ \/ row_message(s, sigma, d, i)' \in posted'
             \/ recv'[d][i] = Origin(s, sigma)'
    <3> SUFFICES ASSUME NEW s \in Rank, NEW sigma \in Token, NEW i \in Nat,
                        claims(s, sigma, d, i)'
                 PROVE  /\ i < n + 1
                        /\ \/ row_message(s, sigma, d, i)' \in posted'
                           \/ recv'[d][i] = Origin(s, sigma)'
      BY <2>4
    <3>1. CASE s = r /\ sigma = tau /\ i = n  BY <2>5, <3>1
    <3>2. CASE claims(s, sigma, d, i)
      <4>1. i < n  BY <2>8, <3>2
      <4>2. \/ row_message(s, sigma, d, i) \in posted
            \/ recv[d][i] = Origin(s, sigma)
        BY <2>3, <3>2 DEF Claim
      <4>3. row_message(s, sigma, d, i)' = row_message(s, sigma, d, i)
        BY <1>6 DEF row_message
      <4> QED BY <1>1, <1>2, <1>6, <4>1, <4>2, <4>3
    <3> QED BY <2>7, <3>1, <3>2
  <2>10. \A s, q \in Rank, sigma, upsilon \in Token, i \in Nat :
           claims(s, sigma, d, i)' /\ claims(q, upsilon, d, i)' =>
             s = q /\ sigma = upsilon
    BY <2>3, <2>7, <2>8 DEF Claim
  <2>11. \A i \in 0 .. n :
           \E s \in Rank, sigma \in Token : claims(s, sigma, d, i)'
    <3> TAKE i \in 0 .. n
    <3>1. i \in Nat  OBVIOUS
    <3>2. CASE i = n  BY <2>6, <3>2
    <3>3. CASE i # n
      <4>1. i \in 0 .. n - 1  BY <3>3
      <4>2. PICK s \in Rank, sigma \in Token : claims(s, sigma, d, i)
        BY <2>3, <2>4, <4>1 DEF Claim
      <4> QED BY <2>7, <3>1, <4>2
    <3> QED BY <3>2, <3>3
  <2>12. rows(d)' - 1 = n  BY <2>4
  <2> QED BY <2>9, <2>10, <2>11, <2>12 DEF Claim
<1> QED BY <1>8, <1>9

(* A row that lands lands in the row its token claims.                     *)
LEMMA ClaimDeliver ==
  ASSUME TypeInv, CoreInv, SenderInv, ClaimInv, NEW m \in posted, Deliver(m)
  PROVE  ClaimInv'
<1>1. /\ posted' = posted \ {m}
      /\ UNCHANGED <<scenario, kernel, pc, replay, my_ids, dest_counter, pull_stage,
                     T_loc>>
  BY DEF Deliver, stream, plan, regs
<1>2. \A s \in Rank, sigma \in Token : /\ begun(s, sigma)' <=> begun(s, sigma)
                                       /\ Origin(s, sigma)' = Origin(s, sigma)
  BY <1>1 DEF begun, Origin
<1>3. \A s, sigma, e, i : Origin(s, sigma)' = Origin(s, sigma) =>
        row_message(s, sigma, e, i)' = row_message(s, sigma, e, i)
  BY DEF row_message
<1> SUFFICES ASSUME NEW d \in Rank, alive(d)' PROVE Claim(d)'
  BY DEF ClaimInv
<1>4. alive(d) /\ Claim(d)  BY <1>1 DEF alive, fits, ClaimInv
<1>5. rows(d)' = rows(d) /\ \A s \in Rank, sigma \in Token, i \in Nat :
        claims(s, sigma, d, i)' <=> claims(s, sigma, d, i)
  BY <1>1, <1>2 DEF rows, sorts, claims, filling
<1>6. ASSUME NEW s \in Rank, NEW sigma \in Token, NEW i \in Nat,
             claims(s, sigma, d, i)
      PROVE  \/ row_message(s, sigma, d, i)' \in posted'
             \/ recv'[d][i] = Origin(s, sigma)'
  <2>1. row_message(s, sigma, d, i)' = row_message(s, sigma, d, i)  BY <1>2, <1>3
  <2>2. \/ row_message(s, sigma, d, i) \in posted
        \/ recv[d][i] = Origin(s, sigma)
    BY <1>4, <1>6 DEF Claim
  <2>3. m \in Signal \/ is_row(m)  BY DEF TypeInv, PostedInv
  <2>4. CASE m \in Signal
    <3>1. recv' = recv /\ m.kind # "row"  BY <2>4 DEF Deliver, Signal
    <3>2. row_message(s, sigma, d, i).kind = "row"  BY DEF row_message
    <3> QED BY <1>1, <1>2, <2>1, <2>2, <3>1, <3>2
  <2>5. CASE is_row(m)
    <3>1. PICK q \in Rank, e \in Rank, t \in Row : q = m.from /\ e = m.to /\ t = m.row
      BY <2>5 DEF is_row
    <3>2. recv' = [recv EXCEPT ![e][t] = m.val] /\ m.kind = "row"
      BY <2>5, <3>1 DEF Deliver, is_row
    <3>3. PICK upsilon \in Token : /\ m = row_message(q, upsilon, e, t)
                                   /\ <<e, t>> \in pull_stage[q][upsilon]
      BY <3>1, <3>2 DEF SenderInv, RowInv
    <3>4. /\ m.val = Origin(q, upsilon) /\ m.cta = upsilon % Grid
          /\ t \in Nat
      BY <3>1, <3>3 DEF row_message, Row
    <3>5. pushes(q, m.cta) /\ m.cta \in Block
      BY <2>5, <3>1 DEF TypeInv, PostedInv, is_row, Signal
    <3>6. DOMAIN recv = Rank /\ DOMAIN recv[e] = Row  BY DEF TypeInv, ShapeInv
    <3>7. CASE e = d /\ t = i
      <4>1. claims(q, upsilon, d, i)
        <5>1. replay[q] = filling(d)
          BY <1>4, <3>5, PusherCurrent DEF CoreInv
        <5>2. begun(q, upsilon)  BY <3>4, <3>5 DEF begun, pushes
        <5> QED BY <3>3, <3>7, <5>1, <5>2 DEF claims
      <4>2. q = s /\ upsilon = sigma  BY <1>4, <1>6, <4>1 DEF Claim
      <4>3. recv'[d][i] = m.val  BY <3>1, <3>2, <3>6, <3>7
      <4> QED BY <1>2, <3>4, <4>2, <4>3
    <3>8. CASE ~(e = d /\ t = i)
      <4>1. recv'[d][i] = recv[d][i]  BY <3>2, <3>6, <3>8
      <4>2. row_message(s, sigma, d, i) # m  BY <3>1, <3>8 DEF row_message
      <4> QED BY <1>1, <1>2, <2>1, <2>2, <4>1, <4>2
    <3> QED BY <3>7, <3>8
  <2> QED BY <2>3, <2>4, <2>5
<1>7. \A s \in Rank, sigma \in Token, i \in Nat : claims(s, sigma, d, i)' => i < rows(d)'
  BY <1>4, <1>5 DEF Claim
<1>8. \A s, q \in Rank, sigma, upsilon \in Token, i \in Nat :
        claims(s, sigma, d, i)' /\ claims(q, upsilon, d, i)' => s = q /\ sigma = upsilon
  BY <1>4, <1>5 DEF Claim
<1>9. \A i \in 0 .. rows(d)' - 1 :
        \E s \in Rank, sigma \in Token : claims(s, sigma, d, i)'
  <2> TAKE i \in 0 .. rows(d)' - 1
  <2>1. i \in 0 .. rows(d) - 1  BY <1>5
  <2>2. PICK s \in Rank, sigma \in Token : claims(s, sigma, d, i)
    BY <1>4, <2>1 DEF Claim
  <2>3. i \in Nat  OBVIOUS
  <2> QED BY <1>5, <2>2, <2>3
<1> QED BY <1>5, <1>6, <1>7, <1>8, <1>9 DEF Claim

(* Every step of a behaviour in which nothing has given up keeps the       *)
(* claims.                                                                 *)
LEMMA ClaimStep ==
  ASSUME TypeInv, CoreInv, SenderInv, ClaimInv, [Next]_vars,
         \A r \in Rank, c \in Block : ~TimeOut(r, c)
  PROVE  ClaimInv'
<1>1. ASSUME NEW r \in Rank, NEW c \in Block,
             \/ Plan(r, c) \/ Cross(r, c) \/ Scatter(r, c)
             \/ Arrive(r, c) \/ Enter(r, c) \/ Pull(r, c)
      PROVE  ClaimInv'
  <2>1. /\ pc[r][c] = "start" => kernel[r] = "combine"
        /\ posted \subseteq posted'
        /\ UNCHANGED <<scenario, kernel, replay, my_ids, pull_stage, recv, dest_counter,
                       T_loc>>
    BY <1>1 DEF Plan, Cross, cross, Scatter, Arrive, Enter, enter, Pull, at, plan, inbox,
                regs
  <2>2. PICK l \in Label \ {"start"} :
          /\ goto(r, c, l)
          /\ sorts(r) /\ c = 0 => pc[r][0] # "done" /\ l # "done"
    <3>1. CASE Plan(r, c)  BY <3>1 DEF Plan, at, Label
    <3>2. CASE Cross(r, c)  BY <3>2 DEF Cross, cross, at, Label
    <3>3. CASE Scatter(r, c)  BY <3>3 DEF Scatter, at, Label
    <3>4. CASE Arrive(r, c)  BY <3>4 DEF Arrive, at, Label
    <3>5. CASE Enter(r, c)  BY <3>5 DEF Enter, enter, at, Label
    <3>6. CASE Pull(r, c)
      <4>1. ~sorts(r)
        BY <3>6 DEF Pull, at, sorts, TypeInv, PlaceInv, places, TypeOK
      <4> QED BY <3>6, <4>1 DEF Pull, Label
    <3> QED BY <1>1, <3>1, <3>2, <3>3, <3>4, <3>5, <3>6
  <2>3. \A d \in Rank : rows(d)' = rows(d)  BY <2>1, <2>2, RowsKept
  <2>4. \A d \in Rank : alive(d)' => alive(d)  BY <2>1 DEF alive, fits
  <2> QED BY <2>1, <2>2, <2>3, <2>4, ClaimWalk
<1>2. ASSUME Gate \/ UNCHANGED vars PROVE ClaimInv'
  <2>1. UNCHANGED <<scenario, kernel, pc, replay, my_ids, pull_stage, recv, posted,
                    dest_counter, T_loc>>
    BY <1>2 DEF Gate, stream, inbox, plan, regs, vars
  <2> QED BY <2>1, ClaimStays DEF begun, alive, fits, rows, sorts, filling
<1> QED BY <1>1, <1>2, ClaimLaunch, ClaimKernelEnd, ClaimGemm, ClaimStart, ClaimPush,
           ClaimPublish, ClaimTail, ClaimAcquire, ClaimDeliver
        DEF Next, Work, Wait

(* Before the first replay nobody claims a row.                            *)
LEMMA ReceiveInit == Init => ReceiveInv
<1> SUFFICES ASSUME Init PROVE SenderInv /\ ClaimInv
  BY DEF ReceiveInv, SenderInv
<1>1. \A s \in Rank : /\ replay[s] = 0 /\ kernel[s] = "idle" /\ dest_counter[s] = 0
                      /\ \A tau \in Token : pull_stage[s][tau] = {}
                      /\ \A c \in Block : todo[s][c] = {}
  BY DEF Init
<1>2. RowInv  BY DEF Init, RowInv
<1>3. StageInv  BY <1>1 DEF StageInv
<1>4. TodoInv  BY <1>1 DEF TodoInv
<1>5. ClaimInv  BY <1>1 DEF ClaimInv, Claim, claims, rows, sorts
<1> QED BY <1>2, <1>3, <1>4, <1>5 DEF SenderInv

(* Once a wait has given up, expired stays nonzero.                        *)
LEMMA ExpiredStays ==
  ASSUME TypeInv, [Next]_vars, expired' = 0
  PROVE  expired = 0 /\ \A r \in Rank, c \in Block : ~TimeOut(r, c)
<1>1. \A r \in Rank, c \in Block : ~TimeOut(r, c)  BY GivenUp
<1>2. CASE UNCHANGED vars  BY <1>1, <1>2 DEF vars
<1>3. CASE Gate  BY <1>1, <1>3 DEF Gate
<1>4. CASE Next /\ ~Gate  BY <1>1, <1>4, PerrKept
<1> QED BY <1>1, <1>2, <1>3, <1>4

(* As long as nothing has given up, a step keeps the receive layer.        *)
LEMMA ReceiveStep ==
  ASSUME TypeInv, ProtocolInv, ReceiveInv, [Next]_vars
  PROVE  ReceiveInv'
<1> SUFFICES ASSUME expired' = 0 PROVE SenderInv' /\ ClaimInv'
  BY DEF ReceiveInv, SenderInv
<1>1. expired = 0 /\ \A r \in Rank, c \in Block : ~TimeOut(r, c)  BY ExpiredStays
<1>2. CoreInv /\ SenderInv /\ ClaimInv
  BY <1>1 DEF ProtocolInv, ReceiveInv, SenderInv
<1> QED BY <1>1, <1>2, SenderStep, ClaimStep

(* Every row of a receive buffer belongs to one token of the replay it     *)
(* collects, and holds its payload or has it on the way, as long as no     *)
(* wait has given up (k0d_push.hip, claim and push of a row).              *)
THEOREM ReceiveCorrect ==
  ASSUME NoWrap PROVE Spec /\ TrustedGate => []ReceiveInv
<1>1. TypeInv /\ ProtocolInv /\ ReceiveInv /\ [Next]_vars => ReceiveInv'
  BY ReceiveStep
<1> QED BY <1>1, ReceiveInit, TypeCorrect, ProtocolCorrect, PTL DEF Spec

(* Rows claimed, delivered and not pushed to any more are those of the     *)
(* replay that is consumed.                                                *)
LEMMA ReceiveFact == TypeInv /\ ProtocolInv /\ ReceiveInv => ReceiveStable
<1> SUFFICES ASSUME TypeInv, ProtocolInv, ReceiveInv, clean,
                    NEW r \in Rank, NEW c \in Block, consuming(r, c)
             PROVE  /\ \A m \in posted : ~(m.kind = "row" /\ m.to = r)
                    /\ \A t \in live(r, c) : recv[r][t].replay = replay[r]
  BY DEF ReceiveStable
<1>1. CoreInv /\ ClaimInv  BY DEF ProtocolInv, ReceiveInv
<1>2. kernel[r] = "gemm" \/ (sorts(r) /\ acquired(r, c))
  BY DEF consuming, sorts, acquired, TypeInv, PlaceInv, places, TypeOK
<1>3. alive(r)
  <2>1. CASE kernel[r] = "gemm"
    BY <1>1, <2>1 DEF CoreInv, EarlyInv, early, sorts
  <2>2. CASE kernel[r] # "gemm"
    BY <1>1, <2>2 DEF consuming, CoreInv, CountedInv, Counted
  <2> QED BY <2>1, <2>2
<1>4. \A m \in posted : ~(m.kind = "row" /\ m.to = r)
  <2> SUFFICES ASSUME NEW m \in posted, m.kind = "row", m.to = r PROVE FALSE
    OBVIOUS
  <2>1. is_row(m) /\ pushes(m.from, m.cta)  BY DEF TypeInv, PostedInv, Signal
  <2>2. m.from \in Rank /\ m.cta \in Block  BY <2>1 DEF is_row
  <2> QED BY <1>1, <1>2, <1>3, <2>1, <2>2, PusherAhead DEF CoreInv
<1>5. ASSUME NEW t \in live(r, c) PROVE recv[r][t].replay = replay[r]
  <2>1. T_loc[r][c] = rows(r) /\ T_loc[r][c] \in Nat
    <3>1. T_loc[r][c] = rows(r)
      BY <1>1, <1>2, <1>3 DEF CoreInv, CountedInv, Counted
    <3>2. T_loc[r][c] \in Nat  BY ScenarioType DEF TypeInv, TypeOK
    <3> QED BY <3>1, <3>2
  <2>2. t \in 0 .. rows(r) - 1 /\ t \in Nat  BY <2>1 DEF live
  <2>3. PICK s \in Rank, tau \in Token : claims(s, tau, r, t)
    BY <1>1, <1>3, <2>2 DEF ClaimInv, Claim
  <2>4. row_message(s, tau, r, t) \notin posted
    <3>1. /\ row_message(s, tau, r, t).kind = "row"
          /\ row_message(s, tau, r, t).to = r
      BY DEF row_message
    <3> QED BY <1>4, <3>1
  <2>5. recv[r][t] = Origin(s, tau)
    BY <1>1, <1>3, <2>2, <2>3, <2>4 DEF ClaimInv, Claim
  <2>6. replay[s] = replay[r]
    <3>1. kernel[r] \notin {"combine", "idle"}  BY <1>2 DEF sorts
    <3> QED BY <2>3, <3>1 DEF claims, filling
  <2> QED BY <2>5, <2>6 DEF Origin
<1> QED BY <1>4, <1>5

(* From a CTA that has acquired to the end of the GEMM nobody writes the   *)
(* receive buffer, and its live rows are those of the replay               *)
(* (k0d_push.hip:8).                                                       *)
THEOREM ReceiveBufferStable ==
  ASSUME NoWrap PROVE Spec /\ TrustedGate => []ReceiveStable
<1> QED BY TypeCorrect, ProtocolCorrect, ReceiveCorrect, ReceiveFact, PTL

-----------------------------------------------------------------------------
(* The count of a rank that fits after a step fitted before it.            *)
LEMMA AliveStays ==
  ASSUME TypeInv, CoreInv, [Next]_vars, \A r \in Rank, c \in Block : ~TimeOut(r, c)
  PROVE  /\ \A d \in Rank : alive(d)' => alive(d)
         /\ scenario' = scenario
<1>1. ASSUME UNCHANGED <<scenario, dest_counter>>
      PROVE  /\ \A d \in Rank : alive(d)' => alive(d)
             /\ scenario' = scenario
  BY <1>1 DEF alive, fits
<1>2. ASSUME NEW r \in Rank, Launch(r) \/ KernelEnd(r) \/ Gemm(r)
      PROVE  UNCHANGED <<scenario, dest_counter>>
  BY <1>2 DEF Launch, KernelEnd, Gemm, inbox
<1>3. ASSUME NEW r \in Rank, NEW c \in Block, Wait(r, c)
      PROVE  UNCHANGED <<scenario, dest_counter>>
  BY <1>3 DEF Wait, Acquire, read_T_loc, Cross, cross, Enter, enter, inbox
<1>4. ASSUME NEW r \in Rank, NEW c \in Block,
             \/ Start(r, c) \/ Publish(r, c) \/ Plan(r, c) \/ Scatter(r, c)
             \/ Arrive(r, c) \/ Pull(r, c)
      PROVE  UNCHANGED <<scenario, dest_counter>>
  BY <1>4 DEF Start, Publish, Plan, Scatter, Arrive, Pull, inbox
<1>5. ASSUME NEW m \in posted, Deliver(m) PROVE UNCHANGED <<scenario, dest_counter>>
  BY <1>5 DEF Deliver, stream
<1>6. ASSUME Gate \/ UNCHANGED vars PROVE UNCHANGED <<scenario, dest_counter>>
  BY <1>6 DEF Gate, stream, inbox, vars
<1>7. ASSUME NEW r \in Rank, NEW c \in Block, Push(r, c)
      PROVE  /\ \A d \in Rank : alive(d)' => alive(d)
             /\ scenario' = scenario
  <2>1. PICK e \in Rank : dest_counter' = [dest_counter EXCEPT ![e] = @ + 1]
    <3>1. PICK p \in todo[r][c] : dest_counter' = [dest_counter EXCEPT ![p[2]] = @ + 1]
      BY <1>7 DEF Push
    <3>2. p[2] \in Rank  BY DEF TypeInv, TypeOK
    <3> QED BY <3>1, <3>2
  <2>2. scenario' = scenario /\ scenario.rows \in Nat
    BY <1>7, ScenarioType DEF Push, stream, TypeInv, TypeOK
  <2>3. \A d \in Rank : dest_counter'[d] >= dest_counter[d] /\ dest_counter[d] \in Nat
                        /\ dest_counter'[d] \in Nat
    BY <2>1 DEF TypeInv, TypeOK
  <2> QED BY <2>2, <2>3 DEF alive, fits
<1>8. ASSUME NEW r \in Rank, NEW c \in Block, Tail(r, c)
      PROVE  /\ \A d \in Rank : alive(d)' => alive(d)
             /\ scenario' = scenario
  <2>1. alive(r)  BY <1>8 DEF Tail, at, CoreInv, CountedInv, Counted
  <2>2. \A d \in Rank : d # r => dest_counter'[d] = dest_counter[d]
    BY <1>8 DEF Tail, TypeInv, TypeOK
  <2> QED BY <1>8, <2>1, <2>2 DEF alive, fits, Tail
<1> QED BY <1>1, <1>2, <1>3, <1>4, <1>5, <1>6, <1>7, <1>8 DEF Next, Work

(* Once a CTA of a live rank has acquired, nothing is pushed to the rank,  *)
(* and the rank itself has pushed everything.                              *)
LEMMA Acquired ==
  ASSUME TypeInv, CoreInv, NEW d \in Rank, alive(d), NEW b \in Block, acquired(d, b)
  PROVE  /\ \A s \in Rank : replay[d] <= replay[s]
         /\ \A s \in Rank, c \in Block :
              pushes(s, c) => kernel[d] # "gemm" /\ ~sorts(d)
         /\ \A s \in Rank : replay[s] = replay[d] => published(s) = Block
         /\ \A m \in posted : m.kind = "row" /\ m.to = d =>
              kernel[d] # "gemm" /\ ~sorts(d)
<1>1. \A s \in Rank : replay[d] <= pushed(s)  BY DEF CoreInv, SyncInv
<1>2. \A s \in Rank : replay[d] <= replay[s]
  <2> TAKE s \in Rank
  <2> QED BY <1>1, Derived
<1>3. \A s \in Rank, c \in Block : pushes(s, c) => kernel[d] # "gemm" /\ ~sorts(d)
  BY PusherAhead DEF CoreInv
<1>4. \A s \in Rank : replay[s] = replay[d] => published(s) = Block
  <2> SUFFICES ASSUME NEW s \in Rank, replay[s] = replay[d], published(s) # Block
               PROVE  FALSE
    OBVIOUS
  <2>1. pushed(s) = replay[s] - 1  BY DEF pushed
  <2> QED BY <1>1, <2>1, Derived
<1>5. \A m \in posted : m.kind = "row" /\ m.to = d => kernel[d] # "gemm" /\ ~sorts(d)
  BY <1>3 DEF TypeInv, PostedInv, Signal, is_row
<1> QED BY <1>2, <1>3, <1>4, <1>5

-----------------------------------------------------------------------------
(* The plan of a rank nobody touches.                                      *)
LEMMA PlanKept ==
  ASSUME NEW d \in Rank, Sized(d), Listed(d), Cleared(d),
         kernel'[d] = kernel[d], rows(d)' = rows(d), planned(d)' = planned(d),
         consumed(d) => \A b \in Block :
           pc'[d][b] \in {"tail", "done"} <=> pc[d][b] \in {"tail", "done"},
         counted'[d] = counted[d], sti'[d] = sti[d], pull_src'[d] = pull_src[d],
         pull_stage'[d] = pull_stage[d] \/ 1 \notin planned(d),
         recv'[d] = recv[d] \/ ~consumed(d) \/ planned(d) = {},
         part'[d] = part[d] \/ ~consumed(d), sc_dst'[d] = sc_dst[d],
         rows(d) \in Nat
  PROVE  Sized(d)' /\ Listed(d)' /\ Cleared(d)'
<1>1. consumed(d)' <=> consumed(d)  BY DEF consumed, sorts
<1>2. live_rows(d)' = live_rows(d)  BY DEF live_rows
<1>3. recv'[d] = recv[d] => pairs(d, live_rows(d))' = pairs(d, live_rows(d))
  BY <1>2 DEF pairs
<1>4. \A p \in pairs(d, live_rows(d)) : p[1] % Grid \in Block
  BY Constants DEF pairs, live_rows, Block
<1>5. Sized(d)'
  <2> SUFFICES ASSUME consumed(d), 0 \in planned(d) PROVE Sized(d)'
    BY <1>1 DEF Sized
  <2>1. recv'[d] = recv[d]  OBVIOUS
  <2>2. \A b \in Block : scattered(d, b)' <=> scattered(d, b)  BY DEF scattered
  <2>3. /\ counted[d] = pairs(d, live_rows(d))
        /\ sti[d] = {p \in pairs(d, live_rows(d)) : scattered(d, p[1] % Grid)}
    BY DEF Sized
  <2>4. {p \in pairs(d, live_rows(d)) : scattered(d, p[1] % Grid)} =
        {p \in pairs(d, live_rows(d)) : scattered(d, p[1] % Grid)'}
    BY <1>4, <2>2
  <2> QED BY <1>3, <2>1, <2>3, <2>4 DEF Sized
<1>6. Listed(d)'  BY DEF Listed
<1>7. Cleared(d)'  BY <1>1, <1>2 DEF Cleared
<1> QED BY <1>5, <1>6, <1>7

(* The live rows of a rank that has not run out of buffer are rows of the  *)
(* buffer.                                                                 *)
LEMMA RowsType ==
  ASSUME TypeInv, NEW d \in Rank
  PROVE  rows(d) \in Nat /\ (alive(d) => live_rows(d) \subseteq Row)
<1>1. T_loc[d][0] \in 0 .. scenario.rows /\ dest_counter[d] \in Nat
      /\ scenario.rows \in Nat
  BY BlockFacts, ScenarioType DEF TypeInv, TypeOK
<1>2. rows(d) \in Nat  BY <1>1 DEF rows
<1>3. alive(d) => rows(d) <= scenario.rows  BY <1>1 DEF rows, alive, fits
<1> QED BY <1>1, <1>2, <1>3 DEF live_rows, Row

(* What a step of another rank leaves alone.                               *)
Untouched(d) ==
  /\ Same(d) /\ scenario' = scenario /\ my_ids'[d] = my_ids[d]
  /\ dest_counter'[d] = dest_counter[d] /\ T_loc'[d] = T_loc[d]
  /\ counted'[d] = counted[d] /\ sti'[d] = sti[d] /\ pull_src'[d] = pull_src[d]
  /\ pull_stage'[d] = pull_stage[d] /\ recv'[d] = recv[d]
  /\ part'[d] = part[d] /\ sc_dst'[d] = sc_dst[d] /\ out'[d] = out[d]

(* The steps that touch only the rank that takes them: all but the push    *)
(* and what the fabric and the host do.                                    *)
Local(r) == \/ Launch(r) \/ KernelEnd(r) \/ Gemm(r)
            \/ \E c \in Block : (Work(r, c) /\ ~Push(r, c)) \/ Wait(r, c)

(* A local step leaves the other ranks alone.                              *)
LEMMA Elsewhere ==
  ASSUME TypeInv, NEW r \in Rank, Local(r), NEW d \in Rank, d # r
  PROVE  Untouched(d)
<1>0. \A q : q = d => q # r  OBVIOUS
<1> USE DEF Untouched, Same, TypeInv, TypeOK, ShapeInv, stream, inbox, plan, regs
<1>1. CASE Launch(r)  BY <1>1 DEF Launch, begin
<1>2. CASE KernelEnd(r)  BY <1>2 DEF KernelEnd
<1>3. CASE Gemm(r)  BY <1>3 DEF Gemm, begin
<1>4. ASSUME NEW c \in Block, Start(r, c) PROVE Untouched(d)
  BY <1>4 DEF Start, goto
<1>5. ASSUME NEW c \in Block, Publish(r, c) PROVE Untouched(d)
  BY <1>5 DEF Publish, goto
<1>6. ASSUME NEW c \in Block, Plan(r, c) PROVE Untouched(d)
  BY <1>6 DEF Plan, plan_work, goto
<1>7. ASSUME NEW c \in Block, Scatter(r, c) PROVE Untouched(d)
  BY <1>7 DEF Scatter, goto
<1>8. ASSUME NEW c \in Block, Tail(r, c) PROVE Untouched(d)
  BY <1>8 DEF Tail, goto
<1>9. ASSUME NEW c \in Block, Arrive(r, c) PROVE Untouched(d)
  BY <1>9 DEF Arrive, goto
<1>10. ASSUME NEW c \in Block, Pull(r, c) PROVE Untouched(d)
  BY <1>10 DEF Pull, goto
<1>11. ASSUME NEW c \in Block, Wait(r, c) PROVE Untouched(d)
  BY <1>11 DEF Wait, Acquire, read_T_loc, Cross, cross, Enter, enter, goto
<1> QED BY <1>1, <1>2, <1>3, <1>4, <1>5, <1>6, <1>7, <1>8, <1>9, <1>10, <1>11
        DEF Local, Work

(* The plan of one rank.                                                   *)
Planning(d) == Sized(d) /\ Listed(d) /\ Cleared(d)

(* The plan of a rank outlives what leaves the rank alone.                 *)
LEMMA PlanElsewhere ==
  ASSUME TypeInv, NEW d \in Rank, Planning(d), Untouched(d)
  PROVE  Planning(d)'
<1>1. rows(d)' = rows(d) /\ planned(d)' = planned(d)
  BY Frame DEF Untouched, rows, sorts, Same
<1> QED BY <1>1, PlanKept, RowsType DEF Untouched, Same, Planning

(* A CTA moves on without planning or scattering.                          *)
LEMMA PlanWalk ==
  ASSUME TypeInv, NEW r \in Rank, NEW c \in Block, NEW l \in Label, goto(r, c, l),
         Planning(r), kernel' = kernel, rows(r)' = rows(r),
         UNCHANGED <<counted, sti, pull_src, recv, part, sc_dst>>,
         pull_stage'[r] = pull_stage[r] \/ 1 \notin planned(r),
         consumed(r) =>
           \A L \in {{"gbar", "scatter", "tail", "done"}, {"tail", "done"}} :
             l \in L <=> pc[r][c] \in L
  PROVE  Planning(r)'
<1>1. \A b \in Block : pc'[r][b] = IF b = c THEN l ELSE pc[r][b]
  BY GotoType DEF TypeInv
<1>2. planned(r)' = planned(r)  BY <1>1 DEF planned, behind, sorts, consumed
<1>3. consumed(r) => \A b \in Block :
        pc'[r][b] \in {"tail", "done"} <=> pc[r][b] \in {"tail", "done"}
  BY <1>1
<1> QED BY <1>2, <1>3, PlanKept, RowsType DEF Planning

(* At a launch nothing is planned.                                         *)
LEMMA PlanLaunch ==
  ASSUME TypeInv, NEW r \in Rank, Launch(r)
  PROVE  Planning(r)'
<1>1. kernel'[r] \in {"push", "mega"} /\ \A c \in Block : pc'[r][c] = "start"
  BY DEF Launch, begin, TypeInv, TypeOK
<1>2. planned(r)' = {}  BY <1>1 DEF planned, behind, sorts
<1> QED BY <1>2 DEF Planning, Sized, Listed, Cleared

(* When the sort ends everything planned is scattered, and the GEMM finds  *)
(* it so.                                                                  *)
LEMMA PlanKernelEnd ==
  ASSUME TypeInv, CoreInv, NEW r \in Rank, alive(r), KernelEnd(r), Planning(r)
  PROVE  Planning(r)'
<1>1. /\ \A c \in Block : pc[r][c] = "done"
      /\ UNCHANGED <<replay, dest_counter, T_loc, counted, sti, pull_src, pull_stage,
                     recv, part, sc_dst>>
  BY DEF KernelEnd, at, inbox, plan, regs
<1>2. \/ /\ kernel[r] = "push" /\ kernel'[r] = "dsort"
         /\ \A c \in Block : pc'[r][c] = "start"
      \/ kernel[r] \in {"mega", "dsort"} /\ kernel'[r] = "gemm"
      \/ kernel[r] = "combine" /\ kernel'[r] = "idle"
  BY DEF KernelEnd, successor, TypeInv, TypeOK
<1>3. CASE kernel[r] = "push"
  <2>1. planned(r)' = {}  BY <1>2, <1>3 DEF planned, behind, sorts
  <2> QED BY <2>1 DEF Planning, Sized, Listed, Cleared
<1>4. CASE kernel[r] \in {"mega", "dsort"}
  <2>1. kernel'[r] = "gemm"  BY <1>2, <1>4
  <2>2. planned(r) = Block /\ planned(r)' = Block
    BY <1>1, <1>4, <2>1 DEF planned, behind, sorts
  <2>3. rows(r)' = rows(r) /\ live_rows(r)' = live_rows(r)
    BY <1>1, <1>4, <2>1, BlockFacts DEF rows, sorts, live_rows
  <2>4. pairs(r, live_rows(r))' = pairs(r, live_rows(r))  BY <1>1, <2>3 DEF pairs
  <2>5. consumed(r)  BY <1>4 DEF consumed, sorts
  <2>6. \A p \in pairs(r, live_rows(r)) :
          scattered(r, p[1] % Grid) /\ scattered(r, p[1] % Grid)'
    <3> TAKE p \in pairs(r, live_rows(r))
    <3>1. p[1] % Grid \in Block  BY Constants DEF pairs, live_rows, Block
    <3> QED BY <1>1, <2>1, <3>1 DEF scattered
  <2>7. Sized(r)'
    <3>1. sti[r] = {p \in pairs(r, live_rows(r)) : scattered(r, p[1] % Grid)}
      BY <2>2, <2>5, BlockFacts DEF Planning, Sized
    <3>2. sti[r] = {p \in pairs(r, live_rows(r)) : scattered(r, p[1] % Grid)'}
      BY <2>6, <3>1
    <3>3. counted[r] = pairs(r, live_rows(r))
      BY <2>2, <2>5, BlockFacts DEF Planning, Sized
    <3> QED BY <1>1, <2>4, <3>2, <3>3 DEF Sized
  <2>8. Listed(r)'  BY <1>1, <2>2 DEF Planning, Listed
  <2>9. Cleared(r)'  BY <1>1, <2>2, <2>3, <2>5 DEF Planning, Cleared
  <2> QED BY <2>7, <2>8, <2>9 DEF Planning
<1>5. CASE kernel[r] = "combine"
  <2>1. kernel'[r] = "idle" /\ ~consumed(r)'  BY <1>2, <1>5 DEF consumed, sorts
  <2>2. planned(r) = planned(r)'  BY <1>5, <2>1 DEF planned, behind
  <2> QED BY <1>1, <2>1, <2>2 DEF Planning, Sized, Listed, Cleared
<1> QED BY <1>2, <1>3, <1>4, <1>5

(* A CTA that starts has emptied its lists before anything is planned.     *)
LEMMA PlanStart ==
  ASSUME TypeInv, CoreInv, NEW r \in Rank, alive(r), NEW c \in Block, Start(r, c),
         Planning(r)
  PROVE  Planning(r)'
<1>1. PICK l \in {"push", "wait"} : goto(r, c, l) BY DEF Start
<1>2. /\ kernel[r] \in {"push", "mega", "dsort"} /\ pc[r][c] = "start"
      /\ UNCHANGED <<kernel, dest_counter, T_loc, counted, sti, pull_src, recv, part,
                     sc_dst>>
      /\ kernel[r] = "dsort" => pull_stage' = pull_stage
  BY DEF Start, at, inbox
<1>3. rows(r)' = rows(r)  BY <1>1, <1>2, RowsKept DEF Label
<1>4. kernel[r] \in {"push", "mega"} => 1 \notin planned(r)
  <2> SUFFICES ASSUME kernel[r] \in {"push", "mega"}, 1 \in planned(r) PROVE FALSE
    OBVIOUS
  <2>1. 1 \in Block  BY Constants DEF Block
  <2>2. acquired(r, 1)  BY DEF planned, acquired
  <2>3. published(r) = Block  BY <2>1, <2>2, Acquired
  <2> QED BY <1>2, <2>3 DEF published
<1>5. "start" \in Label /\ l \in Label  BY DEF Label
<1> QED BY <1>1, <1>2, <1>3, <1>4, <1>5, PlanWalk

(* Nothing is planned of a rank that is still pushed to, or that pushes.   *)
LEMMA PlanPush ==
  ASSUME TypeInv, CoreInv, SenderInv, NEW r \in Rank, NEW c \in Block, Push(r, c),
         NEW d \in Rank, alive(d), Planning(d)
  PROVE  Planning(d)'
<1>1. PICK tau \in Token, e \in Rank :
        /\ <<tau, e>> \in todo[r][c]
        /\ dest_counter' = [dest_counter EXCEPT ![e] = @ + 1]
        /\ pull_stage' = [pull_stage EXCEPT ![r][tau] = @ \cup {<<e, dest_counter[e]>>}]
  <2>1. PICK p \in todo[r][c] :
          /\ dest_counter' = [dest_counter EXCEPT ![p[2]] = @ + 1]
          /\ pull_stage' = [pull_stage EXCEPT ![r][p[1]] =
                               @ \cup {<<p[2], dest_counter[p[2]]>>}]
    BY DEF Push
  <2>2. p[1] \in Token /\ p[2] \in Rank /\ p = <<p[1], p[2]>>
    BY DEF TypeInv, TypeOK
  <2> QED BY <2>1, <2>2
<1>2. /\ Same(d)
      /\ UNCHANGED <<kernel, pc, T_loc, counted, sti, pull_src, recv, part, sc_dst>>
  BY DEF Push, stream, Same
<1>3. pushes(r, c)  BY <1>1 DEF SenderInv, TodoInv
<1>4. consumed(d) => planned(d) = {} /\ \A b \in Block : ~acquired(d, b)
  <2>1. \A b \in Block : acquired(d, b) => ~consumed(d)
    BY <1>3, Acquired DEF consumed
  <2>2. \A b \in Block : b \in planned(d) => acquired(d, b)
    BY DEF planned, acquired
  <2> QED BY <2>1, <2>2 DEF planned
<1>5. planned(d)' = planned(d) /\ (consumed(d)' <=> consumed(d))
  BY <1>2, Frame DEF consumed, sorts
<1>6. Listed(d)'
  <2>1. CASE d = r
    <3>1. 1 \notin planned(r)
      <4>1. kernel[r] \in {"push", "mega"}  BY <1>3 DEF pushes
      <4> QED BY <1>4, <2>1, <4>1 DEF consumed, planned, behind, sorts
    <3> QED BY <1>5, <2>1, <3>1 DEF Listed
  <2>2. CASE d # r
    <3>1. pull_stage'[d] = pull_stage[d]  BY <1>1, <2>2 DEF TypeInv, TypeOK
    <3> QED BY <1>2, <1>5, <3>1 DEF Planning, Listed
  <2> QED BY <2>1, <2>2
<1> QED BY <1>4, <1>5, <1>6 DEF Planning, Sized, Cleared

(* No row lands in a buffer that has been planned on.                      *)
LEMMA PlanDeliver ==
  ASSUME TypeInv, CoreInv, NEW m \in posted, Deliver(m),
         NEW d \in Rank, alive(d), Planning(d)
  PROVE  Planning(d)'
<1>1. UNCHANGED <<kernel, pc, replay, dest_counter, T_loc, counted, sti, pull_src,
                  pull_stage, part, sc_dst>>
  BY DEF Deliver, stream, plan, regs
<1>2. recv'[d] = recv[d] \/ ~consumed(d) \/ planned(d) = {}
  <2>1. CASE m.kind = "row" /\ m.to = d
    <3>1. \A b \in Block : acquired(d, b) => ~consumed(d)
      BY <2>1, Acquired DEF consumed
    <3>2. \A b \in Block : b \in planned(d) => acquired(d, b)
      BY DEF planned, acquired
    <3> QED BY <3>1, <3>2 DEF planned
  <2>2. CASE ~(m.kind = "row" /\ m.to = d)
    <3>1. m \in Signal \/ is_row(m)  BY DEF TypeInv, PostedInv
    <3>2. recv' = recv \/ (m.to # d /\ recv' = [recv EXCEPT ![m.to][m.row] = m.val])
      BY <2>2, <3>1 DEF Deliver, Signal, is_row
    <3> QED BY <3>2 DEF TypeInv, ShapeInv
  <2> QED BY <2>1, <2>2
<1>3. rows(d)' = rows(d) /\ planned(d)' = planned(d)
  BY <1>1, Frame DEF rows, sorts, Same
<1> QED BY <1>1, <1>2, <1>3, PlanKept, RowsType DEF Planning

(* The CTAs do their shares of the plan on the rows all of them agree on.  *)
LEMMA PlanPlan ==
  ASSUME TypeInv, CoreInv, NEW r \in Rank, alive(r), NEW c \in Block, Plan(r, c),
         Planning(r)
  PROVE  Planning(r)'
<1>1. /\ pc[r][c] = "plan" /\ goto(r, c, "gbar") /\ plan_work(r, c)
      /\ UNCHANGED <<scenario, kernel, replay, dest_counter, T_loc, pull_stage, recv>>
  BY DEF Plan, at, inbox
<1>2. kernel[r] \in {"mega", "dsort"}
  BY <1>1 DEF TypeInv, PlaceInv, places, TypeOK
<1>3. consumed(r) /\ consumed(r)' /\ sorts(r) /\ acquired(r, c)
  BY <1>1, <1>2 DEF consumed, sorts, acquired
<1>4. \A b \in Block : pc'[r][b] = IF b = c THEN "gbar" ELSE pc[r][b]
  BY <1>1, GotoType DEF Label, TypeInv
<1>5. c \notin planned(r) /\ planned(r)' = planned(r) \cup {c}
  BY <1>1, <1>2, <1>4 DEF planned, behind, sorts
<1>6. \A b \in Block : ~crossed(r, b)  BY <1>5, NotCrossed DEF CoreInv
<1>7. \A b \in Block : ~scattered(r, b) /\ ~scattered(r, b)'
  BY <1>1, <1>2, <1>3, <1>4, <1>6 DEF scattered, crossed
<1>8. rows(r)' = rows(r) /\ live_rows(r)' = live_rows(r)
  <2>1. rows(r)' = rows(r)  BY <1>1, RowsKept DEF Label
  <2> QED BY <2>1 DEF live_rows
<1>9. live(r, c) = live_rows(r)
  <2>1. T_loc[r][c] = rows(r)  BY <1>3 DEF CoreInv, CountedInv, Counted
  <2> QED BY <2>1 DEF live, live_rows
<1>10. pairs(r, live_rows(r))' = pairs(r, live_rows(r))  BY <1>1, <1>8 DEF pairs
<1>11. Sized(r)'
  <2>1. {p \in pairs(r, live_rows(r)) : scattered(r, p[1] % Grid)'} = {}
    <3>1. \A p \in pairs(r, live_rows(r)) : p[1] % Grid \in Block
      BY Constants DEF pairs, live_rows, Block
    <3> QED BY <1>7, <3>1
  <2>2. CASE c = 0
    <3>1. counted' = [counted EXCEPT ![r] = pairs(r, live(r, c))]
          /\ sti' = [sti EXCEPT ![r] = {}]
      BY <1>1, <2>2 DEF plan_work
    <3>2. counted'[r] = pairs(r, live_rows(r)) /\ sti'[r] = {}
      BY <1>9, <3>1 DEF TypeInv, TypeOK
    <3> QED BY <1>10, <2>1, <3>2 DEF Sized
  <2>3. CASE c # 0
    <3>1. counted' = counted /\ sti' = sti  BY <1>1, <2>3 DEF plan_work
    <3>2. {p \in pairs(r, live_rows(r)) : scattered(r, p[1] % Grid)} = {}
      <4>1. \A p \in pairs(r, live_rows(r)) : p[1] % Grid \in Block
        BY Constants DEF pairs, live_rows, Block
      <4> QED BY <1>7, <4>1
    <3>3. 0 \in planned(r)' => 0 \in planned(r)  BY <1>5, <2>3
    <3> QED BY <1>3, <1>10, <2>1, <3>1, <3>2, <3>3 DEF Planning, Sized
  <2> QED BY <2>2, <2>3
<1>12. Listed(r)'
  <2>1. CASE c = 1
    <3>1. pull_src' = [pull_src EXCEPT ![r] = pull_stage[r]]
      BY <1>1, <2>1 DEF plan_work
    <3> QED BY <1>1, <3>1 DEF Listed, TypeInv, TypeOK
  <2>2. CASE c # 1
    <3>1. pull_src' = pull_src  BY <1>1, <2>2 DEF plan_work
    <3> QED BY <1>1, <1>5, <2>2, <3>1 DEF Planning, Listed
  <2> QED BY <2>1, <2>2
<1>13. Cleared(r)'
  <2> SUFFICES ASSUME NEW t \in live_rows(r), (t % (Grid - 2)) + 2 \in planned(r)'
               PROVE  part'[r][t] = {} /\ sc_dst'[r][t] = recv'[r][t]
    BY <1>8 DEF Cleared
  <2> DEFINE b == (t % (Grid - 2)) + 2
  <2>1. b \in Nat /\ b >= 2 /\ t \in Row
    <3>1. t \in Nat  BY DEF live_rows
    <3>2. t % (Grid - 2) \in Nat  BY <3>1, Constants
    <3> QED BY <3>2, RowsType
  <2>2. CASE c \in {0, 1}
    <3>1. part' = part /\ sc_dst' = sc_dst  BY <1>1, <2>2 DEF plan_work
    <3>2. b \in planned(r)  BY <1>5, <2>1, <2>2
    <3> QED BY <1>1, <1>3, <3>1, <3>2 DEF Planning, Cleared
  <2>3. CASE c \notin {0, 1}
    <3>1. /\ part' = [part EXCEPT ![r] =
                        [i \in Row |-> IF i \in cleared(r, c) THEN {} ELSE @[i]]]
          /\ sc_dst' = [sc_dst EXCEPT ![r] =
                        [i \in Row |-> IF i \in cleared(r, c) THEN recv[r][i] ELSE @[i]]]
      BY <1>1, <2>3 DEF plan_work
    <3>2. /\ part'[r][t] = IF t \in cleared(r, c) THEN {} ELSE part[r][t]
          /\ sc_dst'[r][t] = IF t \in cleared(r, c) THEN recv[r][t] ELSE sc_dst[r][t]
      BY <2>1, <3>1 DEF TypeInv, ShapeInv
    <3>3. t \in cleared(r, c) <=> b = c
      BY <1>9, Constants DEF cleared, live_rows, Block
    <3>4. CASE b = c  BY <1>1, <3>2, <3>3, <3>4
    <3>5. CASE b # c
      <4>1. b \in planned(r)  BY <1>5, <3>5
      <4> QED BY <1>1, <1>3, <3>2, <3>3, <3>5, <4>1 DEF Planning, Cleared
    <3> QED BY <3>4, <3>5
  <2> QED BY <2>2, <2>3
<1> QED BY <1>11, <1>12, <1>13 DEF Planning

(* A CTA scatters the pairs of the rows dealt to it.                       *)
LEMMA PlanScatter ==
  ASSUME TypeInv, CoreInv, NEW r \in Rank, alive(r), NEW c \in Block, Scatter(r, c),
         Planning(r)
  PROVE  Planning(r)'
<1>1. /\ pc[r][c] = "scatter"
      /\ sti' = [sti EXCEPT ![r] = @ \cup pairs(r, mine(c, live(r, c)))]
      /\ UNCHANGED <<scenario, kernel, replay, dest_counter, T_loc, counted, pull_src,
                     pull_stage, recv, part, sc_dst>>
  BY DEF Scatter, at, inbox, regs
<1>2. PICK l \in {"tail", "done"} : goto(r, c, l) /\ (c = 0 => l = "tail")
  BY DEF Scatter
<1>3. \A b \in Block : pc'[r][b] = IF b = c THEN l ELSE pc[r][b]
  BY <1>2, GotoType DEF Label, TypeInv
<1>4. kernel[r] \in {"mega", "dsort"}
  BY <1>1 DEF TypeInv, PlaceInv, places, TypeOK
<1>5. sorts(r) /\ consumed(r) /\ consumed(r)' /\ acquired(r, c) /\ crossed(r, c)
  BY <1>1, <1>4 DEF sorts, consumed, acquired, crossed
<1>6. planned(r) = Block /\ planned(r)' = Block
  <2>1. planned(r) = Block  BY <1>5 DEF CoreInv, SyncInv
  <2> QED BY <1>1, <1>3, <2>1 DEF planned, behind, sorts
<1>7. rows(r)' = rows(r) /\ live_rows(r)' = live_rows(r)
  <2>1. l \in Label /\ (sorts(r) /\ c = 0 => (pc[r][0] = "done" <=> l = "done"))
    BY <1>1, <1>2 DEF Label
  <2>2. rows(r)' = rows(r)  BY <1>1, <1>2, <2>1, RowsKept
  <2> QED BY <2>2 DEF live_rows
<1>8. live(r, c) = live_rows(r)
  <2>1. T_loc[r][c] = rows(r)  BY <1>5 DEF CoreInv, CountedInv, Counted
  <2> QED BY <2>1 DEF live, live_rows
<1>9. pairs(r, live_rows(r))' = pairs(r, live_rows(r))  BY <1>1, <1>7 DEF pairs
<1>10. Sized(r)'
  <2>1. /\ counted[r] = pairs(r, live_rows(r))
        /\ sti[r] = {p \in pairs(r, live_rows(r)) : scattered(r, p[1] % Grid)}
    BY <1>5, <1>6, BlockFacts DEF Planning, Sized
  <2>2. sti'[r] = sti[r] \cup {p \in pairs(r, live_rows(r)) : p[1] % Grid = c}
    <3>1. pairs(r, mine(c, live(r, c))) =
            {p \in pairs(r, live_rows(r)) : p[1] % Grid = c}
      BY <1>8 DEF pairs, mine
    <3> QED BY <1>1, <3>1 DEF TypeInv, TypeOK
  <2>3. \A b \in Block : scattered(r, b)' <=> (scattered(r, b) \/ b = c)
    BY <1>1, <1>3 DEF scattered
  <2>4. \A p \in pairs(r, live_rows(r)) : p[1] % Grid \in Block
    BY Constants DEF pairs, live_rows, Block
  <2>5. sti'[r] = {p \in pairs(r, live_rows(r)) : scattered(r, p[1] % Grid)'}
    BY <2>1, <2>2, <2>3, <2>4
  <2> QED BY <1>1, <1>9, <2>1, <2>5 DEF Sized
<1>11. Listed(r)'  BY <1>1, <1>6 DEF Planning, Listed
<1>12. Cleared(r)'  BY <1>1, <1>5, <1>6, <1>7 DEF Planning, Cleared
<1> QED BY <1>10, <1>11, <1>12 DEF Planning

(* A CTA publishes and waits.                                              *)
LEMMA PlanPublish ==
  ASSUME TypeInv, NEW r \in Rank, NEW c \in Block, Publish(r, c), Planning(r)
  PROVE  Planning(r)'
<1>1. /\ pc[r][c] = "push"
      /\ UNCHANGED <<kernel, dest_counter, T_loc, counted, sti, pull_src, pull_stage,
                     recv, part, sc_dst>>
  BY DEF Publish, at, inbox, plan, regs
<1>2. PICK l \in {"done", "wait"} : goto(r, c, l) /\ (kernel[r] # "push" => l = "wait")
  BY DEF Publish
<1>3. kernel[r] \in {"push", "mega"}
  BY <1>1 DEF TypeInv, PlaceInv, places, TypeOK
<1>4. consumed(r) \/ sorts(r) => l = "wait"  BY <1>2, <1>3 DEF consumed, sorts
<1>5. l \in Label /\ (sorts(r) /\ c = 0 => (pc[r][0] = "done" <=> l = "done"))
  BY <1>1, <1>4 DEF Label
<1>6. rows(r)' = rows(r)  BY <1>1, <1>2, <1>5, RowsKept
<1> QED BY <1>1, <1>2, <1>4, <1>5, <1>6, PlanWalk

(* A CTA acquires and goes on to plan.                                     *)
LEMMA PlanAcquire ==
  ASSUME TypeInv, CoreInv, NEW r \in Rank, alive(r), NEW c \in Block, Acquire(r, c),
         Planning(r)
  PROVE  Planning(r)'
<1>1. /\ pc[r][c] = "wait" /\ sorts(r) /\ goto(r, c, "plan")
      /\ UNCHANGED <<kernel, dest_counter, counted, sti, pull_src, pull_stage, recv,
                     part, sc_dst>>
      /\ T_loc' = [T_loc EXCEPT ![r][c] = dest_counter[r]]
  BY DEF Acquire, read_T_loc, alive, at, inbox, plan
<1>2. pc[r][0] # "done" /\ kernel[r] # "gemm"
  <2>1. c \notin planned(r)  BY <1>1 DEF planned, behind, sorts
  <2>2. ~crossed(r, 0)  BY <2>1, NotCrossed, BlockFacts DEF CoreInv
  <2> QED BY <1>1, <2>2 DEF crossed, sorts
<1>3. \A d \in Rank : d # r => T_loc'[d][0] = T_loc[d][0]
  BY <1>1, BlockFacts DEF TypeInv, TypeOK
<1>4. "plan" \in Label /\ (sorts(r) /\ c = 0 => (pc[r][0] = "done" <=> "plan" = "done"))
  BY <1>2 DEF Label
<1>5. rows(r)' = rows(r)  BY <1>1, <1>2, <1>3, <1>4, RowsKept
<1> QED BY <1>1, <1>4, <1>5, PlanWalk

(* CTA 0 resets the count: the rows stay those of the plan.                *)
LEMMA PlanTail ==
  ASSUME TypeInv, CoreInv, NEW r \in Rank, NEW c \in Block, Tail(r, c), Planning(r)
  PROVE  Planning(r)'
<1>1. /\ pc[r][c] = "tail" /\ goto(r, c, "done")
      /\ dest_counter' = [dest_counter EXCEPT ![r] = 0]
      /\ UNCHANGED <<kernel, counted, sti, pull_src, pull_stage, recv, part, sc_dst,
                     T_loc>>
  BY DEF Tail, at, plan, regs
<1>2. c = 0 /\ sorts(r) /\ kernel[r] # "gemm"
  BY <1>1 DEF sorts, TypeInv, PlaceInv, places, TypeOK
<1>3. alive(r) /\ T_loc[r][0] = rows(r)
  BY <1>1, <1>2 DEF CoreInv, CountedInv, Counted, acquired
<1>4. pc'[r][c] = "done"  BY <1>1, GotoType DEF Label, TypeInv
<1>5. rows(r)' = rows(r)  BY <1>1, <1>2, <1>3, <1>4 DEF rows, sorts
<1>6. "done" \in Label  BY DEF Label
<1> QED BY <1>1, <1>5, <1>6, PlanWalk

(* A CTA moves on, behind the plan or in the combine.                      *)
LEMMA PlanMove ==
  ASSUME TypeInv, NEW r \in Rank, NEW c \in Block, Planning(r),
         Cross(r, c) \/ Arrive(r, c) \/ Enter(r, c) \/ Pull(r, c)
  PROVE  Planning(r)'
<1>1. UNCHANGED <<kernel, dest_counter, T_loc, counted, sti, pull_src, pull_stage,
                  recv, part, sc_dst>>
  BY DEF Cross, cross, Arrive, Enter, enter, Pull, inbox, plan, regs
<1>2. PICK l \in Label :
        /\ goto(r, c, l)
        /\ \/ pc[r][c] = "gbar" /\ l = "scatter"
           \/ ~consumed(r) /\ ~sorts(r)
  <2>1. CASE Cross(r, c)  BY <2>1 DEF Cross, cross, at, Label
  <2>2. CASE Arrive(r, c)  BY <2>2 DEF Arrive, Label, consumed, sorts
  <2>3. CASE Enter(r, c)  BY <2>3 DEF Enter, enter, Label, consumed, sorts
  <2>4. CASE Pull(r, c)
    <3>1. kernel[r] = "combine"
      BY <2>4 DEF Pull, at, TypeInv, PlaceInv, places, TypeOK
    <3> QED BY <2>4, <3>1 DEF Pull, Label, consumed, sorts
  <2> QED BY <2>1, <2>2, <2>3, <2>4
<1>3. sorts(r) /\ c = 0 => (pc[r][0] = "done" <=> l = "done")  BY <1>2
<1>4. rows(r)' = rows(r)  BY <1>1, <1>2, <1>3, RowsKept
<1> QED BY <1>1, <1>2, <1>4, PlanWalk

(* The GEMM leaves the pull lists to the combine.                          *)
LEMMA PlanGemm ==
  ASSUME TypeInv, NEW r \in Rank, Gemm(r), Planning(r)
  PROVE  Planning(r)'
<1>1. /\ kernel[r] = "gemm" /\ kernel'[r] = "combine"
      /\ UNCHANGED <<pull_src, pull_stage>>
  BY DEF Gemm, begin, successor, TypeInv, TypeOK, plan
<1>2. planned(r) = Block /\ planned(r)' = Block  BY <1>1 DEF planned, behind
<1>3. ~consumed(r)'  BY <1>1 DEF consumed, sorts
<1> QED BY <1>1, <1>2, <1>3 DEF Planning, Sized, Listed, Cleared

(* Every step of a behaviour in which nothing has given up keeps the       *)
(* plans.                                                                  *)
LEMMA PlanStep ==
  ASSUME TypeInv, CoreInv, SenderInv, PlanInv, [Next]_vars,
         \A r \in Rank, c \in Block : ~TimeOut(r, c)
  PROVE  PlanInv'
<1> SUFFICES ASSUME NEW d \in Rank, alive(d)' PROVE Planning(d)'
  BY DEF PlanInv, Planning
<1>1. alive(d) /\ Planning(d)  BY AliveStays DEF PlanInv, Planning
<1>2. ASSUME NEW r \in Rank, Local(r) PROVE Planning(d)'
  <2>1. CASE d # r  BY <1>1, <1>2, <2>1, Elsewhere, PlanElsewhere
  <2>2. CASE d = r
    BY <1>1, <1>2, <2>2, PlanLaunch, PlanKernelEnd, PlanGemm, PlanStart, PlanPublish,
       PlanPlan, PlanScatter, PlanTail, PlanMove, PlanAcquire
    DEF Local, Work, Wait
  <2> QED BY <2>1, <2>2
<1>3. ASSUME Gate \/ UNCHANGED vars PROVE Planning(d)'
  <2>1. UNCHANGED <<kernel, pc, dest_counter, T_loc, counted, sti, pull_src, pull_stage,
                    recv, part, sc_dst>>
    BY <1>3 DEF Gate, stream, inbox, plan, regs, vars
  <2>2. rows(d)' = rows(d) /\ planned(d)' = planned(d)
    BY <2>1 DEF rows, planned, sorts, behind
  <2> QED BY <1>1, <2>1, <2>2, PlanKept, RowsType DEF Planning
<1> QED BY <1>1, <1>2, <1>3, PlanPush, PlanDeliver DEF Next, Local

-----------------------------------------------------------------------------
(* The rows whose partial sums some token of this replay still wants.      *)
Wanted(s, tau, d, i) == replay[s] = summed(d) /\ <<d, i>> \in pull_stage[s][tau]

(* A partial sum nobody touches stays what its token wants.                *)
LEMMA PartKept ==
  ASSUME PartInv, scenario' = scenario,
         NEW d \in Rank, alive(d), NEW s \in Rank, NEW tau \in Token, NEW i \in Nat,
         Wanted(s, tau, d, i), part'[d][i] = part[d][i],
         my_ids'[s] = my_ids[s], replay'[s] = replay[s]
  PROVE  i \in Row' /\ part'[d][i] = addends(d, Origin(s, tau))'
<1>1. i \in Row /\ part[d][i] = addends(d, Origin(s, tau))  BY DEF PartInv, Wanted
<1>2. Origin(s, tau)' = Origin(s, tau)  BY DEF Origin
<1>3. addends(d, Origin(s, tau))' = addends(d, Origin(s, tau))  BY <1>2 DEF addends
<1> QED BY <1>1, <1>3 DEF Row

(* A step that touches neither the partial sums nor what wants them.       *)
LEMMA PartStays ==
  ASSUME PartInv, scenario' = scenario, \A d \in Rank : alive(d)' => alive(d),
         UNCHANGED <<part, my_ids, replay>>,
         \A d \in Rank : summed(d)' = summed(d),
         \A d, s \in Rank, tau \in Token, i \in Nat :
           alive(d) /\ Wanted(s, tau, d, i)' => Wanted(s, tau, d, i)
  PROVE  PartInv'
<1> SUFFICES ASSUME NEW d \in Rank, NEW s \in Rank, NEW tau \in Token, NEW i \in Nat,
                    alive(d)', Wanted(s, tau, d, i)'
             PROVE  i \in Row' /\ part'[d][i] = addends(d, Origin(s, tau))'
  BY DEF PartInv, Wanted
<1>1. alive(d) /\ Wanted(s, tau, d, i)  OBVIOUS
<1> QED BY <1>1, PartKept

(* No rank has summed for the replay that starts.                          *)
LEMMA PartLaunch ==
  ASSUME TypeInv, CoreInv, PartInv, NEW r \in Rank, Launch(r),
         \A d \in Rank : alive(d)' => alive(d)
  PROVE  PartInv'
<1>1. /\ kernel[r] = "idle" /\ kernel'[r] \in {"push", "mega"}
      /\ replay'[r] = replay[r] + 1
      /\ \A q \in Rank : q # r => Same(q) /\ my_ids'[q] = my_ids[q]
      /\ UNCHANGED <<scenario, part, pull_stage>>
  BY DEF Launch, begin, Same, plan, TypeInv, TypeOK
<1>2. \A d \in Rank : summed(d)' = summed(d)
  <2> TAKE d \in Rank
  <2>1. CASE d = r  BY <1>1, <2>1, Derived DEF summed
  <2>2. CASE d # r  BY <1>1, <2>2 DEF summed, Same
  <2> QED BY <2>1, <2>2
<1> SUFFICES ASSUME NEW d \in Rank, NEW s \in Rank, NEW tau \in Token, NEW i \in Nat,
                    alive(d)', Wanted(s, tau, d, i)'
             PROVE  i \in Row' /\ part'[d][i] = addends(d, Origin(s, tau))'
  BY DEF PartInv, Wanted
<1>3. CASE s # r
  <2>1. Wanted(s, tau, d, i) /\ alive(d)  BY <1>1, <1>2, <1>3 DEF Wanted, Same
  <2> QED BY <1>1, <1>3, <2>1, PartKept DEF Same
<1>4. CASE s = r
  <2>1. replay[r] + 1 = summed(d)  BY <1>1, <1>2, <1>4 DEF Wanted
  <2>2. CASE kernel[d] \in {"combine", "idle"}
    <3>1. replay[d] = replay[r] + 1  BY <2>1, <2>2 DEF summed
    <3>2. acquired(d, 0)  BY <2>2 DEF acquired, behind
    <3>3. replay[d] <= replay[r]  BY <3>2, Acquired, BlockFacts
    <3> QED BY <3>1, <3>3, Derived
  <2>3. CASE kernel[d] \notin {"combine", "idle"}
    <3>1. finished(d) = replay[r] + 1  BY <2>1, <2>3 DEF summed, finished
    <3>2. finished(d) <= combined(r)  BY DEF CoreInv, SyncInv
    <3> QED BY <3>1, <3>2, Derived
  <2> QED BY <2>2, <2>3
<1> QED BY <1>3, <1>4

(* A pushed row is one of the replay after the one last summed.            *)
LEMMA PartPush ==
  ASSUME TypeInv, CoreInv, SenderInv, PartInv, NEW r \in Rank, NEW c \in Block,
         Push(r, c), \A d \in Rank : alive(d)' => alive(d)
  PROVE  PartInv'
<1>1. PICK tau \in Token, e \in Rank :
        /\ <<tau, e>> \in todo[r][c]
        /\ pull_stage' = [pull_stage EXCEPT ![r][tau] = @ \cup {<<e, dest_counter[e]>>}]
  <2>1. PICK p \in todo[r][c] :
          pull_stage' = [pull_stage EXCEPT ![r][p[1]] =
                               @ \cup {<<p[2], dest_counter[p[2]]>>}]
    BY DEF Push
  <2>2. p[1] \in Token /\ p[2] \in Rank /\ p = <<p[1], p[2]>>
    BY DEF TypeInv, TypeOK
  <2> QED BY <2>1, <2>2
<1>2. UNCHANGED <<scenario, kernel, part, my_ids, replay>>  BY DEF Push, stream
<1>3. pushes(r, c)  BY <1>1 DEF SenderInv, TodoInv
<1>4. \A d, s \in Rank, sigma \in Token, i \in Nat :
        alive(d) /\ Wanted(s, sigma, d, i)' => Wanted(s, sigma, d, i)
  <2> SUFFICES ASSUME NEW d \in Rank, NEW s \in Rank, NEW sigma \in Token, NEW i \in Nat,
                      alive(d), Wanted(s, sigma, d, i)'
               PROVE  Wanted(s, sigma, d, i)
    OBVIOUS
  <2>1. replay[s] = summed(d)  BY <1>2 DEF Wanted, summed
  <2>2. \/ <<d, i>> \in pull_stage[s][sigma]
        \/ s = r /\ d = e
    BY <1>1 DEF Wanted, TypeInv, TypeOK
  <2>3. CASE s = r /\ d = e
    <3>1. replay[r] = filling(d)  BY <1>3, PusherCurrent DEF CoreInv
    <3>2. filling(d) # summed(d)  BY Derived DEF filling, summed
    <3> QED BY <2>1, <2>3, <3>1, <3>2
  <2> QED BY <2>1, <2>2, <2>3 DEF Wanted
<1> QED BY <1>2, <1>4, PartStays DEF summed

(* Nobody wants a sum of the replay before when a CTA clears them.         *)
LEMMA PartPlan ==
  ASSUME TypeInv, CoreInv, PartInv, NEW r \in Rank, NEW c \in Block, Plan(r, c),
         \A d \in Rank : alive(d)' => alive(d)
  PROVE  PartInv'
<1>1. /\ pc[r][c] = "plan"
      /\ UNCHANGED <<scenario, kernel, my_ids, replay, pull_stage>>
  BY DEF Plan, at
<1>2. \A d \in Rank : d # r => part'[d] = part[d]
  BY DEF Plan, plan_work, TypeInv, ShapeInv
<1>3. sorts(r) /\ acquired(r, c)
  BY <1>1 DEF sorts, acquired, TypeInv, PlaceInv, places, TypeOK
<1> SUFFICES ASSUME NEW d \in Rank, NEW s \in Rank, NEW tau \in Token, NEW i \in Nat,
                    alive(d)', Wanted(s, tau, d, i)'
             PROVE  i \in Row' /\ part'[d][i] = addends(d, Origin(s, tau))'
  BY DEF PartInv, Wanted
<1>4. alive(d) /\ Wanted(s, tau, d, i)  BY <1>1 DEF Wanted, summed
<1>5. d # r
  <2> SUFFICES ASSUME d = r PROVE FALSE
    OBVIOUS
  <2>1. replay[s] = replay[r] - 1  BY <1>3, <1>4 DEF Wanted, summed, sorts
  <2>2. replay[r] <= replay[s]  BY <1>3, <1>4, Acquired
  <2> QED BY <2>1, <2>2, Derived
<1> QED BY <1>1, <1>2, <1>4, <1>5, PartKept

(* The GEMM adds to a live row what its token wants of this rank.          *)
LEMMA ProductsExact ==
  ASSUME NEW d \in Rank, NEW i \in live_rows(d), NEW s \in Rank, NEW tau \in Token,
         recv[d][i] = Origin(s, tau), sc_dst[d][i] = recv[d][i],
         counted[d] = pairs(d, live_rows(d)), sti[d] = pairs(d, live_rows(d))
  PROVE  products(d, i) = addends(d, Origin(s, tau))
<1> DEFINE o == Origin(s, tau)
           Share(e) == addends(d, [recv[d][i] EXCEPT !.ids = {e}])
<1>1. /\ o.src = s /\ o.tau = tau /\ o.replay = replay[s] /\ o.ids = my_ids[s][tau]
  BY DEF Origin
<1>2. \A e : Share(e) = {<<d, s, tau, replay[s], x>> : x \in {e} \cap local_experts(d)}
  BY DEF addends, Origin
<1>3. {q \in sti[d] : q[1] = i} =
        {<<i, e>> : e \in my_ids[s][tau] \cap local_experts(d)}
  BY <1>1 DEF pairs
<1>4. products(d, i) = UNION {Share(p[2]) : p \in {q \in sti[d] : q[1] = i}}
  BY DEF products
<1>5. addends(d, o) =
        {<<d, s, tau, replay[s], e>> : e \in my_ids[s][tau] \cap local_experts(d)}
  BY <1>1 DEF addends
<1> HIDE DEF Share
<1>6. \A x : x \in products(d, i) <=>
        \E e \in my_ids[s][tau] \cap local_experts(d) : x \in Share(e)
  <2>1. \A x : x \in products(d, i) <=>
          \E p \in {<<i, e>> : e \in my_ids[s][tau] \cap local_experts(d)} :
            x \in Share(p[2])
    BY <1>3, <1>4
  <2> TAKE x
  <2>2. ASSUME NEW e \in my_ids[s][tau] \cap local_experts(d), x \in Share(e)
        PROVE  x \in products(d, i)
    <3>1. <<i, e>>[2] = e  OBVIOUS
    <3>2. \E p \in {<<i, f>> : f \in my_ids[s][tau] \cap local_experts(d)} :
            x \in Share(p[2])
      BY <2>2, <3>1
    <3> QED BY <2>1, <3>2
  <2>3. ASSUME x \in products(d, i)
        PROVE  \E e \in my_ids[s][tau] \cap local_experts(d) : x \in Share(e)
    <3>1. PICK e \in my_ids[s][tau] \cap local_experts(d) : x \in Share(<<i, e>>[2])
      BY <2>1, <2>3
    <3>2. <<i, e>>[2] = e  OBVIOUS
    <3> QED BY <3>1, <3>2
  <2> QED BY <2>2, <2>3
<1>7. \A x, e : e \in local_experts(d) =>
        (x \in Share(e) <=> x = <<d, s, tau, replay[s], e>>)
  BY <1>2
<1>8. \A x : x \in products(d, i) <=> x \in addends(d, o)
  BY <1>5, <1>6, <1>7
<1> QED BY <1>8

(* The GEMM leaves in every live row what its token wants of the rank.     *)
LEMMA PartGemm ==
  ASSUME TypeInv, CoreInv, SenderInv, ClaimInv, PlanInv, PartInv,
         NEW r \in Rank, Gemm(r), \A d \in Rank : alive(d)' => alive(d)
  PROVE  PartInv'
<1>1. /\ kernel[r] = "gemm" /\ kernel'[r] = "combine"
      /\ \A q \in Rank : q # r => Same(q) /\ part'[q] = part[q]
      /\ UNCHANGED <<scenario, my_ids, replay, pull_stage, recv>>
  BY DEF Gemm, begin, successor, Same, TypeInv, TypeOK, ShapeInv, plan, inbox
<1>2. \A t \in Row : part'[r][t] = part[r][t] \cup products(r, t)
  BY DEF Gemm, TypeInv, ShapeInv
<1> SUFFICES ASSUME NEW d \in Rank, NEW s \in Rank, NEW tau \in Token, NEW i \in Nat,
                    alive(d)', Wanted(s, tau, d, i)'
             PROVE  i \in Row' /\ part'[d][i] = addends(d, Origin(s, tau))'
  BY DEF PartInv, Wanted
<1>3. CASE d # r
  <2>1. Wanted(s, tau, d, i) /\ alive(d)  BY <1>1, <1>3 DEF Wanted, summed, Same
  <2> QED BY <1>1, <1>3, <2>1, PartKept
<1>4. CASE d = r
  <2>1. alive(r) /\ acquired(r, tau % Grid)  BY <1>1, <1>4 DEF acquired, behind
  <2>2. replay[s] = replay[r] /\ <<r, i>> \in pull_stage[s][tau]
    BY <1>1, <1>4 DEF Wanted, summed
  <2>3. published(s) = Block /\ \A m \in posted : ~(m.kind = "row" /\ m.to = r)
    BY <1>1, <2>1, <2>2, TokenCTA, Acquired
  <2>4. claims(s, tau, r, i)
    <3>1. begun(s, tau)  BY <2>3, TokenCTA DEF begun, published
    <3>2. filling(r) = replay[r]  BY <1>1 DEF filling
    <3> QED BY <2>2, <3>1, <3>2 DEF claims
  <2>5. i < rows(r) /\ recv[r][i] = Origin(s, tau)
    <3>1. row_message(s, tau, r, i) \notin posted
      <4>1. /\ row_message(s, tau, r, i).kind = "row"
            /\ row_message(s, tau, r, i).to = r
        BY DEF row_message
      <4> QED BY <2>3, <4>1
    <3> QED BY <2>1, <2>4, <3>1 DEF ClaimInv, Claim
  <2>6. i \in live_rows(r) /\ i \in Row
    BY <2>1, <2>5, RowsType DEF live_rows
  <2>7. planned(r) = Block /\ consumed(r)  BY <1>1 DEF planned, behind, consumed
  <2>8. part[r][i] = {} /\ sc_dst[r][i] = recv[r][i]
    <3>1. i % (Grid - 2) \in 0 .. Grid - 3  BY Constants
    <3>2. (i % (Grid - 2)) + 2 \in Block  BY <3>1, Constants DEF Block
    <3> QED BY <2>1, <2>6, <2>7, <3>2 DEF PlanInv, Cleared
  <2>9. counted[r] = pairs(r, live_rows(r)) /\ sti[r] = pairs(r, live_rows(r))
    <3>1. \A c \in Nat : scattered(r, c)  BY <1>1 DEF scattered
    <3>2. /\ counted[r] = pairs(r, live_rows(r))
          /\ sti[r] = {p \in pairs(r, live_rows(r)) : scattered(r, p[1] % Grid)}
      BY <2>1, <2>7, BlockFacts DEF PlanInv, Sized
    <3> QED BY <1>1, <3>2 DEF scattered
  <2>10. products(r, i) = addends(r, Origin(s, tau))
    BY <2>5, <2>6, <2>8, <2>9, ProductsExact
  <2>11. part'[r][i] = addends(r, Origin(s, tau))  BY <1>2, <2>6, <2>8, <2>10
  <2>12. addends(r, Origin(s, tau))' = addends(r, Origin(s, tau))
    <3>1. Origin(s, tau)' = Origin(s, tau)  BY <1>1 DEF Origin
    <3> QED BY <3>1 DEF addends
  <2> QED BY <1>1, <1>4, <2>6, <2>11, <2>12 DEF Row
<1> QED BY <1>3, <1>4

(* Every step of a behaviour in which nothing has given up keeps the       *)
(* partial sums that are wanted.                                           *)
LEMMA PartStep ==
  ASSUME TypeInv, CoreInv, SenderInv, ClaimInv, PlanInv, PartInv, [Next]_vars,
         \A r \in Rank, c \in Block : ~TimeOut(r, c)
  PROVE  PartInv'
<1>1. scenario' = scenario /\ \A d \in Rank : alive(d)' => alive(d)  BY AliveStays
<1>2. ASSUME UNCHANGED <<part, my_ids, replay, pull_stage>>,
             \A d \in Rank : summed(d)' = summed(d)
      PROVE  PartInv'
  BY <1>1, <1>2, PartStays DEF Wanted
<1>3. ASSUME NEW r \in Rank, NEW c \in Block,
             \/ Publish(r, c) \/ Scatter(r, c) \/ Tail(r, c) \/ Arrive(r, c)
             \/ Pull(r, c) \/ Wait(r, c)
      PROVE  PartInv'
  <2>1. UNCHANGED <<kernel, part, my_ids, replay, pull_stage>>
    BY <1>3 DEF Publish, Scatter, Tail, Arrive, Pull, Wait, Acquire, read_T_loc, Cross,
                cross, Enter, enter, plan
  <2> QED BY <1>2, <2>1 DEF summed
<1>4. ASSUME NEW r \in Rank, KernelEnd(r) PROVE PartInv'
  <2>1. UNCHANGED <<part, my_ids, replay, pull_stage>>  BY <1>4 DEF KernelEnd, plan
  <2>2. \A d \in Rank : kernel'[d] \in {"combine", "idle"} <=>
                        kernel[d] \in {"combine", "idle"}
    BY <1>4 DEF KernelEnd, successor, TypeInv, TypeOK
  <2> QED BY <1>2, <2>1, <2>2 DEF summed
<1>5. ASSUME NEW r \in Rank, NEW c \in Block, Start(r, c) PROVE PartInv'
  <2>1. UNCHANGED <<kernel, part, my_ids, replay>>  BY <1>5 DEF Start
  <2>2. \A s \in Rank, tau \in Token : pull_stage'[s][tau] \in {{}, pull_stage[s][tau]}
    <3>1. \/ pull_stage' = pull_stage
          \/ pull_stage' = [pull_stage EXCEPT ![r] =
               [tau \in Token |-> IF tau \in mine(c, Token) THEN {} ELSE @[tau]]]
      BY <1>5 DEF Start
    <3>2. pull_stage \in [Rank -> [Token -> SUBSET (Rank \X Nat)]]
      BY DEF TypeInv, TypeOK
    <3> QED BY <3>1, <3>2
  <2>3. \A d \in Rank : summed(d)' = summed(d)  BY <2>1 DEF summed
  <2>4. \A d, s \in Rank, tau \in Token, i \in Nat :
          alive(d) /\ Wanted(s, tau, d, i)' => Wanted(s, tau, d, i)
    <3> SUFFICES ASSUME NEW d \in Rank, NEW s \in Rank, NEW tau \in Token, NEW i \in Nat,
                        Wanted(s, tau, d, i)'
                 PROVE  Wanted(s, tau, d, i)
      OBVIOUS
    <3> QED BY <2>1, <2>2, <2>3 DEF Wanted
  <2> QED BY <1>1, <2>1, <2>3, <2>4, PartStays
<1>6. ASSUME (\E m \in posted : Deliver(m)) \/ Gate \/ UNCHANGED vars PROVE PartInv'
  <2>1. UNCHANGED <<kernel, part, my_ids, replay, pull_stage>>
    BY <1>6 DEF Deliver, Gate, stream, plan, vars
  <2> QED BY <1>2, <2>1 DEF summed
<1> QED BY <1>1, <1>3, <1>4, <1>5, <1>6, PartLaunch, PartGemm, PartPush, PartPlan
        DEF Next, Work

-----------------------------------------------------------------------------
(* A CTA that pulls has waited for every rank: with no error word set, the *)
(* partial sums of all of them are those of its replay.                    *)
LEMMA AllSummed ==
  ASSUME TypeInv, CoreInv, clean, NEW r \in Rank, NEW c \in Block, pc[r][c] = "pull"
  PROVE  /\ kernel[r] = "combine"
         /\ \A d \in Rank : alive(d) /\ summed(d) = replay[r]
<1>1. kernel[r] = "combine"  BY DEF TypeInv, PlaceInv, places, TypeOK
<1>2. \A s \in Rank : replay[r] <= combined(s)  BY <1>1 DEF CoreInv, SyncInv
<1>3. ASSUME NEW d \in Rank PROVE alive(d)
  <2> SUFFICES ASSUME ~alive(d) PROVE FALSE
    OBVIOUS
  <2>1. early(d) /\ finished(d) <= finished(r)  BY DEF CoreInv, EarlyInv
  <2>2. finished(r) = replay[r] - 1  BY <1>1 DEF finished
  <2>3. finished(d) = combined(d)
    <3>1. CASE kernel[d] = "idle"
      <4>1. present(d) = Block  BY <3>1 DEF present
      <4> QED BY <3>1, <4>1 DEF finished, combined
    <3>2. CASE kernel[d] # "idle"
      <4>1. kernel[d] \in {"push", "mega", "dsort"}  BY <2>1, <3>2 DEF early, sorts
      <4> QED BY <4>1, Derived DEF finished
    <3> QED BY <3>1, <3>2
  <2> QED BY <1>2, <2>1, <2>2, <2>3, Derived
<1>4. ASSUME NEW d \in Rank PROVE summed(d) = replay[r]
  <2>1. CASE kernel[d] \in {"combine", "idle"}
    <3>1. acquired(d, 0)  BY <2>1 DEF acquired, behind
    <3>2. replay[d] <= replay[r]  BY <1>3, <3>1, Acquired, BlockFacts
    <3>3. summed(d) = replay[d]  BY <2>1 DEF summed
    <3> QED BY <1>2, <3>2, <3>3, Derived
  <2>2. CASE kernel[d] \notin {"combine", "idle"}
    <3>1. kernel[d] \in {"push", "mega", "dsort", "gemm"}
      BY <2>2 DEF TypeInv, TypeOK
    <3>2. combined(d) = summed(d) /\ finished(d) = summed(d)
      BY <3>1, Derived DEF summed, finished
    <3>3. finished(d) <= combined(r)  BY DEF CoreInv, SyncInv
    <3> QED BY <1>2, <3>2, <3>3, Derived
  <2> QED BY <2>1, <2>2
<1> QED BY <1>1, <1>3, <1>4

(* The rows a token lists hold, between them, each of its experts' shares. *)
LEMMA PullExact ==
  ASSUME TypeInv, CoreInv, SenderInv, PlanInv, PartInv, clean,
         NEW r \in Rank, NEW tau \in Token, pc[r][tau % Grid] = "pull"
  PROVE  UNION {row_sum(p[1], p[2]) : p \in pull_src[r][tau]} = expected(r, tau)
<1> DEFINE c == tau % Grid
           share(d) == addends(d, Origin(r, tau))
<1>1. c \in Block  BY TokenCTA
<1>2. kernel[r] = "combine" /\ \A d \in Rank : alive(d) /\ summed(d) = replay[r]
  BY <1>1, AllSummed
<1>3. pull_src[r] = pull_stage[r]
  <2>1. 1 \in planned(r)  BY <1>2, Constants DEF planned, behind, Block
  <2> QED BY <1>2, <2>1 DEF PlanInv, Listed
<1>4. replay[r] > 0 /\ begun(r, tau) /\ todo[r][c] = {}
  <2>1. ~pushes(r, c)  BY <1>2 DEF pushes
  <2> QED BY <1>1, <1>2, <2>1, Settled DEF begun, TypeInv, PlaceInv
<1>5. ASSUME NEW p \in pull_stage[r][tau]
      PROVE  p[1] \in dests(my_ids[r][tau]) /\ row_sum(p[1], p[2]) = share(p[1])
  <2>1. p[1] \in Rank /\ p[2] \in Nat /\ p = <<p[1], p[2]>>  BY DEF TypeInv, TypeOK
  <2>2. PICK d \in Rank, i \in Nat : p = <<d, i>>  BY <2>1
  <2>3. i \in Row /\ part[d][i] = share(d)
    BY <1>2, <2>2 DEF PartInv
  <2>4. p[1] = d /\ p[2] = i  BY <2>2
  <2>5. p[1] \in dests(my_ids[r][tau])  BY <1>4 DEF SenderInv, StageInv
  <2> QED BY <2>3, <2>4, <2>5 DEF row_sum
<1>6. \A d \in dests(my_ids[r][tau]) : \E p \in pull_stage[r][tau] : p[1] = d
  BY <1>4 DEF SenderInv, StageInv
<1>7. \A d \in Rank : d \notin dests(my_ids[r][tau]) => share(d) = {}
  BY DEF addends, Origin, dests, local_experts
<1>8. dests(my_ids[r][tau]) \subseteq Rank  BY DestsType DEF TypeInv
<1> HIDE DEF share
<1>9. ASSUME NEW x, x \in UNION {row_sum(p[1], p[2]) : p \in pull_stage[r][tau]}
      PROVE  \E d \in Rank : x \in share(d)
  <2>1. PICK p \in pull_stage[r][tau] : x \in row_sum(p[1], p[2])  BY <1>9
  <2> QED BY <1>5, <1>8, <2>1
<1>10. ASSUME NEW x, NEW d \in Rank, x \in share(d)
       PROVE  x \in UNION {row_sum(p[1], p[2]) : p \in pull_stage[r][tau]}
  <2>1. d \in dests(my_ids[r][tau])  BY <1>7, <1>10
  <2>2. PICK p \in pull_stage[r][tau] : p[1] = d  BY <1>6, <2>1
  <2>3. x \in row_sum(p[1], p[2])  BY <1>5, <1>10, <2>2
  <2> QED BY <2>3
<1>11. expected(r, tau) = UNION {share(d) : d \in Rank}  BY DEF expected, share
<1> QED BY <1>3, <1>9, <1>10, <1>11

(* The outputs of one rank.                                                *)
Out(r) ==
  \A tau \in Token :
    /\ kernel[r] = "combine" /\ pc[r][tau % Grid] = "done" =>
         out[r][tau] = expected(r, tau)
    /\ kernel[r] = "idle" /\ replay[r] > 0 =>
         out[r][tau] \in {NotWritten, expected(r, tau)}

(* The outputs outlive a step that finishes no CTA of the combine.         *)
LEMMA OutKept ==
  ASSUME NEW r \in Rank, Out(r), kernel'[r] = kernel[r], replay'[r] = replay[r],
         my_ids'[r] = my_ids[r], out'[r] = out[r],
         kernel[r] = "combine" => \A c \in Block :
           pc'[r][c] = "done" => pc[r][c] = "done"
  PROVE  Out(r)'
<1>1. \A tau \in Token : expected(r, tau)' = expected(r, tau)
  <2> TAKE tau \in Token
  <2>1. Origin(r, tau)' = Origin(r, tau)  BY DEF Origin
  <2> QED BY <2>1 DEF expected, addends
<1> QED BY <1>1, TokenCTA DEF Out

(* A CTA that pulls writes the outputs of its tokens.                      *)
LEMMA OutPull ==
  ASSUME TypeInv, CoreInv, SenderInv, PlanInv, PartInv, clean,
         NEW r \in Rank, NEW c \in Block, Pull(r, c), Out(r)
  PROVE  Out(r)'
<1>1. /\ pc[r][c] = "pull" /\ goto(r, c, "done")
      /\ UNCHANGED <<kernel, replay, my_ids>>
  BY DEF Pull, at
<1>2. \A b \in Block : pc'[r][b] = IF b = c THEN "done" ELSE pc[r][b]
  BY <1>1, GotoType DEF Label, TypeInv
<1>3. \A tau \in Token : out'[r][tau] =
        IF tau % Grid = c
        THEN UNION {row_sum(p[1], p[2]) : p \in pull_src[r][tau]} ELSE out[r][tau]
  BY DEF Pull, mine, TypeInv, ShapeInv
<1>4. \A tau \in Token : tau % Grid = c => out'[r][tau] = expected(r, tau)
  BY <1>1, <1>3, PullExact
<1>5. kernel[r] = "combine"  BY <1>1, AllSummed
<1>6. \A tau \in Token : expected(r, tau)' = expected(r, tau)
  <2> TAKE tau \in Token
  <2>1. Origin(r, tau)' = Origin(r, tau)  BY <1>1 DEF Origin
  <2> QED BY <2>1 DEF expected, addends
<1> QED BY <1>1, <1>2, <1>3, <1>4, <1>5, <1>6, TokenCTA DEF Out

(* Every step of a behaviour in which nothing has given up keeps the       *)
(* outputs.                                                                *)
LEMMA OutStep ==
  ASSUME TypeInv, CoreInv, SenderInv, PlanInv, PartInv, OutInv, [Next]_vars,
         \A r \in Rank, c \in Block : ~TimeOut(r, c)
  PROVE  OutInv'
<1> SUFFICES ASSUME clean', NEW d \in Rank PROVE Out(d)'
  BY DEF OutInv, Out
<1>1. CASE Gate
  <2>1. kernel'[d] = "idle" /\ \A tau \in Token : out'[d][tau] = NotWritten
    BY <1>1 DEF Gate, joined, stream
  <2> QED BY <2>1 DEF Out
<1>2. CASE UNCHANGED vars
  <2>1. clean /\ UNCHANGED <<kernel, pc, replay, my_ids, out>>
    BY <1>2 DEF vars, stream, clean
  <2> QED BY <2>1, OutKept DEF OutInv, Out
<1>3. CASE Next /\ ~Gate
  <2>1. clean  BY <1>3, PerrKept
  <2>2. Out(d)  BY <2>1 DEF OutInv, Out
  <2>3. ASSUME UNCHANGED <<kernel, pc, replay, my_ids, out>> PROVE Out(d)'
    BY <2>2, <2>3, OutKept
  <2>4. ASSUME NEW r \in Rank, NEW c \in Block, Push(r, c) PROVE Out(d)'
    BY <2>3, <2>4 DEF Push, stream
  <2>5. ASSUME NEW m \in posted, Deliver(m) PROVE Out(d)'
    BY <2>3, <2>5 DEF Deliver, stream
  <2>6. ASSUME NEW r \in Rank, Local(r), d # r PROVE Out(d)'
    <3>1. Untouched(d)  BY <2>6, Elsewhere
    <3> QED BY <2>2, <3>1, OutKept DEF Untouched, Same
  <2>7. CASE Launch(d)
    <3>1. kernel'[d] \in {"push", "mega"}  BY <2>7 DEF Launch, begin, TypeInv, TypeOK
    <3> QED BY <3>1 DEF Out
  <2>8. CASE Gemm(d)
    <3>1. kernel'[d] = "combine" /\ \A c \in Block : pc'[d][c] = "start"
      BY <2>8 DEF Gemm, begin, successor, TypeInv, TypeOK
    <3> QED BY <3>1, TokenCTA DEF Out
  <2>9. CASE KernelEnd(d)
    <3>1. /\ \A c \in Block : pc[d][c] = "done"
          /\ UNCHANGED <<replay, my_ids, out>>
      BY <2>9 DEF KernelEnd, at
    <3>2. \/ kernel[d] = "combine" /\ kernel'[d] = "idle"
          \/ kernel'[d] \in {"dsort", "gemm"}
      BY <2>9 DEF KernelEnd, successor, TypeInv, TypeOK
    <3>3. \A tau \in Token : expected(d, tau)' = expected(d, tau)
      <4> TAKE tau \in Token
      <4>1. Origin(d, tau)' = Origin(d, tau)  BY <3>1 DEF Origin
      <4> QED BY <4>1 DEF expected, addends
    <3> QED BY <2>2, <3>1, <3>2, <3>3, TokenCTA DEF Out
  <2>10. ASSUME NEW c \in Block,
                \/ Start(d, c) \/ Publish(d, c) \/ Plan(d, c) \/ Scatter(d, c)
                \/ Tail(d, c) \/ Acquire(d, c) \/ Cross(d, c)
         PROVE  Out(d)'
    <3>1. kernel' = kernel /\ kernel[d] \notin {"combine", "idle"}
      BY <2>10 DEF Start, Publish, Plan, Scatter, Tail, Acquire, read_T_loc, sorts, Cross,
                   cross, at, TypeInv, PlaceInv, places, TypeOK
    <3> QED BY <3>1 DEF Out
  <2>11. ASSUME NEW c \in Block, Arrive(d, c) \/ Enter(d, c) PROVE Out(d)'
    <3>1. UNCHANGED <<kernel, replay, my_ids, out>>
      BY <2>11 DEF Arrive, Enter, enter
    <3>2. PICK l \in {"wait", "pull"} : goto(d, c, l)  BY <2>11 DEF Arrive, Enter, enter
    <3>3. \A b \in Block : pc'[d][b] = IF b = c THEN l ELSE pc[d][b]
      BY <3>2, GotoType DEF Label, TypeInv
    <3> QED BY <2>2, <3>1, <3>3, OutKept
  <2>12. ASSUME NEW c \in Block, Pull(d, c) PROVE Out(d)'
    BY <2>1, <2>2, <2>12, OutPull
  <2> QED BY <1>3, <2>4, <2>5, <2>6, <2>7, <2>8, <2>9, <2>10, <2>11, <2>12
          DEF Next, Work, Wait, Local
<1> QED BY <1>1, <1>2, <1>3

-----------------------------------------------------------------------------
(* Before the first replay nothing is planned, wanted or finished.         *)
LEMMA SumInit == Init => SumInv
<1> SUFFICES ASSUME Init PROVE PlanInv /\ PartInv /\ OutInv
  BY DEF SumInv
<1>1. \A s \in Rank : /\ replay[s] = 0 /\ kernel[s] = "idle"
                      /\ \A tau \in Token : pull_stage[s][tau] = {}
                      /\ pull_src[s] = pull_stage[s]
  BY DEF Init
<1>2. PlanInv
  BY <1>1 DEF PlanInv, Sized, Listed, Cleared, consumed, sorts
<1>3. PartInv  BY <1>1 DEF PartInv
<1>4. OutInv  BY <1>1 DEF OutInv
<1> QED BY <1>2, <1>3, <1>4

(* As long as nothing has given up, a step keeps the sums.                 *)
LEMMA SumStep ==
  ASSUME TypeInv, ProtocolInv, ReceiveInv, SumInv, [Next]_vars
  PROVE  SumInv'
<1> SUFFICES ASSUME expired' = 0 PROVE PlanInv' /\ PartInv' /\ OutInv'
  BY DEF SumInv
<1>1. expired = 0 /\ \A r \in Rank, c \in Block : ~TimeOut(r, c)  BY ExpiredStays
<1>2. CoreInv /\ SenderInv /\ ClaimInv /\ PlanInv /\ PartInv /\ OutInv
  BY <1>1 DEF ProtocolInv, ReceiveInv, SenderInv, SumInv
<1> QED BY <1>1, <1>2, PlanStep, PartStep, OutStep

(* The plan, the partial sums and the outputs of every rank are those of   *)
(* its replay, as long as no wait has given up (k0d_mega.hip, k0d_combine).*)
THEOREM SumCorrect ==
  ASSUME NoWrap PROVE Spec /\ TrustedGate => []SumInv
<1>1. TypeInv /\ ProtocolInv /\ ReceiveInv /\ SumInv /\ [Next]_vars => SumInv'
  BY SumStep
<1> QED BY <1>1, SumInit, TypeCorrect, ProtocolCorrect, ReceiveCorrect, PTL DEF Spec

(* The outputs of the invariant are those of the property.                 *)
LEMMA OutputFact == ProtocolInv /\ SumInv => OutputCorrect
<1> SUFFICES ASSUME ProtocolInv, SumInv, clean PROVE OutInv
  BY DEF OutputCorrect, OutInv
<1> QED BY DEF ProtocolInv, SumInv

(* The output of a finished replay is the sum over its token's experts, or *)
(* an error word is set (the pperr gates of harness/region_ab.py).         *)
THEOREM OutputsCorrect ==
  ASSUME NoWrap PROVE Spec /\ TrustedGate => []OutputCorrect
<1> QED BY ProtocolCorrect, SumCorrect, OutputFact, PTL

(* When every wait is as long as it takes, the gate needs no trust: all    *)
(* four properties of the decode pipeline hold of the specification alone. *)
COROLLARY PatientWaits ==
  ASSUME NoWrap, \A x \in Scenarios : x.giving_up = 0
  PROVE  Spec => [](OutputCorrect /\ ReceiveStable /\ PartStable /\ ResetExact)
<1>1. TypeInv => expired = 0
  <2> SUFFICES ASSUME TypeInv PROVE expired = 0
    OBVIOUS
  <2>1. scenario.giving_up = 0 /\ expired \in 0 .. scenario.giving_up
    BY DEF TypeInv, TypeOK
  <2> QED BY <2>1
<1>2. Spec => TrustedGate
  <2>1. TypeInv => [Gate => expired = 0]_vars  BY <1>1
  <2> QED BY <2>1, TypeCorrect, PTL DEF TrustedGate
<1> QED BY <1>2, OutputsCorrect, ReceiveBufferStable, PartSumsStable,
           ResetLosesNothing, PTL

-----------------------------------------------------------------------------
(* Waits are as long as they take, and a receive buffer has a row for      *)
(* every token of the node (harness/region_ab.py:94-96).                   *)
Roomy == \A x \in Scenarios : x.giving_up = 0 /\ World * T <= x.rows

(* No rank has more rows than the node has tokens, and no error word.      *)
RoomInv == clean /\ \A d \in Rank : dest_counter[d] <= World * T

-----------------------------------------------------------------------------
(* Without time-outs nothing ever gives up ...                             *)
LEMMA Patient ==
  ASSUME TypeInv, \A x \in Scenarios : x.giving_up = 0
  PROVE  expired = 0 /\ \A r \in Rank, c \in Block : ~TimeOut(r, c)
<1>1. scenario.giving_up = 0 /\ expired \in 0 .. scenario.giving_up
  BY DEF TypeInv, TypeOK
<1>2. expired = 0 /\ ~time_out  BY <1>1 DEF time_out
<1> QED BY <1>2 DEF TimeOut, AcquireTimeOut, CrossTimeOut, EnterTimeOut

(* ... so the gate needs no trust.                                         *)
LEMMA PatientTrusts ==
  ASSUME \A x \in Scenarios : x.giving_up = 0  PROVE Spec => TrustedGate
<1>1. TypeInv => [Gate => expired = 0]_vars  BY Patient
<1> QED BY <1>1, TypeCorrect, PTL DEF TrustedGate

(* Ranks times tokens.                                                     *)
LEMMA Tokens == /\ IsFiniteSet(Rank \X Token)
                /\ Cardinality(Rank \X Token) = World * T
<1>1. IsFiniteSet(Rank) /\ Cardinality(Rank) = World
  BY FS_Interval, Constants DEF Rank
<1>2. IsFiniteSet(Token) /\ Cardinality(Token) = T
  BY FS_Interval, Constants DEF Token
<1> QED BY <1>1, <1>2, FS_Product

(* A token that has still to be pushed to a rank has no row there, and     *)
(* each row there is another token's: there is room for one more.          *)
LEMMA RoomForOne ==
  ASSUME TypeInv, CoreInv, SenderInv, ClaimInv, NEW r \in Rank, NEW c \in Block,
         pushes(r, c), NEW tau \in Token, NEW e \in Rank, <<tau, e>> \in todo[r][c],
         alive(e)
  PROVE  dest_counter[e] < World * T
<1> PICK n \in Nat : n = dest_counter[e]  BY DEF TypeInv, TypeOK
<1>1. tau % Grid = c
  <2>1. \A p \in todo[r][c] : p[1] % Grid = c  BY DEF SenderInv, TodoInv
  <2>2. <<tau, e>>[1] = tau  OBVIOUS
  <2> QED BY <2>1, <2>2
<1>2. replay[r] = filling(e)  BY PusherCurrent DEF CoreInv
<1>3. Claim(e) /\ rows(e) = n
  <2>1. kernel[e] # "gemm" /\ (sorts(e) => ~acquired(e, 0))
    BY PusherAhead, BlockFacts DEF CoreInv
  <2>2. ~(sorts(e) /\ pc[e][0] = "done")  BY <2>1 DEF acquired
  <2> QED BY <2>1, <2>2 DEF ClaimInv, rows
<1>4. replay[r] > 0  BY Derived DEF pushes
<1> DEFINE Rest == (Rank \X Token) \ {<<r, tau>>}
           claimed(i, w) == claims(w[1], w[2], e, i)
           f == [i \in 0 .. n - 1 |-> CHOOSE w \in Rest : claimed(i, w)]
<1>5. \A i \in 0 .. n - 1 : \E w \in Rest : claimed(i, w)
  <2> TAKE i \in 0 .. n - 1
  <2>1. PICK s \in Rank, sigma \in Token : claims(s, sigma, e, i)
    BY <1>3 DEF Claim
  <2>2. ~(s = r /\ sigma = tau)
    <3> SUFFICES ASSUME s = r, sigma = tau PROVE FALSE
      OBVIOUS
    <3>1. <<e, i>> \in pull_stage[r][tau] /\ begun(r, tau)  BY <2>1 DEF claims
    <3>2. \A p \in pull_stage[r][tau] : <<tau, p[1]>> \notin todo[r][c]
      BY <1>1, <1>4, <3>1 DEF SenderInv, StageInv
    <3>3. <<e, i>>[1] = e  OBVIOUS
    <3> QED BY <3>1, <3>2, <3>3
  <2>3. <<s, sigma>> \in Rest /\ <<s, sigma>>[1] = s /\ <<s, sigma>>[2] = sigma
    BY <2>2
  <2> QED BY <2>1, <2>3
<1>6. \A i \in 0 .. n - 1 : f[i] \in Rest /\ claimed(i, f[i])
  <2> HIDE DEF Rest, claimed
  <2> QED BY <1>5
<1>7. ASSUME NEW i \in 0 .. n - 1, NEW j \in 0 .. n - 1, f[i] = f[j]
      PROVE  i = j
  <2>1. PICK w \in Rest : claimed(i, w) /\ claimed(j, w)  BY <1>6, <1>7
  <2>2. PICK s \in Rank, sigma \in Token :
          claims(s, sigma, e, i) /\ claims(s, sigma, e, j)
    BY <2>1
  <2>3. replay[s] > 0  BY <1>2, <1>4, <2>2 DEF claims
  <2>4. /\ <<e, i>> \in pull_stage[s][sigma] /\ <<e, j>> \in pull_stage[s][sigma]
        /\ begun(s, sigma)
    BY <2>2 DEF claims
  <2>5. \A p, q \in pull_stage[s][sigma] : p[1] = q[1] => p = q
    BY <2>3, <2>4 DEF SenderInv, StageInv
  <2>6. <<e, i>>[1] = e /\ <<e, j>>[1] = e  OBVIOUS
  <2>7. <<e, i>> = <<e, j>>  BY <2>4, <2>5, <2>6
  <2> QED BY <2>7
<1>8. f \in Injection(0 .. n - 1, Rest)
  <2>1. f \in [0 .. n - 1 -> Rest]  BY <1>6
  <2> HIDE DEF f, Rest
  <2> QED BY <1>7, <2>1 DEF Injection, IsInjective
<1>9. IsFiniteSet(Rest) /\ Cardinality(Rest) = World * T - 1
  <2> DEFINE W == Rank \X Token
  <2>1. IsFiniteSet(W) /\ Cardinality(W) = World * T /\ <<r, tau>> \in W
    BY Tokens
  <2> HIDE DEF W
  <2>2. IsFiniteSet(W \ {<<r, tau>>}) /\ Cardinality(W \ {<<r, tau>>}) = World * T - 1
    BY <2>1, FS_RemoveElement
  <2> QED BY <2>2 DEF W
<1>10. Cardinality(0 .. n - 1) <= World * T - 1
  <2> HIDE DEF f, Rest
  <2> QED BY <1>8, <1>9, FS_Injection
<1>11. Cardinality(0 .. n - 1) = n  BY FS_Interval
<1> QED BY <1>10, <1>11, Constants

(* With room for every token, every count fits.                            *)
LEMMA AllAlive ==
  ASSUME Roomy, TypeInv, RoomInv
  PROVE  \A d \in Rank : alive(d) /\ dest_counter[d] \in Nat
<1>1. World * T <= scenario.rows /\ scenario.rows \in Nat
  BY ScenarioType DEF Roomy, TypeInv, TypeOK
<1>2. World * T \in Nat  BY Constants
<1>3. \A d \in Rank : dest_counter[d] \in Nat  BY DEF TypeInv, TypeOK
<1> QED BY <1>1, <1>2, <1>3 DEF RoomInv, alive, fits

(* No step takes the last row of a buffer or sets an error word.           *)
LEMMA RoomStep ==
  ASSUME Roomy, TypeInv, CoreInv, SenderInv, ClaimInv, RoomInv, [Next]_vars
  PROVE  RoomInv'
<1>1. ASSUME UNCHANGED dest_counter,
             pperr' = pperr \/ \E r \in Rank : raise(r, {})
      PROVE  RoomInv'
  <2>1. \A r \in Rank : pperr'[r] = pperr[r]
    BY <1>1 DEF raise, TypeInv, TypeOK
  <2> QED BY <1>1, <2>1 DEF RoomInv, clean
<1>2. ASSUME NEW r \in Rank, Launch(r) \/ KernelEnd(r) \/ Gemm(r)
      PROVE  RoomInv'
  BY <1>1, <1>2 DEF Launch, KernelEnd, Gemm, inbox
<1>3. ASSUME NEW r \in Rank, NEW c \in Block, Cross(r, c) \/ Enter(r, c)
      PROVE  RoomInv'
  BY <1>1, <1>3 DEF Cross, cross, Enter, enter, inbox
<1>4. ASSUME NEW r \in Rank, NEW c \in Block, Acquire(r, c)
      PROVE  RoomInv'
  <2>1. fits(dest_counter[r])  BY AllAlive DEF alive
  <2>2. raise(r, {}) /\ dest_counter' = dest_counter
    BY <1>4, <2>1 DEF Acquire, read_T_loc, inbox
  <2> QED BY <1>1, <2>2
<1>5. ASSUME NEW r \in Rank, NEW c \in Block,
             \/ Start(r, c) \/ Publish(r, c) \/ Plan(r, c) \/ Scatter(r, c)
             \/ Arrive(r, c) \/ Pull(r, c)
      PROVE  RoomInv'
  BY <1>1, <1>5 DEF Start, Publish, Plan, Scatter, Arrive, Pull, inbox
<1>6. ASSUME NEW m \in posted, Deliver(m) PROVE RoomInv'
  BY <1>1, <1>6 DEF Deliver
<1>7. ASSUME NEW r \in Rank, NEW c \in Block, Tail(r, c) PROVE RoomInv'
  <2>1. \A d \in Rank : dest_counter'[d] = IF d = r THEN 0 ELSE dest_counter[d]
    BY <1>7 DEF Tail, TypeInv, TypeOK
  <2>2. pperr' = pperr  BY <1>7 DEF Tail
  <2>3. 0 <= World * T  BY Constants
  <2> QED BY <2>1, <2>2, <2>3 DEF RoomInv, clean
<1>8. ASSUME NEW r \in Rank, NEW c \in Block, Push(r, c) PROVE RoomInv'
  <2>1. PICK tau \in Token, e \in Rank :
          /\ <<tau, e>> \in todo[r][c]
          /\ dest_counter' = [dest_counter EXCEPT ![e] = @ + 1]
          /\ dest_counter[e] \in Row => UNCHANGED pperr
    <3>1. PICK p \in todo[r][c] :
            /\ dest_counter' = [dest_counter EXCEPT ![p[2]] = @ + 1]
            /\ dest_counter[p[2]] \in Row => UNCHANGED pperr
      BY <1>8 DEF Push
    <3>2. p[1] \in Token /\ p[2] \in Rank /\ p = <<p[1], p[2]>>
      BY DEF TypeInv, TypeOK
    <3> QED BY <3>1, <3>2
  <2>2. pushes(r, c)
    <3>1. todo[r][c] # {}  BY <2>1
    <3> QED BY <3>1 DEF SenderInv, TodoInv
  <2>3. dest_counter[e] \in Nat /\ dest_counter[e] < World * T
    BY <2>1, <2>2, AllAlive, RoomForOne
  <2>4. World * T <= scenario.rows /\ World * T \in Nat /\ scenario.rows \in Nat
    BY ScenarioType, Constants DEF Roomy, TypeInv, TypeOK
  <2>5. dest_counter[e] \in Row  BY <2>3, <2>4 DEF Row
  <2>6. \A d \in Rank : dest_counter'[d] = IF d = e THEN dest_counter[e] + 1
                                           ELSE dest_counter[d]
    BY <2>1 DEF TypeInv, TypeOK
  <2> QED BY <2>1, <2>3, <2>4, <2>5, <2>6 DEF RoomInv, clean
<1>9. ~Gate  BY DEF RoomInv, clean, Gate
<1>10. \A r \in Rank, c \in Block : ~TimeOut(r, c)
  BY Patient DEF Roomy
<1>11. CASE UNCHANGED vars  BY <1>1, <1>11 DEF vars, inbox
<1> QED BY <1>2, <1>3, <1>4, <1>5, <1>6, <1>7, <1>8, <1>9, <1>10, <1>11
        DEF Next, Work, Wait

(* What is invariant when there is room.                                   *)
LayerInv == /\ TypeInv /\ CoreInv /\ SenderInv /\ ClaimInv
            /\ PlanInv /\ PartInv /\ OutInv /\ RoomInv

(* A layer with room for every token and patience never sets an error      *)
(* word, and no rank ever counts more rows than the node has tokens.       *)
THEOREM NeverAlarmed ==
  ASSUME NoWrap, Roomy PROVE Spec => []LayerInv
<1>1. Spec => [](TypeInv /\ ProtocolInv /\ ReceiveInv /\ SumInv)
  <2>1. Spec => TrustedGate  BY PatientTrusts DEF Roomy
  <2> QED BY <2>1, TypeCorrect, ProtocolCorrect, ReceiveCorrect, SumCorrect, PTL
<1>2. TypeInv /\ ProtocolInv /\ ReceiveInv /\ SumInv =>
        CoreInv /\ SenderInv /\ ClaimInv /\ PlanInv /\ PartInv /\ OutInv
  BY Patient DEF Roomy, ProtocolInv, ReceiveInv, SumInv, SenderInv
<1>3. Init => RoomInv
  <2> SUFFICES ASSUME Init PROVE RoomInv
    OBVIOUS
  <2>1. \A d \in Rank : pperr[d] = {} /\ dest_counter[d] = 0  BY DEF Init
  <2>2. 0 <= World * T  BY Constants
  <2> QED BY <2>1, <2>2 DEF RoomInv, clean
<1>4. TypeInv /\ CoreInv /\ SenderInv /\ ClaimInv /\ RoomInv /\ [Next]_vars => RoomInv'
  BY RoomStep
<1> QED BY <1>1, <1>2, <1>3, <1>4, PTL DEF Spec, LayerInv

(* The outputs of a finished replay, without an error word to hide behind. *)
OutputsExact ==
  \A r \in Rank : kernel[r] = "idle" /\ replay[r] > 0 =>
    \A tau \in Token : out[r][tau] = expected(r, tau)

(* Only the end of a combine makes a rank idle, and then all its outputs   *)
(* are written.                                                            *)
LEMMA ExactStep ==
  ASSUME Roomy, LayerInv, OutputsExact, [Next]_vars
  PROVE  OutputsExact'
<1> USE DEF LayerInv
<1> SUFFICES ASSUME NEW d \in Rank, kernel'[d] = "idle", replay'[d] > 0,
                    NEW tau \in Token
             PROVE  out'[d][tau] = expected(d, tau)'
  BY DEF OutputsExact
<1>1. ASSUME kernel[d] = "idle", replay[d] > 0,
             replay'[d] = replay[d], my_ids'[d] = my_ids[d], out'[d] = out[d]
      PROVE  out'[d][tau] = expected(d, tau)'
  <2>1. Origin(d, tau)' = Origin(d, tau)  BY <1>1 DEF Origin
  <2>2. expected(d, tau)' = expected(d, tau)  BY <2>1 DEF expected, addends
  <2> QED BY <1>1, <2>2 DEF OutputsExact
<1>2. ASSUME UNCHANGED <<kernel, replay, my_ids, out>>
      PROVE  out'[d][tau] = expected(d, tau)'
  BY <1>1, <1>2
<1>3. ASSUME NEW r \in Rank, NEW c \in Block, Push(r, c)
      PROVE  out'[d][tau] = expected(d, tau)'
  BY <1>2, <1>3 DEF Push, stream
<1>4. ASSUME NEW m \in posted, Deliver(m)
      PROVE  out'[d][tau] = expected(d, tau)'
  BY <1>2, <1>4 DEF Deliver, stream
<1>5. ASSUME NEW r \in Rank, Local(r), d # r
      PROVE  out'[d][tau] = expected(d, tau)'
  <2>1. Untouched(d)  BY <1>5, Elsewhere
  <2> QED BY <1>1, <2>1 DEF Untouched, Same
<1>6. ASSUME Launch(d) \/ Gemm(d)
      PROVE  out'[d][tau] = expected(d, tau)'
  BY <1>6 DEF Launch, Gemm, begin, successor, TypeInv, TypeOK
<1>7. ASSUME KernelEnd(d)
      PROVE  out'[d][tau] = expected(d, tau)'
  <2>1. /\ kernel[d] = "combine" /\ \A c \in Block : pc[d][c] = "done"
        /\ UNCHANGED <<replay, my_ids, out>>
    BY <1>7 DEF KernelEnd, successor, at, TypeInv, TypeOK
  <2>2. out[d][tau] = expected(d, tau)
    BY <2>1, TokenCTA DEF OutInv, RoomInv
  <2>3. Origin(d, tau)' = Origin(d, tau)  BY <2>1 DEF Origin
  <2>4. expected(d, tau)' = expected(d, tau)  BY <2>3 DEF expected, addends
  <2> QED BY <2>1, <2>2, <2>4
<1>8. ASSUME NEW c \in Block, (Work(d, c) /\ ~Push(d, c)) \/ Wait(d, c)
      PROVE  out'[d][tau] = expected(d, tau)'
  <2>1. kernel' = kernel
    BY <1>8 DEF Work, Start, Publish, Plan, Scatter, Tail, Arrive, Pull,
                Wait, Acquire, read_T_loc, Cross, cross, Enter, enter
  <2>2. pc[d][c] = "done"  BY <2>1 DEF TypeInv, PlaceInv, places
  <2>3. FALSE
    BY <2>1, <2>2, <1>8 DEF Work, Start, Publish, Plan, Scatter, Tail, Arrive, Pull,
                Wait, Acquire, Cross, Enter, at
  <2> QED BY <2>3
<1>9. ~Gate  BY DEF RoomInv, clean, Gate
<1>10. \A r \in Rank, c \in Block : ~TimeOut(r, c)  BY Patient DEF Roomy
<1>11. CASE UNCHANGED vars  BY <1>2, <1>11 DEF vars, stream
<1> QED BY <1>3, <1>4, <1>5, <1>6, <1>7, <1>8, <1>9, <1>10, <1>11 DEF Next, Local, Work, Wait

(* With room and patience every output of every finished replay is the sum *)
(* over its token's experts, without exception (k0d_combine.hip).          *)
THEOREM OutputsAlwaysExact ==
  ASSUME NoWrap, Roomy PROVE Spec => []OutputsExact
<1>1. Init => OutputsExact  BY DEF Init, OutputsExact
<1>2. LayerInv /\ OutputsExact /\ [Next]_vars => OutputsExact'  BY ExactStep
<1> QED BY <1>1, <1>2, NeverAlarmed, PTL DEF Spec

-----------------------------------------------------------------------------
(* The barrier at the head of k0d_combine.  Its counter is whole launches  *)
(* plus the CTAs at or past it, whatever gives up; an arrival is on its    *)
(* way only while all CTAs of its sender are; and an error bit of this     *)
(* barrier says that a wait has given up.                                  *)
headed(r) == {c \in Block : head(r, c) # "ready"}
HeadInv ==
  /\ \A r \in Rank : arr_count[r] = started(r) * Grid + Cardinality(headed(r))
  /\ \A s, d \in Rank : on_way("arrival", s, d) => headed(s) = Block
  /\ \A r \in Rank : ErrArrival \in pperr[r] => expired > 0

(* What the barrier looks at.                                              *)
Quiet == /\ \A r \in Rank : started(r)' = started(r)
         /\ \A r \in Rank, c \in Block : head(r, c)' = head(r, c)
         /\ \A s, d \in Rank : on_way("arrival", s, d)' <=> on_way("arrival", s, d)
         /\ \A r \in Rank : ErrArrival \in pperr'[r] <=> ErrArrival \in pperr[r]
         /\ UNCHANGED <<s_N, arr_count, arr_flags>>
         /\ expired' >= expired

(* Of one sender and one receiver at most one arrival is on its way.       *)
LEMMA OneArrival ==
  ASSUME NEW P, NEW s, NEW d, NEW arrival,
         arrival = [kind |-> "arrival", from |-> s, to |-> d],
         \A m \in P : m.kind = "arrival" /\ m.from = s /\ m.to = d => m = arrival
  PROVE  Cardinality({m \in P : m.kind = "arrival" /\ m.from = s /\ m.to = d}) =
           one(arrival \in P)
<1> DEFINE M == {m \in P : m.kind = "arrival" /\ m.from = s /\ m.to = d}
<1>1. CASE arrival \in P
  <2>1. M = {arrival}  BY <1>1
  <2>2. Cardinality({arrival}) = 1  BY FS_Singleton
  <2> QED BY <1>1, <2>1, <2>2 DEF one
<1>2. CASE arrival \notin P
  <2>1. M = {}  BY <1>2
  <2> QED BY <1>2, <2>1, BlockFacts DEF one
<1> QED BY <1>1, <1>2

(* That is what in_flight counts, before and after a step.                 *)
LEMMA InFlight ==
  ASSUME TypeInv, TypeInv', NEW s \in Rank, NEW d \in Rank
  PROVE  /\ in_flight(s, d) = one(on_way("arrival", s, d))
         /\ in_flight(s, d)' = one(on_way("arrival", s, d)')
<1> DEFINE arrival == [kind |-> "arrival", from |-> s, to |-> d]
<1>1. \A m \in posted : m.kind = "arrival" /\ m.from = s /\ m.to = d => m = arrival
  BY DEF TypeInv, PostedInv, Signal, is_row
<1>2. \A m \in posted' : m.kind = "arrival" /\ m.from = s /\ m.to = d => m = arrival
  BY DEF TypeInv, PostedInv, Signal, is_row
<1>3. /\ in_flight(s, d) = one(arrival \in posted)
      /\ in_flight(s, d)' = one(arrival \in posted')
  <2> HIDE DEF arrival
  <2>1. arrival = [kind |-> "arrival", from |-> s, to |-> d]  BY DEF arrival
  <2> QED BY <1>1, <1>2, <2>1, OneArrival DEF in_flight
<1> QED BY <1>3 DEF on_way

(* A quiet step is a stutter of the barrier.                               *)
LEMMA QuietStutters ==
  ASSUME TypeInv, TypeInv', Quiet
  PROVE  UNCHANGED PB!vars
<1>1. \A s, d \in Rank : in_flight(s, d)' = in_flight(s, d)
  <2> TAKE s \in Rank, d \in Rank
  <2>1. /\ in_flight(s, d) = one(on_way("arrival", s, d))
        /\ in_flight(s, d)' = one(on_way("arrival", s, d)')
    BY InFlight
  <2> QED BY <2>1 DEF Quiet, one
<1>2. [r \in Rank |-> [c \in Block |-> head(r, c)]]' =
        [r \in Rank |-> [c \in Block |-> head(r, c)]]
  BY DEF Quiet
<1>3. [s \in Rank |-> [r \in Rank |-> in_flight(s, r)]]' =
        [s \in Rank |-> [r \in Rank |-> in_flight(s, r)]]
  BY <1>1
<1>4. [r \in Rank |-> started(r)]' = [r \in Rank |-> started(r)]
  BY DEF Quiet
<1>5. [r \in Rank |-> ErrArrival \in pperr[r]]' = [r \in Rank |-> ErrArrival \in pperr[r]]
  <2>1. \A r \in Rank : (ErrArrival \in pperr'[r]) = (ErrArrival \in pperr[r])
    BY DEF Quiet
  <2> QED BY <2>1
<1> QED BY <1>2, <1>3, <1>4, <1>5 DEF PB!vars, Quiet

(* And it keeps the invariant.                                             *)
LEMMA QuietKeeps ==
  ASSUME TypeInv, TypeInv', HeadInv, Quiet
  PROVE  HeadInv'
<1>1. \A r \in Rank : headed(r)' = headed(r)  BY DEF headed, Quiet
<1>2. expired \in Nat /\ expired' \in Nat
  BY ScenarioType DEF TypeInv, TypeOK
<1> QED BY <1>1, <1>2 DEF HeadInv, Quiet

(* A CTA that moves outside the head of the combine.                       *)
LEMMA HeadGoto ==
  ASSUME TypeInv, NEW r \in Rank, NEW c \in Block, NEW l \in Label, goto(r, c, l),
         UNCHANGED <<kernel, replay>>,
         kernel[r] # "combine" \/ (pc[r][c] = "pull" /\ l = "done")
  PROVE  \A q \in Rank : /\ started(q)' = started(q)
                         /\ \A b \in Block : head(q, b)' = head(q, b)
<1>1. \A q \in Rank, b \in Block : pc'[q][b] = IF q = r /\ b = c THEN l ELSE pc[q][b]
  BY GotoType DEF TypeInv
<1>2. ASSUME NEW q \in Rank, NEW b \in Block PROVE head(q, b)' = head(q, b)
  <2>1. CASE q = r /\ b = c  BY <1>1, <2>1 DEF head
  <2>2. CASE ~(q = r /\ b = c)
    <3>1. pc'[q][b] = pc[q][b]  BY <1>1, <2>2
    <3> QED BY <3>1 DEF head
  <2> QED BY <2>1, <2>2
<1> QED BY <1>2 DEF started

(* What a step neither of the combine's head nor of the fabric does to it. *)
LEMMA QuietWork ==
  ASSUME TypeInv, HeadInv, NEW r \in Rank, NEW c \in Block,
         (Work(r, c) /\ ~Arrive(r, c)) \/ Acquire(r, c) \/ Cross(r, c)
         \/ AcquireTimeOut(r, c) \/ CrossTimeOut(r, c)
  PROVE  Quiet
<1> DEFINE
      Moves ==
        /\ UNCHANGED <<kernel, replay, s_N, arr_count, arr_flags>>
        /\ expired' = expired \/ time_out
        /\ pperr' = pperr \/ \E e \in SUBSET (ErrBits \ {ErrArrival}) : raise(r, e)
        /\ \A s, d \in Rank : on_way("arrival", s, d)' <=> on_way("arrival", s, d)
        /\ \/ pc' = pc
           \/ \E l \in Label : goto(r, c, l) /\ (kernel[r] # "combine" \/
                                                 (pc[r][c] = "pull" /\ l = "done"))
<1>1. Moves
  <2>0. /\ {} \in SUBSET (ErrBits \ {ErrArrival}) /\ {} \cup {} = {}
        /\ {Overflow} \in SUBSET (ErrBits \ {ErrArrival})
        /\ {ErrTloc} \in SUBSET (ErrBits \ {ErrArrival}) /\ {} \cup {ErrTloc} = {ErrTloc}
        /\ {ErrDoorbell} \in SUBSET (ErrBits \ {ErrArrival})
        /\ {ErrDoorbell} \cup {} = {ErrDoorbell}
        /\ {ErrDoorbell, ErrTloc} \in SUBSET (ErrBits \ {ErrArrival})
        /\ {ErrDoorbell} \cup {ErrTloc} = {ErrDoorbell, ErrTloc}
        /\ {ErrGrid} \in SUBSET (ErrBits \ {ErrArrival})
    BY DEF ErrBits, ErrArrival, Overflow, ErrTloc, ErrDoorbell, ErrGrid
  <2>a. pc[r][c] \in places(kernel[r])  BY DEF TypeInv, PlaceInv
  <2>1. CASE Start(r, c)
    <3>1. \E l \in Label : goto(r, c, l) /\ kernel[r] # "combine"
      BY <2>1 DEF Start, Label
    <3> QED BY <2>1, <3>1 DEF Start, inbox, counters, on_way
  <2>2. CASE Push(r, c)
    <3>1. posted' = posted \/ \E m : m.kind = "row" /\ posted' = posted \cup {m}
      BY <2>2 DEF Push
    <3>2. \A s, d \in Rank : on_way("arrival", s, d)' <=> on_way("arrival", s, d)
      BY <3>1 DEF on_way
    <3>3. pperr' = pperr \/ raise(r, {Overflow})  BY <2>2 DEF Push
    <3> QED BY <2>0, <2>2, <3>2, <3>3 DEF Push, stream, counters
  <2>3. CASE Publish(r, c)
    <3>1. posted' = posted \/ posted' = posted \cup signal("doorbell", r)
      BY <2>3 DEF Publish
    <3>2. \A s, d \in Rank : on_way("arrival", s, d)' <=> on_way("arrival", s, d)
      BY <3>1 DEF on_way, signal
    <3>3. kernel[r] # "combine"  BY <2>3, <2>a DEF Publish, at, places
    <3>4. \E l \in Label : goto(r, c, l)  BY <2>3 DEF Publish, Label
    <3> QED BY <2>3, <3>2, <3>3, <3>4 DEF Publish, inbox, regs
  <2>4. CASE Plan(r, c)
    <3>1. kernel[r] # "combine" /\ goto(r, c, "gbar") /\ "gbar" \in Label
      BY <2>4, <2>a DEF Plan, at, places, Label
    <3> QED BY <2>4, <3>1 DEF Plan, inbox, on_way
  <2>5. CASE Scatter(r, c)
    <3>1. kernel[r] # "combine" /\ \E l \in Label : goto(r, c, l)
      BY <2>5, <2>a DEF Scatter, at, places, Label
    <3> QED BY <2>5, <3>1 DEF Scatter, inbox, counters, regs, on_way
  <2>6. CASE Tail(r, c)
    <3>1. kernel[r] # "combine" /\ \E l \in Label : goto(r, c, l)
      BY <2>6, <2>a DEF Tail, at, places, Label
    <3> QED BY <2>6, <3>1 DEF Tail, regs, on_way
  <2>7. CASE Pull(r, c)
    <3>1. \E l \in Label : goto(r, c, l) /\ pc[r][c] = "pull" /\ l = "done"
      BY <2>7 DEF Pull, at, Label
    <3> QED BY <2>7, <3>1 DEF Pull, inbox, counters, regs, on_way
  <2>8. ASSUME NEW bits \in {{}, {ErrDoorbell}}, sorts(r), read_T_loc(r, c, bits),
               expired' = expired \/ time_out
        PROVE  Moves
    <3>1. kernel[r] # "combine"  BY <2>8 DEF sorts
    <3>2. \E l \in Label : goto(r, c, l)  BY <2>8 DEF read_T_loc, Label
    <3>3. raise(r, bits) \/ raise(r, bits \cup {}) \/ raise(r, bits \cup {ErrTloc})
      BY <2>8 DEF read_T_loc
    <3>4. \E e \in SUBSET (ErrBits \ {ErrArrival}) : raise(r, e)
      BY <2>0, <2>8, <3>3
    <3> QED BY <2>8, <3>1, <3>2, <3>4 DEF read_T_loc, inbox, counters, on_way
  <2>9. CASE Acquire(r, c) \/ AcquireTimeOut(r, c)
    BY <2>8, <2>9 DEF Acquire, AcquireTimeOut
  <2>10. CASE Cross(r, c) \/ CrossTimeOut(r, c)
    <3>1. kernel[r] # "combine" /\ goto(r, c, "scatter") /\ "scatter" \in Label
      BY <2>10, <2>a DEF Cross, CrossTimeOut, cross, at, places, Label
    <3>2. raise(r, {}) \/ raise(r, {ErrGrid})
      BY <2>10 DEF Cross, CrossTimeOut, cross
    <3>3. \E e \in SUBSET (ErrBits \ {ErrArrival}) : raise(r, e)
      BY <2>0, <3>2
    <3> QED BY <2>10, <3>1, <3>3
            DEF Cross, CrossTimeOut, cross, inbox, counters, regs, on_way
  <2> QED BY <2>1, <2>2, <2>3, <2>4, <2>5, <2>6, <2>7, <2>9, <2>10 DEF Work
<1>2. \A q \in Rank : /\ started(q)' = started(q)
                      /\ \A b \in Block : head(q, b)' = head(q, b)
  <2>1. CASE pc' = pc  BY <1>1, <2>1 DEF started, head
  <2>2. CASE pc' # pc  BY <1>1, <2>2, HeadGoto
  <2> QED BY <2>1, <2>2
<1>3. \A q \in Rank : ErrArrival \in pperr'[q] <=> ErrArrival \in pperr[q]
  <2>1. ASSUME NEW e \in SUBSET (ErrBits \ {ErrArrival}), raise(r, e), NEW q \in Rank
        PROVE  ErrArrival \in pperr'[q] <=> ErrArrival \in pperr[q]
    <3>1. pperr'[q] = IF q = r THEN pperr[r] \cup e ELSE pperr[q]
      BY <2>1 DEF raise, TypeInv, TypeOK
    <3>2. ErrArrival \notin e  BY <2>1
    <3> QED BY <3>1, <3>2
  <2> QED BY <1>1, <2>1
<1>4. expired' >= expired
  BY <1>1, ScenarioType DEF time_out, TypeInv, TypeOK
<1> QED BY <1>1, <1>2, <1>3, <1>4 DEF Quiet

(* The stream, up to the launch of the combine; deliveries of rows and     *)
(* doorbells; the host, while nothing has given up.                        *)
LEMMA QuietStream ==
  ASSUME TypeInv, HeadInv,
         \/ \E r \in Rank : \/ Launch(r) \/ Gemm(r)
                            \/ KernelEnd(r) /\ kernel[r] # "combine"
         \/ \E m \in posted : Deliver(m) /\ m.kind # "arrival"
         \/ Gate /\ expired = 0
         \/ UNCHANGED vars
  PROVE  Quiet
<1>1. expired \in Nat  BY ScenarioType DEF TypeInv, TypeOK
<1>2. ASSUME NEW r \in Rank, \A q \in Rank : q # r => Same(q), started(r)' = started(r),
             kernel[r] # "combine", kernel'[r] # "combine" \/ \A c \in Block : pc'[r][c] = "start",
             UNCHANGED <<s_N, arr_count, arr_flags, pperr, posted, expired>>
      PROVE  Quiet
  <2>1. \A q \in Rank : /\ started(q)' = started(q)
                        /\ \A c \in Block : head(q, c)' = head(q, c)
    <3> TAKE q \in Rank
    <3>1. CASE q = r  BY <1>2, <3>1 DEF head
    <3>2. CASE q # r  BY <1>2, <3>2 DEF head, started, Same
    <3> QED BY <3>1, <3>2
  <2> QED BY <1>1, <1>2, <2>1 DEF Quiet, on_way
<1>3. ASSUME NEW r \in Rank, Launch(r) PROVE Quiet
  <2>1. /\ kernel[r] = "idle" /\ kernel'[r] \in {"push", "mega"}
        /\ replay'[r] = replay[r] + 1 /\ \A q \in Rank : q # r => Same(q)
        /\ replay[r] \in Int
        /\ UNCHANGED <<s_N, arr_count, arr_flags, pperr, posted, expired>>
    BY <1>3 DEF Launch, begin, Same, TypeInv, TypeOK, inbox, counters, regs
  <2>2. started(r)' = started(r)  BY <2>1 DEF started
  <2> QED BY <1>2, <2>1, <2>2
<1>4. ASSUME NEW r \in Rank, Gemm(r) PROVE Quiet
  <2>1. /\ kernel[r] = "gemm" /\ kernel'[r] = "combine" /\ replay' = replay
        /\ \A c \in Block : pc'[r][c] = "start"
        /\ \A q \in Rank : q # r => Same(q)
        /\ UNCHANGED <<s_N, arr_count, arr_flags, pperr, posted, expired>>
    BY <1>4 DEF Gemm, begin, successor, Same, TypeInv, TypeOK, inbox, counters, regs
  <2>2. started(r)' = started(r)  BY <2>1 DEF started
  <2> QED BY <1>2, <2>1, <2>2
<1>5. ASSUME NEW r \in Rank, KernelEnd(r), kernel[r] # "combine" PROVE Quiet
  <2>1. /\ kernel[r] # "idle" /\ kernel'[r] \in {"dsort", "gemm"} /\ replay' = replay
        /\ \A q \in Rank : q # r => Same(q)
        /\ UNCHANGED <<s_N, arr_count, arr_flags, pperr, posted, expired>>
    BY <1>5 DEF KernelEnd, successor, Same, TypeInv, TypeOK, inbox, counters, regs
  <2>2. started(r)' = started(r)  BY <2>1 DEF started
  <2> QED BY <1>2, <1>5, <2>1, <2>2
<1>6. ASSUME NEW m \in posted, Deliver(m), m.kind # "arrival" PROVE Quiet
  <2>1. m.kind \in {"row", "doorbell"}
    BY <1>6 DEF TypeInv, PostedInv, Signal, is_row
  <2>2. /\ posted' = posted \ {m}
        /\ UNCHANGED <<kernel, pc, replay, s_N, arr_count, arr_flags, pperr, expired>>
    BY <1>6, <2>1 DEF Deliver, stream, counters, regs
  <2>3. \A s, d \in Rank : on_way("arrival", s, d)' <=> on_way("arrival", s, d)
    BY <1>6, <2>2 DEF on_way
  <2> QED BY <1>1, <2>2, <2>3 DEF Quiet, head, started
<1>7. CASE Gate /\ expired = 0
  <2>1. \A q \in Rank : ErrArrival \notin pperr'[q] /\ ErrArrival \notin pperr[q]
    BY <1>7 DEF Gate, HeadInv
  <2> QED BY <1>1, <1>7, <2>1
          DEF Gate, Quiet, head, started, on_way, stream, inbox, counters, regs
<1>8. CASE UNCHANGED vars
  BY <1>1, <1>8 DEF vars, Quiet, head, started, on_way, stream, inbox, counters, regs
<1> QED BY <1>3, <1>4, <1>5, <1>6, <1>7, <1>8

(* The size of the barrier's grid.                                         *)
LEMMA Blocks == PB!blocks = Grid /\ GB!blocks = Grid
<1>1. PB!Cardinality(Block) = Cardinality(Block)
  BY DEF PB!Cardinality, Cardinality
<1>2. GB!Cardinality(Block) = Cardinality(Block)
  BY DEF GB!Cardinality, Cardinality
<1> QED BY <1>1, <1>2, BlockFacts DEF PB!blocks, GB!blocks

(* An arrival at the head of the combine is an arrival at the barrier; the *)
(* CTA that completes the grid is the one that posts.                      *)
LEMMA HeadArrive ==
  ASSUME NoWrap, TypeInv, TypeInv', HeadInv, NEW r \in Rank, NEW c \in Block,
         Arrive(r, c)
  PROVE  HeadInv' /\ PB!Arrive(r, c)
<1>1. /\ kernel[r] = "combine" /\ pc[r][c] = "start" /\ goto(r, c, "wait")
      /\ arr_count' = [arr_count EXCEPT ![r] = bump(@)]
      /\ s_N' = [s_N EXCEPT ![r][c] = epoch_from_cumulative(arr_count[r], Grid)]
      /\ posted' = IF last_arrival(arr_count[r], Grid)
                   THEN posted \cup signal("arrival", r) ELSE posted
      /\ UNCHANGED <<kernel, replay, arr_flags, pperr, expired>>
  BY DEF Arrive, at, inbox
<1>2. \A q \in Rank, b \in Block :
        pc'[q][b] = IF q = r /\ b = c THEN "wait" ELSE pc[q][b]
  BY <1>1, GotoType DEF Label, TypeInv
<1>3. /\ head(r, c) = "ready"
      /\ \A q \in Rank, b \in Block :
           head(q, b)' = IF q = r /\ b = c THEN "wait" ELSE head(q, b)
  BY <1>1, <1>2 DEF head
<1>4. \A q \in Rank : started(q)' = started(q)  BY <1>1 DEF started
<1>5. replay[r] \in 1 .. MaxReplay /\ started(r) = replay[r] - 1
  BY <1>1, Derived DEF started
<1>6. /\ c \notin headed(r) /\ headed(r)' = headed(r) \cup {c}
      /\ \A q \in Rank : q # r => headed(q)' = headed(q)
  BY <1>3 DEF headed
<1> DEFINE k == Cardinality(headed(r))
<1>7. /\ k \in Nat /\ k < Grid /\ Cardinality(headed(r)') = k + 1
      /\ k + 1 = Grid <=> headed(r)' = Block
      /\ headed(r) # Block
  <2>1. headed(r) \in SUBSET Block /\ headed(r)' \in SUBSET Block
    BY <1>6 DEF headed
  <2>2. k \in 0 .. Grid /\ k # Grid /\ Cardinality(headed(r)') = k + 1
    BY <1>6, <2>1, CardFacts
  <2>3. k + 1 = Grid <=> headed(r)' = Block
    BY <2>1, <2>2, CardFacts
  <2> QED BY <1>6, <2>2, <2>3, Constants
<1>8. arr_count[r] = started(r) * Grid + k /\ arr_count[r] \in Nat
  BY DEF HeadInv, TypeInv, TypeOK
<1>9. arr_count[r] + Grid = replay[r] * Grid + k
  <2>1. (replay[r] - 1) * Grid + Grid = replay[r] * Grid  BY <1>5, Constants
  <2>2. (replay[r] - 1) * Grid \in Nat  BY <1>5, Constants
  <2> HIDE DEF k
  <2> QED BY <1>5, <1>7, <1>8, <2>1, <2>2, Constants
<1>10. /\ bump(arr_count[r]) = arr_count[r] + 1
       /\ last_arrival(arr_count[r], Grid) <=> headed(r)' = Block
  <2> HIDE DEF k
  <2> QED BY <1>5, <1>7, <1>8, <1>9, Cumulative
<1>11. \A q \in Rank : arr_count'[q] = IF q = r THEN arr_count[r] + 1 ELSE arr_count[q]
  BY <1>1, <1>10 DEF TypeInv, TypeOK
<1>12. \A s, d \in Rank :
         /\ on_way("arrival", s, d)' <=> \/ on_way("arrival", s, d)
                                         \/ s = r /\ headed(r)' = Block
         /\ ~on_way("arrival", r, d)
  <2>1. \A d \in Rank : ~on_way("arrival", r, d)  BY <1>7 DEF HeadInv
  <2> QED BY <1>1, <1>10, <2>1 DEF on_way, signal
<1>13. HeadInv'
  <2>1. \A q \in Rank : arr_count'[q] = started(q)' * Grid + Cardinality(headed(q)')
    <3> TAKE q \in Rank
    <3>1. CASE q = r
      <4>1. started(r) * Grid \in Nat  BY <1>5, Constants
      <4> HIDE DEF k
      <4> QED BY <1>4, <1>7, <1>8, <1>11, <3>1, <4>1
    <3>2. CASE q # r  BY <1>4, <1>6, <1>11, <3>2 DEF HeadInv
    <3> QED BY <3>1, <3>2
  <2>2. \A s, d \in Rank : on_way("arrival", s, d)' => headed(s)' = Block
    <3> TAKE s \in Rank, d \in Rank
    <3>1. CASE s = r  BY <1>12, <3>1
    <3>2. CASE s # r  BY <1>6, <1>12, <3>2 DEF HeadInv
    <3> QED BY <3>1, <3>2
  <2>3. \A q \in Rank : ErrArrival \in pperr'[q] => expired' > 0
    BY <1>1 DEF HeadInv
  <2> QED BY <2>1, <2>2, <2>3 DEF HeadInv
<1>14. [q \in Rank |-> [b \in Block |-> head(q, b)]]' =
         [[q \in Rank |-> [b \in Block |-> head(q, b)]] EXCEPT ![r][c] = "wait"]
  BY <1>3
<1>15. [s \in Rank |-> [d \in Rank |-> in_flight(s, d)]]' =
         IF last_arrival(arr_count[r], Grid)
         THEN [[s \in Rank |-> [d \in Rank |-> in_flight(s, d)]]
                 EXCEPT ![r] = [d \in Rank |-> @[d] + 1]]
         ELSE [s \in Rank |-> [d \in Rank |-> in_flight(s, d)]]
  <2>1. \A s, d \in Rank : in_flight(s, d)' =
          IF s = r /\ last_arrival(arr_count[r], Grid)
          THEN in_flight(s, d) + 1 ELSE in_flight(s, d)
    <3> TAKE s \in Rank, d \in Rank
    <3>1. /\ in_flight(s, d) = one(on_way("arrival", s, d))
          /\ in_flight(s, d)' = one(on_way("arrival", s, d)')
      BY InFlight
    <3> QED BY <1>10, <1>12, <3>1 DEF one
  <2> QED BY <2>1
<1>16. /\ [q \in Rank |-> started(q)]' = [q \in Rank |-> started(q)]
       /\ [q \in Rank |-> ErrArrival \in pperr[q]]' = [q \in Rank |-> ErrArrival \in pperr[q]]
  BY <1>1, <1>4
<1>17. started(r) < MaxReplay  BY <1>5, Constants
<1>18. PB!publish(r, c)
  BY <1>1, <1>15, Blocks
  DEF PB!publish, PB!bump, bump, PB!epoch_from_cumulative, epoch_from_cumulative,
      PB!last_arrival, last_arrival, PB!fanout_signal
<1>19. PB!Arrive(r, c)
  BY <1>1, <1>3, <1>14, <1>16, <1>17, <1>18 DEF PB!Arrive
<1> QED BY <1>13, <1>19

(* A CTA that enters the pulls passes the barrier, one that gives up       *)
(* leaves it with the error bit.                                           *)
LEMMA HeadEnter ==
  ASSUME TypeInv, TypeInv', HeadInv, NEW r \in Rank, NEW c \in Block,
         Enter(r, c) \/ EnterTimeOut(r, c)
  PROVE  HeadInv' /\ (PB!Pass(r, c) \/ PB!TimeOut(r, c))
<1>1. /\ kernel[r] = "combine" /\ pc[r][c] = "wait" /\ goto(r, c, "pull")
      /\ UNCHANGED <<kernel, replay, s_N, arr_count, arr_flags, posted>>
  BY DEF Enter, EnterTimeOut, enter, at, inbox, counters, regs
<1>2. \A q \in Rank, b \in Block :
        pc'[q][b] = IF q = r /\ b = c THEN "pull" ELSE pc[q][b]
  BY <1>1, GotoType DEF Label, TypeInv
<1>3. /\ head(r, c) = "wait"
      /\ \A q \in Rank, b \in Block :
           head(q, b)' = IF q = r /\ b = c THEN "left" ELSE head(q, b)
  BY <1>1, <1>2 DEF head
<1>4. \A q \in Rank : /\ started(q)' = started(q) /\ headed(q)' = headed(q)
                      /\ \A d \in Rank : on_way("arrival", q, d)' <=> on_way("arrival", q, d)
  BY <1>1, <1>3 DEF started, headed, on_way
<1>5. /\ [q \in Rank |-> [b \in Block |-> head(q, b)]]' =
           [[q \in Rank |-> [b \in Block |-> head(q, b)]] EXCEPT ![r][c] = "left"]
      /\ [q \in Rank |-> started(q)]' = [q \in Rank |-> started(q)]
  BY <1>3, <1>4
<1>6. [s \in Rank |-> [d \in Rank |-> in_flight(s, d)]]' =
        [s \in Rank |-> [d \in Rank |-> in_flight(s, d)]]
  BY <1>1 DEF in_flight
<1>7. expired \in Nat  BY ScenarioType DEF TypeInv, TypeOK
<1>8. CASE Enter(r, c)
  <2>1. raise(r, {}) /\ expired' = expired /\ all_arrived(r, c)
    BY <1>8 DEF Enter, enter
  <2>2. \A q \in Rank : pperr'[q] = pperr[q]  BY <2>1 DEF raise, TypeInv, TypeOK
  <2>3. HeadInv'  BY <1>1, <1>4, <2>1, <2>2 DEF HeadInv
  <2>4. PB!all_reached(r, c)
    BY <2>1 DEF all_arrived, reached, PB!all_reached, PB!reached
  <2>5. [q \in Rank |-> ErrArrival \in pperr[q]]' = [q \in Rank |-> ErrArrival \in pperr[q]]
    BY <2>2
  <2> QED BY <1>1, <1>3, <1>5, <1>6, <2>3, <2>4, <2>5 DEF PB!Pass
<1>9. CASE EnterTimeOut(r, c)
  <2>1. raise(r, {ErrArrival}) /\ time_out /\ ~all_arrived(r, c)
    BY <1>9 DEF EnterTimeOut, enter
  <2>2. \A q \in Rank : pperr'[q] = IF q = r THEN pperr[r] \cup {ErrArrival} ELSE pperr[q]
    BY <2>1 DEF raise, TypeInv, TypeOK
  <2>3. expired' = expired + 1 /\ \E x \in Scenarios : x.giving_up > 0
    <3>1. scenario.giving_up > 0 /\ scenario \in Scenarios
      BY <1>7, <2>1, ScenarioType DEF time_out, TypeInv, TypeOK
    <3> QED BY <2>1, <3>1 DEF time_out
  <2>4. HeadInv'
    <3>1. \A q \in Rank : ErrArrival \in pperr'[q] => expired' > 0
      BY <1>7, <2>3
    <3> QED BY <1>1, <1>4, <3>1 DEF HeadInv
  <2>5. ~PB!all_reached(r, c)
    BY <2>1 DEF all_arrived, reached, PB!all_reached, PB!reached
  <2>6. [q \in Rank |-> ErrArrival \in pperr[q]]' =
          [[q \in Rank |-> ErrArrival \in pperr[q]] EXCEPT ![r] = TRUE]
    <3>1. \A q \in Rank : (ErrArrival \in pperr'[q]) =
                            IF q = r THEN TRUE ELSE ErrArrival \in pperr[q]
      BY <2>2
    <3> QED BY <3>1
  <2> QED BY <1>1, <1>3, <1>5, <1>6, <2>3, <2>4, <2>5, <2>6 DEF PB!TimeOut
<1> QED BY <1>8, <1>9

(* An arrival that lands is a poke delivered.                              *)
LEMMA HeadDeliver ==
  ASSUME TypeInv, TypeInv', HeadInv, NEW m \in posted, Deliver(m), m.kind = "arrival"
  PROVE  HeadInv' /\ PB!Deliver(m.from, m.to) /\ m.from \in Rank /\ m.to \in Rank
<1>1. PICK s \in Rank, d \in Rank :
        m.from = s /\ m.to = d /\ m = [kind |-> "arrival", from |-> s, to |-> d]
  BY DEF TypeInv, PostedInv, Signal, is_row
<1>2. /\ posted' = posted \ {m}
      /\ arr_flags' = [arr_flags EXCEPT ![d][s] = bump(@)]
      /\ UNCHANGED <<kernel, pc, replay, s_N, arr_count, pperr, expired>>
  BY <1>1 DEF Deliver, stream, counters, regs
<1>3. \A q, e \in Rank : on_way("arrival", q, e)' <=>
                           on_way("arrival", q, e) /\ ~(q = s /\ e = d)
  BY <1>1, <1>2 DEF on_way
<1>4. on_way("arrival", s, d)  BY <1>1 DEF on_way
<1>5. \A q \in Rank : /\ started(q)' = started(q) /\ headed(q)' = headed(q)
                      /\ \A b \in Block : head(q, b)' = head(q, b)
  BY <1>2 DEF started, headed, head
<1>6. HeadInv'  BY <1>2, <1>3, <1>5 DEF HeadInv
<1>7. \A q, e \in Rank :
        /\ in_flight(q, e)' = IF q = s /\ e = d THEN in_flight(q, e) - 1
                              ELSE in_flight(q, e)
        /\ in_flight(s, d) > 0
  <2> TAKE q \in Rank, e \in Rank
  <2>1. /\ in_flight(q, e) = one(on_way("arrival", q, e))
        /\ in_flight(q, e)' = one(on_way("arrival", q, e)')
        /\ in_flight(s, d) = one(on_way("arrival", s, d))
    BY InFlight
  <2> QED BY <1>3, <1>4, <2>1 DEF one
<1>8. [q \in Rank |-> [e \in Rank |-> in_flight(q, e)]]' =
        [[q \in Rank |-> [e \in Rank |-> in_flight(q, e)]] EXCEPT ![s][d] = @ - 1]
  BY <1>7
<1>9. /\ [q \in Rank |-> [b \in Block |-> head(q, b)]]' =
           [q \in Rank |-> [b \in Block |-> head(q, b)]]
      /\ [q \in Rank |-> started(q)]' = [q \in Rank |-> started(q)]
      /\ [q \in Rank |-> ErrArrival \in pperr[q]]' = [q \in Rank |-> ErrArrival \in pperr[q]]
  BY <1>2, <1>5
<1>10. PB!Deliver(s, d)
  BY <1>2, <1>7, <1>8, <1>9 DEF PB!Deliver, PB!bump, bump
<1> QED BY <1>1, <1>6, <1>10

(* The end of the combine is the barrier's next launch.                    *)
LEMMA HeadEnd ==
  ASSUME TypeInv, TypeInv', HeadInv, NEW r \in Rank, KernelEnd(r), kernel[r] = "combine"
  PROVE  HeadInv' /\ PB!NextLaunch(r)
<1>1. /\ kernel'[r] = "idle" /\ \A c \in Block : pc[r][c] = "done"
      /\ \A q \in Rank : q # r => Same(q)
      /\ \A m \in posted : m.from # r
      /\ UNCHANGED <<replay, s_N, arr_count, arr_flags, posted, pperr, expired>>
  BY DEF KernelEnd, successor, at, Same, TypeInv, TypeOK, inbox, counters, regs
<1>2. /\ \A c \in Block : head(r, c) = "left" /\ head(r, c)' = "ready"
      /\ \A q \in Rank : q # r => \A c \in Block : head(q, c)' = head(q, c)
  BY <1>1 DEF head, Same
<1>3. \A q \in Rank : started(q)' = IF q = r THEN started(q) + 1 ELSE started(q)
  <2>1. replay[r] \in Int  BY DEF TypeInv, TypeOK
  <2> QED BY <1>1, <2>1 DEF started, Same
<1>4. HeadInv'
  <2>1. headed(r) = Block /\ headed(r)' = {}  BY <1>2 DEF headed
  <2>2. \A q \in Rank : q # r => headed(q)' = headed(q)  BY <1>2 DEF headed
  <2>3. started(r) \in Nat
    <3>1. replay[r] \in 1 .. MaxReplay  BY Derived
    <3> QED BY <3>1 DEF started
  <2>4. (started(r) + 1) * Grid = started(r) * Grid + Grid
        /\ started(r) * Grid \in Nat
    BY <2>3, Constants
  <2>5. arr_count[r] = started(r) * Grid + Grid  BY <2>1, BlockFacts DEF HeadInv
  <2>6. \A q \in Rank : arr_count'[q] = started(q)' * Grid + Cardinality(headed(q)')
    <3> TAKE q \in Rank
    <3>1. CASE q = r
      <4>1. started(q)' * Grid = started(r) * Grid + Grid  BY <1>3, <2>4, <3>1
      <4>2. headed(q)' = {} /\ Cardinality({}) = 0  BY <2>1, <3>1, BlockFacts
      <4>3. Cardinality(headed(q)') = 0  BY <4>2
      <4>4. arr_count'[q] = started(r) * Grid + Grid  BY <1>1, <2>5, <3>1
      <4> QED BY <2>4, <4>1, <4>3, <4>4, Constants
    <3>2. CASE q # r
      <4>1. /\ arr_count'[q] = arr_count[q] /\ started(q)' = started(q)
            /\ headed(q)' = headed(q)
        BY <1>1, <1>3, <2>2, <3>2
      <4> QED BY <4>1 DEF HeadInv
    <3> QED BY <3>1, <3>2
  <2>7. \A s, d \in Rank : on_way("arrival", s, d)' => headed(s)' = Block
    <3>1. \A d \in Rank : ~on_way("arrival", r, d)  BY <1>1 DEF on_way
    <3>2. \A s, d \in Rank : on_way("arrival", s, d)' <=> on_way("arrival", s, d)
      BY <1>1 DEF on_way
    <3> QED BY <2>2, <3>1, <3>2 DEF HeadInv
  <2> QED BY <1>1, <2>6, <2>7 DEF HeadInv
<1>5. /\ [q \in Rank |-> [b \in Block |-> head(q, b)]]' =
           [[q \in Rank |-> [b \in Block |-> head(q, b)]]
              EXCEPT ![r] = [b \in Block |-> "ready"]]
      /\ [q \in Rank |-> started(q)]' = [[q \in Rank |-> started(q)] EXCEPT ![r] = @ + 1]
      /\ [s \in Rank |-> [d \in Rank |-> in_flight(s, d)]]' =
           [s \in Rank |-> [d \in Rank |-> in_flight(s, d)]]
      /\ [q \in Rank |-> ErrArrival \in pperr[q]]' = [q \in Rank |-> ErrArrival \in pperr[q]]
  BY <1>1, <1>2, <1>3 DEF in_flight
<1>6. PB!NextLaunch(r)  BY <1>1, <1>2, <1>5 DEF PB!NextLaunch
<1> QED BY <1>4, <1>6

(* Every step of the layer is one of the barrier, or none.                 *)
LEMMA HeadStep ==
  ASSUME NoWrap, TypeInv, TypeInv', HeadInv, [Next]_vars, [Gate => expired = 0]_vars
  PROVE  HeadInv' /\ [PB!Next]_(PB!vars)
<1>1. ASSUME Quiet PROVE HeadInv' /\ [PB!Next]_(PB!vars)
  BY <1>1, QuietKeeps, QuietStutters
<1>2. ASSUME NEW r \in Rank, NEW c \in Block, Arrive(r, c)
      PROVE  HeadInv' /\ PB!Next
  BY <1>2, HeadArrive DEF PB!Next
<1>3. ASSUME NEW r \in Rank, NEW c \in Block, Enter(r, c) \/ EnterTimeOut(r, c)
      PROVE  HeadInv' /\ PB!Next
  BY <1>3, HeadEnter DEF PB!Next
<1>4. ASSUME NEW m \in posted, Deliver(m), m.kind = "arrival"
      PROVE  HeadInv' /\ PB!Next
  BY <1>4, HeadDeliver DEF PB!Next
<1>5. ASSUME NEW r \in Rank, KernelEnd(r), kernel[r] = "combine"
      PROVE  HeadInv' /\ PB!Next
  BY <1>5, HeadEnd DEF PB!Next
<1>6. ASSUME NEW r \in Rank, NEW c \in Block,
             (Work(r, c) /\ ~Arrive(r, c)) \/ Acquire(r, c) \/ Cross(r, c)
             \/ AcquireTimeOut(r, c) \/ CrossTimeOut(r, c)
      PROVE  Quiet
  BY <1>6, QuietWork
<1>7. ASSUME NEW r \in Rank, Launch(r) \/ Gemm(r) \/ (KernelEnd(r) /\ kernel[r] # "combine")
      PROVE  Quiet
  BY <1>7, QuietStream
<1>8. ASSUME NEW m \in posted, Deliver(m), m.kind # "arrival" PROVE Quiet
  BY <1>8, QuietStream
<1>9. CASE UNCHANGED vars  BY <1>1, <1>9, QuietStream
<1>10. CASE Gate /\ vars' # vars  BY <1>1, <1>10, QuietStream
<1> QED BY <1>1, <1>2, <1>3, <1>4, <1>5, <1>6, <1>7, <1>8, <1>9, <1>10
        DEF Next, Wait, TimeOut

(* The barrier before the pulls is PeerBarrier, with or without room and   *)
(* whichever waits give up, for as long as the host trusts no error word   *)
(* that a wait has set (k0d_combine.hip:45-78).                            *)
THEOREM HeadImplements == ASSUME NoWrap PROVE Spec /\ TrustedGate => PB!Spec
<1>1. Init => HeadInv /\ PB!Init
  <2> SUFFICES ASSUME Init PROVE HeadInv /\ PB!Init
    OBVIOUS
  <2>1. \A r \in Rank : /\ kernel[r] = "idle" /\ replay[r] = 0 /\ arr_count[r] = 0
                        /\ pperr[r] = {}
    BY DEF Init
  <2>2. posted = {}  BY DEF Init
  <2>3. \A r \in Rank : /\ started(r) = 0 /\ headed(r) = {}
                        /\ \A c \in Block : head(r, c) = "ready"
    BY <2>1 DEF started, headed, head
  <2>4. \A s, d \in Rank : in_flight(s, d) = 0 /\ ~on_way("arrival", s, d)
    BY <2>2, BlockFacts DEF in_flight, on_way
  <2>5. 0 * Grid = 0  BY Constants
  <2>6. HeadInv  BY <2>1, <2>3, <2>4, <2>5, BlockFacts DEF HeadInv
  <2>7. s_N = [r \in Rank |-> [c \in Block |-> 0]]
        /\ arr_count = [r \in Rank |-> 0]
        /\ arr_flags = [r \in Rank |-> [s \in Rank |-> 0]]
    BY DEF Init
  <2>8. \A r \in Rank : (ErrArrival \in pperr[r]) = FALSE  BY <2>1
  <2>9. /\ [r \in Rank |-> [c \in Block |-> head(r, c)]] =
             [r \in Rank |-> [c \in Block |-> "ready"]]
        /\ [s \in Rank |-> [r \in Rank |-> in_flight(s, r)]] =
             [s \in Rank |-> [r \in Rank |-> 0]]
        /\ [r \in Rank |-> started(r)] = [r \in Rank |-> 0]
        /\ [r \in Rank |-> ErrArrival \in pperr[r]] = [r \in Rank |-> FALSE]
    BY <2>3, <2>4, <2>8
  <2>10. PB!Init  BY <2>7, <2>9 DEF PB!Init
  <2> QED BY <2>6, <2>10
<1>2. TypeInv /\ TypeInv' /\ HeadInv /\ [Next]_vars /\ [Gate => expired = 0]_vars =>
        HeadInv' /\ [PB!Next]_(PB!vars)
  BY HeadStep
<1> QED BY <1>1, <1>2, TypeCorrect, PTL DEF Spec, TrustedGate, PB!Spec

-----------------------------------------------------------------------------
(* The barrier of the sort, seen at rank 0.                                *)
phase_of(c) == replay[0] - IF through(0, c) THEN 0 ELSE 1
waiting(c) == IF at(0, c, "gbar") THEN "wait" ELSE "work"

(* What it looks at.                                                       *)
Still == /\ \A c \in Block : phase_of(c)' = phase_of(c) /\ waiting(c)' = waiting(c)
         /\ target'[0] = target[0] /\ gbar'[0] = gbar[0]

(* A step that leaves these alone is a stutter of the barrier.             *)
LEMMA StillStutters ==
  ASSUME RoomInv, RoomInv', Still
  PROVE  UNCHANGED GB!vars
<1>1. 0 \in Rank  BY Constants DEF Rank
<1>2. (ErrGrid \in pperr'[0]) = (ErrGrid \in pperr[0])
  BY <1>1 DEF RoomInv, clean
<1>3. /\ [c \in Block |-> IF at(0, c, "gbar") THEN "wait" ELSE "work"]' =
           [c \in Block |-> IF at(0, c, "gbar") THEN "wait" ELSE "work"]
      /\ [c \in Block |-> replay[0] - IF through(0, c) THEN 0 ELSE 1]' =
           [c \in Block |-> replay[0] - IF through(0, c) THEN 0 ELSE 1]
  BY DEF Still, phase_of, waiting
<1> QED BY <1>2, <1>3 DEF GB!vars, Still

(* A CTA of rank 0 moves without arriving at the barrier or passing it.    *)
LEMMA StillGoto ==
  ASSUME TypeInv, NEW c \in Block, NEW l \in Label, goto(0, c, l),
         UNCHANGED <<kernel, replay, target, gbar>>,
         pc[0][c] # "gbar", l # "gbar",
         sorts(0) => (pc[0][c] \in {"scatter", "tail", "done"} <=>
                        l \in {"scatter", "tail", "done"})
  PROVE  Still
<1>1. 0 \in Rank  BY Constants DEF Rank
<1>2. \A b \in Block : pc'[0][b] = IF b = c THEN l ELSE pc[0][b]
  BY <1>1, GotoType DEF TypeInv
<1>3. ASSUME NEW b \in Block
      PROVE  (through(0, b)' <=> through(0, b)) /\ waiting(b)' = waiting(b)
  <2>1. CASE b = c  BY <1>2, <2>1 DEF through, sorts, waiting, at
  <2>2. CASE b # c
    <3>1. pc'[0][b] = pc[0][b]  BY <1>2, <2>2
    <3> QED BY <3>1 DEF through, sorts, waiting, at
  <2> QED BY <2>1, <2>2
<1>4. \A b \in Block : phase_of(b)' = phase_of(b)  BY <1>3 DEF phase_of
<1> QED BY <1>3, <1>4 DEF Still

(* The steps of rank 0 that are neither an arrival nor a passage.          *)
LEMMA StillWork ==
  ASSUME Roomy, LayerInv, NEW c \in Block,
         (Work(0, c) /\ ~Plan(0, c)) \/ Acquire(0, c) \/ Enter(0, c)
  PROVE  Still
<1> USE DEF LayerInv
<1>1. 0 \in Rank  BY Constants DEF Rank
<1>2. pc[0][c] \in places(kernel[0])  BY <1>1 DEF TypeInv, PlaceInv
<1> USE DEF at
<1>3. CASE Start(0, c)
  <2>1. PICK l \in {"push", "wait"} : goto(0, c, l)  BY <1>3 DEF Start
  <2>2. pc[0][c] = "start" /\ UNCHANGED <<kernel, replay, target, gbar>>
    BY <1>3 DEF Start, counters
  <2> QED BY <2>1, <2>2, StillGoto DEF Label
<1>4. CASE Push(0, c)
  BY <1>4 DEF Push, Still, phase_of, through, sorts, waiting, stream, counters
<1>5. CASE Publish(0, c)
  <2>1. /\ pc[0][c] = "push" /\ UNCHANGED <<kernel, replay, target, gbar>>
        /\ \/ kernel[0] = "push" /\ goto(0, c, "done")
           \/ kernel[0] # "push" /\ goto(0, c, "wait")
    BY <1>5 DEF Publish, regs
  <2>2. CASE kernel[0] = "push"
    <3>1. ~sorts(0) /\ goto(0, c, "done")  BY <2>1, <2>2 DEF sorts
    <3> QED BY <2>1, <3>1, StillGoto DEF Label
  <2>3. CASE kernel[0] # "push"  BY <2>1, <2>3, StillGoto DEF Label
  <2> QED BY <2>2, <2>3
<1>6. CASE Scatter(0, c)
  <2>1. PICK l \in {"tail", "done"} : goto(0, c, l)  BY <1>6 DEF Scatter
  <2>2. pc[0][c] = "scatter" /\ UNCHANGED <<kernel, replay, target, gbar>>
    BY <1>6 DEF Scatter, counters, regs
  <2> QED BY <2>1, <2>2, StillGoto DEF Label
<1>7. CASE Tail(0, c)
  <2>1. pc[0][c] = "tail" /\ goto(0, c, "done") /\ UNCHANGED <<kernel, replay, target, gbar>>
    BY <1>7 DEF Tail, regs
  <2> QED BY <2>1, StillGoto DEF Label
<1>8. CASE Arrive(0, c)
  <2>1. /\ kernel[0] = "combine" /\ pc[0][c] = "start" /\ goto(0, c, "wait")
        /\ UNCHANGED <<kernel, replay, target, gbar>>
    BY <1>8 DEF Arrive
  <2> QED BY <2>1, StillGoto DEF Label
<1>9. CASE Pull(0, c)
  <2>1. /\ pc[0][c] = "pull" /\ goto(0, c, "done")
        /\ UNCHANGED <<kernel, replay, target, gbar>>
    BY <1>9 DEF Pull, counters, regs
  <2>2. ~sorts(0)  BY <1>2, <2>1 DEF sorts, places
  <2> QED BY <2>1, <2>2, StillGoto DEF Label
<1>10. CASE Acquire(0, c)
  <2>1. fits(dest_counter[0])  BY <1>1, AllAlive DEF alive
  <2>2. /\ pc[0][c] = "wait" /\ goto(0, c, "plan")
        /\ UNCHANGED <<kernel, replay, target, gbar>>
    BY <1>10, <2>1 DEF Acquire, read_T_loc, counters
  <2> QED BY <2>2, StillGoto DEF Label
<1>11. CASE Enter(0, c)
  <2>1. /\ kernel[0] = "combine" /\ pc[0][c] = "wait" /\ goto(0, c, "pull")
        /\ UNCHANGED <<kernel, replay, target, gbar>>
    BY <1>11 DEF Enter, enter, counters, regs
  <2>2. ~sorts(0)  BY <2>1 DEF sorts
  <2> QED BY <2>1, <2>2, StillGoto DEF Label
<1> QED BY <1>3, <1>4, <1>5, <1>6, <1>7, <1>8, <1>9, <1>10, <1>11 DEF Work

(* What other ranks, the fabric and the stream do.                         *)
LEMMA StillStream ==
  ASSUME Roomy, LayerInv,
         \/ \E r \in Rank : Launch(r) \/ Gemm(r) \/ KernelEnd(r)
         \/ \E r \in Rank, c \in Block : r # 0 /\ (Work(r, c) \/ Wait(r, c))
         \/ \E m \in posted : Deliver(m)
         \/ UNCHANGED vars
  PROVE  Still
<1> USE DEF LayerInv
<1>1. 0 \in Rank  BY Constants DEF Rank
<1>2. ASSUME Same(0), target'[0] = target[0], gbar'[0] = gbar[0] PROVE Still
  BY <1>2 DEF Same, Still, phase_of, through, sorts, waiting, at
<1>3. ASSUME NEW r \in Rank, NEW c \in Block, r # 0, Work(r, c) \/ Wait(r, c)
      PROVE  Still
  <2>1. 0 # r  BY <1>3
  <2>2. target'[0] = target[0] /\ gbar'[0] = gbar[0]
    <3>1. CASE Plan(r, c)  BY <1>1, <2>1, <3>1 DEF Plan, TypeInv, TypeOK
    <3>2. CASE ~Plan(r, c)
      BY <1>3, <3>2 DEF Work, Wait, Start, Push, Publish, Scatter, Tail, Arrive, Pull,
         Acquire, read_T_loc, Cross, cross, Enter, enter, counters, regs
    <3> QED BY <3>1, <3>2
  <2>3. Same(0)
    <3>1. CASE Push(r, c)  BY <3>1 DEF Push, stream, Same
    <3>2. CASE ~Push(r, c)
      <4>1. Local(r)  BY <1>3, <3>2 DEF Local
      <4> QED BY <1>1, <2>1, <4>1, Elsewhere DEF Untouched
    <3> QED BY <3>1, <3>2
  <2> QED BY <1>2, <2>2, <2>3
<1>4. ASSUME NEW r \in Rank, Launch(r) \/ Gemm(r) \/ KernelEnd(r) PROVE Still
  <2>1. UNCHANGED <<target, gbar>>
    BY <1>4 DEF Launch, Gemm, KernelEnd, counters, regs
  <2>2. CASE r # 0
    <3>1. Same(0)  BY <1>1, <1>4, <2>2, Elsewhere DEF Local, Untouched
    <3> QED BY <1>2, <2>1, <3>1
  <2>3. CASE r = 0
    <3>1. CASE Launch(0)
      <4>1. /\ kernel[0] = "idle" /\ kernel'[0] \in {"push", "mega"}
            /\ replay'[0] = replay[0] + 1 /\ replay[0] \in Int
            /\ \A c \in Block : pc'[0][c] = "start"
        BY <1>1, <3>1 DEF Launch, begin, TypeInv, TypeOK
      <4>2. \A c \in Block : pc[0][c] = "done"
        BY <1>1, <4>1 DEF TypeInv, PlaceInv, places
      <4>3. \A c \in Block : through(0, c) /\ ~through(0, c)'
        BY <4>1 DEF through, sorts
      <4> QED BY <2>1, <4>1, <4>2, <4>3 DEF Still, phase_of, waiting, at
    <3>2. CASE Gemm(0)
      <4>1. /\ kernel[0] = "gemm" /\ kernel'[0] = "combine" /\ replay' = replay
            /\ \A c \in Block : pc'[0][c] = "start"
        BY <1>1, <3>2 DEF Gemm, begin, successor, TypeInv, TypeOK
      <4>2. \A c \in Block : pc[0][c] = "start"
        BY <1>1, <4>1 DEF TypeInv, PlaceInv, places
      <4>3. \A c \in Block : through(0, c) /\ through(0, c)'
        BY <4>1 DEF through
      <4> QED BY <2>1, <4>1, <4>2, <4>3 DEF Still, phase_of, waiting, at
    <3>3. CASE KernelEnd(0)
      <4>1. /\ \A c \in Block : pc[0][c] = "done" /\ pc'[0][c] \in {"start", "done"}
            /\ replay' = replay
            /\ \/ kernel[0] = "push" /\ kernel'[0] = "dsort"
                  /\ \A c \in Block : pc'[0][c] = "start"
               \/ kernel[0] \in {"mega", "dsort"} /\ kernel'[0] = "gemm"
               \/ kernel[0] = "combine" /\ kernel'[0] = "idle"
        BY <1>1, <3>3 DEF KernelEnd, successor, at, TypeInv, TypeOK
      <4>2. \A c \in Block : through(0, c)' <=> through(0, c)
        BY <4>1 DEF through, sorts
      <4> QED BY <2>1, <4>1, <4>2 DEF Still, phase_of, waiting, at
    <3> QED BY <1>4, <2>3, <3>1, <3>2, <3>3
  <2> QED BY <2>2, <2>3
<1>5. ASSUME NEW m \in posted, Deliver(m) PROVE Still
  BY <1>2, <1>5 DEF Deliver, stream, counters, regs, Same
<1>6. CASE UNCHANGED vars
  BY <1>2, <1>6 DEF vars, stream, counters, regs, Same
<1> QED BY <1>3, <1>4, <1>5, <1>6

(* A planning CTA that moves to the barrier arrives there.                 *)
LEMMA SortArrives ==
  ASSUME LayerInv, RoomInv', NEW c \in Block, Plan(0, c)
  PROVE  GB!Arrive(c)
<1> USE DEF LayerInv
<1>1. 0 \in Rank  BY Constants DEF Rank
<1>2. /\ pc[0][c] = "plan" /\ goto(0, c, "gbar") /\ UNCHANGED <<kernel, replay>>
      /\ gbar' = [gbar EXCEPT ![0] = bump(@)]
      /\ target' = [target EXCEPT ![0][c] = grid_target(gbar[0], Grid)]
  BY DEF Plan, at
<1>3. \A b \in Block : pc'[0][b] = IF b = c THEN "gbar" ELSE pc[0][b]
  BY <1>1, <1>2, GotoType DEF Label, TypeInv
<1>4. sorts(0)  BY <1>1, <1>2 DEF sorts, TypeInv, PlaceInv, places, TypeOK
<1>5. \A b \in Block : through(0, b)' <=> through(0, b)
  <2> TAKE b \in Block
  <2>1. CASE b = c  BY <1>2, <1>3, <2>1 DEF through, sorts
  <2>2. CASE b # c
    <3>1. pc'[0][b] = pc[0][b]  BY <1>3, <2>2
    <3> QED BY <1>2, <3>1 DEF through, sorts
  <2> QED BY <2>1, <2>2
<1>6. ~through(0, c) /\ replay[0] - 1 < MaxReplay
  <2>1. replay[0] \in 1 .. MaxReplay  BY <1>1, <1>4, Derived DEF sorts
  <2> QED BY <1>2, <1>4, <2>1, Constants DEF through, sorts
<1>7. /\ [b \in Block |-> IF at(0, b, "gbar") THEN "wait" ELSE "work"]' =
           [[b \in Block |-> IF at(0, b, "gbar") THEN "wait" ELSE "work"]
              EXCEPT ![c] = "wait"]
      /\ [b \in Block |-> replay[0] - IF through(0, b) THEN 0 ELSE 1]' =
           [b \in Block |-> replay[0] - IF through(0, b) THEN 0 ELSE 1]
  BY <1>2, <1>3, <1>5 DEF at
<1>8. (ErrGrid \in pperr'[0]) = (ErrGrid \in pperr[0])
  BY <1>1 DEF RoomInv, clean
<1>9. /\ gbar'[0] = GB!bump(gbar[0])
      /\ target'[0] = [target[0] EXCEPT ![c] = GB!grid_target(gbar[0], GB!blocks)]
  BY <1>1, <1>2, Blocks
  DEF TypeInv, TypeOK, GB!bump, bump, GB!grid_target, grid_target
<1> QED BY <1>2, <1>6, <1>7, <1>8, <1>9 DEF GB!Arrive, at

(* A CTA that moves on to scatter passes it.                               *)
LEMMA SortPasses ==
  ASSUME LayerInv, RoomInv', NEW c \in Block, Cross(0, c)
  PROVE  GB!Pass(c)
<1> USE DEF LayerInv
<1>1. 0 \in Rank  BY Constants DEF Rank
<1>2. /\ pc[0][c] = "gbar" /\ goto(0, c, "scatter") /\ opened(0, c)
      /\ UNCHANGED <<kernel, replay, gbar, target>>
  BY DEF Cross, cross, at, counters, regs
<1>3. \A b \in Block : pc'[0][b] = IF b = c THEN "scatter" ELSE pc[0][b]
  BY <1>1, <1>2, GotoType DEF Label, TypeInv
<1>4. sorts(0)  BY <1>1, <1>2 DEF sorts, TypeInv, PlaceInv, places, TypeOK
<1>5. \A b \in Block : through(0, b)' <=> (b = c \/ through(0, b))
  <2> TAKE b \in Block
  <2>1. CASE b = c  BY <1>2, <1>3, <1>4, <2>1 DEF through, sorts
  <2>2. CASE b # c
    <3>1. pc'[0][b] = pc[0][b]  BY <1>3, <2>2
    <3> QED BY <1>2, <2>2, <3>1 DEF through, sorts
  <2> QED BY <2>1, <2>2
<1>6. ~through(0, c)  BY <1>2, <1>4 DEF through, sorts
<1>7. replay[0] \in Int  BY <1>1 DEF TypeInv, TypeOK
<1>8. /\ [b \in Block |-> IF at(0, b, "gbar") THEN "wait" ELSE "work"]' =
           [[b \in Block |-> IF at(0, b, "gbar") THEN "wait" ELSE "work"]
              EXCEPT ![c] = "work"]
      /\ [b \in Block |-> replay[0] - IF through(0, b) THEN 0 ELSE 1]' =
           [[b \in Block |-> replay[0] - IF through(0, b) THEN 0 ELSE 1]
              EXCEPT ![c] = @ + 1]
  <2>1. \A b \in Block : waiting(b)' = IF b = c THEN "work" ELSE waiting(b)
    BY <1>3 DEF waiting, at
  <2>2. \A b \in Block : phase_of(b)' = IF b = c THEN phase_of(b) + 1 ELSE phase_of(b)
    <3> TAKE b \in Block
    <3>1. CASE b = c
      <4>1. through(0, b)' /\ ~through(0, b)  BY <1>5, <1>6, <3>1
      <4> QED BY <1>2, <1>7, <3>1, <4>1 DEF phase_of
    <3>2. CASE b # c
      <4>1. through(0, b)' <=> through(0, b)  BY <1>5, <3>2
      <4> QED BY <1>2, <1>7, <3>2, <4>1 DEF phase_of
    <3> QED BY <3>1, <3>2
  <2>3. /\ [b \in Block |-> waiting(b)]' = [[b \in Block |-> waiting(b)] EXCEPT ![c] = "work"]
        /\ [b \in Block |-> phase_of(b)]' = [[b \in Block |-> phase_of(b)] EXCEPT ![c] = @ + 1]
    BY <2>1, <2>2
  <2> QED BY <2>3 DEF waiting, phase_of
<1>9. (ErrGrid \in pperr'[0]) = (ErrGrid \in pperr[0])
  BY <1>1 DEF RoomInv, clean
<1>10. GB!reached(gbar[0], target[0][c])
  BY <1>2 DEF opened, reached, GB!reached
<1> QED BY <1>2, <1>8, <1>9, <1>10 DEF GB!Pass, GB!leave, at

(* Every step of the layer is one of the sort's barrier, or none.          *)
LEMMA SortStep ==
  ASSUME Roomy, LayerInv, RoomInv', [Next]_vars
  PROVE  [GB!Next]_(GB!vars)
<1>1. ASSUME Still PROVE UNCHANGED GB!vars
  BY <1>1, StillStutters DEF LayerInv
<1>2. ASSUME NEW c \in Block, Plan(0, c) PROVE GB!Next
  BY <1>2, SortArrives DEF GB!Next
<1>3. ASSUME NEW c \in Block, Cross(0, c) PROVE GB!Next
  BY <1>3, SortPasses DEF GB!Next
<1>4. ASSUME NEW c \in Block, (Work(0, c) /\ ~Plan(0, c)) \/ Acquire(0, c) \/ Enter(0, c)
      PROVE  Still
  BY <1>4, StillWork
<1>5. ASSUME \/ \E r \in Rank : Launch(r) \/ Gemm(r) \/ KernelEnd(r)
             \/ \E r \in Rank, c \in Block : r # 0 /\ (Work(r, c) \/ Wait(r, c))
             \/ \E m \in posted : Deliver(m)
             \/ UNCHANGED vars
      PROVE  Still
  BY <1>5, StillStream
<1>6. ~Gate  BY DEF LayerInv, RoomInv, clean, Gate
<1>7. \A r \in Rank, c \in Block : ~TimeOut(r, c)
  BY Patient DEF Roomy, LayerInv
<1>8. ASSUME NEW r \in Rank, NEW c \in Block, Work(r, c) \/ Wait(r, c)
      PROVE  GB!Next \/ UNCHANGED GB!vars
  <2>1. CASE r = 0
    <3>1. Work(0, c) \/ Wait(0, c)  BY <1>8, <2>1
    <3> QED BY <1>1, <1>2, <1>3, <1>4, <3>1 DEF Wait
  <2>2. CASE r # 0  BY <1>1, <1>5, <1>8, <2>2
  <2> QED BY <2>1, <2>2
<1> QED BY <1>1, <1>5, <1>6, <1>7, <1>8 DEF Next

(* With room and patience the CTA barrier of the sort is GridBarrier       *)
(* (k0d_mega.hip:264-279).                                                 *)
THEOREM SortImplements == ASSUME NoWrap, Roomy PROVE Spec => GB!Spec
<1>1. Init => GB!Init
  <2> SUFFICES ASSUME Init PROVE GB!Init
    OBVIOUS
  <2>1. 0 \in Rank  BY Constants DEF Rank
  <2>2. /\ kernel[0] = "idle" /\ replay[0] = 0 /\ gbar[0] = 0 /\ pperr[0] = {}
        /\ target[0] = [c \in Block |-> 0] /\ \A c \in Block : pc[0][c] = "done"
    BY <2>1 DEF Init
  <2>3. \A c \in Block : waiting(c) = "work" /\ phase_of(c) = 0
    <3> TAKE c \in Block
    <3>1. pc[0][c] # "gbar"  BY <2>2
    <3>2. waiting(c) = "work"  BY <3>1 DEF waiting, at
    <3>3. through(0, c)  BY <2>2 DEF through
    <3>4. phase_of(c) = replay[0] - 0  BY <3>3 DEF phase_of
    <3>5. phase_of(c) = 0  BY <2>2, <3>4
    <3> QED BY <3>2, <3>5
  <2>4. (ErrGrid \in pperr[0]) = FALSE  BY <2>2
  <2>5. /\ [c \in Block |-> IF at(0, c, "gbar") THEN "wait" ELSE "work"] =
             [c \in Block |-> "work"]
        /\ [c \in Block |-> replay[0] - IF through(0, c) THEN 0 ELSE 1] =
             [c \in Block |-> 0]
    BY <2>3 DEF waiting, phase_of
  <2> QED BY <2>2, <2>4, <2>5 DEF GB!Init
<1>2. LayerInv /\ LayerInv' /\ [Next]_vars => [GB!Next]_(GB!vars)
  BY SortStep DEF LayerInv
<1> QED BY <1>1, <1>2, NeverAlarmed, PTL DEF Spec, GB!Spec

(* What the run of the whole layer checks of its barriers, for every       *)
(* number of ranks, CTAs, tokens and replays.                              *)
COROLLARY BarriersAreImplemented ==
  ASSUME NoWrap, Roomy PROVE Spec => BarriersImplemented
<1>1. Spec => TrustedGate  BY PatientTrusts DEF Roomy
<1> QED BY <1>1, HeadImplements, SortImplements, PTL DEF BarriersImplemented
===============================================================================
