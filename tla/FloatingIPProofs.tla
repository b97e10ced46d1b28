--------------------------- MODULE FloatingIPProofs --------------------------
(***************************************************************************)
(* Theorems of FloatingIP, for any number of addresses, instances and      *)
(* requests, any interleaving of the worker and the reconciler, and any    *)
(* number of errors and deaths.                                            *)
(***************************************************************************)
EXTENDS FloatingIP, TLAPS

------------------------------------------------------------------------------
(* Rows: what an active row says does not depend on what is in the hands   *)
(* of anybody, so the rows and the states of the instances suffice.        *)

RowType ==
  /\ state \in [Instances -> {"none", "running", "idle", "gone"}]
  /\ DOMAIN row = Ips
  /\ \A f \in Ips :
       /\ row[f] = Row(row[f].status, row[f].project, row[f].inst, row[f].priv)
       /\ row[f].status \in {"unallocated", "allocated", "active"}

RowInv == RowType /\ BindingsAreWhole

RowStep ==
  \/ \E i \in Instances : Create(i) \/ StateChanges(i)
  \/ \E f \in Ips, p \in Projects : Allocate(f, p)
  \/ \E r \in Requests, f \in Ips, i \in Instances : TryAssociate(r, f, i)
  \/ \E r \in Requests, f \in Ips : TakeDisassociate(r, f)
  \/ \E r \in Requests : Rollback(r)
  \/ BeginDestroy \/ ClearBindings \/ FinalizeDestroy

\* All other steps leave the rows and the states alone.
LEMMA OtherSteps == [Next]_vars => RowStep \/ UNCHANGED <<state, row>>
<1> SUFFICES ASSUME [Next]_vars, ~RowStep PROVE UNCHANGED <<state, row>>
    OBVIOUS
<1>1. CASE UNCHANGED vars
  BY <1>1 DEF vars
<1>2. ASSUME NEW r \in Requests, RequestStep(r)
      PROVE  UNCHANGED <<state, row>>
  BY <1>2 DEF RequestStep, RowStep, RequestDestroy, CreateTask, PublishTask,
              RequestFails, RequestAborted
<1>3. CASE WorkerStep \/ HandlerFails \/ Crash
  <2>1. CASE Take \/ BeginAssociate \/ BeginDisassociate \/ NatDone \/ Ack \/ ListBindings
    BY <2>1 DEF Take, BeginAssociate, BeginDisassociate, NatDone, Ack, ListBindings
  <2>2. CASE (\E b \in job.bindings : DetachBinding(b)) \/ Command("worker")
    BY <2>2 DEF DetachBinding, Command
  <2>3. CASE HandlerFails \/ Crash
    BY <2>3 DEF HandlerFails, Crash
  <2>4. QED
    BY <1>3, <2>1, <2>2, <2>3 DEF WorkerStep, RowStep
<1>4. CASE ReconcilerStep
  BY <1>4 DEF ReconcilerStep, ListActive, EndPass, Reconcile, Command
<1>5. CASE \E g \in Agents : CommandFails(g)
  BY <1>5 DEF CommandFails
<1>6. QED
  BY <1>1, <1>2, <1>3, <1>4, <1>5 DEF Next, RowStep

\* A row that is replaced by one without a binding.
LEMMA Unbinding ==
  ASSUME RowInv, NEW f, NEW status \in {"unallocated", "allocated"}, NEW p,
         row' = [row EXCEPT ![f] = Row(status, p, None, None)], state' = state
  PROVE  RowInv'
<1>1. DOMAIN row' = Ips /\ \A g \in Ips :
        row'[g] = IF g = f THEN Row(status, p, None, None) ELSE row[g]
  BY DEF RowInv, RowType
<1>2. RowType'
  BY <1>1 DEF RowInv, RowType, Row
<1>3. ASSUME NEW g \in Ips, g = f
      PROVE  row'[g].status # "active" /\ row'[g].inst = None /\ row'[g].priv = None
  BY <1>1, <1>3 DEF Row
<1>4. BindingsAreWhole'
  BY <1>1, <1>3 DEF RowInv, BindingsAreWhole, Bound, Exists
<1>5. QED
  BY <1>2, <1>4 DEF RowInv

\* A state that changes, of an instance that stays, or that no row names.
LEMMA StateMoves ==
  ASSUME RowInv, row' = row, NEW i,
         NEW s \in {"none", "running", "idle", "gone"}, state' = [state EXCEPT ![i] = s],
         s \in {"running", "idle"} \/ (\A f \in Ips : row[f].inst # i)
  PROVE  RowInv'
<1>1. RowType'
  BY DEF RowInv, RowType
<1>2. \A j \in Instances : state'[j] = IF j = i THEN s ELSE state[j]
  BY DEF RowInv, RowType
<1>3. BindingsAreWhole'
  <2> SUFFICES ASSUME NEW f \in Ips
               PROVE  IF Bound(f)'
                      THEN \E j \in Instances :
                             row'[f] = Row("active", ProjectOf[j], j, AddrOf[j]) /\ Exists(j)'
                      ELSE row'[f].inst = None /\ row'[f].priv = None
      BY DEF BindingsAreWhole
  <2>1. CASE Bound(f)
    <3>1. PICK j \in Instances :
            row[f] = Row("active", ProjectOf[j], j, AddrOf[j]) /\ Exists(j)
      BY <2>1 DEF RowInv, BindingsAreWhole
    <3>2. row[f].inst = j
      BY <3>1 DEF Row
    <3>3. Exists(j)'
      BY <1>2, <3>1, <3>2 DEF Exists
    <3>4. QED
      BY <2>1, <3>1, <3>3 DEF Bound
  <2>2. CASE ~Bound(f)
    BY <2>2 DEF RowInv, BindingsAreWhole, Bound
  <2>3. QED
    BY <2>1, <2>2
<1>4. QED
  BY <1>1, <1>3 DEF RowInv

LEMMA TryAssociateInv ==
  ASSUME RowInv, NEW r \in Requests, NEW f \in Ips, NEW i \in Instances,
         TryAssociate(r, f, i)
  PROVE  RowInv'
<1>1. /\ row' = [row EXCEPT ![f] = Row("active", row[f].project, i, AddrOf[i])]
      /\ state' = state /\ state[i] = "running" /\ row[f].project = ProjectOf[i]
  BY DEF TryAssociate
<1>2. DOMAIN row' = Ips /\ \A g \in Ips :
        row'[g] = IF g = f THEN Row("active", ProjectOf[i], i, AddrOf[i]) ELSE row[g]
  BY <1>1 DEF RowInv, RowType
<1>3. RowType'
  BY <1>1, <1>2 DEF RowInv, RowType, Row
<1>4. BindingsAreWhole'
  <2> SUFFICES ASSUME NEW g \in Ips
               PROVE  IF Bound(g)'
                      THEN \E j \in Instances :
                             row'[g] = Row("active", ProjectOf[j], j, AddrOf[j]) /\ Exists(j)'
                      ELSE row'[g].inst = None /\ row'[g].priv = None
      BY DEF BindingsAreWhole
  <2>1. CASE g = f
    <3>1. row'[g] = Row("active", ProjectOf[i], i, AddrOf[i]) /\ Exists(i)'
      BY <1>1, <1>2, <2>1 DEF Exists
    <3>2. Bound(g)'
      BY <3>1 DEF Bound, Row
    <3>3. QED
      BY <3>1, <3>2
  <2>2. CASE g # f
    BY <1>1, <1>2, <2>2 DEF RowInv, BindingsAreWhole, Bound, Exists
  <2>3. QED
    BY <2>1, <2>2
<1>5. QED
  BY <1>3, <1>4 DEF RowInv

\* The rows of an instance are released, and it may go.
LEMMA Clearing ==
  ASSUME RowInv, NEW i, row' = Cleared(i),
         state' \in [Instances -> {"none", "running", "idle", "gone"}],
         \A j \in Instances : j # i /\ Exists(j) => Exists(j)'
  PROVE  RowInv'
<1>1. /\ DOMAIN row' = Ips
      /\ \A f \in Ips :
           row'[f] = IF row[f].inst = i
                     THEN Row(IF Bound(f) THEN "allocated" ELSE row[f].status,
                              row[f].project, None, None)
                     ELSE row[f]
  BY DEF Cleared
<1>2. RowType'
  BY <1>1 DEF RowInv, RowType, Row, Bound
<1>3. ASSUME NEW f \in Ips, row[f].inst = i
      PROVE  ~Bound(f)' /\ row'[f].inst = None /\ row'[f].priv = None
  BY <1>1, <1>3 DEF Row, Bound
<1>4. BindingsAreWhole'
  <2> SUFFICES ASSUME NEW f \in Ips
               PROVE  IF Bound(f)'
                      THEN \E j \in Instances :
                             row'[f] = Row("active", ProjectOf[j], j, AddrOf[j]) /\ Exists(j)'
                      ELSE row'[f].inst = None /\ row'[f].priv = None
      BY DEF BindingsAreWhole
  <2>1. CASE row[f].inst = i
    BY <1>3, <2>1
  <2>2. CASE row[f].inst # i /\ Bound(f)
    <3>1. PICK j \in Instances :
            row[f] = Row("active", ProjectOf[j], j, AddrOf[j]) /\ Exists(j)
      BY <2>2 DEF RowInv, BindingsAreWhole
    <3>2. row[f].inst = j
      BY <3>1 DEF Row
    <3>3. Exists(j)'
      BY <2>2, <3>1, <3>2
    <3>4. QED
      BY <1>1, <2>2, <3>1, <3>3 DEF Bound
  <2>3. CASE row[f].inst # i /\ ~Bound(f)
    BY <1>1, <2>3 DEF RowInv, BindingsAreWhole, Bound
  <2>4. QED
    BY <2>1, <2>2, <2>3
<1>5. QED
  BY <1>2, <1>4 DEF RowInv

LEMMA RowStepInv ==
  ASSUME RowInv, RowStep
  PROVE  RowInv'
<1>1. ASSUME NEW i \in Instances, Create(i) \/ StateChanges(i)
      PROVE  RowInv'
  <2>1. row' = row
    BY <1>1 DEF Create, StateChanges
  <2>2. PICK s \in {"running", "idle"} : state' = [state EXCEPT ![i] = s]
    BY <1>1 DEF Create, StateChanges
  <2>3. QED
    BY <2>1, <2>2, StateMoves
<1>2. ASSUME NEW f \in Ips, NEW p \in Projects, Allocate(f, p)
      PROVE  RowInv'
  BY <1>2, Unbinding DEF Allocate
<1>3. ASSUME NEW r \in Requests, NEW f \in Ips, NEW i \in Instances, TryAssociate(r, f, i)
      PROVE  RowInv'
  BY <1>3, TryAssociateInv
<1>4. ASSUME NEW f, row' = Released(f), state' = state
      PROVE  RowInv'
  BY <1>4, Unbinding DEF Released
<1>5. ASSUME NEW r \in Requests, NEW f \in Ips, TakeDisassociate(r, f)
      PROVE  RowInv'
  BY <1>4, <1>5 DEF TakeDisassociate
<1>6. ASSUME UNCHANGED <<state, row>>
      PROVE  RowInv'
  BY <1>6 DEF RowInv, RowType, BindingsAreWhole, Bound, Exists
<1>7. ASSUME NEW r \in Requests, Rollback(r)
      PROVE  RowInv'
  BY <1>4, <1>6, <1>7 DEF Rollback
<1>8. CASE BeginDestroy
  <2>1. row' = row /\ (state' = [state EXCEPT ![job.msg.inst] = "idle"] \/ state' = state)
    BY <1>8 DEF BeginDestroy
  <2>2. QED
    BY <1>6, <2>1, StateMoves
<1>9. CASE ClearBindings
  <2>1. row' = Cleared(job.msg.inst) /\ state' = state
    BY <1>9 DEF ClearBindings
  <2>2. QED
    BY <2>1, Clearing DEF RowInv, RowType, Exists
<1>10. CASE FinalizeDestroy
  <2>1. CASE row' = Cleared(job.msg.inst) /\ state' = [state EXCEPT ![job.msg.inst] = "gone"]
    <3>1. state' \in [Instances -> {"none", "running", "idle", "gone"}]
      BY <2>1 DEF RowInv, RowType
    <3>2. \A j \in Instances : j # job.msg.inst /\ Exists(j) => Exists(j)'
      BY <2>1 DEF RowInv, RowType, Exists
    <3>3. QED
      BY <2>1, <3>1, <3>2, Clearing
  <2>2. CASE UNCHANGED <<state, row>>
    BY <1>6, <2>2
  <2>3. QED
    BY <1>10, <2>1, <2>2 DEF FinalizeDestroy
<1>11. QED
  BY <1>1, <1>2, <1>3, <1>5, <1>7, <1>8, <1>9, <1>10 DEF RowStep

LEMMA InitRows == Init => RowInv
<1> SUFFICES ASSUME Init PROVE RowInv
    OBVIOUS
<1>1. \A f \in Ips : row[f] = Row("unallocated", None, None, None)
  BY DEF Init
<1>2. RowType
  BY <1>1 DEF Init, RowType, Row
<1>3. BindingsAreWhole
  BY <1>1 DEF BindingsAreWhole, Bound, Row
<1>4. QED
  BY <1>2, <1>3 DEF RowInv

\* An active row always names an instance that is there, with its project and
\* its address: by the conditions of TryAssociate, TakeDisassociate and
\* RollbackAssociation, and by the transaction that deletes an instance, which
\* first releases what is bound to it.
THEOREM BindingsAreAlwaysWhole == Spec => []BindingsAreWhole
<1>1. Init => RowInv
  BY InitRows
<1>2. RowInv /\ [Next]_vars => RowInv'
  <2>1. RowInv /\ UNCHANGED <<state, row>> => RowInv'
    BY DEF RowInv, RowType, BindingsAreWhole, Bound, Exists
  <2>2. QED
    BY <2>1, OtherSteps, RowStepInv
<1>3. RowInv => BindingsAreWhole
  BY DEF RowInv
<1>4. QED
  BY <1>1, <1>2, <1>3, PTL DEF Spec

------------------------------------------------------------------------------
(* Copies of a rule: an agent that has seen the rule absent may add it.    *)

MayAdd(g, c, p) ==
  /\ cmd[g].pair = p
  /\ IF c = "PREROUTING"
     THEN cmd[g].step = "addPre" \/ (cmd[g].step = "checkPost" /\ ~cmd[g].pre)
     ELSE cmd[g].step = "addPost" \/ (cmd[g].step = "addPre" /\ ~cmd[g].post)

CmdType ==
  /\ DOMAIN cmd = Agents
  /\ \A g \in Agents :
       cmd[g] = Cmd(cmd[g].step, cmd[g].pair, cmd[g].pre, cmd[g].post)

RulesType == rules \in [Chains \X Pairs -> Nat]

\* One who may add leaves room for itself, two for both.
RoomForAdditions ==
  \A c \in Chains, p \in Pairs :
    /\ rules[<<c, p>>] <= 2
    /\ \A g \in Agents : MayAdd(g, c, p) => rules[<<c, p>>] <= 1
    /\ MayAdd("worker", c, p) /\ MayAdd("reconciler", c, p) => rules[<<c, p>>] = 0

CopyInv == CmdType /\ RulesType /\ RoomForAdditions

\* Nobody adds, and who may add from now on could before or sees no rule.
LEMMA NothingIsAdded ==
  ASSUME CopyInv, RulesType',
         \A c \in Chains, p \in Pairs :
           /\ rules'[<<c, p>>] <= rules[<<c, p>>]
           /\ \A g \in Agents :
                MayAdd(g, c, p)' => MayAdd(g, c, p) \/ rules[<<c, p>>] = 0
  PROVE  RoomForAdditions'
<1> SUFFICES ASSUME NEW c \in Chains, NEW p \in Pairs
             PROVE  /\ rules'[<<c, p>>] <= 2
                    /\ \A g \in Agents : MayAdd(g, c, p)' => rules'[<<c, p>>] <= 1
                    /\ MayAdd("worker", c, p)' /\ MayAdd("reconciler", c, p)'
                         => rules'[<<c, p>>] = 0
    BY DEF RoomForAdditions
<1>1. rules[<<c, p>>] \in Nat /\ rules'[<<c, p>>] \in Nat
  BY DEF CopyInv, RulesType
<1>2. /\ rules[<<c, p>>] <= 2
      /\ \A g \in Agents : MayAdd(g, c, p) => rules[<<c, p>>] <= 1
      /\ MayAdd("worker", c, p) /\ MayAdd("reconciler", c, p) => rules[<<c, p>>] = 0
  BY DEF CopyInv, RoomForAdditions
<1>3. /\ rules'[<<c, p>>] <= rules[<<c, p>>]
      /\ \A g \in Agents : MayAdd(g, c, p)' => MayAdd(g, c, p) \/ rules[<<c, p>>] = 0
  OBVIOUS
<1>4. "worker" \in Agents /\ "reconciler" \in Agents
  BY DEF Agents
<1> HIDE DEF MayAdd, Agents
<1>5. QED
  BY <1>1, <1>2, <1>3, <1>4

\* One who may adds, and may not again; the others stay as they are.
LEMMA OneIsAdded ==
  ASSUME CopyInv, NEW g \in Agents, NEW d \in Chains, Add(d, cmd[g].pair),
         cmd[g].pair \in Pairs => MayAdd(g, d, cmd[g].pair),
         \A c \in Chains, p \in Pairs :
           /\ MayAdd(g, c, p)' => MayAdd(g, c, p) /\ c # d
           /\ \A h \in Agents \ {g} : MayAdd(h, c, p)' => MayAdd(h, c, p)
  PROVE  RulesType' /\ RoomForAdditions'
<1> DEFINE q == cmd[g].pair
<1> HIDE DEF q
<1>0. rules' = [rules EXCEPT ![<<d, q>>] = @ + 1]
  BY DEF Add, q
<1>1. RulesType'
  <2> DEFINE k == <<d, q>>
  <2>1. rules' = [x \in Chains \X Pairs |-> IF x = k THEN rules[k] + 1 ELSE rules[x]]
    BY <1>0 DEF CopyInv, RulesType
  <2> HIDE DEF k
  <2>2. \A x \in Chains \X Pairs : rules[x] \in Nat
    BY DEF CopyInv, RulesType
  <2>3. \A x \in Chains \X Pairs : (IF x = k THEN rules[k] + 1 ELSE rules[x]) \in Nat
    BY <2>2
  <2>4. QED
    BY <2>1, <2>3 DEF RulesType
<1>2. SUFFICES ASSUME NEW c \in Chains, NEW p \in Pairs
               PROVE  /\ rules'[<<c, p>>] <= 2
                      /\ \A h \in Agents : MayAdd(h, c, p)' => rules'[<<c, p>>] <= 1
                      /\ MayAdd("worker", c, p)' /\ MayAdd("reconciler", c, p)'
                           => rules'[<<c, p>>] = 0
  BY <1>1 DEF RoomForAdditions
<1>3. rules[<<c, p>>] \in Nat
  BY DEF CopyInv, RulesType
<1>4. /\ rules[<<c, p>>] <= 2
      /\ \A h \in Agents : MayAdd(h, c, p) => rules[<<c, p>>] <= 1
      /\ MayAdd("worker", c, p) /\ MayAdd("reconciler", c, p) => rules[<<c, p>>] = 0
  BY DEF CopyInv, RoomForAdditions
<1>5. /\ MayAdd(g, c, p)' => MayAdd(g, c, p) /\ c # d
      /\ \A h \in Agents \ {g} : MayAdd(h, c, p)' => MayAdd(h, c, p)
  OBVIOUS
<1>6. Agents = {"worker", "reconciler"}
  BY DEF Agents
<1>7. CASE c = d /\ p = q
  <2>1. rules'[<<c, p>>] = rules[<<c, p>>] + 1
    BY <1>0, <1>7 DEF CopyInv, RulesType
  <2>2. MayAdd(g, c, p) /\ ~MayAdd(g, c, p)'
    BY <1>5, <1>7 DEF q
  <2>3. \A h \in Agents \ {g} : MayAdd(h, c, p)' => rules[<<c, p>>] = 0
    BY <1>4, <1>5, <1>6, <2>2
  <2> HIDE DEF MayAdd, Agents
  <2>4. QED
    BY <1>3, <1>4, <1>6, <2>1, <2>2, <2>3
<1>8. CASE ~(c = d /\ p = q)
  <2>1. rules'[<<c, p>>] = rules[<<c, p>>]
    BY <1>0, <1>8 DEF CopyInv, RulesType
  <2>2. \A h \in Agents : MayAdd(h, c, p)' => MayAdd(h, c, p)
    BY <1>5
  <2> HIDE DEF MayAdd, Agents
  <2>3. QED
    BY <1>3, <1>4, <1>6, <2>1, <2>2
<1>9. QED
  BY <1>7, <1>8

\* A call that has not seen anything yet, or is over, or removes.
Quiet(k) ==
  /\ k = Cmd(k.step, k.pair, k.pre, k.post)
  /\ k.step \notin {"checkPost", "addPre", "addPost"}

LEMMA QuietCalls ==
  /\ Quiet(NoCommand)
  /\ \A pair : \A s \in {"checkPre", "seePre", "delPre"} : Quiet(Start(s, pair))
BY DEF Quiet, NoCommand, Start, Cmd

\* Where a call goes on to.
LEMMA Reaching ==
  ASSUME NEW g, NEW call, call = Cmd(call.step, call.pair, call.pre, call.post)
  PROVE  /\ call.step \notin {"ok", "err"} => Reach(g, call) = call
         /\ call.step \in {"ok", "err", "delPost"} => Quiet(Reach(g, call))
BY DEF Reach, Quiet, NoCommand, Start, Cmd

LEMMA Commands ==
  ASSUME NEW step, NEW pair, NEW pre, NEW post
  PROVE  /\ Cmd(step, pair, pre, post).step = step /\ Cmd(step, pair, pre, post).pair = pair
         /\ Cmd(step, pair, pre, post).pre = pre /\ Cmd(step, pair, pre, post).post = post
BY DEF Cmd

LEMMA Results ==
  ASSUME NEW g, NEW s \in {"ok", "err", "delPost"}
  PROVE  Quiet(GoOn(g, s))
<1> DEFINE call == Cmd(s, cmd[g].pair, cmd[g].pre, cmd[g].post)
<1>1. call = Cmd(call.step, call.pair, call.pre, call.post) /\ call.step = s
  BY Commands
<1> HIDE DEF call
<1>2. Quiet(Reach(g, call))
  BY <1>1, Reaching
<1>3. QED
  BY <1>2 DEF GoOn, call

LEMMA QuietSteps ==
  ASSUME CopyInv, rules' = rules, DOMAIN cmd' = Agents,
         \A g \in Agents : cmd'[g] = cmd[g] \/ Quiet(cmd'[g])
  PROVE  CopyInv'
<1>1. CmdType'
  BY DEF CopyInv, CmdType, Quiet
<1>2. RulesType'
  BY DEF CopyInv, RulesType
<1>3. \A g \in Agents, c \in Chains, p \in Pairs : MayAdd(g, c, p)' => MayAdd(g, c, p)
  BY DEF Quiet, MayAdd
<1>4. \A c \in Chains, p \in Pairs : rules[<<c, p>>] <= rules[<<c, p>>]
  BY DEF CopyInv, RulesType
<1>5. RoomForAdditions'
  BY <1>2, <1>3, <1>4, NothingIsAdded
<1>6. QED
  BY <1>1, <1>2, <1>5 DEF CopyInv

LEMMA OneCommand ==
  ASSUME CmdType, NEW g \in Agents, NEW k, cmd' = [cmd EXCEPT ![g] = k]
  PROVE  /\ DOMAIN cmd' = Agents /\ cmd'[g] = k
         /\ \A h \in Agents \ {g} : cmd'[h] = cmd[h]
         /\ \A h \in Agents \ {g}, c \in Chains, p \in Pairs : MayAdd(h, c, p)' => MayAdd(h, c, p)
<1>1. /\ DOMAIN cmd' = Agents /\ cmd'[g] = k
      /\ \A h \in Agents \ {g} : cmd'[h] = cmd[h]
  BY DEF CmdType
<1>2. QED
  BY <1>1 DEF MayAdd

LEMMA CheckPreInv ==
  ASSUME CopyInv, NEW g \in Agents, CheckPre(g)
  PROVE  /\ CopyInv'
         /\ \A c \in Chains, p \in Pairs :
              MayAdd(g, c, p)' => MayAdd(g, c, p) \/ rules[<<c, p>>] = 0
<1> DEFINE q == cmd[g].pair
<1>1. /\ cmd' = [cmd EXCEPT ![g] = Cmd("checkPost", q, Has("PREROUTING", q), FALSE)]
      /\ rules' = rules
  BY DEF CheckPre
<1>2. /\ DOMAIN cmd' = Agents /\ cmd'[g] = Cmd("checkPost", q, Has("PREROUTING", q), FALSE)
      /\ \A h \in Agents \ {g} : cmd'[h] = cmd[h]
      /\ \A h \in Agents \ {g}, c \in Chains, p \in Pairs : MayAdd(h, c, p)' => MayAdd(h, c, p)
  BY <1>1, OneCommand DEF CopyInv
<1>3. /\ cmd'[g].step = "checkPost" /\ cmd'[g].pair = q
      /\ cmd'[g].pre = Has("PREROUTING", q) /\ cmd'[g].post = FALSE
  BY <1>2 DEF Cmd
<1>4. CmdType' /\ RulesType'
  BY <1>1, <1>2, <1>3 DEF CopyInv, CmdType, RulesType
<1>5. \A c \in Chains, p \in Pairs : rules[<<c, p>>] \in Nat
  BY DEF CopyInv, RulesType
<1>6. ASSUME NEW c \in Chains, NEW p \in Pairs, MayAdd(g, c, p)'
      PROVE  rules[<<c, p>>] = 0
  <2>1. c = "PREROUTING" /\ p = q /\ ~cmd'[g].pre
    BY <1>3, <1>6 DEF MayAdd, Chains
  <2>2. ~Has("PREROUTING", q)
    BY <1>3, <2>1
  <2>3. QED
    BY <1>5, <2>1, <2>2 DEF Has
<1>7. RoomForAdditions'
  BY <1>1, <1>2, <1>4, <1>5, <1>6, NothingIsAdded
<1>8. QED
  BY <1>4, <1>6, <1>7 DEF CopyInv

LEMMA CheckPostInv ==
  ASSUME CopyInv, NEW g \in Agents, CheckPost(g)
  PROVE  /\ CopyInv'
         /\ \A c \in Chains, p \in Pairs :
              MayAdd(g, c, p)' => MayAdd(g, c, p) \/ rules[<<c, p>>] = 0
<1> DEFINE q == cmd[g].pair
           pre == cmd[g].pre
           post == Has("POSTROUTING", q)
           call == Cmd(NextAdd(pre, post), q, pre, post)
<1>1. /\ cmd' = [cmd EXCEPT ![g] = Reach(g, call)]
      /\ rules' = rules /\ cmd[g].step = "checkPost"
  BY DEF CheckPost
<1>2. /\ DOMAIN cmd' = Agents /\ cmd'[g] = Reach(g, call)
      /\ \A h \in Agents \ {g} : cmd'[h] = cmd[h]
      /\ \A h \in Agents \ {g}, c \in Chains, p \in Pairs : MayAdd(h, c, p)' => MayAdd(h, c, p)
  BY <1>1, OneCommand DEF CopyInv
<1> HIDE DEF call
<1>0. /\ call = Cmd(call.step, call.pair, call.pre, call.post)
      /\ call.step = NextAdd(pre, post) /\ call.pair = q /\ call.pre = pre /\ call.post = post
  BY Commands DEF call
<1>3. CASE call.step \in {"ok", "err"}
  <2>1. Quiet(cmd'[g])
    BY <1>0, <1>2, <1>3, Reaching
  <2>2. CopyInv'
    BY <1>1, <1>2, <2>1, QuietSteps
  <2>3. QED
    BY <2>1, <2>2 DEF Quiet, MayAdd
<1>4. CASE call.step \notin {"ok", "err"}
  <2>3. cmd'[g] = call
    BY <1>0, <1>2, <1>4, Reaching
  <2>4. CmdType' /\ RulesType'
    BY <1>0, <1>1, <1>2, <2>3 DEF CopyInv, CmdType, RulesType
  <2>5. \A c \in Chains, p \in Pairs : rules[<<c, p>>] \in Nat
    BY DEF CopyInv, RulesType
  <2>6. ASSUME NEW c \in Chains, NEW p \in Pairs, MayAdd(g, c, p)'
        PROVE  MayAdd(g, c, p) \/ rules[<<c, p>>] = 0
    <3>1. p = q
      BY <1>0, <2>3, <2>6 DEF MayAdd
    <3>2. CASE c = "PREROUTING"
      <4>1. NextAdd(pre, post) = "addPre"
        BY <1>0, <2>3, <2>6, <3>2, Zenon DEF MayAdd, NextAdd, AddedPre
      <4>2. ~pre
        BY <4>1 DEF NextAdd, AddedPre
      <4>3. QED
        BY <1>1, <3>1, <3>2, <4>2 DEF MayAdd
    <3>3. CASE c = "POSTROUTING"
      <4>1. ~post
        <5>1. cmd'[g].step = "addPost" \/ (cmd'[g].step = "addPre" /\ ~cmd'[g].post)
          BY <2>6, <3>3 DEF MayAdd
        <5>2. NextAdd(pre, post) = "addPost" => ~post
          BY DEF NextAdd, AddedPre
        <5>3. QED
          BY <1>0, <2>3, <5>1, <5>2
      <4>2. QED
        BY <2>5, <3>1, <3>3, <4>1 DEF Has
    <3>4. QED
      BY <3>2, <3>3 DEF Chains
  <2>7. RoomForAdditions'
    BY <1>1, <1>2, <2>4, <2>5, <2>6, NothingIsAdded
  <2>8. QED
    BY <2>4, <2>6, <2>7 DEF CopyInv
<1>5. QED
  BY <1>3, <1>4

LEMMA AddPreInv ==
  ASSUME CopyInv, NEW g \in Agents, AddPre(g)
  PROVE  /\ CopyInv'
         /\ cmd[g].pair \in Pairs => MayAdd(g, "PREROUTING", cmd[g].pair)
         /\ \A c \in Chains, p \in Pairs :
              MayAdd(g, c, p)' => MayAdd(g, c, p) /\ c # "PREROUTING"
<1> DEFINE q == cmd[g].pair
           post == cmd[g].post
           call == Cmd(AddedPre(post), q, cmd[g].pre, post)
<1>1. /\ cmd' = [cmd EXCEPT ![g] = Reach(g, call)]
      /\ Add("PREROUTING", q) /\ cmd[g].step = "addPre"
  BY DEF AddPre, GoOn
<1>2. /\ DOMAIN cmd' = Agents /\ cmd'[g] = Reach(g, call)
      /\ \A h \in Agents \ {g} : cmd'[h] = cmd[h]
      /\ \A h \in Agents \ {g}, c \in Chains, p \in Pairs : MayAdd(h, c, p)' => MayAdd(h, c, p)
  BY <1>1, OneCommand DEF CopyInv
<1> HIDE DEF call
<1>0. /\ call = Cmd(call.step, call.pair, call.pre, call.post)
      /\ call.step = AddedPre(post) /\ call.pair = q /\ call.post = post
  BY Commands DEF call
<1>3. call.step = "ok" \/ (call.step = "addPost" /\ ~post)
  BY <1>0 DEF AddedPre
<1>4. (cmd'[g] = call /\ call.step = "addPost") \/ Quiet(cmd'[g])
  BY <1>0, <1>2, <1>3, Reaching
<1>5. CmdType'
  BY <1>0, <1>2, <1>4 DEF CopyInv, CmdType, Quiet
<1>6. MayAdd(g, "PREROUTING", q)
  BY <1>1 DEF MayAdd
<1>7. ASSUME NEW c \in Chains, NEW p \in Pairs, MayAdd(g, c, p)'
      PROVE  MayAdd(g, c, p) /\ c # "PREROUTING"
  <2>1. cmd'[g] = call /\ call.step = "addPost" /\ c # "PREROUTING"
    BY <1>4, <1>7 DEF MayAdd, Quiet
  <2>2. ~post /\ p = q
    BY <1>0, <1>3, <1>7, <2>1 DEF MayAdd
  <2>3. QED
    BY <1>1, <2>1, <2>2 DEF MayAdd
<1>8. "PREROUTING" \in Chains
  BY DEF Chains
<1>9. RulesType' /\ RoomForAdditions'
  BY <1>1, <1>2, <1>6, <1>7, <1>8, OneIsAdded
<1>10. QED
  BY <1>5, <1>6, <1>7, <1>9 DEF CopyInv

LEMMA AddPostInv ==
  ASSUME CopyInv, NEW g \in Agents, AddPost(g)
  PROVE  /\ CopyInv'
         /\ cmd[g].pair \in Pairs => MayAdd(g, "POSTROUTING", cmd[g].pair)
         /\ \A c \in Chains, p \in Pairs :
              MayAdd(g, c, p)' => MayAdd(g, c, p) /\ c # "POSTROUTING"
<1> DEFINE q == cmd[g].pair
<1>1. /\ cmd' = [cmd EXCEPT ![g] = GoOn(g, "ok")]
      /\ Add("POSTROUTING", q) /\ cmd[g].step = "addPost"
  BY DEF AddPost
<1>2. /\ DOMAIN cmd' = Agents /\ cmd'[g] = GoOn(g, "ok")
      /\ \A h \in Agents \ {g} : cmd'[h] = cmd[h]
      /\ \A h \in Agents \ {g}, c \in Chains, p \in Pairs : MayAdd(h, c, p)' => MayAdd(h, c, p)
  BY <1>1, OneCommand DEF CopyInv
<1>3. Quiet(cmd'[g]) /\ CmdType'
  BY <1>2, Results DEF CopyInv, CmdType, Quiet
<1>4. MayAdd(g, "POSTROUTING", q) /\ "POSTROUTING" \in Chains
  BY <1>1 DEF MayAdd, Chains
<1>5. \A c \in Chains, p \in Pairs : ~MayAdd(g, c, p)'
  BY <1>3 DEF MayAdd, Quiet
<1>6. RulesType' /\ RoomForAdditions'
  BY <1>1, <1>2, <1>4, <1>5, OneIsAdded
<1>7. QED
  BY <1>3, <1>4, <1>5, <1>6 DEF CopyInv

LEMMA DeleteInv ==
  ASSUME CopyInv, NEW g \in Agents, NEW d \in Chains, NEW s \in {"delPost", "ok"},
         Delete(d, cmd[g].pair), cmd' = [cmd EXCEPT ![g] = GoOn(g, s)]
  PROVE  CopyInv'
<1> DEFINE k == <<d, cmd[g].pair>>
<1>1. rules' = [x \in Chains \X Pairs |->
                  IF x = k THEN (IF rules[k] > 0 THEN rules[k] - 1 ELSE 0) ELSE rules[x]]
  BY DEF Delete, CopyInv, RulesType
<1> HIDE DEF k
<1>2. \A x \in Chains \X Pairs : rules[x] \in Nat
  BY DEF CopyInv, RulesType
<1>3. \A x \in Chains \X Pairs : rules'[x] \in Nat /\ rules'[x] <= rules[x]
  BY <1>1, <1>2
<1>4. RulesType'
  BY <1>1, <1>3 DEF RulesType
<1>5. /\ cmd' = [cmd EXCEPT ![g] = GoOn(g, s)]
      /\ Quiet(GoOn(g, s))
  BY Results
<1>6. /\ DOMAIN cmd' = Agents /\ cmd'[g] = GoOn(g, s)
      /\ \A h \in Agents \ {g} : cmd'[h] = cmd[h]
      /\ \A h \in Agents \ {g}, c \in Chains, p \in Pairs : MayAdd(h, c, p)' => MayAdd(h, c, p)
  BY <1>5, OneCommand DEF CopyInv
<1>7. Quiet(cmd'[g]) /\ CmdType'
  BY <1>5, <1>6 DEF CopyInv, CmdType, Quiet
<1>8. \A c \in Chains, p \in Pairs : ~MayAdd(g, c, p)'
  BY <1>7 DEF MayAdd, Quiet
<1>9. RoomForAdditions'
  BY <1>3, <1>4, <1>6, <1>8, NothingIsAdded
<1>10. QED
  BY <1>4, <1>7, <1>9 DEF CopyInv

LEMMA SeeingIsQuiet ==
  ASSUME CmdType, NEW g \in Agents, SeePre(g) \/ SeePost(g)
  PROVE  /\ DOMAIN cmd' = Agents /\ Quiet(cmd'[g])
         /\ \A h \in Agents \ {g} : cmd'[h] = cmd[h]
<1>1. CASE SeePre(g)
  <2>1. cmd' = [cmd EXCEPT ![g] = Cmd("seePost", cmd[g].pair, Has("PREROUTING", cmd[g].pair), FALSE)]
    BY <1>1 DEF SeePre
  <2>2. /\ DOMAIN cmd' = Agents
        /\ cmd'[g] = Cmd("seePost", cmd[g].pair, Has("PREROUTING", cmd[g].pair), FALSE)
        /\ \A h \in Agents \ {g} : cmd'[h] = cmd[h]
    BY <2>1, OneCommand
  <2>3. QED
    BY <2>2 DEF Quiet, Cmd
<1>2. CASE SeePost(g)
  <2>1. PICK k \in {GoOn(g, "ok"), Start("checkPre", cmd[g].pair)} :
          cmd' = [cmd EXCEPT ![g] = k]
    BY <1>2 DEF SeePost
  <2>2. Quiet(k)
    BY QuietCalls, Results
  <2>3. QED
    BY <2>1, <2>2, OneCommand
<1>3. QED
  BY <1>1, <1>2

LEMMA CommandInv ==
  ASSUME CopyInv, NEW g \in Agents, Command(g) \/ CommandFails(g)
  PROVE  CopyInv'
<1>1. CASE SeePre(g) \/ SeePost(g)
  <2>1. rules' = rules
    BY <1>1 DEF SeePre, SeePost
  <2>2. QED
    BY <1>1, <2>1, SeeingIsQuiet, QuietSteps DEF CopyInv
<1>2. CASE CommandFails(g)
  <2>1. PICK s \in {"delPost", "ok", "err"} :
          cmd' = [cmd EXCEPT ![g] = GoOn(g, s)] /\ rules' = rules
    <3> DEFINE s == IF cmd[g].step = "delPre" THEN "delPost"
                    ELSE IF cmd[g].step = "delPost" THEN "ok" ELSE "err"
    <3>1. cmd' = [cmd EXCEPT ![g] = GoOn(g, s)] /\ rules' = rules
      BY <1>2 DEF CommandFails
    <3>2. s \in {"delPost", "ok", "err"}
      OBVIOUS
    <3> HIDE DEF s
    <3>3. QED
      BY <3>1, <3>2
  <2>2. Quiet(GoOn(g, s))
    BY Results
  <2>3. /\ DOMAIN cmd' = Agents /\ cmd'[g] = GoOn(g, s)
        /\ \A h \in Agents \ {g} : cmd'[h] = cmd[h]
    BY <2>1, OneCommand DEF CopyInv
  <2>4. QED
    BY <2>1, <2>2, <2>3, QuietSteps
<1>3. CASE DelPre(g) \/ DelPost(g)
  <2>1. "PREROUTING" \in Chains /\ "POSTROUTING" \in Chains
    BY DEF Chains
  <2>2. QED
    BY <1>3, <2>1, DeleteInv DEF DelPre, DelPost
<1>4. QED
  BY <1>1, <1>2, <1>3, CheckPreInv, CheckPostInv, AddPreInv, AddPostInv DEF Command

LEMMA OtherCalls ==
  ASSUME CopyInv, [Next]_vars, \A g \in Agents : ~Command(g) /\ ~CommandFails(g)
  PROVE  CopyInv'
<1>0. "worker" \in Agents /\ "reconciler" \in Agents
  BY DEF Agents
<1>1. ASSUME NEW k, Quiet(k), NEW g \in Agents, rules' = rules, cmd' = [cmd EXCEPT ![g] = k]
      PROVE  CopyInv'
  <2>1. DOMAIN cmd' = Agents /\ cmd'[g] = k /\ \A h \in Agents \ {g} : cmd'[h] = cmd[h]
    BY <1>1, OneCommand DEF CopyInv
  <2>2. QED
    BY <1>1, <2>1, QuietSteps
<1>2. ASSUME rules' = rules, cmd' = cmd
      PROVE  CopyInv'
  BY <1>2, QuietSteps DEF CopyInv, CmdType
<1>3. CASE UNCHANGED vars
  BY <1>2, <1>3 DEF vars
<1>4. ASSUME NEW i \in Instances, Create(i) \/ StateChanges(i)
      PROVE  CopyInv'
  BY <1>2, <1>4 DEF Create, StateChanges
<1>5. ASSUME NEW f \in Ips, NEW p \in Projects, Allocate(f, p)
      PROVE  CopyInv'
  BY <1>2, <1>5 DEF Allocate
<1>6. ASSUME NEW r \in Requests, RequestStep(r)
      PROVE  CopyInv'
  BY <1>2, <1>6 DEF RequestStep, TryAssociate, TakeDisassociate, RequestDestroy, CreateTask,
                    PublishTask, RequestFails, Rollback, RequestAborted
<1>7. CASE Take \/ Ack \/ ListBindings
  BY <1>2, <1>7 DEF Take, Ack, ListBindings
<1>8. ASSUME rules' = rules, Retry \/ cmd' = cmd
      PROVE  CopyInv'
  BY <1>0, <1>1, <1>2, <1>8, QuietCalls DEF Retry
<1>9. CASE BeginDestroy \/ FinalizeDestroy \/ HandlerFails
  <2>1. rules' = rules /\ (Retry \/ cmd' = cmd)
    BY <1>9 DEF BeginDestroy, FinalizeDestroy, HandlerFails
  <2>2. QED
    BY <1>8, <2>1
<1>10. ASSUME NEW s \in {"checkPre", "delPre"}, NEW pair, Call(s, pair), rules' = rules
       PROVE  CopyInv'
  BY <1>0, <1>1, <1>10, QuietCalls DEF Call
<1>11. CASE BeginAssociate \/ BeginDisassociate
  BY <1>8, <1>10, <1>11 DEF BeginAssociate, BeginDisassociate
<1>12. CASE \E b \in job.bindings : DetachBinding(b)
  BY <1>10, <1>12 DEF DetachBinding
<1>13. CASE NatDone \/ ClearBindings
  <2>1. rules' = rules /\ (Retry \/ cmd' = [cmd EXCEPT !["worker"] = NoCommand])
    BY <1>13 DEF NatDone, ClearBindings
  <2>2. QED
    BY <1>0, <1>1, <1>8, <2>1, QuietCalls
<1>14. CASE Crash
  <2>1. DOMAIN cmd' = Agents /\ rules' = rules /\ \A g \in Agents : cmd'[g] = NoCommand
    BY <1>14 DEF Crash
  <2>2. QED
    BY <2>1, QuietCalls, QuietSteps
<1>15. CASE ReconcilerStep
  <2>1. CASE ListActive
    BY <1>2, <2>1 DEF ListActive
  <2>2. CASE EndPass
    BY <1>2, <2>2 DEF EndPass
  <2>3. ASSUME NEW b, Reconcile(b)
        PROVE  CopyInv'
    BY <1>0, <1>1, <2>3, QuietCalls DEF Reconcile
  <2>4. QED
    BY <1>0, <1>15, <2>1, <2>2, <2>3 DEF ReconcilerStep
<1>16. QED
  BY <1>0, <1>3, <1>4, <1>5, <1>6, <1>7, <1>9, <1>11, <1>12, <1>13, <1>14, <1>15
  DEF Next, WorkerStep

LEMMA InitCopies == Init => CopyInv
<1> SUFFICES ASSUME Init PROVE CopyInv
    OBVIOUS
<1>1. \A g \in Agents : cmd[g] = NoCommand
  BY DEF Init
<1>2. CmdType /\ \A g \in Agents, c \in Chains, p \in Pairs : ~MayAdd(g, c, p)
  BY <1>1 DEF Init, CmdType, NoCommand, Cmd, MayAdd
<1>3. RulesType /\ \A c \in Chains, p \in Pairs : rules[<<c, p>>] = 0
  BY DEF Init, RulesType
<1>4. RoomForAdditions
  <2> SUFFICES ASSUME NEW c \in Chains, NEW p \in Pairs
               PROVE  /\ rules[<<c, p>>] <= 2
                      /\ \A g \in Agents : MayAdd(g, c, p) => rules[<<c, p>>] <= 1
                      /\ MayAdd("worker", c, p) /\ MayAdd("reconciler", c, p)
                           => rules[<<c, p>>] = 0
      BY DEF RoomForAdditions
  <2>1. rules[<<c, p>>] = 0
    BY <1>3
  <2>2. QED
    BY <2>1
<1>5. QED
  BY <1>2, <1>3, <1>4 DEF CopyInv

\* Check and addition are two commands, and the worker and the reconciler make
\* them at the same time: a rule is there twice at most, however many pairs,
\* requests, retries, failing commands and deaths there are.
THEOREM NeverMoreThanTwoCopies == Spec => []AtMostTwoCopies
<1>1. Init => CopyInv
  BY InitCopies
<1>2. CopyInv /\ [Next]_vars => CopyInv'
  BY CommandInv, OtherCalls
<1>3. CopyInv => AtMostTwoCopies
  BY DEF CopyInv, RulesType, RoomForAdditions, AtMostTwoCopies
<1>4. QED
  BY <1>1, <1>2, <1>3, PTL DEF Spec
------------------------------------------------------------------------------
(* The types.                                                              *)

RowRec == [status : {"unallocated", "allocated", "active"}, project : Projects \cup {None},
           inst : Instances \cup {None}, priv : Addresses \cup {None}]
ReqRec == [step : {"new", "task", "publish", "rollback", "done"}, msg : Messages \cup {None}]
JobRec == [step : {"idle", "begin", "nat", "list", "detach", "finalize", "ack"},
           msg : Messages \cup {None}, bindings : SUBSET Pairs]
CmdRec == [step : {"idle", "seePre", "seePost", "checkPre", "checkPost", "addPre", "addPost",
                   "delPre", "delPost", "ok", "err"},
           pair : Pairs \cup {NoPair}, pre : BOOLEAN, post : BOOLEAN]

\* What a request carries, and how far it gets with it.
ReqShape(q) ==
  /\ q.step \in {"task", "publish", "rollback"} => q.msg \in Messages
  /\ q.step = "task" => q.msg.type \in {"associate", "disassociate"}
  /\ q.step = "rollback" => q.msg.type = "associate"

\* The handler that runs is the one for the type of the message.
JobShape ==
  /\ job.step = "idle" => job = NoJob
  /\ job.step # "idle" => job.msg \in Messages
  /\ job.step = "nat" => job.msg.type \in {"associate", "disassociate"}
  /\ job.step \in {"list", "detach", "finalize"} => job.msg.type = "destroy"

Checks    == {"seePre", "seePost", "checkPre", "checkPost"}
Additions == {"addPre", "addPost"}
Removals  == {"delPre", "delPost"}

\* The call of the worker is one of its handler's, about the pair of its
\* message; the reconciler has one only during a pass, and it only adds.
WorkerShape ==
  /\ cmd["worker"].step # "idle" => job.step \in {"nat", "detach"}
  /\ job.step = "nat" /\ job.msg.type = "associate" =>
       cmd["worker"].step \in Checks \cup Additions \cup {"ok", "err"}
  /\ job.step = "nat" /\ job.msg.type = "disassociate" =>
       /\ cmd["worker"].step \in Removals \cup {"ok"}
       /\ cmd["worker"].step \in Removals => cmd["worker"].pair = <<job.msg.ip, job.msg.priv>>
  /\ job.step = "detach" => cmd["worker"].step \in Removals \cup {"idle", "ok"}
ReconcilerShape ==
  /\ cmd["reconciler"].step \in Checks \cup Additions \cup {"idle"}
  /\ cmd["reconciler"].step # "idle" => pass # None
CallShape(k) ==
  /\ k.step \notin {"idle", "ok", "err"} => k.pair \in Pairs
  /\ k.step = "idle" => k = NoCommand

ReqTyped  == req \in [Requests -> ReqRec] /\ \A r \in Requests : ReqShape(req[r])
JobTyped  == job \in JobRec /\ JobShape /\ queue \in Seq(Messages)
CmdTyped  == /\ cmd \in [Agents -> CmdRec] /\ \A g \in Agents : CallShape(cmd[g])
             /\ WorkerShape /\ ReconcilerShape
PassTyped == pass \in (SUBSET Pairs) \cup {None}
RestTyped == row \in [Ips -> RowRec] /\ faults \in 0..MaxFaults /\ clean \in BOOLEAN

TypeInv == RowInv /\ CopyInv /\ ReqTyped /\ JobTyped /\ CmdTyped /\ PassTyped /\ RestTyped

LEMMA InvIsTyped == TypeInv => TypeOK
BY DEF TypeInv, RowInv, RowType, CopyInv, RulesType, ReqTyped, ReqRec, JobTyped, JobRec,
       CmdTyped, CmdRec, PassTyped, RestTyped, RowRec, TypeOK

LEMMA TheAgents == "worker" \in Agents /\ "reconciler" \in Agents /\ Agents = {"worker", "reconciler"}
BY DEF Agents

\* What a message has, by its type.
LEMMA MessageParts ==
  ASSUME NEW m \in Messages
  PROVE  /\ m.type \in {"associate", "disassociate", "destroy"} /\ m.tries \in Tries
         /\ m.type \in {"associate", "disassociate"} => m.ip \in Ips /\ m.priv \in Addresses
         /\ m.type \in {"associate", "destroy"} => m.inst \in Instances
BY DEF Messages

LEMMA MadeMessages ==
  /\ \A f \in Ips, a \in Addresses, i \in Instances : Message("associate", f, a, i, 0) \in Messages
  /\ \A f \in Ips, a \in Addresses : Message("disassociate", f, a, None, 0) \in Messages
  /\ \A i \in Instances : Message("destroy", None, None, i, 0) \in Messages
<1>1. 0 \in Tries
  BY ConstantsAssumption DEF Tries
<1> QED BY <1>1 DEF Message, Messages

LEMMA TriedAgain ==
  ASSUME NEW m \in Messages, m.tries < MaxRetries
  PROVE  [m EXCEPT !.tries = @ + 1] \in Messages
<1>1. m.tries + 1 \in Tries
  BY MessageParts, ConstantsAssumption DEF Tries
<1>2. CASE m \in [type : {"associate"}, ip : Ips, priv : Addresses, inst : Instances, tries : Tries]
  BY <1>1, <1>2 DEF Messages
<1>3. CASE m \in [type : {"disassociate"}, ip : Ips, priv : Addresses, inst : {None}, tries : Tries]
  BY <1>1, <1>3 DEF Messages
<1>4. CASE m \in [type : {"destroy"}, ip : {None}, priv : {None}, inst : Instances, tries : Tries]
  BY <1>1, <1>4 DEF Messages
<1> QED BY <1>2, <1>3, <1>4 DEF Messages

LEMMA QueueEnds ==
  ASSUME NEW S, NEW q \in Seq(S), NEW e \in S
  PROVE  /\ Append(q, e) \in Seq(S) /\ <<e>> \o q \in Seq(S)
         /\ q # <<>> => Head(q) \in S /\ Tail(q) \in Seq(S)
OBVIOUS

\* The rows a binding comes from are whole, so it is a pair.
LEMMA BindingsArePairs ==
  ASSUME RowInv, NEW i
  PROVE  BindingsOf(i) \subseteq Pairs
<1>1. ASSUME NEW f \in Ips, Bound(f) PROVE row[f].priv \in Addresses
  <2>1. PICK j \in Instances : row[f] = Row("active", ProjectOf[j], j, AddrOf[j])
    BY <1>1 DEF RowInv, BindingsAreWhole
  <2>2. row[f].priv = AddrOf[j]
    BY <2>1 DEF Row
  <2> QED BY <2>2, ConstantsAssumption
<1> QED BY <1>1 DEF BindingsOf, Pairs

------------------------------------------------------------------------------
(* What the steps do to requests, the worker's job and the calls.          *)

LEMMA RequestMoves ==
  ASSUME ReqTyped, NEW r \in Requests, NEW q \in ReqRec, ReqShape(q), req' = [req EXCEPT ![r] = q]
  PROVE  /\ ReqTyped' /\ req'[r] = q
         /\ \A x \in Requests \ {r} : req'[x] = req[x]
BY DEF ReqTyped

LEMMA RequestArrives ==
  ASSUME ReqTyped, NEW r \in Requests, NEW m \in Messages, NEW s \in {"task", "publish"},
         s = "task" => m.type \in {"associate", "disassociate"}, Arrives(r),
         req' = [req EXCEPT ![r] = [step |-> s, msg |-> m]]
  PROVE  /\ ReqTyped' /\ req'[r].step = s /\ req'[r].msg = m /\ req[r].step = "new"
         /\ \A x \in Requests \ {r} : req'[x] = req[x]
<1> DEFINE q == [step |-> s, msg |-> m]
<1>1. q \in ReqRec /\ q.step = s /\ q.msg = m
  BY DEF ReqRec
<1>2. req[r].step = "new"
  BY DEF Arrives, NoRequest
<1>3. req' = [req EXCEPT ![r] = q]
  OBVIOUS
<1> HIDE DEF q
<1>4. ReqShape(q)
  BY <1>1 DEF ReqShape
<1> QED BY <1>1, <1>2, <1>3, <1>4, RequestMoves

LEMMA RequestGoesOn ==
  ASSUME ReqTyped, NEW r \in Requests, NEW s \in {"publish", "rollback", "done"}, To(r, s),
         req[r].step \in {"task", "publish", "rollback"},
         s = "rollback" => req[r].msg.type = "associate"
  PROVE  /\ ReqTyped' /\ req'[r].step = s /\ (s # "done" => req'[r].msg = req[r].msg)
         /\ \A x \in Requests \ {r} : req'[x] = req[x]
<1> DEFINE q == IF s = "done" THEN Answered ELSE [step |-> s, msg |-> req[r].msg]
<1>1. req[r].msg \in Messages
  BY DEF ReqTyped, ReqShape
<1>2. q \in ReqRec /\ q.step = s /\ (s # "done" => q.msg = req[r].msg)
  BY <1>1 DEF Answered, ReqRec
<1>3. req' = [req EXCEPT ![r] = q]
  BY DEF To
<1> HIDE DEF q
<1>4. ReqShape(q)
  BY <1>1, <1>2 DEF ReqShape
<1> QED BY <1>2, <1>3, <1>4, RequestMoves

LEMMA JobStep ==
  ASSUME job \in JobRec, NEW s \in {"nat", "list", "detach", "finalize", "ack"},
         job' = [job EXCEPT !.step = s]
  PROVE  job' \in JobRec /\ job'.step = s /\ job'.msg = job.msg /\ job'.bindings = job.bindings
BY DEF JobRec

LEMMA TheJobs ==
  /\ NoJob \in JobRec /\ NoJob.step = "idle"
  /\ \A m \in Messages : LET j == [step |-> "begin", msg |-> m, bindings |-> {}]
                         IN  j \in JobRec /\ j.step = "begin" /\ j.msg = m
BY DEF NoJob, JobRec

LEMMA TheCalls ==
  /\ NoCommand \in CmdRec /\ NoCommand.step = "idle" /\ CallShape(NoCommand)
  /\ \A s \in {"seePre", "checkPre", "delPre"} : \A p \in Pairs :
       Start(s, p) \in CmdRec /\ Start(s, p).step = s /\ Start(s, p).pair = p
       /\ CallShape(Start(s, p))
  /\ \A s \in {"ok", "err"} :
       LET k == Start(s, NoPair) IN k \in CmdRec /\ k.step = s /\ k.pair = NoPair /\ CallShape(k)
BY DEF NoCommand, Start, Cmd, CmdRec, CallShape

LEMMA CallMoves ==
  ASSUME cmd \in [Agents -> CmdRec], \A g \in Agents : CallShape(cmd[g]),
         NEW g \in Agents, NEW k \in CmdRec, CallShape(k), cmd' = [cmd EXCEPT ![g] = k]
  PROVE  /\ cmd' \in [Agents -> CmdRec] /\ cmd'[g] = k
         /\ \A h \in Agents : h # g => cmd'[h] = cmd[h]
         /\ \A h \in Agents : CallShape(cmd'[h])
OBVIOUS

LEMMA Retried ==
  ASSUME JobTyped, CmdTyped, Retry, job.step # "idle"
  PROVE  /\ JobTyped' /\ job' = NoJob /\ job'.step = "idle" /\ cmd'["worker"] = NoCommand
         /\ cmd'["worker"].step = "idle" /\ cmd'["reconciler"] = cmd["reconciler"]
         /\ cmd' \in [Agents -> CmdRec] /\ \A g \in Agents : CallShape(cmd'[g])
         /\ queue' = queue \/ \E m \in Messages :
                                queue' = Append(queue, m) /\ m.type = job.msg.type
<1>1. job' = NoJob /\ cmd' = [cmd EXCEPT !["worker"] = NoCommand]
  BY DEF Retry
<1>2. cmd'["worker"] = NoCommand /\ cmd'["reconciler"] = cmd["reconciler"]
      /\ cmd' \in [Agents -> CmdRec] /\ \A g \in Agents : CallShape(cmd'[g])
  BY <1>1, TheAgents, TheCalls, CallMoves DEF CmdTyped
<1>3. job.msg \in Messages
  BY DEF JobTyped, JobShape
<1>4. queue' = queue \/ \E m \in Messages :
                          queue' = Append(queue, m) /\ m.type = job.msg.type
  <2> DEFINE m == [job.msg EXCEPT !.tries = @ + 1]
  <2>1. CASE job.msg.tries < MaxRetries
    <3>1. m \in Messages
      BY <1>3, <2>1, TriedAgain
    <3>2. m.type = job.msg.type
      BY <1>3 DEF Messages
    <3>3. queue' = Append(queue, m)
      BY <2>1 DEF Retry
    <3> QED BY <3>1, <3>2, <3>3
  <2>2. CASE ~(job.msg.tries < MaxRetries)
    BY <2>2 DEF Retry
  <2> QED BY <2>1, <2>2
<1>5. queue' \in Seq(Messages)
  BY <1>4, QueueEnds DEF JobTyped
<1>6. JobShape'
  BY <1>1, TheJobs DEF JobShape
<1> QED BY <1>1, <1>2, <1>4, <1>5, <1>6, TheJobs, TheCalls DEF JobTyped
------------------------------------------------------------------------------
(* Every step keeps the types.                                             *)

\* What the rows need, beside what they say together.
LEMMA RowMoves ==
  ASSUME RestTyped, NEW f \in Ips, NEW r \in RowRec, row' = [row EXCEPT ![f] = r],
         UNCHANGED <<faults, clean>>
  PROVE  RestTyped'
BY DEF RestTyped

LEMMA ReleaseTyped ==
  ASSUME RestTyped, NEW f \in Ips, row' = Released(f), UNCHANGED <<faults, clean>>
  PROVE  RestTyped'
<1> DEFINE r == Row("allocated", row[f].project, None, None)
<1>1. r \in RowRec
  BY DEF RestTyped, Row, RowRec
<1>2. row' = [row EXCEPT ![f] = r]
  BY DEF Released
<1> HIDE DEF r
<1> QED BY <1>1, <1>2, RowMoves

LEMMA ClearTyped ==
  ASSUME RestTyped, NEW i, row' = Cleared(i), UNCHANGED <<faults, clean>>
  PROVE  RestTyped'
<1>1. ASSUME NEW f \in Ips
      PROVE  Row(IF Bound(f) THEN "allocated" ELSE row[f].status, row[f].project, None, None)
               \in RowRec
  BY DEF RestTyped, Row, RowRec
<1>2. row' \in [Ips -> RowRec]
  BY <1>1 DEF Cleared, RestTyped
<1> QED BY <1>2 DEF RestTyped

LEMMA FaultTyped ==
  ASSUME RestTyped, Error \/ (Fault /\ clean' = clean), row' = row
  PROVE  RestTyped'
<1>1. MaxFaults \in Nat
  BY ConstantsAssumption
<1>2. faults' \in 0..MaxFaults
  BY <1>1 DEF RestTyped, Error, Fault
<1> QED BY <1>2 DEF RestTyped, Error

LEMMA RequestTypes ==
  ASSUME TypeInv, NEW r \in Requests, RequestStep(r)
  PROVE  ReqTyped' /\ queue' \in Seq(Messages) /\ RestTyped' /\ UNCHANGED <<job, cmd, pass>>
<1>0. ReqTyped /\ queue \in Seq(Messages) /\ RestTyped
  BY DEF TypeInv, JobTyped
<1>1. ASSUME NEW f \in Ips, NEW i \in Instances, TryAssociate(r, f, i)
      PROVE  ReqTyped' /\ queue' \in Seq(Messages) /\ RestTyped' /\ UNCHANGED <<job, cmd, pass>>
  <2> DEFINE m == Message("associate", f, AddrOf[i], i, 0)
             q == Row("active", row[f].project, i, AddrOf[i])
  <2>1. AddrOf[i] \in Addresses
    BY ConstantsAssumption
  <2>2. m \in Messages /\ m.type = "associate"
    BY <2>1, MadeMessages DEF Message
  <2>3. req' = [req EXCEPT ![r] = [step |-> "task", msg |-> m]] /\ Arrives(r)
    BY <1>1 DEF TryAssociate
  <2>4. row' = [row EXCEPT ![f] = q]
    BY <1>1 DEF TryAssociate
  <2>5. q \in RowRec
    BY <1>0, <2>1 DEF Row, RowRec, RestTyped
  <2> HIDE DEF m, q
  <2>6. ReqTyped'
    BY <1>0, <2>2, <2>3, RequestArrives
  <2>7. UNCHANGED <<queue, job, cmd, pass, faults, clean>>
    BY <1>1 DEF TryAssociate, world
  <2> QED BY <1>0, <2>4, <2>5, <2>6, <2>7, RowMoves
<1>2. ASSUME NEW f \in Ips, TakeDisassociate(r, f)
      PROVE  ReqTyped' /\ queue' \in Seq(Messages) /\ RestTyped' /\ UNCHANGED <<job, cmd, pass>>
  <2> DEFINE m == Message("disassociate", f, row[f].priv, None, 0)
  <2>1. PICK j \in Instances : row[f] = Row("active", ProjectOf[j], j, AddrOf[j])
    BY <1>2 DEF TakeDisassociate, TypeInv, RowInv, BindingsAreWhole
  <2>2. row[f].priv \in Addresses
    BY <2>1, ConstantsAssumption DEF Row
  <2>3. m \in Messages /\ m.type = "disassociate"
    BY <2>2, MadeMessages DEF Message
  <2>4. req' = [req EXCEPT ![r] = [step |-> "task", msg |-> m]] /\ Arrives(r)
    BY <1>2 DEF TakeDisassociate
  <2> HIDE DEF m
  <2>5. ReqTyped'
    BY <1>0, <2>3, <2>4, RequestArrives
  <2>6. UNCHANGED <<queue, job, cmd, pass, faults, clean>> /\ row' = Released(f)
    BY <1>2 DEF TakeDisassociate, world
  <2> QED BY <1>0, <2>5, <2>6, ReleaseTyped
<1>3. ASSUME NEW i \in Instances, RequestDestroy(r, i)
      PROVE  ReqTyped' /\ queue' \in Seq(Messages) /\ RestTyped' /\ UNCHANGED <<job, cmd, pass>>
  <2> DEFINE m == Message("destroy", None, None, i, 0)
  <2>1. m \in Messages
    BY MadeMessages
  <2>2. req' = [req EXCEPT ![r] = [step |-> "publish", msg |-> m]] /\ Arrives(r)
    BY <1>3 DEF RequestDestroy
  <2> HIDE DEF m
  <2>3. ReqTyped'
    BY <1>0, <2>1, <2>2, RequestArrives
  <2>4. UNCHANGED <<row, queue, job, cmd, pass, faults, clean>>
    BY <1>3 DEF RequestDestroy, world
  <2> QED BY <1>0, <2>3, <2>4 DEF RestTyped
<1>4. CASE CreateTask(r)
  <2>1. PICK s \in {"publish", "rollback", "done"} : To(r, s) /\ s # "rollback"
    BY <1>4 DEF CreateTask
  <2>2. req[r].step = "task" /\ UNCHANGED <<row, queue, job, cmd, pass, faults, clean>>
    BY <1>4 DEF CreateTask, world
  <2> QED BY <1>0, <2>1, <2>2, RequestGoesOn DEF RestTyped
<1>5. CASE PublishTask(r)
  <2>1. /\ req[r].step = "publish" /\ To(r, "done") /\ queue' = Append(queue, req[r].msg)
        /\ UNCHANGED <<row, job, cmd, pass, faults, clean>>
    BY <1>5 DEF PublishTask, world
  <2>2. req[r].msg \in Messages
    BY <1>0, <2>1 DEF ReqTyped, ReqShape
  <2>3. queue' \in Seq(Messages)
    BY <1>0, <2>1, <2>2, QueueEnds
  <2> QED BY <1>0, <2>1, <2>3, RequestGoesOn DEF RestTyped
<1>6. CASE RequestFails(r) \/ RequestAborted(r)
  <2>1. PICK s \in {"publish", "rollback", "done"} :
          To(r, s) /\ (s = "rollback" => req[r].msg.type = "associate")
    BY <1>6 DEF RequestFails, RequestAborted
  <2>2. /\ req[r].step \in {"task", "publish", "rollback"} /\ Error
        /\ UNCHANGED <<row, queue, job, cmd, pass>>
    BY <1>6 DEF RequestFails, RequestAborted
  <2> QED BY <1>0, <2>1, <2>2, RequestGoesOn, FaultTyped
<1>7. CASE Rollback(r)
  <2>1. /\ req[r].step = "rollback" /\ To(r, "done")
        /\ UNCHANGED <<queue, job, cmd, pass, faults, clean>>
        /\ row' = row \/ row' = Released(req[r].msg.ip)
    BY <1>7 DEF Rollback, world
  <2>2. req[r].msg.ip \in Ips
    BY <1>0, <2>1, MessageParts DEF ReqTyped, ReqShape
  <2>3. RestTyped'
    BY <1>0, <2>1, <2>2, ReleaseTyped DEF RestTyped
  <2> QED BY <1>0, <2>1, <2>3, RequestGoesOn
<1> QED BY <1>1, <1>2, <1>3, <1>4, <1>5, <1>6, <1>7 DEF RequestStep

\* The worker's steps between its calls.
LEMMA JobTypes ==
  ASSUME TypeInv,
         \/ Take \/ BeginAssociate \/ BeginDisassociate \/ NatDone \/ Ack \/ BeginDestroy
         \/ ListBindings \/ ClearBindings \/ FinalizeDestroy \/ HandlerFails
         \/ \E b \in job.bindings : DetachBinding(b)
  PROVE  JobTyped' /\ CmdTyped' /\ RestTyped' /\ UNCHANGED <<req>>
<1>0. /\ JobTyped /\ CmdTyped /\ RestTyped /\ job \in JobRec /\ JobShape /\ queue \in Seq(Messages)
      /\ ReconcilerShape /\ WorkerShape
      /\ cmd \in [Agents -> CmdRec] /\ \A g \in Agents : CallShape(cmd[g])
  BY DEF TypeInv, JobTyped, CmdTyped
<1>1. CASE Take
  <2> DEFINE j == [step |-> "begin", msg |-> Head(queue), bindings |-> {}]
  <2>1. /\ job = NoJob /\ queue # <<>> /\ job' = j /\ queue' = Tail(queue)
        /\ UNCHANGED <<row, req, cmd, pass, faults>> /\ clean' = (clean /\ pass = None)
    BY <1>1 DEF Take
  <2>2. Head(queue) \in Messages /\ queue' \in Seq(Messages)
    BY <1>0, <2>1, QueueEnds
  <2>3. j \in JobRec /\ j.step = "begin" /\ j.msg = Head(queue)
    BY <2>2, TheJobs
  <2> HIDE DEF j
  <2>4. JobTyped'
    BY <2>1, <2>2, <2>3 DEF JobTyped, JobShape
  <2>5. cmd["worker"].step = "idle"
    BY <1>0, <2>1, TheJobs DEF WorkerShape
  <2>6. WorkerShape'
    BY <2>1, <2>3, <2>5 DEF WorkerShape
  <2>7. CmdTyped'
    BY <1>0, <2>1, <2>6 DEF CmdTyped, ReconcilerShape
  <2>8. RestTyped'
    BY <1>0, <2>1 DEF RestTyped
  <2> QED BY <2>1, <2>4, <2>7, <2>8
<1>2. ASSUME Retry, job.step # "idle", UNCHANGED <<req, pass>>, RestTyped'
      PROVE  JobTyped' /\ CmdTyped' /\ RestTyped' /\ UNCHANGED <<req>>
  <2>1. /\ JobTyped' /\ job'.step = "idle" /\ cmd'["worker"].step = "idle"
        /\ cmd'["reconciler"] = cmd["reconciler"]
        /\ cmd' \in [Agents -> CmdRec] /\ \A g \in Agents : CallShape(cmd'[g])
    BY <1>0, <1>2, Retried
  <2>2. WorkerShape' /\ ReconcilerShape'
    BY <1>0, <1>2, <2>1 DEF WorkerShape, ReconcilerShape
  <2> QED BY <1>2, <2>1, <2>2 DEF CmdTyped
\* The job goes on, and the worker calls, or has done with its call.
<1>3. ASSUME NEW s \in {"nat", "list", "detach", "finalize", "ack"}, NEW k \in CmdRec,
             CallShape(k), cmd' = [cmd EXCEPT !["worker"] = k], job.step # "idle",
             job'.step = s, job' \in JobRec, job'.msg = job.msg, queue' = queue, RestTyped',
             UNCHANGED <<req, pass>>,
             \/ /\ s = "nat" /\ job.msg.type = "associate"
                /\ k.step \in Checks
             \/ /\ s = "nat" /\ job.msg.type = "disassociate" /\ k.step = "delPre"
                /\ k.pair = <<job.msg.ip, job.msg.priv>>
             \/ s = "detach" /\ job.msg.type = "destroy" /\ k.step \in {"delPre", "idle"}
             \/ s = "ack" /\ k.step = "idle"
             \/ s \in {"list", "finalize"} /\ k.step = "idle" /\ job.msg.type = "destroy"
      PROVE  JobTyped' /\ CmdTyped' /\ RestTyped' /\ UNCHANGED <<req>>
  <2>1. /\ cmd' \in [Agents -> CmdRec] /\ cmd'["worker"] = k
        /\ cmd'["reconciler"] = cmd["reconciler"] /\ \A h \in Agents : CallShape(cmd'[h])
    BY <1>0, <1>3, TheAgents, CallMoves
  <2>2. JobTyped'
    BY <1>0, <1>3 DEF JobTyped, JobShape
  <2>3. WorkerShape'
    BY <1>3, <2>1 DEF WorkerShape, Checks, Additions, Removals
  <2>4. ReconcilerShape'
    BY <1>0, <1>3, <2>1 DEF ReconcilerShape
  <2> QED BY <1>3, <2>1, <2>2, <2>3, <2>4 DEF CmdTyped
<1>4. ASSUME UNCHANGED <<row, faults, clean>> PROVE RestTyped'
  BY <1>0, <1>4 DEF RestTyped
<1>5. cmd = [cmd EXCEPT !["worker"] = cmd["worker"]] /\ cmd["worker"] \in CmdRec
      /\ CallShape(cmd["worker"])
  BY <1>0, TheAgents
<1>6. CASE BeginAssociate
  <2>1. job.step = "begin" /\ job.msg.type = "associate" /\ UNCHANGED <<row, req, pass, faults, clean>>
    BY <1>6 DEF BeginAssociate, world
  <2>2. CASE Retry
    BY <1>2, <1>4, <2>1, <2>2
  <2>3. CASE ~Retry
    <3> DEFINE p == <<job.msg.ip, row[job.msg.ip].priv>>
    <3>1. /\ job' = [job EXCEPT !.step = "nat"] /\ queue' = queue /\ Expected(job.msg)
          /\ cmd' = [cmd EXCEPT !["worker"] = Start("checkPre", p)]
      BY <1>6, <2>3 DEF BeginAssociate, Call
    <3>2. job.msg \in Messages /\ job.msg.ip \in Ips
      BY <1>0, <2>1, MessageParts DEF JobShape
    <3>3. p \in Pairs
      <4>1. PICK j \in Instances : row[job.msg.ip] = Row("active", ProjectOf[j], j, AddrOf[j])
        BY <3>1, <3>2 DEF Expected, TypeInv, RowInv, BindingsAreWhole
      <4>2. row[job.msg.ip].priv = AddrOf[j]
        BY <4>1 DEF Row
      <4> QED BY <3>2, <4>2, ConstantsAssumption DEF Pairs
    <3> HIDE DEF p
    <3>4. Start("checkPre", p) \in CmdRec /\ CallShape(Start("checkPre", p))
          /\ Start("checkPre", p).step = "checkPre"
      BY <3>3, TheCalls
    <3>5. job' \in JobRec /\ job'.step = "nat" /\ job'.msg = job.msg
      BY <1>0, <3>1, JobStep
    <3> QED BY <1>3, <1>4, <2>1, <3>1, <3>4, <3>5 DEF Checks
  <2> QED BY <2>2, <2>3
<1>7. CASE BeginDisassociate
  <2> DEFINE p == <<job.msg.ip, job.msg.priv>>
  <2>1. /\ job.step = "begin" /\ job.msg.type = "disassociate"
        /\ UNCHANGED <<row, queue, req, pass, faults, clean>>
        /\ job' = [job EXCEPT !.step = "nat"]
        /\ cmd' = [cmd EXCEPT !["worker"] = Start("delPre", p)]
    BY <1>7 DEF BeginDisassociate, world, Call
  <2>2. p \in Pairs
    BY <1>0, <2>1, MessageParts DEF JobShape, Pairs
  <2>3. Start("delPre", p) \in CmdRec /\ CallShape(Start("delPre", p))
        /\ Start("delPre", p).step = "delPre" /\ Start("delPre", p).pair = p
    BY <2>2, TheCalls
  <2>4. job' \in JobRec /\ job'.step = "nat" /\ job'.msg = job.msg
    BY <1>0, <2>1, JobStep
  <2> QED BY <1>3, <1>4, <2>1, <2>3, <2>4
<1>8. CASE NatDone
  <2>1. job.step = "nat" /\ UNCHANGED <<row, req, pass, faults, clean>>
    BY <1>8 DEF NatDone, world
  <2>2. CASE Retry
    BY <1>2, <1>4, <2>1, <2>2
  <2>3. CASE ~Retry
    <3>1. /\ job' = [job EXCEPT !.step = "ack"] /\ queue' = queue
          /\ cmd' = [cmd EXCEPT !["worker"] = NoCommand]
      BY <1>8, <2>3 DEF NatDone
    <3>2. job' \in JobRec /\ job'.step = "ack" /\ job'.msg = job.msg
      BY <1>0, <3>1, JobStep
    <3> QED BY <1>3, <1>4, <2>1, <3>1, <3>2, TheCalls
  <2> QED BY <2>2, <2>3
<1>9. CASE Ack
  <2>1. job' = NoJob /\ job.step = "ack" /\ UNCHANGED <<row, queue, req, cmd, pass, faults, clean>>
    BY <1>9 DEF Ack, world
  <2>2. JobTyped'
    BY <1>0, <2>1, TheJobs DEF JobTyped, JobShape
  <2>3. WorkerShape' /\ ReconcilerShape'
    BY <1>0, <2>1, TheJobs DEF WorkerShape, ReconcilerShape
  <2> QED BY <1>0, <1>4, <2>1, <2>2, <2>3 DEF CmdTyped
<1>10. CASE BeginDestroy
  <2>1. job.step = "begin" /\ job.msg.type = "destroy" /\ UNCHANGED <<row, req, pass, faults, clean>>
    BY <1>10 DEF BeginDestroy, world
  <2>2. CASE Retry
    BY <1>2, <1>4, <2>1, <2>2
  <2>3. CASE ~Retry
    <3>1. job' = [job EXCEPT !.step = "list"] /\ queue' = queue /\ cmd' = cmd
      BY <1>10, <2>3 DEF BeginDestroy
    <3>2. job' \in JobRec /\ job'.step = "list" /\ job'.msg = job.msg
      BY <1>0, <3>1, JobStep
    <3>3. cmd["worker"].step = "idle"
      BY <1>0, <2>1 DEF WorkerShape
    <3> QED BY <1>3, <1>4, <1>5, <2>1, <3>1, <3>2, <3>3
  <2> QED BY <2>2, <2>3
<1>11. CASE ListBindings
  <2>1. /\ job.step = "list" /\ UNCHANGED <<row, queue, req, cmd, pass, faults, clean>>
        /\ job' = [job EXCEPT !.step = "detach", !.bindings = BindingsOf(job.msg.inst)]
    BY <1>11 DEF ListBindings, world
  <2>2. BindingsOf(job.msg.inst) \subseteq Pairs
    BY BindingsArePairs DEF TypeInv
  <2>3. job' \in JobRec /\ job'.step = "detach" /\ job'.msg = job.msg
    BY <1>0, <2>1, <2>2 DEF JobRec
  <2>4. cmd["worker"].step = "idle" /\ job.msg.type = "destroy"
    BY <1>0, <2>1 DEF WorkerShape, JobShape
  <2> QED BY <1>3, <1>4, <1>5, <2>1, <2>3, <2>4
<1>12. ASSUME NEW b \in job.bindings, DetachBinding(b)
       PROVE  JobTyped' /\ CmdTyped' /\ RestTyped' /\ UNCHANGED <<req>>
  <2>1. /\ job.step = "detach" /\ UNCHANGED <<row, queue, req, pass, faults, clean>>
        /\ job' = [job EXCEPT !.bindings = @ \ {b}]
        /\ cmd' = [cmd EXCEPT !["worker"] = Start("delPre", b)]
    BY <1>12 DEF DetachBinding, world, Call
  <2>2. b \in Pairs /\ job.msg.type = "destroy"
    BY <1>0, <2>1 DEF JobRec, JobShape
  <2>3. Start("delPre", b) \in CmdRec /\ CallShape(Start("delPre", b))
        /\ Start("delPre", b).step = "delPre"
    BY <2>2, TheCalls
  <2>4. job' \in JobRec /\ job'.step = "detach" /\ job'.msg = job.msg
    BY <1>0, <2>1 DEF JobRec
  <2> QED BY <1>3, <1>4, <2>1, <2>2, <2>3, <2>4
<1>13. CASE ClearBindings
  <2>1. /\ job.step = "detach" /\ UNCHANGED <<queue, req, pass, faults, clean>>
        /\ job' = [job EXCEPT !.step = "finalize"] /\ row' = Cleared(job.msg.inst)
        /\ cmd' = [cmd EXCEPT !["worker"] = NoCommand]
    BY <1>13 DEF ClearBindings, world
  <2>2. job' \in JobRec /\ job'.step = "finalize" /\ job'.msg = job.msg
    BY <1>0, <2>1, JobStep
  <2>3. RestTyped' /\ job.msg.type = "destroy"
    BY <1>0, <2>1, ClearTyped DEF JobShape
  <2> QED BY <1>3, <2>1, <2>2, <2>3, TheCalls
<1>14. CASE FinalizeDestroy
  <2>1. job.step = "finalize" /\ UNCHANGED <<req, pass, faults, clean>>
    BY <1>14 DEF FinalizeDestroy, world
  <2>2. CASE Retry /\ row' = row
    BY <1>2, <1>4, <2>1, <2>2
  <2>3. CASE ~(Retry /\ row' = row)
    <3>1. /\ job' = [job EXCEPT !.step = "ack"] /\ row' = Cleared(job.msg.inst)
          /\ UNCHANGED <<queue, cmd>>
      BY <1>14, <2>3 DEF FinalizeDestroy
    <3>2. job' \in JobRec /\ job'.step = "ack" /\ job'.msg = job.msg
      BY <1>0, <3>1, JobStep
    <3>3. RestTyped'
      BY <1>0, <2>1, <3>1, ClearTyped
    <3>4. cmd["worker"].step = "idle"
      BY <1>0, <2>1 DEF WorkerShape
    <3> QED BY <1>3, <1>5, <2>1, <3>1, <3>2, <3>3, <3>4
  <2> QED BY <2>2, <2>3
<1>15. CASE HandlerFails
  <2>1. job.step # "idle" /\ Error /\ Retry /\ UNCHANGED <<row, req, pass>>
    BY <1>15 DEF HandlerFails
  <2> QED BY <1>0, <1>2, <2>1, FaultTyped
<1> QED BY <1>1, <1>6, <1>7, <1>8, <1>9, <1>10, <1>11, <1>12, <1>13, <1>14, <1>15

\* What a call may go on to: the next command about its pair, or its result.
Over(g, k) == IF g = "worker" THEN k.step \in {"ok", "err"} ELSE k = NoCommand
Follows(g, old, k) ==
  \/ /\ old.step \in Checks \cup Additions
     /\ \/ k.step \in Checks \cup Additions /\ k.pair = old.pair
        \/ Over(g, k)
  \/ old.step = "delPre" /\ k.step = "delPost" /\ k.pair = old.pair
  \/ old.step = "delPost" /\ Over(g, k)

LEMMA EndOfCall ==
  ASSUME NEW g \in Agents, NEW s \in {"ok", "err"}
  PROVE  /\ GoOn(g, s) \in CmdRec /\ CallShape(GoOn(g, s)) /\ Over(g, GoOn(g, s))
         /\ s = "ok" => GoOn(g, s).step # "err"
<1> DEFINE call == Cmd(s, cmd[g].pair, cmd[g].pre, cmd[g].post)
<1>1. call.step = s
  BY Commands
<1>2. GoOn(g, s) = IF g = "worker" THEN Start(s, NoPair) ELSE NoCommand
  BY <1>1 DEF GoOn, Reach
<1> QED BY <1>2, TheCalls DEF Over

LEMMA Calling ==
  ASSUME NEW s \in Checks \cup Additions \cup Removals, NEW p \in Pairs,
         NEW pre \in BOOLEAN, NEW post \in BOOLEAN
  PROVE  LET k == Cmd(s, p, pre, post)
         IN  /\ k \in CmdRec /\ CallShape(k)
             /\ k.step = s /\ k.pair = p /\ k.pre = pre /\ k.post = post
BY DEF Cmd, CmdRec, CallShape, Checks, Additions, Removals

LEMMA NextCommand ==
  ASSUME NEW g, NEW s \in Checks \cup Additions \cup Removals, NEW p, NEW pre, NEW post
  PROVE  Reach(g, Cmd(s, p, pre, post)) = Cmd(s, p, pre, post)
BY DEF Cmd, Reach, Checks, Additions, Removals

LEMMA CallGoesOn ==
  ASSUME CmdTyped, NEW g \in Agents, Command(g) \/ CommandFails(g)
  PROVE  \E k \in CmdRec : /\ CallShape(k) /\ cmd' = [cmd EXCEPT ![g] = k]
                           /\ Follows(g, cmd[g], k)
                           /\ Command(g) => k.step # "err"
<1> DEFINE old == cmd[g]
           Good(k) == /\ CallShape(k) /\ cmd' = [cmd EXCEPT ![g] = k]
                      /\ Follows(g, old, k)
                      /\ Command(g) => k.step # "err"
           Goal == \E k \in CmdRec : Good(k)
<1>1. old \in CmdRec /\ CallShape(old) /\ old.pre \in BOOLEAN /\ old.post \in BOOLEAN
  BY DEF CmdTyped, CmdRec
<1>2. old.step \notin {"idle", "ok", "err"} => old.pair \in Pairs
  BY <1>1 DEF CallShape
\* The next command of the call.
<1>3. ASSUME NEW s \in Checks \cup Additions \cup Removals, NEW pre \in BOOLEAN,
             NEW post \in BOOLEAN, NEW k, k = Cmd(s, old.pair, pre, post),
             cmd' = [cmd EXCEPT ![g] = k],
             \/ old.step \in Checks \cup Additions /\ s \in Checks \cup Additions
             \/ old.step = "delPre" /\ s = "delPost"
      PROVE  Goal
  <2>1. old.pair \in Pairs
    BY <1>2, <1>3 DEF Checks, Additions
  <2>2. k \in CmdRec /\ CallShape(k) /\ k.step = s /\ k.pair = old.pair
    BY <1>3, <2>1, Calling
  <2>3. s # "err"
    BY <1>3 DEF Checks, Additions, Removals
  <2>4. Follows(g, old, k)
    BY <1>3, <2>2 DEF Follows
  <2>5. Good(k)
    BY <1>3, <2>2, <2>3, <2>4
  <2> HIDE DEF Good
  <2> QED BY <2>2, <2>5
\* The end of the call.
<1>4. ASSUME NEW s \in {"ok", "err"}, NEW k, k = GoOn(g, s), cmd' = [cmd EXCEPT ![g] = k],
             Command(g) => s = "ok", old.step \in Checks \cup Additions \cup {"delPost"}
      PROVE  Goal
  <2>1. k \in CmdRec /\ CallShape(k) /\ Over(g, k) /\ (s = "ok" => k.step # "err")
    BY <1>4, EndOfCall
  <2>2. Follows(g, old, k)
    BY <1>4, <2>1 DEF Follows
  <2>3. Good(k)
    BY <1>4, <2>1, <2>2
  <2> HIDE DEF Good
  <2> QED BY <2>1, <2>3
<1> SUFFICES Goal
  OBVIOUS
<1> HIDE DEF Goal
<1>5. ASSUME NEW s \in Additions \cup Removals, NEW k, k = GoOn(g, s),
             cmd' = [cmd EXCEPT ![g] = k],
             \/ old.step \in Checks \cup Additions /\ s \in Additions
             \/ old.step = "delPre" /\ s = "delPost"
      PROVE  Goal
  <2>1. k = Cmd(s, old.pair, old.pre, old.post)
    BY <1>5, NextCommand DEF GoOn
  <2> QED BY <1>1, <1>3, <1>5, <2>1
<1>6. CASE CheckPre(g) \/ SeePre(g)
  <2> DEFINE pre == Has("PREROUTING", old.pair)
             no == FALSE
             s == IF CheckPre(g) THEN "checkPost" ELSE "seePost"
             k == Cmd(s, old.pair, pre, no)
  <2>1. cmd' = [cmd EXCEPT ![g] = k] /\ old.step \in Checks
    BY <1>6 DEF CheckPre, SeePre, Checks
  <2>2. pre \in BOOLEAN /\ no \in BOOLEAN /\ s \in Checks
    BY DEF Has, Checks
  <2> HIDE DEF pre, no, s
  <2>3. k = Cmd(s, old.pair, pre, no)
    OBVIOUS
  <2> HIDE DEF k
  <2> QED BY <1>3, <2>1, <2>2, <2>3
<1>7. CASE CheckPost(g)
  <2> DEFINE post == Has("POSTROUTING", old.pair)
             s == NextAdd(old.pre, post)
             k == Reach(g, Cmd(s, old.pair, old.pre, post))
  <2>1. cmd' = [cmd EXCEPT ![g] = k] /\ old.step = "checkPost"
    BY <1>7 DEF CheckPost
  <2>2. s \in Additions \cup {"ok"} /\ post \in BOOLEAN
    BY <1>1 DEF NextAdd, AddedPre, Additions, Has
  <2> HIDE DEF s, post
  <2>3. k = Reach(g, Cmd(s, old.pair, old.pre, post))
    OBVIOUS
  <2> HIDE DEF k
  <2>4. CASE s = "ok"
    <3>1. k = GoOn(g, "ok")
      BY <2>3, <2>4, Commands DEF Reach, GoOn
    <3> QED BY <1>4, <2>1, <3>1 DEF Checks
  <2>5. CASE s \in Additions
    <3>1. k = Cmd(s, old.pair, old.pre, post)
      BY <2>3, <2>5, NextCommand
    <3>2. old.step \in Checks
      BY <2>1 DEF Checks
    <3> QED BY <1>1, <1>3, <2>1, <2>2, <2>5, <3>1, <3>2
  <2> QED BY <2>2, <2>4, <2>5
<1>8. CASE AddPre(g)
  <2> DEFINE s == AddedPre(old.post)
             k == GoOn(g, s)
  <2>1. cmd' = [cmd EXCEPT ![g] = k] /\ old.step \in Additions /\ s \in {"ok", "addPost"}
    BY <1>8 DEF AddPre, AddedPre, Additions
  <2> HIDE DEF s
  <2>2. k = GoOn(g, s)
    OBVIOUS
  <2> HIDE DEF k
  <2>3. CASE s = "ok"
    BY <1>4, <2>1, <2>2, <2>3
  <2>4. CASE s = "addPost"
    <3>1. s \in Additions
      BY <2>4 DEF Additions
    <3> QED BY <1>5, <2>1, <2>2, <3>1
  <2> QED BY <2>1, <2>3, <2>4
<1>9. CASE AddPost(g) \/ DelPost(g)
  <2> DEFINE k == GoOn(g, "ok")
  <2>1. cmd' = [cmd EXCEPT ![g] = k] /\ old.step \in Additions \cup {"delPost"}
    BY <1>9 DEF AddPost, DelPost, Additions
  <2>2. k = GoOn(g, "ok")
    OBVIOUS
  <2> HIDE DEF k
  <2> QED BY <1>4, <2>1, <2>2
<1>10. CASE SeePost(g)
  <2>1. old.step \in Checks
    BY <1>10 DEF SeePost, Checks
  <2>2. CASE cmd' = [cmd EXCEPT ![g] = GoOn(g, "ok")]
    <3> DEFINE k == GoOn(g, "ok")
    <3>1. cmd' = [cmd EXCEPT ![g] = k] /\ k = GoOn(g, "ok")
      BY <2>2
    <3> HIDE DEF k
    <3> QED BY <1>4, <2>1, <3>1
  <2>3. CASE cmd' = [cmd EXCEPT ![g] = Start("checkPre", old.pair)]
    <3> DEFINE no == FALSE
               k == Cmd("checkPre", old.pair, no, no)
    <3>1. cmd' = [cmd EXCEPT ![g] = k] /\ no \in BOOLEAN /\ "checkPre" \in Checks
      BY <2>3 DEF Start, Checks
    <3> HIDE DEF no
    <3>2. k = Cmd("checkPre", old.pair, no, no)
      OBVIOUS
    <3> HIDE DEF k
    <3> QED BY <1>3, <2>1, <3>1, <3>2
  <2> QED BY <1>10, <2>2, <2>3 DEF SeePost
<1>11. ASSUME old.step = "delPre", cmd' = [cmd EXCEPT ![g] = GoOn(g, "delPost")]
       PROVE  Goal
  <2> DEFINE k == GoOn(g, "delPost")
  <2>1. cmd' = [cmd EXCEPT ![g] = k] /\ k = GoOn(g, "delPost") /\ "delPost" \in Removals
    BY <1>11 DEF Removals
  <2> HIDE DEF k
  <2> QED BY <1>5, <1>11, <2>1
<1>12. CASE DelPre(g)
  BY <1>11, <1>12 DEF DelPre
<1>13. CASE CommandFails(g) /\ ~Command(g)
  <2>1. CASE old.step = "delPre"
    BY <1>11, <1>13, <2>1 DEF CommandFails
  <2>2. CASE old.step # "delPre"
    <3> DEFINE s == IF old.step = "delPost" THEN "ok" ELSE "err"
               k == GoOn(g, s)
    <3>1. cmd' = [cmd EXCEPT ![g] = k] /\ s \in {"ok", "err"}
      BY <1>13, <2>2 DEF CommandFails
    <3> HIDE DEF s
    <3>2. k = GoOn(g, s)
      OBVIOUS
    <3> HIDE DEF k
    <3>3. old.step \in Checks \cup Additions \cup {"delPost"}
      BY <1>1, <1>13, <2>2 DEF CommandFails, CmdRec, Checks, Additions
    <3> QED BY <1>4, <1>13, <3>1, <3>2, <3>3
  <2> QED BY <2>1, <2>2
<1> QED BY <1>6, <1>7, <1>8, <1>9, <1>10, <1>12, <1>13 DEF Command

LEMMA CommandTypes ==
  ASSUME TypeInv, NEW g \in Agents, Command(g) \/ CommandFails(g)
  PROVE  CmdTyped' /\ RestTyped' /\ UNCHANGED <<state, row, queue, req, job, pass>>
<1>0. /\ CmdTyped /\ RestTyped /\ cmd \in [Agents -> CmdRec] /\ \A h \in Agents : CallShape(cmd[h])
      /\ WorkerShape /\ ReconcilerShape /\ JobShape
  BY DEF TypeInv, CmdTyped, JobTyped
<1>1. PICK k \in CmdRec : /\ CallShape(k) /\ cmd' = [cmd EXCEPT ![g] = k]
                          /\ Follows(g, cmd[g], k) /\ (Command(g) => k.step # "err")
  BY <1>0, CallGoesOn
<1>2. UNCHANGED <<state, row, queue, req, job, pass>>
  BY DEF Command, CommandFails
<1>3. RestTyped'
  <2>1. CASE Command(g)
    BY <1>0, <2>1 DEF Command, world, RestTyped
  <2>2. CASE CommandFails(g)
    BY <1>0, <1>2, <2>2, FaultTyped DEF CommandFails
  <2> QED BY <2>1, <2>2
<1>4. /\ cmd' \in [Agents -> CmdRec] /\ cmd'[g] = k /\ \A h \in Agents : h # g => cmd'[h] = cmd[h]
      /\ \A h \in Agents : CallShape(cmd'[h])
  BY <1>0, <1>1, CallMoves
<1>5. CASE g = "worker"
  <2>1. cmd'["worker"] = k /\ cmd'["reconciler"] = cmd["reconciler"]
    BY <1>4, <1>5, TheAgents
  <2>2. ReconcilerShape'
    BY <1>0, <1>2, <2>1 DEF ReconcilerShape
  <2>3. Follows("worker", cmd["worker"], k)
    BY <1>1, <1>5
  <2>4. job.step \in {"nat", "detach"}
    BY <1>0, <2>3 DEF WorkerShape, Follows, Checks, Additions
  <2>5. k.step # "idle"
    BY <2>3 DEF Follows, Checks, Additions, Over
  <2>6. job.step = "nat" /\ job.msg.type = "associate" =>
          k.step \in Checks \cup Additions \cup {"ok", "err"}
    BY <1>0, <2>3 DEF WorkerShape, Follows, Checks, Additions, Over
  <2>7. ASSUME cmd["worker"].step \in Removals \cup {"ok"}, cmd["worker"].step # "delPost"
        PROVE  k.step = "delPost" /\ k.pair = cmd["worker"].pair /\ cmd["worker"].step = "delPre"
    BY <2>3, <2>7 DEF Follows, Checks, Additions, Removals
  <2>8. cmd["worker"].step = "delPost" => k.step = "ok"
    <3>1. CASE Command(g)
      BY <1>1, <2>3, <3>1 DEF Follows, Checks, Additions, Over
    <3>2. ASSUME CommandFails(g), cmd["worker"].step = "delPost"
          PROVE  k.step = "ok"
      <4>1. cmd' = [cmd EXCEPT !["worker"] = GoOn("worker", "ok")]
        BY <1>5, <3>2 DEF CommandFails
      <4>2. k = GoOn("worker", "ok")
        BY <1>0, <2>1, <4>1, TheAgents
      <4>3. GoOn("worker", "ok").step = "ok"
        BY DEF GoOn, Reach, Start, Cmd
      <4> QED BY <4>2, <4>3
    <3> QED BY <3>1, <3>2
  <2>9. job.step = "nat" /\ job.msg.type = "disassociate" =>
          /\ k.step \in Removals \cup {"ok"}
          /\ k.step \in Removals => k.pair = <<job.msg.ip, job.msg.priv>>
    BY <1>0, <2>7, <2>8 DEF WorkerShape, Removals
  <2>10. job.step = "detach" => k.step \in Removals \cup {"idle", "ok"}
    <3> SUFFICES ASSUME job.step = "detach" PROVE k.step \in Removals \cup {"idle", "ok"}
        OBVIOUS
    <3>1. cmd["worker"].step \in Removals \cup {"idle", "ok"}
      BY <1>0 DEF WorkerShape
    <3>2. cmd["worker"].step # "idle"
      BY <2>3 DEF Follows, Checks, Additions
    <3> QED BY <2>7, <2>8, <3>1, <3>2 DEF Removals
  <2>11. WorkerShape'
    BY <1>2, <2>1, <2>4, <2>6, <2>9, <2>10 DEF WorkerShape
  <2> QED BY <1>2, <1>3, <1>4, <2>2, <2>11 DEF CmdTyped
<1>6. CASE g = "reconciler"
  <2>1. cmd'["reconciler"] = k /\ cmd'["worker"] = cmd["worker"]
    BY <1>4, <1>6, TheAgents
  <2>2. WorkerShape'
    BY <1>0, <1>2, <2>1 DEF WorkerShape
  <2>3. Follows("reconciler", cmd["reconciler"], k)
    BY <1>1, <1>6
  <2>4. cmd["reconciler"].step \in Checks \cup Additions /\ pass # None
    BY <1>0, <2>3 DEF ReconcilerShape, Follows, Checks, Additions
  <2>5. k.step \in Checks \cup Additions \cup {"idle"}
    BY <2>3, <2>4, TheCalls DEF Follows, Over, Checks, Additions
  <2>6. ReconcilerShape'
    BY <1>2, <2>1, <2>4, <2>5 DEF ReconcilerShape
  <2> QED BY <1>2, <1>3, <1>4, <2>2, <2>6 DEF CmdTyped
<1> QED BY <1>5, <1>6, TheAgents

LEMMA ReconcilerTypes ==
  ASSUME TypeInv, ListActive \/ EndPass \/ (pass # None /\ \E b \in pass : Reconcile(b))
  PROVE  CmdTyped' /\ PassTyped' /\ RestTyped' /\ UNCHANGED <<queue, req, job>>
<1>0. /\ CmdTyped /\ RestTyped /\ PassTyped /\ cmd \in [Agents -> CmdRec]
      /\ \A h \in Agents : CallShape(cmd[h])
      /\ WorkerShape /\ ReconcilerShape /\ None \notin SUBSET Pairs
  BY ConstantsAssumption DEF TypeInv, CmdTyped, Pairs
<1>1. CASE ListActive
  <2>1. /\ pass = None /\ UNCHANGED <<row, queue, req, job, cmd, faults>>
        /\ pass' = UNION {BindingsOf(i) : i \in {j \in Instances : state[j] = "running"}}
        /\ clean' = (clean /\ job = NoJob)
    BY <1>1 DEF ListActive
  <2>2. pass' \in SUBSET Pairs
    BY <2>1, BindingsArePairs DEF TypeInv
  <2>3. CmdTyped'
    BY <1>0, <2>1 DEF CmdTyped, WorkerShape, ReconcilerShape
  <2>4. RestTyped'
    BY <1>0, <2>1 DEF RestTyped
  <2> QED BY <2>1, <2>2, <2>3, <2>4 DEF PassTyped
<1>2. CASE EndPass
  <2>1. /\ pass' = None /\ cmd["reconciler"] = NoCommand
        /\ UNCHANGED <<row, queue, req, job, cmd, faults, clean>>
    BY <1>2 DEF EndPass, Between, world
  <2>2. CmdTyped'
    BY <1>0, <2>1, TheCalls DEF CmdTyped, WorkerShape, ReconcilerShape
  <2> QED BY <1>0, <2>1, <2>2 DEF PassTyped, RestTyped
<1>3. ASSUME pass # None, NEW b \in pass, Reconcile(b)
      PROVE  CmdTyped' /\ PassTyped' /\ RestTyped' /\ UNCHANGED <<queue, req, job>>
  <2>1. /\ pass' = pass \ {b} /\ cmd' = [cmd EXCEPT !["reconciler"] = Start("seePre", b)]
        /\ UNCHANGED <<row, queue, req, job, faults, clean>>
    BY <1>3 DEF Reconcile, world
  <2>2. pass \in SUBSET Pairs /\ b \in Pairs /\ pass' \in SUBSET Pairs /\ pass' # None
    BY <1>0, <1>3, <2>1 DEF PassTyped
  <2>3. Start("seePre", b) \in CmdRec /\ CallShape(Start("seePre", b))
        /\ Start("seePre", b).step = "seePre"
    BY <2>2, TheCalls
  <2>4. /\ cmd' \in [Agents -> CmdRec] /\ cmd'["reconciler"] = Start("seePre", b)
        /\ cmd'["worker"] = cmd["worker"] /\ \A h \in Agents : CallShape(cmd'[h])
    BY <1>0, <2>1, <2>3, TheAgents, CallMoves
  <2>5. WorkerShape' /\ ReconcilerShape'
    BY <1>0, <2>1, <2>2, <2>3, <2>4 DEF WorkerShape, ReconcilerShape, Checks
  <2> QED BY <1>0, <2>1, <2>2, <2>4, <2>5 DEF CmdTyped, PassTyped, RestTyped
<1> QED BY <1>1, <1>2, <1>3

LEMMA OtherTypes ==
  ASSUME TypeInv,
         \/ Crash \/ UNCHANGED vars
         \/ \E i \in Instances : Create(i) \/ StateChanges(i)
         \/ \E f \in Ips, p \in Projects : Allocate(f, p)
  PROVE  ReqTyped' /\ JobTyped' /\ CmdTyped' /\ PassTyped' /\ RestTyped'
<1>0. ReqTyped /\ JobTyped /\ CmdTyped /\ PassTyped /\ RestTyped
  BY DEF TypeInv
<1>1. ASSUME UNCHANGED <<req, job, queue, cmd, pass>>, RestTyped'
      PROVE  ReqTyped' /\ JobTyped' /\ CmdTyped' /\ PassTyped' /\ RestTyped'
  BY <1>0, <1>1 DEF ReqTyped, JobTyped, JobShape, CmdTyped, WorkerShape, ReconcilerShape, PassTyped
<1>2. ASSUME UNCHANGED <<row, faults, clean>> PROVE RestTyped'
  BY <1>0, <1>2 DEF RestTyped
<1>3. CASE UNCHANGED vars \/ \E i \in Instances : Create(i) \/ StateChanges(i)
  BY <1>1, <1>2, <1>3 DEF vars, world, Create, StateChanges
<1>4. ASSUME NEW f \in Ips, NEW p \in Projects, Allocate(f, p)
      PROVE  ReqTyped' /\ JobTyped' /\ CmdTyped' /\ PassTyped' /\ RestTyped'
  <2> DEFINE r == Row("allocated", p, None, None)
  <2>1. r \in RowRec
    BY DEF Row, RowRec
  <2>2. row' = [row EXCEPT ![f] = r] /\ UNCHANGED <<req, job, queue, cmd, pass, faults, clean>>
    BY <1>4 DEF Allocate, world
  <2> HIDE DEF r
  <2> QED BY <1>0, <1>1, <2>1, <2>2, RowMoves
<1>5. CASE Crash
  <2>1. /\ Fault /\ clean' = clean /\ job' = NoJob /\ pass' = None /\ UNCHANGED <<row, req>>
        /\ queue' = (IF job = NoJob THEN queue ELSE <<job.msg>> \o queue)
        /\ cmd' = [g \in Agents |-> NoCommand]
    BY <1>5 DEF Crash
  <2>2. RestTyped' /\ ReqTyped' /\ PassTyped'
    BY <1>0, <2>1, FaultTyped DEF ReqTyped, PassTyped
  <2>3. job # NoJob => job.msg \in Messages
    BY <1>0 DEF JobTyped, JobShape
  <2>4. queue' \in Seq(Messages)
    BY <1>0, <2>1, <2>3, QueueEnds DEF JobTyped
  <2>5. JobTyped'
    BY <2>1, <2>4, TheJobs DEF JobTyped, JobShape
  <2>6. \A g \in Agents : cmd'[g] = NoCommand
    BY <2>1
  <2>7. CmdTyped'
    BY <2>1, <2>6, TheCalls, TheAgents, TheJobs DEF CmdTyped, WorkerShape, ReconcilerShape
  <2> QED BY <2>2, <2>5, <2>7
<1> QED BY <1>3, <1>4, <1>5

LEMMA NextTypes ==
  ASSUME TypeInv, [Next]_vars
  PROVE  TypeInv'
<1>1. RowInv'
  <2>1. RowInv /\ UNCHANGED <<state, row>> => RowInv'
    BY DEF RowInv, RowType, BindingsAreWhole, Bound, Exists
  <2> QED BY <2>1, OtherSteps, RowStepInv DEF TypeInv
<1>2. CopyInv'
  BY CommandInv, OtherCalls DEF TypeInv
<1>3. SUFFICES ReqTyped' /\ JobTyped' /\ CmdTyped' /\ PassTyped' /\ RestTyped'
  BY <1>1, <1>2 DEF TypeInv
<1>0. ReqTyped /\ JobTyped /\ CmdTyped /\ PassTyped /\ RestTyped
  BY DEF TypeInv
<1>4. /\ UNCHANGED req => ReqTyped'
      /\ UNCHANGED <<job, queue>> => JobTyped'
      /\ UNCHANGED job /\ queue' \in Seq(Messages) => JobTyped'
      /\ UNCHANGED <<job, cmd, pass>> => CmdTyped'
      /\ UNCHANGED pass => PassTyped'
  BY <1>0 DEF ReqTyped, JobTyped, JobShape, CmdTyped, WorkerShape, ReconcilerShape, PassTyped
<1>5. ASSUME NEW r \in Requests, RequestStep(r)
      PROVE  ReqTyped' /\ JobTyped' /\ CmdTyped' /\ PassTyped' /\ RestTyped'
  BY <1>4, <1>5, RequestTypes
<1>6. ASSUME NEW g \in Agents, Command(g) \/ CommandFails(g)
      PROVE  ReqTyped' /\ JobTyped' /\ CmdTyped' /\ PassTyped' /\ RestTyped'
  BY <1>4, <1>6, CommandTypes
<1>7. CASE WorkerStep \/ HandlerFails
  <2>1. CASE Command("worker")
    BY <1>6, <2>1, TheAgents
  <2>2. CASE ~Command("worker")
    <3>1. JobTyped' /\ CmdTyped' /\ RestTyped' /\ UNCHANGED req
      BY <1>7, <2>2, JobTypes DEF WorkerStep
    <3>2. UNCHANGED pass
      BY <1>7, <2>2 DEF WorkerStep, Take, BeginAssociate, BeginDisassociate, NatDone, Ack,
                        BeginDestroy, ListBindings, ClearBindings, FinalizeDestroy,
                        DetachBinding, HandlerFails
    <3> QED BY <1>4, <3>1, <3>2
  <2> QED BY <2>1, <2>2
<1>8. CASE ReconcilerStep
  <2>1. CASE Command("reconciler")
    BY <1>6, <2>1, TheAgents
  <2>2. CASE ~Command("reconciler")
    BY <1>4, <1>8, <2>2, ReconcilerTypes DEF ReconcilerStep
  <2> QED BY <2>1, <2>2
<1> QED BY <1>5, <1>6, <1>7, <1>8, OtherTypes DEF Next

LEMMA InitTypes == Init => TypeInv
<1> SUFFICES ASSUME Init PROVE TypeInv
    OBVIOUS
<1>1. RowInv /\ CopyInv
  BY InitRows, InitCopies
<1>2. ReqTyped
  BY DEF Init, ReqTyped, ReqRec, NoRequest, ReqShape
<1>3. JobTyped
  BY TheJobs DEF Init, JobTyped, JobShape
<1>4. \A g \in Agents : cmd[g] = NoCommand
  BY DEF Init
<1>5. CmdTyped
  BY <1>4, TheCalls, TheAgents, TheJobs DEF Init, CmdTyped, WorkerShape, ReconcilerShape
<1>6. row \in [Ips -> RowRec]
  BY DEF Init, Row, RowRec
<1>7. MaxFaults \in Nat
  BY ConstantsAssumption
<1>8. PassTyped /\ RestTyped
  BY <1>6, <1>7 DEF Init, PassTyped, RestTyped
<1> QED BY <1>1, <1>2, <1>3, <1>5, <1>8 DEF TypeInv

\* The shape of rows, requests, messages, calls and passes, and whose call it
\* is: an inductive invariant.
THEOREM Invariance == Spec => []TypeInv
BY InitTypes, NextTypes, PTL DEF Spec

\* Every variable keeps its type: no message, rule, call or row is ever made of
\* an address, an instance or a pair that is not there.
THEOREM TypeCorrect == Spec => []TypeOK
BY InvIsTyped, Invariance, PTL
------------------------------------------------------------------------------
(* Rules have rows, as long as nothing fails and no pass overlaps a task.  *)

\* The row of an address names the pair, ...
Carried(p) == Bound(p[1]) /\ row[p[1]].priv = p[2]
\* ... or a request, a message or the task in hand is going to remove its rules,
Removes(m, p) == m.type = "disassociate" /\ <<m.ip, m.priv>> = p
Asked(q, p)   == q.step \in {"task", "publish"} /\ Removes(q.msg, p)
Waiting(q, p) == \E n \in DOMAIN q : Removes(q[n], p)
Begun(p)      == job.step = "begin" /\ Removes(job.msg, p)
Due(p) == (\E r \in Requests : Asked(req[r], p)) \/ Waiting(queue, p) \/ Begun(p)
Known(p) == Carried(p) \/ Due(p)
\* ... or the worker is removing the one of this chain.
InRemoval(c, p) ==
  /\ cmd["worker"].pair = p
  /\ cmd["worker"].step = "delPre" \/ (cmd["worker"].step = "delPost" /\ c = "POSTROUTING")
\* The destroy in progress does not touch the pair.
OfOthers(p) == Carried(p) /\ row[p[1]].inst # job.msg.inst

\* Worker and reconciler take turns, and no call or request has failed.
AloneInv ==
  /\ job = NoJob \/ pass = None
  /\ cmd["worker"].step # "err"
  /\ \A r \in Requests : req[r].step # "rollback"

\* What may still be added is known.
AdditionsInv ==
  /\ \A g \in Agents : cmd[g].step \in Checks \cup Additions => Known(cmd[g].pair)
  /\ pass # None => \A b \in pass : Known(b)

\* One at a time adds one copy, which one removal takes away.
SingleInv ==
  \A c \in Chains, p \in Pairs :
    /\ rules[<<c, p>>] <= 1
    /\ \A g \in Agents : MayAdd(g, c, p) => rules[<<c, p>>] = 0

\* A rule is known or being removed by a task for it; a destroy has listed the
\* rules it finds, and before it clears the rows it has removed them.
RuleInv ==
  \A c \in Chains, p \in Pairs : rules[<<c, p>>] > 0 =>
    /\ Known(p) \/ (job.step = "nat" /\ InRemoval(c, p))
    /\ job.step = "detach" =>
         p \in job.bindings \/ OfOthers(p) \/ Due(p) \/ InRemoval(c, p)
    /\ job.step = "finalize" => OfOthers(p) \/ Due(p)

CleanInv == clean => AloneInv /\ AdditionsInv /\ SingleInv /\ RuleInv

\* What the steps of a clean history start from.
Tidy == TypeInv /\ clean /\ AloneInv /\ AdditionsInv /\ SingleInv /\ RuleInv

LEMMA TidyTypes ==
  ASSUME Tidy
  PROVE  /\ RowInv /\ DOMAIN row = Ips /\ CopyInv /\ ReqTyped /\ JobShape /\ job \in JobRec
         /\ queue \in Seq(Messages) /\ cmd \in [Agents -> CmdRec]
         /\ WorkerShape /\ ReconcilerShape /\ CmdTyped /\ CmdType
         /\ \A g \in Agents : CallShape(cmd[g])
         /\ \A c \in Chains, p \in Pairs : rules[<<c, p>>] \in Nat
BY DEF Tidy, TypeInv, RowInv, RowType, JobTyped, CmdTyped, CopyInv, RulesType

\* A task in hand has the host for itself.
LEMMA BusyAlone ==
  ASSUME Tidy, job.step # "idle"
  PROVE  pass = None /\ cmd["reconciler"].step = "idle" /\ cmd["reconciler"] = NoCommand
BY TidyTypes, TheJobs, TheAgents DEF Tidy, AloneInv, ReconcilerShape, CallShape

LEMMA IdleAddsNothing ==
  ASSUME NEW g, cmd[g].step \notin Additions \cup {"checkPost"}
  PROVE  \A c, p : ~MayAdd(g, c, p)
BY DEF MayAdd, Additions

\* Steps that leave the host and the work on it alone, and lose nobody.
LEMMA NobodyIsLost ==
  ASSUME Tidy, UNCHANGED <<rules, cmd, pass, job>>,
         \A p \in Pairs : Carried(p) => Known(p)',
         \A p \in Pairs : OfOthers(p) => OfOthers(p)' \/ Due(p)',
         \A p \in Pairs : Due(p) => Due(p)',
         \A r \in Requests : req'[r].step # "rollback"
  PROVE  CleanInv'
<1>1. AloneInv'
  BY DEF Tidy, AloneInv
<1>2. \A p \in Pairs : Known(p) => Known(p)'
  BY DEF Known
<1>3. AdditionsInv'
  <2>1. \A g \in Agents : cmd[g].step \in Checks \cup Additions => cmd[g].pair \in Pairs
    BY TidyTypes DEF CallShape, Checks, Additions
  <2>2. pass # None => pass \subseteq Pairs
    BY DEF Tidy, TypeInv, PassTyped
  <2> QED BY <1>2, <2>1, <2>2 DEF Tidy, AdditionsInv
<1>4. SingleInv'
  BY DEF Tidy, SingleInv, MayAdd
<1>5. \A c \in Chains, p \in Pairs : InRemoval(c, p)' <=> InRemoval(c, p)
  BY DEF InRemoval
<1>6. RuleInv'
  BY <1>2, <1>5 DEF Tidy, RuleInv
<1> QED BY <1>1, <1>3, <1>4, <1>6 DEF CleanInv

\* A row that is bound to nothing is written.
LEMMA OthersAreCarried ==
  ASSUME DOMAIN row = Ips, NEW f \in Ips, ~Bound(f), NEW r, row' = [row EXCEPT ![f] = r]
  PROVE  \A p \in Pairs : Carried(p) => Carried(p)' /\ row'[p[1]].inst = row[p[1]].inst
<1> SUFFICES ASSUME NEW p \in Pairs, Carried(p)
             PROVE  Carried(p)' /\ row'[p[1]].inst = row[p[1]].inst
    OBVIOUS
<1>1. p[1] \in Ips /\ p[1] # f
  BY DEF Pairs, Carried
<1>2. row'[p[1]] = row[p[1]]
  BY <1>1
<1> QED BY <1>2 DEF Carried, Bound

\* A message that is appended, pushed back or taken is not lost.
LEMMA QueueKeeps ==
  ASSUME NEW S, NEW q \in Seq(S), NEW m \in S, NEW p
  PROVE  /\ Waiting(q, p) => Waiting(Append(q, m), p) /\ Waiting(<<m>> \o q, p)
         /\ Removes(m, p) => Waiting(Append(q, m), p) /\ Waiting(<<m>> \o q, p)
<1>1. ASSUME NEW k \in DOMAIN q
      PROVE  /\ k \in DOMAIN Append(q, m) /\ Append(q, m)[k] = q[k]
             /\ k + 1 \in DOMAIN (<<m>> \o q) /\ (<<m>> \o q)[k + 1] = q[k]
  OBVIOUS
<1>2. /\ Len(q) + 1 \in DOMAIN Append(q, m) /\ Append(q, m)[Len(q) + 1] = m
      /\ 1 \in DOMAIN (<<m>> \o q) /\ (<<m>> \o q)[1] = m
  OBVIOUS
<1>3. Waiting(q, p) => Waiting(Append(q, m), p) /\ Waiting(<<m>> \o q, p)
  BY Zenon, <1>1 DEF Waiting
<1>4. Removes(m, p) => Waiting(Append(q, m), p) /\ Waiting(<<m>> \o q, p)
  BY Zenon, <1>2 DEF Waiting
<1> QED BY <1>3, <1>4

LEMMA QueueGives ==
  ASSUME NEW S, NEW q \in Seq(S), q # <<>>, NEW p, Waiting(q, p)
  PROVE  Removes(Head(q), p) \/ Waiting(Tail(q), p)
<1>1. PICK k \in DOMAIN q : Removes(q[k], p)
  BY DEF Waiting
<1>2. CASE k = 1
  BY <1>1, <1>2
<1>3. CASE k # 1
  <2>1. k - 1 \in DOMAIN Tail(q) /\ Tail(q)[k - 1] = q[k]
    BY <1>3
  <2> QED BY Zenon, <1>1, <2>1 DEF Waiting
<1> QED BY <1>2, <1>3

LEMMA RequestsKeep ==
  ASSUME NEW r \in Requests, \A x \in Requests \ {r} : req'[x] = req[x], job' = job,
         NEW p, Waiting(queue, p) => Waiting(queue', p),
         Asked(req[r], p) => Asked(req'[r], p) \/ Waiting(queue', p)
  PROVE  Due(p) => Due(p)'
<1>1. ASSUME NEW x \in Requests, Asked(req[x], p)
      PROVE  Due(p)'
  <2>1. CASE x = r
    BY <1>1, <2>1 DEF Due
  <2>2. CASE x # r
    BY <1>1, <2>2 DEF Due, Asked
  <2> QED BY <2>1, <2>2
<1>2. Waiting(queue, p) => Due(p)'
  BY DEF Due
<1>3. Begun(p) => Due(p)'
  BY DEF Due, Begun
<1> QED BY <1>1, <1>2, <1>3 DEF Due

LEMMA RequestClean ==
  ASSUME Tidy, clean', NEW r \in Requests, RequestStep(r)
  PROVE  CleanInv'
<1>1. ReqTyped /\ DOMAIN row = Ips /\ queue \in Seq(Messages)
  BY TidyTypes
<1>2. \A x \in Requests : req[x].step # "rollback"
  BY DEF Tidy, AloneInv
<1>3. ASSUME NEW f \in Ips, NEW i \in Instances, TryAssociate(r, f, i)
      PROVE  CleanInv'
  <2> DEFINE m == Message("associate", f, AddrOf[i], i, 0)
             q == Row("active", row[f].project, i, AddrOf[i])
  <2>1. AddrOf[i] \in Addresses
    BY ConstantsAssumption
  <2>2. m \in Messages /\ m.type = "associate"
    BY <2>1, MadeMessages DEF Message
  <2>3. /\ req' = [req EXCEPT ![r] = [step |-> "task", msg |-> m]] /\ Arrives(r)
        /\ row' = [row EXCEPT ![f] = q] /\ row[f].status = "allocated"
        /\ UNCHANGED <<rules, queue, job, cmd, pass>>
    BY <1>3 DEF TryAssociate
  <2> HIDE DEF m, q
  <2>4. /\ req'[r].step = "task" /\ req[r].step = "new"
        /\ \A x \in Requests \ {r} : req'[x] = req[x]
    BY <1>1, <2>2, <2>3, RequestArrives
  <2>5. \A p \in Pairs : Carried(p) => Carried(p)' /\ row'[p[1]].inst = row[p[1]].inst
    BY <1>1, <2>3, OthersAreCarried DEF Bound
  <2>6. \A p \in Pairs : Due(p) => Due(p)'
    <3> SUFFICES ASSUME NEW p \in Pairs PROVE Due(p) => Due(p)'
        OBVIOUS
    <3>1. ~Asked(req[r], p)
      BY <2>4 DEF Asked
    <3>2. Waiting(queue, p) => Waiting(queue', p)
      BY <2>3
    <3> QED BY <2>3, <2>4, <3>1, <3>2, RequestsKeep
  <2>7. \A x \in Requests : req'[x].step # "rollback"
    BY <1>2, <2>4
  <2>8. \A p \in Pairs : OfOthers(p) => OfOthers(p)'
    BY <2>3, <2>5 DEF OfOthers
  <2> QED BY <2>3, <2>5, <2>6, <2>7, <2>8, NobodyIsLost DEF Known
<1>4. ASSUME NEW f \in Ips, TakeDisassociate(r, f)
      PROVE  CleanInv'
  <2> DEFINE m == Message("disassociate", f, row[f].priv, None, 0)
  <2>1. PICK j \in Instances : row[f] = Row("active", ProjectOf[j], j, AddrOf[j])
    BY <1>4, TidyTypes DEF TakeDisassociate, RowInv, BindingsAreWhole
  <2>2. row[f].priv \in Addresses
    BY <2>1, ConstantsAssumption DEF Row
  <2>3. m \in Messages /\ m.type = "disassociate" /\ m.ip = f /\ m.priv = row[f].priv
    BY <2>2, MadeMessages DEF Message
  <2>4. /\ req' = [req EXCEPT ![r] = [step |-> "task", msg |-> m]] /\ Arrives(r)
        /\ row' = [row EXCEPT ![f] = Row("allocated", row[f].project, None, None)]
        /\ UNCHANGED <<rules, queue, job, cmd, pass>>
    BY <1>4 DEF TakeDisassociate, Released
  <2> HIDE DEF m
  <2>5. /\ req'[r].step = "task" /\ req'[r].msg = m /\ req[r].step = "new"
        /\ \A x \in Requests \ {r} : req'[x] = req[x]
    BY <1>1, <2>3, <2>4, RequestArrives
  <2>6. \A p \in Pairs : Due(p) => Due(p)'
    <3> SUFFICES ASSUME NEW p \in Pairs PROVE Due(p) => Due(p)'
        OBVIOUS
    <3>1. ~Asked(req[r], p)
      BY <2>5 DEF Asked
    <3>2. Waiting(queue, p) => Waiting(queue', p)
      BY <2>4
    <3> QED BY <2>4, <2>5, <3>1, <3>2, RequestsKeep
  <2>7. \A x \in Requests : req'[x].step # "rollback"
    BY <1>2, <2>5
  <2>8. ASSUME NEW p \in Pairs, Carried(p)
        PROVE  Due(p)' \/ (Carried(p)' /\ row'[p[1]].inst = row[p[1]].inst)
    <3>1. CASE p[1] = f
      <4>1. p = <<f, row[f].priv>>
        BY <2>8, <3>1 DEF Pairs, Carried
      <4>2. Asked(req'[r], p)
        BY <2>3, <2>5, <4>1 DEF Asked, Removes
      <4> QED BY <4>2 DEF Due
    <3>2. CASE p[1] # f
      <4>1. row'[p[1]] = row[p[1]]
        BY <1>1, <2>4, <3>2 DEF Pairs
      <4> QED BY <2>8, <4>1 DEF Carried, Bound
    <3> QED BY <3>1, <3>2
  <2>9. \A p \in Pairs : OfOthers(p) => OfOthers(p)' \/ Due(p)'
    BY <2>4, <2>8 DEF OfOthers
  <2> QED BY <2>4, <2>6, <2>7, <2>8, <2>9, NobodyIsLost DEF Known
\* The rest leave the rows alone.
<1>5. ASSUME UNCHANGED <<row, rules, cmd, pass, job>>, \A p \in Pairs : Due(p) => Due(p)',
             \A x \in Requests : req'[x].step # "rollback"
      PROVE  CleanInv'
  <2>1. \A p \in Pairs : /\ Carried(p) => Carried(p)'
                         /\ OfOthers(p) => OfOthers(p)'
    BY <1>5 DEF Carried, OfOthers, Bound
  <2> QED BY <1>5, <2>1, NobodyIsLost DEF Known
<1>6. ASSUME NEW i \in Instances, RequestDestroy(r, i)
      PROVE  CleanInv'
  <2> DEFINE m == Message("destroy", None, None, i, 0)
  <2>1. m \in Messages
    BY MadeMessages
  <2>2. /\ req' = [req EXCEPT ![r] = [step |-> "publish", msg |-> m]] /\ Arrives(r)
        /\ UNCHANGED <<row, rules, queue, job, cmd, pass>>
    BY <1>6 DEF RequestDestroy
  <2> HIDE DEF m
  <2>3. /\ req'[r].step = "publish" /\ req[r].step = "new"
        /\ \A x \in Requests \ {r} : req'[x] = req[x]
    BY <1>1, <2>1, <2>2, RequestArrives
  <2>4. \A p \in Pairs : Due(p) => Due(p)'
    <3> SUFFICES ASSUME NEW p \in Pairs PROVE Due(p) => Due(p)'
        OBVIOUS
    <3>1. ~Asked(req[r], p)
      BY <2>3 DEF Asked
    <3>2. Waiting(queue, p) => Waiting(queue', p)
      BY <2>2
    <3> QED BY <2>2, <2>3, <3>1, <3>2, RequestsKeep
  <2> QED BY <1>2, <1>5, <2>2, <2>3, <2>4
<1>7. CASE CreateTask(r)
  <2>1. PICK s \in {"publish", "done"} : To(r, s) /\ (req[r].msg.type # "associate" => s = "publish")
    BY <1>7 DEF CreateTask
  <2>2. req[r].step = "task" /\ UNCHANGED <<row, rules, queue, job, cmd, pass>>
    BY <1>7 DEF CreateTask
  <2>3. /\ req'[r].step = s /\ (s # "done" => req'[r].msg = req[r].msg)
        /\ \A x \in Requests \ {r} : req'[x] = req[x]
    BY <1>1, <2>1, <2>2, RequestGoesOn
  <2>4. \A p \in Pairs : Due(p) => Due(p)'
    <3> SUFFICES ASSUME NEW p \in Pairs PROVE Due(p) => Due(p)'
        OBVIOUS
    <3>1. Asked(req[r], p) => Asked(req'[r], p)
      BY <2>1, <2>3 DEF Asked, Removes
    <3>2. Waiting(queue, p) => Waiting(queue', p)
      BY <2>2
    <3> QED BY <2>2, <2>3, <3>1, <3>2, RequestsKeep
  <2> QED BY <1>2, <1>5, <2>2, <2>3, <2>4
<1>8. CASE PublishTask(r)
  <2>1. /\ req[r].step = "publish" /\ To(r, "done") /\ queue' = Append(queue, req[r].msg)
        /\ UNCHANGED <<row, rules, job, cmd, pass>>
    BY <1>8 DEF PublishTask
  <2>2. req[r].msg \in Messages
    BY <1>1, <2>1 DEF ReqTyped, ReqShape
  <2>3. req'[r].step = "done" /\ \A x \in Requests \ {r} : req'[x] = req[x]
    BY <1>1, <2>1, RequestGoesOn
  <2>4. \A p \in Pairs : Due(p) => Due(p)'
    <3> SUFFICES ASSUME NEW p \in Pairs PROVE Due(p) => Due(p)'
        OBVIOUS
    <3>1. Waiting(queue, p) => Waiting(queue', p)
      BY <1>1, <2>1, <2>2, QueueKeeps
    <3>2. Asked(req[r], p) => Waiting(queue', p)
      BY <1>1, <2>1, <2>2, QueueKeeps DEF Asked
    <3> QED BY <2>1, <2>3, <3>1, <3>2, RequestsKeep
  <2> QED BY <1>2, <1>5, <2>1, <2>3, <2>4
<1>9. CASE RequestFails(r) \/ RequestAborted(r)
  BY <1>9 DEF RequestFails, RequestAborted, Error
<1>10. CASE Rollback(r)
  BY <1>2, <1>10 DEF Rollback
<1> QED BY <1>3, <1>4, <1>6, <1>7, <1>8, <1>9, <1>10 DEF RequestStep

LEMMA StartParts == \A s, p : Start(s, p).step = s /\ Start(s, p).pair = p
BY DEF Start, Cmd

\* The handler gives up; it was not one that removes rules.
LEMMA RetryClean ==
  ASSUME Tidy, Retry, job.step \notin {"idle", "nat"}, job.msg.type # "disassociate",
         UNCHANGED <<row, rules, req, pass>>
  PROVE  CleanInv'
<1>1. /\ job'.step = "idle" /\ job' = NoJob /\ cmd'["worker"].step = "idle"
      /\ cmd'["reconciler"] = cmd["reconciler"]
      /\ queue' = queue \/ \E m \in Messages : queue' = Append(queue, m)
  BY TidyTypes, Retried, TheCalls DEF Tidy, TypeInv
<1>2. \A p \in Pairs : Due(p) => Due(p)'
  <2> SUFFICES ASSUME NEW p \in Pairs, Due(p) PROVE Due(p)'
      OBVIOUS
  <2>1. ~Begun(p)
    BY DEF Begun, Removes
  <2>2. Waiting(queue, p) => Waiting(queue', p)
    BY <1>1, TidyTypes, QueueKeeps
  <2> QED BY <2>1, <2>2 DEF Due
<1>3. \A p \in Pairs : Known(p) => Known(p)'
  BY <1>2 DEF Known, Carried, Bound
<1>4. pass = None /\ cmd["reconciler"].step = "idle"
  BY BusyAlone
<1>5. AloneInv'
  BY <1>1, <1>4 DEF Tidy, AloneInv
<1>6. AdditionsInv'
  BY <1>1, <1>4, TheAgents DEF AdditionsInv, Checks, Additions
<1>7. SingleInv'
  <2>1. \A g \in Agents, c \in Chains, p \in Pairs : ~MayAdd(g, c, p)'
    BY <1>1, <1>4, TheAgents DEF MayAdd
  <2> QED BY <2>1 DEF Tidy, SingleInv
<1>8. RuleInv'
  BY <1>1, <1>3 DEF Tidy, RuleInv
<1> QED BY <1>5, <1>6, <1>7, <1>8 DEF CleanInv

\* The worker goes on with its task, and calls nothing that adds unseen.
LEMMA JobGoesOn ==
  ASSUME Tidy, job.step # "idle", UNCHANGED <<rules, req, queue, pass>>,
         cmd'["reconciler"] = cmd["reconciler"],
         cmd'["worker"].step \in Removals \cup {"idle", "checkPre"},
         cmd'["worker"].step = "checkPre" => \A p : cmd'["worker"].pair = p => Known(p)',
         RuleInv'
  PROVE  CleanInv'
<1>1. pass = None /\ cmd["reconciler"].step = "idle"
  BY BusyAlone
<1>2. AloneInv'
  BY <1>1 DEF Tidy, AloneInv, Removals
<1>3. AdditionsInv'
  BY <1>1, TheAgents DEF AdditionsInv, Checks, Additions, Removals
<1>4. \A g \in Agents, c \in Chains, p \in Pairs : ~MayAdd(g, c, p)'
  BY <1>1, TheAgents DEF MayAdd, Removals
<1>5. SingleInv'
  BY <1>4 DEF Tidy, SingleInv
<1> QED BY <1>2, <1>3, <1>5 DEF CleanInv

LEMMA TakeClean ==
  ASSUME Tidy, clean', Take
  PROVE  CleanInv'
<1>1. /\ job.step = "idle" /\ queue # <<>> /\ queue' = Tail(queue) /\ pass = None
      /\ job' = [step |-> "begin", msg |-> Head(queue), bindings |-> {}]
      /\ UNCHANGED <<row, rules, req, cmd, pass>>
  BY TheJobs DEF Take
<1>2. job'.step = "begin" /\ job'.msg = Head(queue)
  BY <1>1
<1>3. cmd["worker"].step = "idle" /\ cmd["reconciler"].step = "idle"
  BY <1>1, TidyTypes, TheAgents DEF WorkerShape, ReconcilerShape, Checks, Additions
<1>4. \A p \in Pairs : Known(p) => Known(p)'
  <2> SUFFICES ASSUME NEW p \in Pairs, Due(p) PROVE Due(p)'
      BY <1>1 DEF Known, Carried, Bound
  <2>1. ~Begun(p)
    BY <1>1 DEF Begun
  <2>2. Waiting(queue, p) => Waiting(queue', p) \/ Begun(p)'
    BY <1>1, <1>2, TidyTypes, QueueGives DEF Begun
  <2> QED BY <1>1, <2>1, <2>2 DEF Due
<1>5. AloneInv' /\ AdditionsInv'
  BY <1>1, <1>3, TheAgents DEF Tidy, AloneInv, AdditionsInv, Checks, Additions
<1>6. SingleInv'
  BY <1>1 DEF Tidy, SingleInv, MayAdd
<1>7. RuleInv'
  BY <1>1, <1>2, <1>4 DEF Tidy, RuleInv
<1> QED BY <1>5, <1>6, <1>7 DEF CleanInv

\* The rows of one instance are released, those of the others stay.
LEMMA ClearedRows ==
  ASSUME DOMAIN row = Ips, row' = Cleared(job.msg.inst), job'.msg = job.msg
  PROVE  \A p \in Pairs : OfOthers(p) => OfOthers(p)' /\ Carried(p)'
<1> SUFFICES ASSUME NEW p \in Pairs, OfOthers(p) PROVE OfOthers(p)' /\ Carried(p)'
    OBVIOUS
<1>1. p[1] \in Ips /\ row[p[1]].inst # job.msg.inst
  BY DEF Pairs, OfOthers
<1>2. row'[p[1]] = row[p[1]]
  BY <1>1 DEF Cleared
<1> QED BY <1>2 DEF OfOthers, Carried, Bound

LEMMA JobClean ==
  ASSUME Tidy, clean',
         \/ Take \/ BeginAssociate \/ BeginDisassociate \/ NatDone \/ Ack \/ BeginDestroy
         \/ ListBindings \/ ClearBindings \/ FinalizeDestroy \/ HandlerFails
         \/ \E b \in job.bindings : DetachBinding(b)
  PROVE  CleanInv'
<1>0. /\ job \in JobRec /\ JobShape /\ WorkerShape /\ cmd \in [Agents -> CmdRec]
      /\ cmd = [cmd EXCEPT !["worker"] = cmd["worker"]] /\ DOMAIN row = Ips
  BY TidyTypes, TheAgents
<1>1. ASSUME NEW k, cmd' = [cmd EXCEPT !["worker"] = k]
      PROVE  cmd'["worker"] = k /\ cmd'["reconciler"] = cmd["reconciler"]
  BY <1>0, <1>1, TheAgents
<1>2. ASSUME UNCHANGED <<row, req, queue>>
      PROVE  \A p : /\ Carried(p)' <=> Carried(p)
                    /\ Waiting(queue, p)' <=> Waiting(queue, p)
                    /\ \A r : Asked(req[r], p)' <=> Asked(req[r], p)
  BY <1>2 DEF Carried, Bound, Waiting, Asked, Removes
\* What is due stays due, unless the task in hand was.
<1>3. ASSUME UNCHANGED <<row, req, queue>>, NEW p \in Pairs, Due(p), ~Begun(p)
      PROVE  Due(p)'
  BY <1>2, <1>3 DEF Due
<1>4. ASSUME job.step # "begin" \/ job.msg.type # "disassociate"
      PROVE  \A p \in Pairs : ~Begun(p)
  BY <1>4 DEF Begun, Removes
<1>5. CASE Take
  BY <1>5, TakeClean
<1>6. CASE BeginAssociate
  <2>1. job.step = "begin" /\ job.msg.type = "associate" /\ UNCHANGED <<row, rules, req, pass>>
    BY <1>6 DEF BeginAssociate
  <2>2. CASE Retry
    BY <2>1, <2>2, RetryClean
  <2>3. CASE ~Retry
    <3>0. PICK p0 : p0 = <<job.msg.ip, row[job.msg.ip].priv>>
      OBVIOUS
    <3>1. /\ job' = [job EXCEPT !.step = "nat"] /\ queue' = queue /\ Expected(job.msg)
          /\ cmd' = [cmd EXCEPT !["worker"] = Start("checkPre", p0)]
      BY <1>6, <2>3, <3>0 DEF BeginAssociate, Call
    <3>2. Carried(p0)'
      BY <2>1, <3>0, <3>1 DEF Carried, Expected, Bound
    <3>3. job'.step = "nat" /\ job'.msg = job.msg
      BY <1>0, <3>1, JobStep
    <3>4. cmd'["worker"].step = "checkPre" /\ cmd'["worker"].pair = p0
          /\ cmd'["reconciler"] = cmd["reconciler"]
      BY <1>1, <3>1, StartParts
    <3>5. \A p \in Pairs : Known(p) => Known(p)'
      BY <1>2, <1>3, <1>4, <2>1, <3>1 DEF Known
    <3>6. RuleInv'
      BY <2>1, <3>3, <3>5 DEF Tidy, RuleInv
    <3>7. \A p : cmd'["worker"].pair = p => Known(p)'
      BY <3>2, <3>4 DEF Known
    <3> QED BY <2>1, <3>1, <3>4, <3>6, <3>7, JobGoesOn
  <2> QED BY <2>2, <2>3
<1>7. CASE BeginDisassociate
  <2>0. PICK p0 : p0 = <<job.msg.ip, job.msg.priv>>
    OBVIOUS
  <2>1. /\ job.step = "begin" /\ job.msg.type = "disassociate"
        /\ UNCHANGED <<row, rules, queue, req, pass>>
        /\ job' = [job EXCEPT !.step = "nat"]
        /\ cmd' = [cmd EXCEPT !["worker"] = Start("delPre", p0)]
    BY <1>7, <2>0 DEF BeginDisassociate, Call
  <2>2. \A p \in Pairs : Begun(p) => p = p0
    BY <2>0 DEF Begun, Removes
  <2>3. job'.step = "nat"
    BY <1>0, <2>1, JobStep
  <2>4. cmd'["worker"].step = "delPre" /\ cmd'["worker"].pair = p0
        /\ cmd'["reconciler"] = cmd["reconciler"]
    BY <1>0, <2>1, TheAgents, StartParts
  <2>5. \A c \in Chains : InRemoval(c, p0)'
    BY <2>4 DEF InRemoval
  <2>6. \A p \in Pairs : Known(p) => Known(p)' \/ p = p0
    BY <1>2, <1>3, <2>1, <2>2 DEF Known
  <2>7. RuleInv'
    BY <2>1, <2>3, <2>5, <2>6 DEF Tidy, RuleInv
  <2> QED BY <2>1, <2>4, <2>7, JobGoesOn DEF Removals
<1>8. CASE NatDone
  <2>1. /\ job.step = "nat" /\ UNCHANGED <<row, rules, queue, req, pass>>
        /\ cmd["worker"].step = "ok" /\ job' = [job EXCEPT !.step = "ack"]
        /\ cmd' = [cmd EXCEPT !["worker"] = NoCommand]
    BY <1>8 DEF NatDone, Tidy, AloneInv
  <2>2. job'.step = "ack"
    BY <1>0, <2>1, JobStep
  <2>3. cmd'["worker"].step = "idle" /\ cmd'["reconciler"] = cmd["reconciler"]
    BY <1>1, <2>1, TheCalls
  <2>4. \A p \in Pairs : Known(p) => Known(p)'
    BY <1>2, <1>3, <1>4, <2>1 DEF Known
  <2>5. \A c, p : ~InRemoval(c, p)
    BY <2>1 DEF InRemoval
  <2>6. RuleInv'
    BY <2>1, <2>2, <2>4, <2>5 DEF Tidy, RuleInv
  <2> QED BY <2>1, <2>3, <2>6, JobGoesOn
<1>9. CASE Ack
  <2>1. job.step = "ack" /\ job' = NoJob /\ UNCHANGED <<row, rules, queue, req, pass, cmd>>
    BY <1>9 DEF Ack
  <2>2. cmd["worker"].step = "idle"
    BY <1>0, <2>1 DEF WorkerShape
  <2>3. \A p \in Pairs : Known(p) => Known(p)'
    BY <1>2, <1>3, <1>4, <2>1 DEF Known
  <2>4. RuleInv'
    BY <2>1, <2>3, TheJobs DEF Tidy, RuleInv
  <2> QED BY <2>1, <2>2, <2>4, JobGoesOn
<1>10. CASE BeginDestroy
  <2>1. job.step = "begin" /\ job.msg.type = "destroy" /\ UNCHANGED <<row, rules, req, pass>>
    BY <1>10 DEF BeginDestroy
  <2>2. CASE Retry
    BY <2>1, <2>2, RetryClean
  <2>3. CASE ~Retry
    <3>1. job' = [job EXCEPT !.step = "list"] /\ queue' = queue /\ cmd' = cmd
      BY <1>10, <2>3 DEF BeginDestroy
    <3>2. job'.step = "list" /\ cmd["worker"].step = "idle"
      BY <1>0, <2>1, <3>1, JobStep DEF WorkerShape
    <3>3. \A p \in Pairs : Known(p) => Known(p)'
      BY <1>2, <1>3, <1>4, <2>1, <3>1 DEF Known
    <3>4. RuleInv'
      BY <2>1, <3>2, <3>3 DEF Tidy, RuleInv
    <3> QED BY <2>1, <3>1, <3>2, <3>4, JobGoesOn
  <2> QED BY <2>2, <2>3
<1>11. CASE ListBindings
  <2>1. /\ job.step = "list" /\ UNCHANGED <<row, rules, queue, req, cmd, pass>>
        /\ job' = [job EXCEPT !.step = "detach", !.bindings = BindingsOf(job.msg.inst)]
    BY <1>11 DEF ListBindings
  <2>2. job'.step = "detach" /\ job'.msg = job.msg /\ job'.bindings = BindingsOf(job.msg.inst)
    BY <1>0, <2>1 DEF JobRec
  <2>3. cmd["worker"].step = "idle"
    BY <1>0, <2>1 DEF WorkerShape
  <2>4. \A p \in Pairs : Known(p) => Known(p)'
    BY <1>2, <1>3, <1>4, <2>1 DEF Known
  <2>5. ASSUME NEW p \in Pairs, Known(p)
        PROVE  p \in job'.bindings \/ OfOthers(p)' \/ Due(p)'
    <3>1. CASE Carried(p) /\ row[p[1]].inst = job.msg.inst
      <4>1. p[1] \in Ips /\ p = <<p[1], row[p[1]].priv>>
        BY <3>1 DEF Pairs, Carried
      <4>2. p \in BindingsOf(job.msg.inst)
        BY <3>1, <4>1 DEF BindingsOf, Carried
      <4> QED BY <2>2, <4>2
    <3>2. CASE Carried(p) /\ row[p[1]].inst # job.msg.inst
      BY <2>1, <2>2, <3>2 DEF OfOthers, Carried, Bound
    <3>3. CASE Due(p)
      BY <1>3, <1>4, <2>1, <3>3
    <3> QED BY <2>5, <3>1, <3>2, <3>3 DEF Known
  <2>6. RuleInv'
    BY <2>1, <2>2, <2>4, <2>5 DEF Tidy, RuleInv
  <2> QED BY <2>1, <2>3, <2>6, JobGoesOn
<1>12. ASSUME NEW b \in job.bindings, DetachBinding(b)
       PROVE  CleanInv'
  <2>1. /\ job.step = "detach" /\ UNCHANGED <<row, rules, queue, req, pass>>
        /\ job' = [job EXCEPT !.bindings = @ \ {b}] /\ cmd["worker"].step \in {"idle", "ok"}
        /\ cmd' = [cmd EXCEPT !["worker"] = Start("delPre", b)]
    BY <1>12 DEF DetachBinding, Call
  <2>2. job'.step = "detach" /\ job'.msg = job.msg /\ job'.bindings = job.bindings \ {b}
    BY <1>0, <2>1 DEF JobRec
  <2>3. cmd'["worker"].step = "delPre" /\ cmd'["worker"].pair = b
        /\ cmd'["reconciler"] = cmd["reconciler"]
    BY <1>0, <2>1, TheAgents, StartParts
  <2>4. /\ \A c, p : ~InRemoval(c, p)
        /\ \A c \in Chains : InRemoval(c, b)'
    BY <2>1, <2>3 DEF InRemoval
  <2>5. \A p \in Pairs : /\ Due(p) => Due(p)'
                         /\ Known(p) => Known(p)'
                         /\ OfOthers(p) => OfOthers(p)'
    BY <1>2, <1>3, <1>4, <2>1, <2>2 DEF Known, OfOthers
  <2>6. RuleInv'
    BY <2>1, <2>2, <2>4, <2>5 DEF Tidy, RuleInv
  <2> QED BY <2>1, <2>3, <2>6, JobGoesOn DEF Removals
<1>13. CASE ClearBindings
  <2>1. /\ job.step = "detach" /\ UNCHANGED <<rules, queue, req, pass>> /\ job.bindings = {}
        /\ job' = [job EXCEPT !.step = "finalize"] /\ cmd["worker"].step \in {"idle", "ok"}
        /\ cmd' = [cmd EXCEPT !["worker"] = NoCommand] /\ row' = Cleared(job.msg.inst)
    BY <1>13 DEF ClearBindings
  <2>2. job'.step = "finalize" /\ job'.msg = job.msg
    BY <1>0, <2>1, JobStep
  <2>3. cmd'["worker"].step = "idle" /\ cmd'["reconciler"] = cmd["reconciler"]
    BY <1>1, <2>1, TheCalls
  <2>4. \A c, p : ~InRemoval(c, p)
    BY <2>1 DEF InRemoval
  <2>5. \A p \in Pairs : OfOthers(p) => OfOthers(p)' /\ Carried(p)'
    BY <1>0, <2>1, <2>2, ClearedRows
  <2>6. \A p \in Pairs : Due(p) => Due(p)'
    BY <1>4, <2>1 DEF Due, Asked, Waiting, Removes
  <2>7. RuleInv'
    BY <2>1, <2>2, <2>4, <2>5, <2>6 DEF Tidy, RuleInv, Known
  <2> QED BY <2>1, <2>3, <2>7, JobGoesOn
<1>14. CASE FinalizeDestroy
  <2>1. job.step = "finalize" /\ job.msg.type = "destroy" /\ UNCHANGED <<rules, req, pass>>
    BY <1>0, <1>14 DEF FinalizeDestroy, JobShape
  <2>2. CASE Retry /\ row' = row
    BY <2>1, <2>2, RetryClean
  <2>3. CASE ~(Retry /\ row' = row)
    <3>1. /\ job' = [job EXCEPT !.step = "ack"] /\ row' = Cleared(job.msg.inst)
          /\ UNCHANGED <<queue, cmd>>
      BY <1>14, <2>3 DEF FinalizeDestroy
    <3>2. job'.step = "ack" /\ job'.msg = job.msg /\ cmd["worker"].step = "idle"
      BY <1>0, <2>1, <3>1, JobStep DEF WorkerShape
    <3>3. \A p \in Pairs : OfOthers(p) => OfOthers(p)' /\ Carried(p)'
      BY <1>0, <3>1, <3>2, ClearedRows
    <3>4. \A p \in Pairs : Due(p) => Due(p)'
      BY <1>4, <2>1, <3>1 DEF Due, Asked, Waiting, Removes
    <3>5. RuleInv'
      BY <2>1, <3>2, <3>3, <3>4 DEF Tidy, RuleInv, Known
    <3> QED BY <2>1, <3>1, <3>2, <3>5, JobGoesOn
  <2> QED BY <2>2, <2>3
<1>15. CASE HandlerFails
  BY <1>15 DEF HandlerFails, Error
<1> QED BY <1>5, <1>6, <1>7, <1>8, <1>9, <1>10, <1>11, <1>12, <1>13, <1>14, <1>15

LEMMA CommandClean ==
  ASSUME Tidy, clean', NEW g \in Agents, Command(g)
  PROVE  CleanInv'
<1>0. /\ CopyInv /\ CmdType /\ CmdTyped /\ WorkerShape /\ ReconcilerShape
      /\ cmd \in [Agents -> CmdRec] /\ \A h \in Agents : CallShape(cmd[h])
  BY TidyTypes
<1>1. UNCHANGED <<row, queue, req, job, pass>>
  BY DEF Command
<1>2. PICK k \in CmdRec : /\ CallShape(k) /\ cmd' = [cmd EXCEPT ![g] = k]
                          /\ Follows(g, cmd[g], k) /\ k.step # "err"
  BY <1>0, CallGoesOn
<1>3. cmd'[g] = k /\ \A h \in Agents : h # g => cmd'[h] = cmd[h]
  BY <1>0, <1>2
<1>4. \A p : /\ Known(p)' <=> Known(p)
             /\ OfOthers(p)' <=> OfOthers(p)
             /\ Due(p)' <=> Due(p)
  BY <1>1 DEF Known, OfOthers, Due, Carried, Bound, Asked, Waiting, Begun, Removes
<1>5. cmd[g].step \in Checks \cup Additions \cup Removals
  BY <1>2 DEF Follows, Removals
\* The other one is not at work.
<1>6. /\ g = "worker" => job.step \in {"nat", "detach"} /\ pass = None
                         /\ cmd["reconciler"].step = "idle"
      /\ g = "reconciler" => job.step = "idle" /\ cmd["worker"].step = "idle"
                             /\ cmd[g].step \in Checks \cup Additions
  <2>1. CASE g = "worker"
    <3>1. job.step \in {"nat", "detach"}
      BY <1>0, <1>5, <2>1 DEF WorkerShape, Checks, Additions, Removals
    <3> QED BY <2>1, <3>1, BusyAlone
  <2>2. CASE g = "reconciler"
    <3>1. cmd[g].step \in Checks \cup Additions /\ pass # None
      BY <1>0, <1>5, <2>2 DEF ReconcilerShape, Checks, Additions, Removals
    <3>2. job.step = "idle"
      BY <3>1, BusyAlone
    <3> QED BY <1>0, <2>2, <3>1, <3>2 DEF WorkerShape
  <2> QED BY <2>1, <2>2, TheAgents
<1>7. AloneInv'
  BY <1>1, <1>2, <1>3, TheAgents DEF Tidy, AloneInv
<1>8. AdditionsInv'
  <2>1. k.step \in Checks \cup Additions =>
          cmd[g].step \in Checks \cup Additions /\ k.pair = cmd[g].pair
    BY <1>2, TheCalls DEF Follows, Over, Checks, Additions
  <2>2. ASSUME NEW h \in Agents, cmd'[h].step \in Checks \cup Additions
        PROVE  Known(cmd'[h].pair)
    BY <1>3, <2>1, <2>2 DEF Tidy, AdditionsInv
  <2>3. \A h \in Agents : \A p : cmd'[h].step \in Checks \cup Additions /\ cmd'[h].pair = p => Known(p)'
    BY <1>4, <2>2
  <2>4. pass' # None => \A b \in pass' : Known(b)'
    BY <1>1, <1>4 DEF Tidy, AdditionsInv
  <2> QED BY <2>3, <2>4 DEF AdditionsInv
<1>9. \A h \in Agents : h # g => \A c, p : ~MayAdd(h, c, p)'
  <2>1. \A h \in Agents : h # g => cmd'[h].step = "idle"
    BY <1>3, <1>6, TheAgents
  <2> QED BY <2>1 DEF MayAdd
\* The rules of a step that adds nothing, ...
<1>10. ASSUME rules' = rules,
              \A c \in Chains, p \in Pairs :
                MayAdd(g, c, p)' => MayAdd(g, c, p) \/ rules[<<c, p>>] = 0,
              cmd[g].step \in Checks
       PROVE  CleanInv'
  <2>1. SingleInv'
    BY <1>9, <1>10 DEF Tidy, SingleInv
  <2>2. \A c \in Chains, p \in Pairs : InRemoval(c, p) => InRemoval(c, p)'
    BY <1>3, <1>10, TheAgents DEF InRemoval, Checks
  <2>3. RuleInv'
    BY <1>1, <1>4, <1>10, <2>2 DEF Tidy, RuleInv
  <2> QED BY <1>7, <1>8, <2>1, <2>3 DEF CleanInv
\* ... of one that adds, ...
<1>11. ASSUME NEW d \in Chains, Add(d, cmd[g].pair), cmd[g].step \in Additions,
              MayAdd(g, d, cmd[g].pair),
              \A c \in Chains, p \in Pairs : MayAdd(g, c, p)' => MayAdd(g, c, p) /\ c # d
       PROVE  CleanInv'
  <2>0. PICK q : q = cmd[g].pair
    OBVIOUS
  <2>1. q \in Pairs /\ Known(q)
    BY <1>0, <1>11, <2>0 DEF CallShape, Additions, Tidy, AdditionsInv
  <2>2. \A c \in Chains, p \in Pairs :
          rules'[<<c, p>>] = IF c = d /\ p = q THEN rules[<<c, p>>] + 1 ELSE rules[<<c, p>>]
    BY <1>0, <1>11, <2>0, <2>1 DEF Add, CopyInv, RulesType
  <2>3. rules[<<d, q>>] = 0
    BY <1>11, <2>0, <2>1 DEF Tidy, SingleInv
  <2>4. SingleInv'
    <3> SUFFICES ASSUME NEW c \in Chains, NEW p \in Pairs
                 PROVE  /\ rules'[<<c, p>>] <= 1
                        /\ \A h \in Agents : MayAdd(h, c, p)' => rules'[<<c, p>>] = 0
        BY DEF SingleInv
    <3>1. \A h \in Agents : MayAdd(h, c, p)' => c # d /\ MayAdd(h, c, p)
      BY <1>9, <1>11
    <3>2. /\ rules[<<c, p>>] <= 1
          /\ \A h \in Agents : MayAdd(h, c, p) => rules[<<c, p>>] = 0
      BY DEF Tidy, SingleInv
    <3>3. rules'[<<c, p>>] = IF c = d /\ p = q THEN rules[<<c, p>>] + 1 ELSE rules[<<c, p>>]
      BY <2>2
    <3> HIDE DEF MayAdd
    <3> QED BY <2>3, <3>1, <3>2, <3>3
  <2>5. job.step \notin {"detach", "finalize"} /\ \A c, p : ~InRemoval(c, p)
    BY <1>0, <1>6, <1>11, TheAgents DEF WorkerShape, InRemoval, Additions, Removals
  <2>6. RuleInv'
    <3> SUFFICES ASSUME NEW c \in Chains, NEW p \in Pairs, rules'[<<c, p>>] > 0
                 PROVE  Known(p)'
        BY <1>1, <2>5 DEF RuleInv
    <3>1. CASE c = d /\ p = q
      BY <1>4, <2>1, <3>1
    <3>2. CASE ~(c = d /\ p = q)
      <4>1. rules[<<c, p>>] > 0
        BY <2>2, <3>2
      <4> QED BY <1>4, <2>5, <4>1 DEF Tidy, RuleInv
    <3> QED BY <3>1, <3>2
  <2> QED BY <1>7, <1>8, <2>4, <2>6 DEF CleanInv
\* ... and of one that removes.
<1>12. ASSUME NEW d \in Chains, Delete(d, cmd[g].pair), cmd[g].step \in Removals,
              \A c \in Chains, p \in Pairs :
                InRemoval(c, p) => InRemoval(c, p)' \/ (c = d /\ p = cmd[g].pair)
       PROVE  CleanInv'
  <2>0. PICK q : q = cmd[g].pair
    OBVIOUS
  <2>1. g = "worker" /\ q \in Pairs
    BY <1>0, <1>6, <1>12, <2>0, TheAgents DEF CallShape, Removals, Checks, Additions
  <2>2. \A c \in Chains, p \in Pairs :
          rules'[<<c, p>>] = IF c = d /\ p = q
                             THEN IF rules[<<c, p>>] > 0 THEN rules[<<c, p>>] - 1 ELSE 0
                             ELSE rules[<<c, p>>]
    BY <1>0, <1>12, <2>0, <2>1 DEF Delete, CopyInv, RulesType
  <2>3. \A c \in Chains, p \in Pairs : rules[<<c, p>>] \in Nat /\ rules[<<c, p>>] <= 1
    BY TidyTypes DEF Tidy, SingleInv
  <2>4. k.step \notin Checks \cup Additions
    BY <1>2, <1>12, <2>1 DEF Follows, Over, Removals, Checks, Additions
  <2>5. \A h \in Agents, c \in Chains, p \in Pairs : ~MayAdd(h, c, p)'
    BY <1>3, <1>9, <2>4 DEF MayAdd, Checks, Additions
  <2>6. SingleInv'
    <3> SUFFICES ASSUME NEW c \in Chains, NEW p \in Pairs PROVE rules'[<<c, p>>] <= 1
        BY <2>5 DEF SingleInv
    <3>1. rules'[<<c, p>>] = IF c = d /\ p = q
                             THEN IF rules[<<c, p>>] > 0 THEN rules[<<c, p>>] - 1 ELSE 0
                             ELSE rules[<<c, p>>]
      BY <2>2
    <3>2. rules[<<c, p>>] \in Nat /\ rules[<<c, p>>] <= 1
      BY <2>3
    <3> QED BY <3>1, <3>2
  <2>7. ASSUME NEW c \in Chains, NEW p \in Pairs, rules'[<<c, p>>] > 0
        PROVE  rules[<<c, p>>] > 0 /\ (InRemoval(c, p) => InRemoval(c, p)')
    <3>1. rules'[<<c, p>>] = IF c = d /\ p = q
                             THEN IF rules[<<c, p>>] > 0 THEN rules[<<c, p>>] - 1 ELSE 0
                             ELSE rules[<<c, p>>]
      BY <2>2
    <3>2. rules[<<c, p>>] \in Nat /\ rules[<<c, p>>] <= 1
      BY <2>3
    <3>3. ~(c = d /\ p = q) /\ rules[<<c, p>>] > 0
      BY <2>7, <3>1, <3>2
    <3> QED BY <1>12, <2>0, <3>3
  <2>8. RuleInv'
    BY <1>1, <1>4, <2>7 DEF Tidy, RuleInv
  <2> QED BY <1>7, <1>8, <2>6, <2>8 DEF CleanInv
<1>13. CASE CheckPre(g) \/ CheckPost(g)
  <2>1. rules' = rules /\ cmd[g].step \in Checks
    BY <1>13 DEF CheckPre, CheckPost, Checks
  <2> QED BY <1>0, <1>10, <1>13, <2>1, CheckPreInv, CheckPostInv
<1>14. CASE SeePre(g) \/ SeePost(g)
  <2>1. rules' = rules /\ cmd[g].step \in Checks
    BY <1>14 DEF SeePre, SeePost, Checks
  <2>2. \A c, p : ~MayAdd(g, c, p)'
    BY <1>0, <1>14, SeeingIsQuiet DEF Quiet, MayAdd
  <2> QED BY <1>10, <2>1, <2>2
<1>15. ASSUME cmd[g].step \in Additions \cup Removals PROVE cmd[g].pair \in Pairs
  BY <1>0, <1>15 DEF CallShape, Additions, Removals
<1>16. CASE AddPre(g)
  <2>1. Add("PREROUTING", cmd[g].pair) /\ cmd[g].step \in Additions /\ "PREROUTING" \in Chains
    BY <1>16 DEF AddPre, Additions, Chains
  <2> QED BY <1>0, <1>11, <1>15, <1>16, <2>1, AddPreInv
<1>17. CASE AddPost(g)
  <2>1. Add("POSTROUTING", cmd[g].pair) /\ cmd[g].step \in Additions /\ "POSTROUTING" \in Chains
    BY <1>17 DEF AddPost, Additions, Chains
  <2> QED BY <1>0, <1>11, <1>15, <1>17, <2>1, AddPostInv
<1>18. CASE DelPre(g)
  <2>1. Delete("PREROUTING", cmd[g].pair) /\ cmd[g].step = "delPre" /\ "PREROUTING" \in Chains
    BY <1>18 DEF DelPre, Chains
  <2>2. k.step = "delPost" /\ k.pair = cmd[g].pair
    BY <1>2, <2>1 DEF Follows, Checks, Additions
  <2>3. g = "worker"
    BY <1>6, <2>1, TheAgents DEF Checks, Additions
  <2>4. \A c \in Chains, p \in Pairs :
          InRemoval(c, p) => InRemoval(c, p)' \/ (c = "PREROUTING" /\ p = cmd[g].pair)
    BY <1>3, <2>2, <2>3 DEF InRemoval, Chains
  <2> QED BY <1>12, <2>1, <2>4 DEF Removals
<1>19. CASE DelPost(g)
  <2>1. Delete("POSTROUTING", cmd[g].pair) /\ cmd[g].step = "delPost" /\ "POSTROUTING" \in Chains
    BY <1>19 DEF DelPost, Chains
  <2>2. g = "worker"
    BY <1>6, <2>1, TheAgents DEF Checks, Additions
  <2>3. \A c \in Chains, p \in Pairs :
          InRemoval(c, p) => c = "POSTROUTING" /\ p = cmd[g].pair
    BY <2>1, <2>2 DEF InRemoval
  <2> QED BY <1>12, <2>1, <2>3 DEF Removals
<1> QED BY <1>13, <1>14, <1>16, <1>17, <1>18, <1>19 DEF Command

LEMMA ReconcilerClean ==
  ASSUME Tidy, clean', ListActive \/ EndPass \/ (pass # None /\ \E b \in pass : Reconcile(b))
  PROVE  CleanInv'
<1>1. UNCHANGED <<row, rules, queue, req, job>> /\ cmd'["worker"] = cmd["worker"]
  BY TidyTypes, TheAgents DEF ListActive, EndPass, Reconcile
<1>2. \A p : /\ Known(p)' <=> Known(p)
             /\ OfOthers(p)' <=> OfOthers(p)
             /\ Due(p)' <=> Due(p)
             /\ \A c : InRemoval(c, p)' <=> InRemoval(c, p)
  BY <1>1 DEF Known, OfOthers, Due, Carried, Bound, Asked, Waiting, Begun, Removes, InRemoval
<1>3. RuleInv'
  BY <1>1, <1>2 DEF Tidy, RuleInv
<1>4. CASE ListActive
  <2>1. /\ cmd' = cmd /\ job = NoJob
        /\ pass' = UNION {BindingsOf(i) : i \in {j \in Instances : state[j] = "running"}}
    BY <1>4 DEF ListActive
  <2>2. ASSUME NEW b \in pass' PROVE Known(b)
    <3>1. PICK i \in Instances : b \in BindingsOf(i)
      BY <2>1, <2>2
    <3>2. PICK f \in Ips : Bound(f) /\ b = <<f, row[f].priv>>
      BY <3>1 DEF BindingsOf
    <3> QED BY <3>2 DEF Known, Carried
  <2>3. AloneInv' /\ AdditionsInv'
    BY <1>1, <1>2, <2>1, <2>2 DEF Tidy, AloneInv, AdditionsInv
  <2>4. SingleInv'
    BY <1>1, <2>1 DEF Tidy, SingleInv, MayAdd
  <2> QED BY <1>3, <2>3, <2>4 DEF CleanInv
<1>5. CASE EndPass
  <2>1. pass' = None /\ cmd' = cmd
    BY <1>5 DEF EndPass
  <2>2. AloneInv' /\ AdditionsInv'
    BY <1>1, <1>2, <2>1 DEF Tidy, AloneInv, AdditionsInv
  <2>3. SingleInv'
    BY <1>1, <2>1 DEF Tidy, SingleInv, MayAdd
  <2> QED BY <1>3, <2>2, <2>3 DEF CleanInv
<1>6. ASSUME pass # None, NEW b \in pass, Reconcile(b)
      PROVE  CleanInv'
  <2>1. pass' = pass \ {b} /\ cmd' = [cmd EXCEPT !["reconciler"] = Start("seePre", b)]
    BY <1>6 DEF Reconcile
  <2>2. cmd'["reconciler"].step = "seePre" /\ cmd'["reconciler"].pair = b
    BY <2>1, TidyTypes, TheAgents, StartParts
  <2>3. AloneInv'
    BY <1>1, <1>6 DEF Tidy, AloneInv
  <2>4. cmd["worker"].step = "idle"
    BY <1>6, TidyTypes, BusyAlone DEF WorkerShape
  <2>5. AdditionsInv'
    BY <1>1, <1>2, <1>6, <2>1, <2>2, <2>4, TheAgents DEF Tidy, AdditionsInv, Checks, Additions
  <2>6. \A g \in Agents, c \in Chains, p \in Pairs : ~MayAdd(g, c, p)'
    BY <1>1, <2>2, <2>4, TheAgents DEF MayAdd
  <2>7. SingleInv'
    BY <1>1, <2>6 DEF Tidy, SingleInv
  <2> QED BY <1>3, <2>3, <2>5, <2>7 DEF CleanInv
<1> QED BY <1>4, <1>5, <1>6

\* A worker that dies leaves its rules behind, and its task to be done again.
LEMMA CrashClean ==
  ASSUME Tidy, Crash
  PROVE  CleanInv'
<1>1. /\ job' = NoJob /\ pass' = None /\ UNCHANGED <<row, rules, req>>
      /\ queue' = (IF job = NoJob THEN queue ELSE <<job.msg>> \o queue)
      /\ cmd' = [g \in Agents |-> NoCommand]
  BY DEF Crash
<1>2. \A g \in Agents : cmd'[g].step = "idle"
  BY <1>1, TheCalls
<1>3. job # NoJob => job.step # "idle" /\ job.msg \in Messages /\ queue \in Seq(Messages)
  BY TidyTypes DEF JobShape
<1>4. ASSUME NEW p \in Pairs, Waiting(queue, p) \/ (job # NoJob /\ Removes(job.msg, p))
      PROVE  Waiting(queue', p)
  BY <1>1, <1>3, <1>4, QueueKeeps
<1>5. ASSUME NEW p \in Pairs, Known(p) PROVE Known(p)'
  <2>1. CASE Carried(p)
    BY <1>1, <2>1 DEF Known, Carried, Bound
  <2>2. ASSUME NEW r \in Requests, Asked(req[r], p) PROVE Known(p)'
    BY <1>1, <2>2 DEF Known, Due, Asked
  <2>3. CASE Waiting(queue, p) \/ Begun(p)
    <3>1. Waiting(queue', p)
      BY <1>4, <2>3, TheJobs DEF Begun
    <3> QED BY <3>1 DEF Known, Due
  <2> QED BY <1>5, <2>1, <2>2, <2>3 DEF Known, Due
<1>6. ASSUME NEW c \in Chains, NEW p \in Pairs, job.step = "nat", InRemoval(c, p)
      PROVE  Known(p)'
  <2>1. job.msg.type = "disassociate" /\ p = <<job.msg.ip, job.msg.priv>>
    BY <1>6, TidyTypes DEF WorkerShape, JobShape, InRemoval, Checks, Additions, Removals
  <2>2. Removes(job.msg, p) /\ job # NoJob
    BY <1>6, <2>1, TheJobs DEF Removes
  <2>3. Waiting(queue', p)
    BY <1>4, <2>2
  <2> QED BY <2>3 DEF Known, Due
<1>7. AloneInv' /\ AdditionsInv'
  BY <1>1, <1>2, TheAgents DEF Tidy, AloneInv, AdditionsInv, Checks, Additions
<1>8. SingleInv'
  BY <1>1, <1>2 DEF Tidy, SingleInv, MayAdd
<1>9. RuleInv'
  BY <1>1, <1>5, <1>6, TheJobs DEF Tidy, RuleInv
<1> QED BY <1>7, <1>8, <1>9 DEF CleanInv

LEMMA OtherClean ==
  ASSUME Tidy,
         \/ UNCHANGED vars
         \/ \E i \in Instances : Create(i) \/ StateChanges(i)
         \/ \E f \in Ips, p \in Projects : Allocate(f, p)
  PROVE  CleanInv'
<1>1. UNCHANGED <<rules, queue, req, job, cmd, pass>>
  BY DEF vars, Create, StateChanges, Allocate
<1>2. \A p \in Pairs : Carried(p) => Carried(p)' /\ row'[p[1]].inst = row[p[1]].inst
  <2>1. CASE row' = row
    BY <2>1 DEF Carried, Bound
  <2>2. ASSUME NEW f \in Ips, NEW x \in Projects, Allocate(f, x)
        PROVE  \A p \in Pairs : Carried(p) => Carried(p)' /\ row'[p[1]].inst = row[p[1]].inst
    <3>1. ~Bound(f) /\ row' = [row EXCEPT ![f] = Row("allocated", x, None, None)]
      BY <2>2 DEF Allocate, Bound
    <3> QED BY <3>1, TidyTypes, OthersAreCarried
  <2> QED BY <2>1, <2>2 DEF vars, Create, StateChanges
<1>3. \A p \in Pairs : /\ Due(p) => Due(p)'
                       /\ OfOthers(p) => OfOthers(p)'
  BY <1>1, <1>2 DEF OfOthers, Due, Asked, Waiting, Begun, Removes
<1> QED BY <1>1, <1>2, <1>3, NobodyIsLost DEF Known, Tidy, AloneInv

LEMMA NextClean ==
  ASSUME TypeInv, CleanInv, [Next]_vars
  PROVE  CleanInv'
<1> SUFFICES ASSUME clean' PROVE CleanInv'
    BY DEF CleanInv
<1>1. clean
  <2>1. ASSUME NEW r \in Requests, RequestStep(r) PROVE clean
    BY <2>1 DEF RequestStep, TryAssociate, TakeDisassociate, RequestDestroy, CreateTask,
                PublishTask, RequestFails, Rollback, RequestAborted, Error, world
  <2>2. CASE WorkerStep \/ HandlerFails \/ Crash
    BY <2>2 DEF WorkerStep, Take, BeginAssociate, BeginDisassociate, NatDone, Ack, BeginDestroy,
                ListBindings, ClearBindings, FinalizeDestroy, DetachBinding, Command,
                HandlerFails, Crash, Error, world
  <2>3. CASE ReconcilerStep \/ \E g \in Agents : CommandFails(g)
    BY <2>3 DEF ReconcilerStep, ListActive, EndPass, Reconcile, Command, CommandFails, Error, world
  <2>4. CASE UNCHANGED vars
    BY <2>4 DEF vars, world
  <2> QED BY <2>1, <2>2, <2>3, <2>4 DEF Next, Create, StateChanges, Allocate, world
<1>2. Tidy
  BY <1>1 DEF Tidy, CleanInv
<1>3. ASSUME NEW r \in Requests, RequestStep(r) PROVE CleanInv'
  BY <1>2, <1>3, RequestClean
<1>4. ASSUME NEW g \in Agents, Command(g) \/ CommandFails(g) PROVE CleanInv'
  BY <1>2, <1>4, CommandClean DEF CommandFails, Error
<1>5. CASE WorkerStep \/ HandlerFails
  BY <1>2, <1>4, <1>5, JobClean, TheAgents DEF WorkerStep
<1>6. CASE ReconcilerStep
  BY <1>2, <1>4, <1>6, ReconcilerClean, TheAgents DEF ReconcilerStep
<1> QED BY <1>2, <1>3, <1>4, <1>5, <1>6, CrashClean, OtherClean DEF Next

\* In a history that is clean, rules are known and there is one copy of each:
\* an inductive invariant, with the types.
THEOREM CleanHistories == Spec => [](TypeInv /\ CleanInv)
<1>1. Init => CleanInv
  <2> SUFFICES ASSUME Init PROVE CleanInv
      OBVIOUS
  <2>1. \A g \in Agents : cmd[g].step = "idle"
    BY TheCalls DEF Init
  <2>2. AloneInv /\ AdditionsInv
    BY <2>1, TheAgents DEF Init, AloneInv, AdditionsInv, NoRequest, Checks, Additions
  <2>3. \A c \in Chains, p \in Pairs : rules[<<c, p>>] = 0
    BY DEF Init
  <2>4. SingleInv /\ RuleInv
    BY <2>1, <2>3 DEF SingleInv, RuleInv
  <2> QED BY <2>2, <2>4 DEF CleanInv
<1> QED BY <1>1, InitTypes, NextTypes, NextClean, PTL DEF Spec

\* A rule on the host belongs to a binding, or to one whose removal is due, as
\* long as nothing has failed and no pass of the reconciler has overlapped a
\* task: deaths, retries and destroys leave no rule behind.
THEOREM RulesBelongToRows == Spec => []RulesHaveRows
<1>1. TypeInv /\ CleanInv => RulesHaveRows
  <2> SUFFICES ASSUME CleanInv, TypeInv, clean, NEW x \in DOMAIN rules, rules[x] > 0
               PROVE  \/ Bound(x[2][1]) /\ row[x[2][1]].priv = x[2][2]
                      \/ RemovalIsDue(x[1], x[2])
      BY DEF RulesHaveRows
  <2>1. DOMAIN rules = Chains \X Pairs
    BY DEF TypeInv, CopyInv, RulesType
  <2>2. PICK c \in Chains, p \in Pairs : x = <<c, p>>
    BY <2>1
  <2>3. Known(p) \/ InRemoval(c, p)
    BY <2>2 DEF CleanInv, RuleInv
  <2>4. Due(p) \/ InRemoval(c, p) => RemovalIsDue(c, p)
    BY DEF Due, InRemoval, RemovalIsDue, Asked, Waiting, Begun, Removes
  <2> QED BY <2>2, <2>3, <2>4 DEF Known, Carried
<1> QED BY <1>1, CleanHistories, PTL
==============================================================================
