------------------------------ MODULE FloatingIP -----------------------------
(***************************************************************************)
(* Floating IPs: the rows of floating_ips, the NAT rules that carry them   *)
(* out, and who changes which (internal/service/floating_ip_service.go,    *)
(* internal/repository/floating_ips.go, internal/network/ingress.go, the   *)
(* clean-up in HandleDestroyTask).                                         *)
(*                                                                         *)
(* Requests change a row at once and leave the rules to a task; the worker *)
(* loop executes the tasks, one after the other, and a second goroutine of *)
(* the same process, the reconciler, applies the rules of all active rows. *)
(* An action is one SQL statement or transaction, one publication, or one  *)
(* iptables command.  Of an instance the module knows whether its row is   *)
(* there and says running ("idle" is every other state).                   *)
(***************************************************************************)
EXTENDS Integers, Sequences, FiniteSets

CONSTANTS
  Ips, Instances, Projects, Addresses,
  None,
  ProjectOf,     \* ProjectOf[i]: instances.project_id
  Running,       \* instances that are there, and run, from the start
  AddrOf,        \* AddrOf[i]: instances.ipv4_address, free again when i is gone
  MaxRequests,   \* bound on associate, disassociate and destroy requests
  MaxRetries,    \* limit of retries of a task
  MaxFaults      \* bound on failing statements, publications and commands,
                 \* and deaths of the worker process

ASSUME ConstantsAssumption ==
  /\ None \notin Ips \cup Instances \cup Projects \cup Addresses
  /\ \A bindings \in SUBSET (Ips \X Addresses) : bindings # None
  /\ Running \subseteq Instances
  /\ ProjectOf \in [Instances -> Projects] /\ AddrOf \in [Instances -> Addresses]
  /\ MaxRequests \in Nat /\ MaxRetries \in Nat /\ MaxFaults \in Nat

VARIABLES
  state,    \* state[i]: "none" before and "gone" after the row of the instance
  row,      \* row[f]: the floating_ips row
  rules,    \* rules[<<c, <<f, a>>>>]: copies of the rule of pair f, a in a chain
  queue,    \* the messages of the worker's queue
  req,      \* req[r]: how far a request got
  job,      \* the message in the worker's hands, unacknowledged
  cmd,      \* cmd[g]: the calls of the ingress by the worker and the reconciler
  pass,     \* the reconciler's list, None between two passes
  faults,
  clean     \* history: nothing has failed, and no pass overlapped a task

world == <<faults, clean>>
vars  == <<state, row, rules, queue, req, job, cmd, pass, world>>

Requests == 1..MaxRequests
Agents == {"worker", "reconciler"}
Chains == {"PREROUTING", "POSTROUTING"}
Pairs  == Ips \X Addresses
NoPair == <<None, None>>

Row(status, p, i, a) == [status |-> status, project |-> p, inst |-> i, priv |-> a]
Message(type, f, a, i, tries) ==
  [type |-> type, ip |-> f, priv |-> a, inst |-> i, tries |-> tries]
Tries == 0..MaxRetries
Messages ==
  [type : {"associate"}, ip : Ips, priv : Addresses, inst : Instances, tries : Tries]
    \cup [type : {"disassociate"}, ip : Ips, priv : Addresses, inst : {None}, tries : Tries]
    \cup [type : {"destroy"}, ip : {None}, priv : {None}, inst : Instances, tries : Tries]
NoRequest == [step |-> "new", msg |-> None]
Answered  == [step |-> "done", msg |-> None]
NoJob     == [step |-> "idle", msg |-> None, bindings |-> {}]
Cmd(step, pair, pre, post) == [step |-> step, pair |-> pair, pre |-> pre, post |-> post]
NoCommand == Cmd("idle", NoPair, FALSE, FALSE)

Bound(f)  == row[f].status = "active"
Exists(i) == state[i] \in {"running", "idle"}
\* Mutant: the query of the reconciler, which leaves out what does not run.
MutBindingsOf(i) ==
  {<<f, row[f].priv>> : f \in {g \in Ips : Bound(g) /\ row[g].inst = i /\ state[i] = "running"}}
\* The rows that give an instance an address, as the pairs of their rules.
BindingsOf(i) == {<<f, row[f].priv>> : f \in {g \in Ips : Bound(g) /\ row[g].inst = i}}

TypeOK ==
  /\ state \in [Instances -> {"none", "running", "idle", "gone"}]
  /\ row \in [Ips -> [status : {"unallocated", "allocated", "active"},
       project : Projects \cup {None}, inst : Instances \cup {None},
       priv : Addresses \cup {None}]]
  /\ rules \in [Chains \X Pairs -> Nat]
  /\ queue \in Seq(Messages)
  /\ req \in [Requests -> [step : {"new", "task", "publish", "rollback", "done"},
       msg : Messages \cup {None}]]
  /\ job \in [step : {"idle", "begin", "nat", "list", "detach", "finalize", "ack"},
       msg : Messages \cup {None}, bindings : SUBSET Pairs]
  /\ cmd \in [Agents -> [step : {"idle", "seePre", "seePost", "checkPre", "checkPost",
       "addPre", "addPost", "delPre", "delPost", "ok", "err"},
       pair : Pairs \cup {NoPair}, pre : BOOLEAN, post : BOOLEAN]]
  /\ pass \in (SUBSET Pairs) \cup {None}
  /\ faults \in 0..MaxFaults /\ clean \in BOOLEAN

Init ==
  /\ state = [i \in Instances |-> IF i \in Running THEN "running" ELSE "none"]
  /\ row = [f \in Ips |-> Row("unallocated", None, None, None)]
  /\ rules = [x \in Chains \X Pairs |-> 0]
  /\ queue = <<>>
  /\ req = [r \in Requests |-> NoRequest]
  /\ job = NoJob
  /\ cmd = [g \in Agents |-> NoCommand]
  /\ pass = None
  /\ faults = 0 /\ clean = TRUE

Fault == faults < MaxFaults /\ faults' = faults + 1
Error == Fault /\ clean' = FALSE

------------------------------------------------------------------------------
\* Instances

\* An instance is created with an address no other instance has, and runs.
Create(i) ==
  /\ state[i] = "none"
  /\ \A j \in Instances : Exists(j) => AddrOf[j] # AddrOf[i]
  /\ state' = [state EXCEPT ![i] = "running"]
  /\ UNCHANGED <<row, rules, queue, req, job, cmd, pass, world>>

\* Its state is written by other tasks and by the state sync, at any time.
StateChanges(i) ==
  /\ Exists(i)
  /\ state' = [state EXCEPT ![i] = IF @ = "running" THEN "idle" ELSE "running"]
  /\ UNCHANGED <<row, rules, queue, req, job, cmd, pass, world>>

------------------------------------------------------------------------------
\* Requests

\* A project takes an address from the pool.
Allocate(f, p) ==
  /\ row[f].status = "unallocated"
  /\ row' = [row EXCEPT ![f] = Row("allocated", p, None, None)]
  /\ UNCHANGED <<state, rules, queue, req, job, cmd, pass, world>>

\* Requests are alike, so they are numbered in the order they come in.
Arrives(r) == req[r] = NoRequest /\ \A q \in 1..(r - 1) : req[q] # NoRequest

Released(f) == [row EXCEPT ![f] = Row("allocated", @.project, None, None)]

\* RequestAssociate: the row first, then the task row, then the message.
TryAssociate(r, f, i) ==
  /\ Arrives(r)
  /\ row[f].status = "allocated" /\ row[f].inst = None
  /\ row[f].project = ProjectOf[i] /\ state[i] = "running"
  /\ row' = [row EXCEPT ![f] = Row("active", @.project, i, AddrOf[i])]
  /\ req' = [req EXCEPT ![r] =
       [step |-> "task", msg |-> Message("associate", f, AddrOf[i], i, 0)]]
  /\ UNCHANGED <<state, rules, queue, job, cmd, pass, world>>

\* RequestDisassociate: the row is released before anything is asked of the worker.
TakeDisassociate(r, f) ==
  /\ Arrives(r)
  /\ Bound(f)
  /\ req' = [req EXCEPT ![r] =
       [step |-> "task", msg |-> Message("disassociate", f, row[f].priv, None, 0)]]
  /\ row' = Released(f)
  /\ UNCHANGED <<state, rules, queue, job, cmd, pass, world>>

\* A destroy is only asked for here; InstanceLifecycle has its request in full.
RequestDestroy(r, i) ==
  /\ Arrives(r)
  /\ Exists(i)
  /\ req' = [req EXCEPT ![r] =
       [step |-> "publish", msg |-> Message("destroy", None, None, i, 0)]]
  /\ UNCHANGED <<state, row, rules, queue, job, cmd, pass, world>>

To(r, step) == req' = [req EXCEPT ![r] =
  IF step = "done" THEN Answered ELSE [step |-> step, msg |-> @.msg]]

\* The task row refers to the instance (foreign key), which may be gone by now.
CreateTask(r) ==
  /\ req[r].step = "task"
  /\ To(r, IF req[r].msg.type = "associate" /\ ~Exists(req[r].msg.inst)
           THEN "done" ELSE "publish")
  /\ UNCHANGED <<state, row, rules, queue, job, cmd, pass, world>>

PublishTask(r) ==
  /\ req[r].step = "publish"
  /\ queue' = Append(queue, req[r].msg)
  /\ To(r, "done")
  /\ UNCHANGED <<state, row, rules, job, cmd, pass, world>>

\* Nothing is undone when the task row cannot be written; of what cannot be
\* published only an association is, by another statement.
RequestFails(r) ==
  /\ req[r].step \in {"task", "publish", "rollback"}
  /\ Error
  /\ To(r, IF req[r].step = "publish" /\ req[r].msg.type = "associate"
           THEN "rollback" ELSE "done")
  /\ UNCHANGED <<state, row, rules, queue, job, cmd, pass>>

\* The row is released whatever it is bound to by now.
Rollback(r) ==
  /\ req[r].step = "rollback"
  /\ row' = IF Bound(req[r].msg.ip) THEN Released(req[r].msg.ip) ELSE row
  /\ To(r, "done")
  /\ UNCHANGED <<state, rules, queue, job, cmd, pass, world>>

\* The API server dies: the rest of the request is never done.
RequestAborted(r) ==
  /\ req[r].step \in {"task", "publish", "rollback"}
  /\ Error
  /\ To(r, "done")
  /\ UNCHANGED <<state, row, rules, queue, job, cmd, pass>>

------------------------------------------------------------------------------
\* internal/network: every step is one iptables command

Start(step, pair) == Cmd(step, pair, FALSE, FALSE)
\* A call that is over leaves its result, which the reconciler only logs.
Reach(g, call) ==
  IF call.step \notin {"ok", "err"} THEN call
  ELSE IF g = "worker" THEN Start(call.step, NoPair) ELSE NoCommand
GoOn(g, step) == Reach(g, Cmd(step, cmd[g].pair, cmd[g].pre, cmd[g].post))
\* Mutant: a check that never finds a rule.
MutHas(chain, pair) == FALSE
Has(chain, pair)  == rules[<<chain, pair>>] > 0
Add(chain, pair)  == rules' = [rules EXCEPT ![<<chain, pair>>] = @ + 1]
\* Mutant: the removal of a rule that is not there counted all the same.
MutDelete(chain, pair) == rules' = [rules EXCEPT ![<<chain, pair>>] = @ - 1]
\* -D removes one copy of the rule, and it is no error when there is none.
Delete(chain, pair) == rules' = [rules EXCEPT ![<<chain, pair>>] = IF @ > 0 THEN @ - 1 ELSE 0]

\* AssociateIP: both checks before the first rule is added.
AddedPre(post)     == IF post THEN "ok" ELSE "addPost"
NextAdd(pre, post) == IF pre THEN AddedPre(post) ELSE "addPre"

CheckPre(g) ==
  /\ cmd[g].step = "checkPre"
  /\ cmd' = [cmd EXCEPT ![g] = Cmd("checkPost", @.pair, Has("PREROUTING", @.pair), FALSE)]
  /\ UNCHANGED rules

CheckPost(g) ==
  /\ cmd[g].step = "checkPost"
  /\ LET post == Has("POSTROUTING", cmd[g].pair)
     IN  cmd' = [cmd EXCEPT ![g] = Reach(g, Cmd(NextAdd(@.pre, post), @.pair, @.pre, post))]
  /\ UNCHANGED rules

AddPre(g) ==
  /\ cmd[g].step = "addPre"
  /\ Add("PREROUTING", cmd[g].pair)
  /\ cmd' = [cmd EXCEPT ![g] = GoOn(g, AddedPre(@.post))]

AddPost(g) ==
  /\ cmd[g].step = "addPost"
  /\ Add("POSTROUTING", cmd[g].pair)
  /\ cmd' = [cmd EXCEPT ![g] = GoOn(g, "ok")]

\* Mutant: one of the two rules is enough.
MutPresent(pre, post) == pre \/ post
\* FloatingNATRulesPresent, which the reconciler calls before AssociateIP.
Present(pre, post) == pre /\ post

SeePre(g) ==
  /\ cmd[g].step = "seePre"
  /\ cmd' = [cmd EXCEPT ![g] = Cmd("seePost", @.pair, Has("PREROUTING", @.pair), FALSE)]
  /\ UNCHANGED rules

SeePost(g) ==
  /\ cmd[g].step = "seePost"
  /\ cmd' = [cmd EXCEPT ![g] =
       IF Present(cmd[g].pre, Has("POSTROUTING", cmd[g].pair))
       THEN GoOn(g, "ok") ELSE Start("checkPre", cmd[g].pair)]
  /\ UNCHANGED rules

\* DisassociateIP
DelPre(g) ==
  /\ cmd[g].step = "delPre"
  /\ Delete("PREROUTING", cmd[g].pair)
  /\ cmd' = [cmd EXCEPT ![g] = GoOn(g, "delPost")]

DelPost(g) ==
  /\ cmd[g].step = "delPost"
  /\ Delete("POSTROUTING", cmd[g].pair)
  /\ cmd' = [cmd EXCEPT ![g] = GoOn(g, "ok")]

\* A failing check or addition ends the call; a failing removal is passed over.
CommandFails(g) ==
  /\ cmd[g].step \notin {"idle", "ok", "err"}
  /\ Error
  /\ cmd' = [cmd EXCEPT ![g] = GoOn(g,
       IF @.step = "delPre" THEN "delPost" ELSE IF @.step = "delPost" THEN "ok" ELSE "err")]
  /\ UNCHANGED <<state, row, rules, queue, req, job, pass>>

Command(g) ==
  /\ \/ CheckPre(g) \/ CheckPost(g) \/ AddPre(g) \/ AddPost(g)
     \/ SeePre(g) \/ SeePost(g) \/ DelPre(g) \/ DelPost(g)
  /\ UNCHANGED <<state, row, queue, req, job, pass, world>>

------------------------------------------------------------------------------
\* The worker

Take ==
  /\ job = NoJob /\ queue # <<>>
  /\ job' = [step |-> "begin", msg |-> Head(queue), bindings |-> {}]
  /\ queue' = Tail(queue)
  /\ clean' = (clean /\ pass = None)
  /\ UNCHANGED <<state, row, rules, req, cmd, pass, faults>>

\* The handler returned an error: a copy goes to the tail, or to the dead letters.
Retry ==
  /\ queue' = IF job.msg.tries < MaxRetries
              THEN Append(queue, [job.msg EXCEPT !.tries = @ + 1]) ELSE queue
  /\ job' = NoJob
  /\ cmd' = [cmd EXCEPT !["worker"] = NoCommand]

Call(step, pair) == cmd' = [cmd EXCEPT !["worker"] = Start(step, pair)]

Expected(m) == Bound(m.ip) /\ row[m.ip].inst = m.inst

\* HandleAssociateTask, with the address of the row.
BeginAssociate ==
  /\ job.step = "begin" /\ job.msg.type = "associate"
  /\ IF Expected(job.msg)
     THEN /\ job' = [job EXCEPT !.step = "nat"]
          /\ Call("checkPre", <<job.msg.ip, row[job.msg.ip].priv>>)
          /\ UNCHANGED queue
     ELSE Retry
  /\ UNCHANGED <<state, row, rules, req, pass, world>>

\* HandleDisassociateTask, with the addresses of the message.
BeginDisassociate ==
  /\ job.step = "begin" /\ job.msg.type = "disassociate"
  /\ job' = [job EXCEPT !.step = "nat"]
  /\ Call("delPre", <<job.msg.ip, job.msg.priv>>)
  /\ UNCHANGED <<state, row, rules, queue, req, pass, world>>

NatDone ==
  /\ job.step = "nat" /\ cmd["worker"].step \in {"ok", "err"}
  /\ IF cmd["worker"].step = "ok"
     THEN /\ job' = [job EXCEPT !.step = "ack"]
          /\ cmd' = [cmd EXCEPT !["worker"] = NoCommand]
          /\ UNCHANGED queue
     ELSE Retry
  /\ UNCHANGED <<state, row, rules, req, pass, world>>

\* HandleDestroyTask: the row is marked, ...
BeginDestroy ==
  /\ job.step = "begin" /\ job.msg.type = "destroy"
  /\ IF Exists(job.msg.inst)
     THEN /\ state' = [state EXCEPT ![job.msg.inst] = "idle"]
          /\ job' = [job EXCEPT !.step = "list"]
          /\ UNCHANGED <<queue, cmd>>
     ELSE Retry /\ UNCHANGED state
  /\ UNCHANGED <<row, rules, req, pass, world>>

\* ... the bindings are listed, ...
ListBindings ==
  /\ job.step = "list"
  /\ job' = [job EXCEPT !.step = "detach", !.bindings = BindingsOf(job.msg.inst)]
  /\ UNCHANGED <<state, row, rules, queue, req, cmd, pass, world>>

\* ... their rules removed, ...
DetachBinding(b) ==
  /\ job.step = "detach" /\ b \in job.bindings
  /\ cmd["worker"].step \in {"idle", "ok"}
  /\ job' = [job EXCEPT !.bindings = @ \ {b}]
  /\ Call("delPre", b)
  /\ UNCHANGED <<state, row, rules, queue, req, pass, world>>

Cleared(i) == [f \in Ips |->
  IF row[f].inst = i
  THEN Row(IF Bound(f) THEN "allocated" ELSE row[f].status, row[f].project, None, None)
  ELSE row[f]]

\* ... all bindings of the instance cleared in one statement, ...
ClearBindings ==
  /\ job.step = "detach" /\ job.bindings = {}
  /\ cmd["worker"].step \in {"idle", "ok"}
  /\ row' = Cleared(job.msg.inst)
  /\ job' = [job EXCEPT !.step = "finalize"]
  /\ cmd' = [cmd EXCEPT !["worker"] = NoCommand]
  /\ UNCHANGED <<state, rules, queue, req, pass, world>>

\* Mutant: the transaction only deletes, and the foreign key does not restrict.
MutFinalizeDestroy ==
  /\ job.step = "finalize"
  /\ state' = [state EXCEPT ![job.msg.inst] = "gone"]
  /\ job' = [job EXCEPT !.step = "ack"]
  /\ UNCHANGED <<row, rules, queue, req, cmd, pass, world>>

\* ... and the row deleted, in a transaction that first releases what was bound
\* to it meanwhile.  It fails (ON DELETE RESTRICT) when an address is bound
\* between its two statements.
FinalizeDestroy ==
  /\ job.step = "finalize"
  /\ \/ /\ row' = Cleared(job.msg.inst)
        /\ state' = [state EXCEPT ![job.msg.inst] = "gone"]
        /\ job' = [job EXCEPT !.step = "ack"]
        /\ UNCHANGED <<queue, cmd>>
     \/ /\ \E f \in Ips : row[f].inst = job.msg.inst
        /\ Retry
        /\ UNCHANGED <<state, row>>
  /\ UNCHANGED <<rules, req, pass, world>>

\* A statement, or DeleteVM, fails; after "begin" the instance goes to error.
HandlerFails ==
  /\ job.step \in {"begin", "list", "detach", "finalize"}
  /\ cmd["worker"].step \in {"idle", "ok"}
  /\ Error
  /\ Retry
  /\ UNCHANGED <<state, row, rules, req, pass>>

Ack ==
  /\ job.step = "ack"
  /\ job' = NoJob
  /\ UNCHANGED <<state, row, rules, queue, req, cmd, pass, world>>

\* The worker process dies, reconciler included; the broker delivers again what
\* was not acknowledged.  The rules stay.
Crash ==
  /\ Fault
  /\ queue' = IF job = NoJob THEN queue ELSE <<job.msg>> \o queue
  /\ job' = NoJob /\ pass' = None
  /\ cmd' = [g \in Agents |-> NoCommand]
  /\ UNCHANGED <<state, row, rules, req, clean>>

WorkerStep ==
  \/ Take \/ BeginAssociate \/ BeginDisassociate \/ NatDone \/ Ack
  \/ BeginDestroy \/ ListBindings \/ ClearBindings \/ FinalizeDestroy
  \/ \E b \in job.bindings : DetachBinding(b)
  \/ Command("worker")

------------------------------------------------------------------------------
\* ReconcileActiveFloatingIngress, every 20 seconds

ListActive ==
  /\ pass = None
  /\ pass' = UNION {BindingsOf(i) : i \in {j \in Instances : state[j] = "running"}}
  /\ clean' = (clean /\ job = NoJob)
  /\ UNCHANGED <<state, row, rules, queue, req, job, cmd, faults>>

Between == cmd["reconciler"] = NoCommand

Reconcile(b) ==
  /\ pass # None /\ Between
  /\ b \in pass
  /\ pass' = pass \ {b}
  /\ cmd' = [cmd EXCEPT !["reconciler"] = Start("seePre", b)]
  /\ UNCHANGED <<state, row, rules, queue, req, job, world>>

EndPass ==
  /\ pass = {} /\ Between
  /\ pass' = None
  /\ UNCHANGED <<state, row, rules, queue, req, job, cmd, world>>

ReconcilerStep ==
  \/ ListActive \/ EndPass
  \/ pass # None /\ \E b \in pass : Reconcile(b)
  \/ Command("reconciler")

------------------------------------------------------------------------------
RequestStep(r) ==
  \/ \E f \in Ips, i \in Instances : TryAssociate(r, f, i)
  \/ \E f \in Ips : TakeDisassociate(r, f)
  \/ \E i \in Instances : RequestDestroy(r, i)
  \/ CreateTask(r) \/ PublishTask(r) \/ RequestFails(r) \/ Rollback(r) \/ RequestAborted(r)

Next ==
  \/ \E i \in Instances : Create(i) \/ StateChanges(i)
  \/ \E f \in Ips, p \in Projects : Allocate(f, p)
  \/ \E r \in Requests : RequestStep(r)
  \/ WorkerStep \/ HandlerFails \/ Crash
  \/ ReconcilerStep
  \/ \E g \in Agents : CommandFails(g)

\* Both goroutines go on for as long as the process is there.  Requests may
\* stop half-way, and nothing need be asked.
Fairness == WF_vars(WorkerStep) /\ WF_vars(ReconcilerStep)

Spec == Init /\ [][Next]_vars /\ Fairness

------------------------------------------------------------------------------
(***************************************************************************)
(* An active row says all or nothing: the instance, its address and its    *)
(* project, and the instance is there (handlers, a rollback of an old      *)
(* request and the destroy all release rows; no one may release half of    *)
(* one, or delete an instance an address was bound to meanwhile).          *)
(***************************************************************************)
BindingsAreWhole ==
  \A f \in Ips :
    IF Bound(f)
    THEN \E i \in Instances :
           /\ row[f] = Row("active", ProjectOf[i], i, AddrOf[i])
           /\ Exists(i)
    ELSE row[f].inst = None /\ row[f].priv = None

(***************************************************************************)
(* A rule is never in a chain more than twice: the check and the addition  *)
(* of the worker and the reconciler interleave, so twice happens, but the  *)
(* copies do not pile up however often a pair is bound, retried or         *)
(* reconciled.  DisassociateIP leaves one behind at most.                  *)
(***************************************************************************)
AtMostTwoCopies == \A x \in DOMAIN rules : rules[x] <= 2

\* Somebody is about to remove the rules of a pair: a request that has
\* released the row, its message, or the call in progress.
RemovalIsDue(chain, pair) ==
  LET Removes(m) == m.type = "disassociate" /\ <<m.ip, m.priv>> = pair
  IN  \/ \E r \in Requests : req[r].step \in {"task", "publish"} /\ Removes(req[r].msg)
      \/ \E n \in DOMAIN queue : Removes(queue[n])
      \/ job.step = "begin" /\ Removes(job.msg)
      \/ cmd["worker"].pair = pair /\ cmd["worker"].step = "delPre"
      \/ cmd["worker"].pair = pair /\ cmd["worker"].step = "delPost" /\ chain = "POSTROUTING"

(***************************************************************************)
(* No rule without a row: a pair whose rule is on the host is bound, or    *)
(* its removal is due, until a statement, publication or command fails or  *)
(* a pass of the reconciler overlaps a task: then a rule may be applied    *)
(* once more after its removal, from a list that was read before it.       *)
(* Deaths of the worker anywhere in a task, retries and addresses that go  *)
(* from one instance to the next leave nothing behind.                     *)
(***************************************************************************)
RulesHaveRows ==
  clean =>
    \A x \in DOMAIN rules :
      rules[x] > 0 =>
        \/ Bound(x[2][1]) /\ row[x[2][1]].priv = x[2][2]
        \/ RemovalIsDue(x[1], x[2])

(***************************************************************************)
(* An address that stays bound to an instance that stays running has its   *)
(* rules in the end, for good: its task may fail, die or be overtaken by   *)
(* the removal of an earlier binding of the same pair, its request may     *)
(* have stopped before the task, the reconciler gets there.                *)
(***************************************************************************)
AssociationsAreServed ==
  \A f \in Ips, i \in Instances :
    <>[](row[f].inst = i /\ state[i] = "running")
      => <>[](\A c \in Chains : Has(c, <<f, AddrOf[i]>>))
==============================================================================
