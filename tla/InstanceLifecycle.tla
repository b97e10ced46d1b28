-------------------------- MODULE InstanceLifecycle --------------------------
(***************************************************************************)
(* The life of an instance: internal/service/instance_service.go, with the *)
(* statements of internal/repository it issues, the worker's dispatch and  *)
(* settling of deliveries (internal/worker/worker.go), the state sync and  *)
(* the stale-task sweeper.                                                 *)
(*                                                                         *)
(* The API server and the worker share nothing but Postgres and the task   *)
(* queue, and neither holds a lock or a transaction from one statement to  *)
(* the next: an action is one SQL statement or transaction, one call of    *)
(* libvirt or one publication, and everything may happen in between.  The  *)
(* writes a function still has to do before it returns (the branches that  *)
(* end a handler, the compensations of a request) are kept in its todo.    *)
(* Volumes and floating IPs, which the destroy handler cleans up first,    *)
(* are outside: here that clean-up succeeds or fails.                      *)
(***************************************************************************)
EXTENDS Naturals, Sequences, FiniteSets

CONSTANTS
  Instances, Snapshots, Clients,
  Provisioned,   \* instances that are running from the start
  Requests,      \* the task types clients ask for
  MaxConsecutiveFailures,
  MaxTasks,      \* bound on task rows
  MaxFaults,     \* bound on kills, failed statements, publications, requests
  MaxSweeps      \* bound on tasks found running for more than 30 minutes

Lifecycle == {"start", "stop", "reboot", "destroy"}
SnapTypes == {"snapshot_create", "snapshot_revert"}
TaskTypes == {"create"} \cup Lifecycle \cup SnapTypes

ASSUME ConstantsAssumption ==
  /\ Provisioned \subseteq Instances
  /\ Instances # {} /\ Snapshots # {}
  /\ Requests \subseteq TaskTypes
  /\ MaxConsecutiveFailures \in Nat \ {0}
  /\ MaxTasks \in Nat /\ MaxFaults \in Nat /\ MaxSweeps \in Nat

VARIABLES
  inst,       \* inst[i]: instances.state, "none" before and "gone" after the row
  domain,     \* domain[i]: the libvirt domain of i
  snap,       \* snap[s]: the instance of a snapshots row, and domain_was_running
  snapStatus, \* snapStatus[s]: snapshots.status
  taken,      \* the snapshots libvirt has
  tasks,      \* the tasks rows in order of creation, with what their message says
  status,     \* status[n]: tasks.status
  queue,      \* instance.tasks: the task and its retry header
  dlq,        \* tasks with a letter in tasks.dlq
  req,        \* req[c]: what the API server does for client c
  pc, msg,    \* the worker: where it is, the delivery it processes,
  todo, ok,   \* the writes left before it returns, whether it returns nil
  sync,       \* the state sync goroutine of the worker process
  abandoned,  \* requests that stopped half-way
  faults, sweeps

db     == <<inst, snap, snapStatus, tasks, status>>
virt   == <<domain, taken>>
broker == <<queue, dlq>>
worker == <<pc, msg, todo, ok>>
bounds == <<faults, sweeps>>
vars   == <<db, virt, broker, req, worker, sync, abandoned, bounds>>

States    == {"creating", "running", "stopped", "error", "deleting", "snapshotting"}
Exists(i) == inst[i] \in States
Status    == {"pending", "running", "succeeded", "failed"}
TaskIds   == Nat \ {0}
Delivery  == [task : TaskIds, retry : 0..(MaxConsecutiveFailures - 1)]
NoDelivery == [task |-> 0, retry |-> 0]
Prior     == {"running", "stopped", "none"}
\* A write: the row and the value its state or status takes.
Writes    == ({"task"} \X Status) \cup ({"inst"} \X States)
               \cup ({"snap"} \X {"available", "error"})

Steps == {"none", "lock", "task", "publish", "undo"}
PCs   == {"down", "idle", "begin", "load", "mark", "act", "finalize", "write"}

TypeOK ==
  /\ inst \in [Instances -> States \cup {"none", "gone"}]
  /\ domain \in [Instances -> {"undefined", "shutoff", "running"}]
  /\ snap \in [Snapshots -> [inst : Instances, wasRunning : BOOLEAN]]
  /\ snapStatus \in [Snapshots -> {"none", "creating", "available", "error", "deleted"}]
  /\ taken \subseteq Snapshots
  /\ tasks \in Seq([type : TaskTypes, inst : Instances, snap : Snapshots, prior : Prior])
  /\ status \in [DOMAIN tasks -> Status]
  /\ queue \in Seq(Delivery)
  /\ dlq \subseteq TaskIds
  /\ req \in [Clients -> [step : Steps, type : TaskTypes, inst : Instances,
         snap : Snapshots, prior : Prior, task : TaskIds \cup {0}, todo : Seq(Writes)]]
  /\ pc \in PCs
  /\ msg \in Delivery \cup {NoDelivery}
  /\ todo \in Seq(Writes)
  /\ ok \in BOOLEAN
  /\ sync \in [pc : {"idle", "rows", "write"}, lib : SUBSET Instances,
         upd : SUBSET (Instances \X {"running", "stopped"})]
  /\ abandoned \subseteq [inst : Instances, task : TaskIds \cup {0}]
  /\ faults \in 0..MaxFaults /\ sweeps \in 0..MaxSweeps

AnyInstance == CHOOSE i \in Instances : TRUE
AnySnapshot == CHOOSE s \in Snapshots : TRUE

\* A request: what is asked of which instance and snapshot, and how far it got.
Asked(step, type, i, s, prior) ==
  [step |-> step, type |-> type, inst |-> i, snap |-> s, prior |-> prior,
   task |-> 0, todo |-> <<>>]

NoRequest == Asked("none", "create", AnyInstance, AnySnapshot, "none")
SyncIdle  == [pc |-> "idle", lib |-> {}, upd |-> {}]

Init ==
  /\ inst = [i \in Instances |-> IF i \in Provisioned THEN "running" ELSE "none"]
  /\ domain = [i \in Instances |-> IF i \in Provisioned THEN "running" ELSE "undefined"]
  /\ snap = [s \in Snapshots |-> [inst |-> AnyInstance, wasRunning |-> FALSE]]
  /\ snapStatus = [s \in Snapshots |-> "none"]
  /\ taken = {}
  /\ tasks = <<>> /\ status = <<>> /\ queue = <<>> /\ dlq = {}
  /\ req = [c \in Clients |-> NoRequest]
  /\ pc = "idle" /\ msg = NoDelivery /\ todo = <<>> /\ ok = FALSE
  /\ sync = SyncIdle
  /\ abandoned = {} /\ faults = 0 /\ sweeps = 0

Fault == faults < MaxFaults /\ faults' = faults + 1 /\ UNCHANGED sweeps

SnapExists(s) == snapStatus[s] \in {"creating", "available", "error"}

\* One UPDATE of task n, of its instance i or its snapshot s; it changes
\* nothing when the row is not there.
Write(w, n, i, s) ==
  /\ status' = IF w[1] = "task" THEN [status EXCEPT ![n] = w[2]] ELSE status
  /\ inst'   = IF w[1] = "inst" /\ Exists(i) THEN [inst EXCEPT ![i] = w[2]] ELSE inst
  /\ snapStatus' = IF w[1] = "snap" /\ SnapExists(s)
                   THEN [snapStatus EXCEPT ![s] = w[2]] ELSE snapStatus
  /\ UNCHANGED <<snap, tasks>>

-----------------------------------------------------------------------------
(* Requests: the API server.                                               *)

\* actionAllowed
Allowed(state, type) ==
  \/ type = "start" /\ state \in {"stopped", "error"}
  \/ type \in {"stop", "reboot"} /\ state = "running"
  \/ type = "destroy" /\ state \notin {"creating", "deleting", "snapshotting"}

\* A client without a request in progress asks for something.
Ask(c, type) ==
  /\ req[c].step = "none" /\ type \in Requests
  /\ Len(tasks) + Cardinality({d \in Clients : req[d].step # "none"}) < MaxTasks

\* CreateAsync: CreateInstanceWithIPAM commits the row.
CreateAsync(c, i) ==
  /\ Ask(c, "create") /\ inst[i] = "none"
  /\ inst' = [inst EXCEPT ![i] = "creating"]
  /\ req' = [req EXCEPT ![c] = Asked("task", "create", i, AnySnapshot, "none")]
  /\ UNCHANGED <<snap, snapStatus, tasks, status, virt, broker, worker, sync,
                 abandoned, bounds>>

\* RequestInstanceAction: GetInstance and the check; nothing is written.
RequestInstanceAction(c, i, type) ==
  /\ type \in Lifecycle
  /\ Ask(c, type) /\ Exists(i) /\ Allowed(inst[i], type)
  /\ req' = [req EXCEPT ![c] = Asked("task", type, i, AnySnapshot, "none")]
  /\ UNCHANGED <<db, virt, broker, worker, sync, abandoned, bounds>>

\* RequestSnapshotCreate: BeginSnapshotCreate checks and locks in one
\* transaction.
RequestSnapshotCreate(c, i, s) ==
  /\ Ask(c, "snapshot_create")
  /\ inst[i] \in {"running", "stopped"} /\ snapStatus[s] = "none"
  /\ snap' = [snap EXCEPT ![s] = [inst |-> i, wasRunning |-> inst[i] = "running"]]
  /\ snapStatus' = [snapStatus EXCEPT ![s] = "creating"]
  /\ inst' = [inst EXCEPT ![i] = "snapshotting"]
  /\ req' = [req EXCEPT ![c] = Asked("task", "snapshot_create", i, s, inst[i])]
  /\ UNCHANGED <<tasks, status, virt, broker, worker, sync, abandoned, bounds>>

\* RequestSnapshotRevert: GetSnapshot, before the transaction that locks.
RequestSnapshotRevert(c, s) ==
  /\ Ask(c, "snapshot_revert") /\ snapStatus[s] = "available"
  /\ req' = [req EXCEPT ![c] = Asked("lock", "snapshot_revert", snap[s].inst, s, "none")]
  /\ UNCHANGED <<db, virt, broker, worker, sync, abandoned, bounds>>

BeginSnapshotRevert(c) ==
  /\ req[c].step = "lock"
  /\ LET i == req[c].inst IN
     IF inst[i] \in {"running", "stopped"}
     THEN /\ inst' = [inst EXCEPT ![i] = "snapshotting"]
          /\ req' = [req EXCEPT ![c] =
               Asked("task", "snapshot_revert", i, req[c].snap, inst[i])]
     ELSE req' = [req EXCEPT ![c] = NoRequest] /\ UNCHANGED inst
  /\ UNCHANGED <<snap, snapStatus, tasks, status, virt, broker, worker, sync,
                 abandoned, bounds>>

\* The request goes on at another step, of a task, with writes to do.
Onward(r, step, n, writes) ==
  [step |-> step, type |-> r.type, inst |-> r.inst, snap |-> r.snap,
   prior |-> r.prior, task |-> n, todo |-> writes]

\* The foreign key: no task for an instance whose row is gone by now.
Refused(c) == req[c].step = "task" /\ ~Exists(req[c].inst)

CreateTask(c) ==
  /\ req[c].step = "task" /\ ~Refused(c)
  /\ tasks' = Append(tasks, [type |-> req[c].type, inst |-> req[c].inst,
                             snap |-> req[c].snap, prior |-> req[c].prior])
  /\ status' = [n \in 1..(Len(tasks) + 1) |->
                  IF n \in DOMAIN tasks THEN status[n] ELSE "pending"]
  /\ req' = [req EXCEPT ![c] = Onward(req[c], "publish", Len(tasks) + 1, <<>>)]
  /\ UNCHANGED <<inst, snap, snapStatus, virt, broker, worker, sync, abandoned, bounds>>

\* Mutant: the message gets lost.
MutPublishTask(c) ==
  /\ req[c].step = "publish"
  /\ req' = [req EXCEPT ![c] = NoRequest]
  /\ UNCHANGED <<db, virt, broker, worker, sync, abandoned, bounds>>

PublishTask(c) ==
  /\ req[c].step = "publish"
  /\ queue' = Append(queue, [task |-> req[c].task, retry |-> 0])
  /\ req' = [req EXCEPT ![c] = NoRequest]
  /\ UNCHANGED <<db, virt, dlq, worker, sync, abandoned, bounds>>

TaskFailed == <<"task", "failed">>

\* The tail of what a request undoes: the instance goes back to where it was.
UnlockedBy(r) ==
  IF r.type \in SnapTypes THEN <<(<<"inst", r.prior>>)>>
  ELSE IF r.type = "create" /\ r.step = "publish" THEN <<(<<"inst", "error">>)>> ELSE <<>>

\* Mutants: forgetting the instance, or the task.
MutCompensationTask(r) ==
  (IF r.step = "publish" THEN <<TaskFailed>> ELSE <<>>)
  \o (IF r.type = "snapshot_create" THEN <<(<<"snap", "error">>)>> ELSE <<>>)
MutCompensationInst(r) ==
  (IF r.type = "snapshot_create" THEN <<(<<"snap", "error">>)>> ELSE <<>>) \o UnlockedBy(r)

\* What each request undoes when it cannot go on.
Compensation(r) ==
  (IF r.step = "publish" THEN <<TaskFailed>> ELSE <<>>)
  \o (IF r.type = "snapshot_create" THEN <<(<<"snap", "error">>)>> ELSE <<>>) \o UnlockedBy(r)

Abandon(r) == abandoned' = abandoned \cup {[inst |-> r.inst, task |-> r.task]}

\* CreateTask or PublishTask returns an error.  CreateAsync undoes nothing
\* when it could not create the task.
RequestFails(c) ==
  /\ req[c].step \in {"task", "publish"}
  /\ IF Refused(c) THEN UNCHANGED bounds ELSE Fault
  /\ req' = [req EXCEPT ![c] = Onward(@, "undo", @.task, Compensation(@))]
  /\ IF req[c].type = "create" /\ req[c].step = "task"
     THEN Abandon(req[c]) ELSE UNCHANGED abandoned
  /\ UNCHANGED <<db, virt, broker, worker, sync>>

Undo(c) ==
  /\ req[c].step = "undo"
  /\ IF req[c].todo = <<>>
     THEN req' = [req EXCEPT ![c] = NoRequest] /\ UNCHANGED db
     ELSE /\ Write(Head(req[c].todo), req[c].task, req[c].inst, req[c].snap)
          /\ req' = [req EXCEPT ![c] = Onward(@, "undo", @.task, Tail(@.todo))]
  /\ UNCHANGED <<virt, broker, worker, sync, abandoned, bounds>>

\* The API server dies, or the client goes away and the context every
\* statement of the request runs under (the compensations too) is cancelled.
RequestAborted(c) ==
  /\ req[c].step # "none"
  /\ Fault
  /\ Abandon(req[c])
  /\ req' = [req EXCEPT ![c] = NoRequest]
  /\ UNCHANGED <<db, virt, broker, worker, sync>>

-----------------------------------------------------------------------------
(* The worker: one delivery at a time, one statement at a time.            *)

curTask  == msg.task
curType  == tasks[curTask].type
curInst  == tasks[curTask].inst
curSnap  == tasks[curTask].snap
curPrior == tasks[curTask].prior

Goto(l) == pc' = l /\ UNCHANGED <<msg, todo, ok>>
\* The writes a handler still has to do before it returns nil or an error.
Return(writes, nil) == pc' = "write" /\ todo' = writes /\ ok' = nil /\ UNCHANGED msg
\* The worker waits for a delivery, or is down.
Rest(l) == pc' = l /\ msg' = NoDelivery /\ todo' = <<>> /\ ok' = FALSE

\* Mutant: a failed snapshot is marked available.
MutOnError ==
  (IF curType = "snapshot_create" THEN <<(<<"snap", "available">>)>> ELSE <<>>)
  \o <<(<<"inst", IF curType \in SnapTypes THEN curPrior ELSE "error">>), TaskFailed>>

OnError ==
  (IF curType = "snapshot_create" THEN <<(<<"snap", "error">>)>> ELSE <<>>)
  \o <<(<<"inst", IF curType \in SnapTypes THEN curPrior ELSE "error">>), TaskFailed>>

NewState == IF curType \in SnapTypes THEN curPrior
            ELSE IF curType = "stop" THEN "stopped" ELSE "running"

\* Mutant: the instance is not unlocked.
MutOnSuccess ==
  (IF curType = "snapshot_create" THEN <<(<<"snap", "available">>)>> ELSE <<>>)
  \o <<(<<"task", "succeeded">>)>>

OnSuccess ==
  (IF curType = "snapshot_create" THEN <<(<<"snap", "available">>)>> ELSE <<>>)
  \o <<(<<"inst", NewState>>), (<<"task", "succeeded">>)>>

\* Run takes the next delivery; the broker keeps it until it is settled.
Take ==
  /\ pc = "idle" /\ queue # <<>>
  /\ pc' = "begin" /\ msg' = Head(queue)
  /\ queue' = Tail(queue)
  /\ UNCHANGED <<db, virt, dlq, req, todo, ok, sync, abandoned, bounds>>

\* UpdateTaskStatus(running); when it fails the handler returns at once.
Begin ==
  /\ pc = "begin"
  /\ \/ status' = [status EXCEPT ![curTask] = "running"] /\ Goto("load") /\ UNCHANGED bounds
     \/ Fault /\ Return(<<>>, FALSE) /\ UNCHANGED status
  /\ UNCHANGED <<inst, snap, snapStatus, tasks, virt, broker, req, sync, abandoned>>

\* The rows the handler needs: the instance, and the snapshot (rows of
\* snapshots are deleted with their instance).
Loadable == /\ Exists(curInst)
            /\ curType = "snapshot_revert" => snapStatus[curSnap] = "available"

Load ==
  /\ pc = "load"
  /\ \/ Loadable /\ Goto(IF curType = "destroy" THEN "mark" ELSE "act") /\ UNCHANGED bounds
     \/ /\ IF Loadable THEN Fault ELSE UNCHANGED bounds
        /\ Return(IF curType \in SnapTypes THEN OnError ELSE <<TaskFailed>>, FALSE)
  /\ UNCHANGED <<db, virt, broker, req, sync, abandoned>>

\* HandleDestroyTask: UpdateInstanceState(deleting).
MarkDeleting ==
  /\ pc = "mark"
  /\ \/ inst' = [inst EXCEPT ![curInst] = "deleting"] /\ Goto("act") /\ UNCHANGED bounds
     \/ Fault /\ Return(<<TaskFailed>>, FALSE) /\ UNCHANGED inst
  /\ UNCHANGED <<snap, snapStatus, tasks, status, virt, broker, req, sync, abandoned>>

Undefinable(i) == \A s \in taken : snap[s].inst # i

\* What libvirt leaves of domain d when an operation succeeds; it cannot succeed
\* when the set is empty. A graceful shutdown has only been asked for, ...
ShutDown(d) == {d} \ {"undefined"}

\* ... libvirt refuses a second snapshot of the same name, ...
Snapped(d) == IF curSnap \in taken THEN {} ELSE {d} \ {"undefined"}

\* ... a revert starts a domain that ran at the time of the snapshot or was
\* running when it was asked for, ...
Reverted(d) ==
  IF d = "undefined" \/ curSnap \notin taken THEN {}
  ELSE IF snap[curSnap].wasRunning \/ curPrior = "running" THEN {"running"}
  ELSE {"running", "shutoff"}

\* ... and a domain is not undefined while it has snapshots.
Success(d) ==
  CASE curType = "create"  -> IF d = "undefined" \/ Undefinable(curInst) THEN {"running"} ELSE {}
    [] curType = "destroy" -> IF d = "undefined" \/ Undefinable(curInst) THEN {"undefined"} ELSE {}
    [] curType = "start"   -> IF d = "undefined" THEN {} ELSE {"running"}
    [] curType = "stop"    -> ShutDown(d)
    [] curType = "reboot"  -> {d} \cap {"running"}
    [] curType = "snapshot_create" -> Snapped(d)
    [] curType = "snapshot_revert" -> Reverted(d)

\* What it leaves when it fails: CreateVM and DeleteVM first power the domain off,
\* then undefine it; a revert may leave the domain off.
Failure(d) ==
  {d} \cup (IF curType \in {"create", "destroy", "snapshot_revert"} /\ d = "running"
            THEN {"shutoff"} ELSE {})
      \cup (IF curType \in {"create", "destroy"} /\ Undefinable(curInst)
            THEN {"undefined"} ELSE {})

\* Mutant: a destroy finishes although libvirt failed.
MutAct ==
  /\ pc = "act"
  /\ \/ /\ \E d \in Success(domain[curInst]) : domain' = [domain EXCEPT ![curInst] = d]
        /\ taken' = IF curType = "snapshot_create" THEN taken \cup {curSnap} ELSE taken
        /\ IF curType = "destroy" THEN Goto("finalize") ELSE Return(OnSuccess, TRUE)
     \/ /\ \E d \in Failure(domain[curInst]) : domain' = [domain EXCEPT ![curInst] = d]
        /\ IF curType = "destroy" THEN Goto("finalize") ELSE Return(OnError, FALSE)
        /\ UNCHANGED taken
  /\ UNCHANGED <<db, broker, req, sync, abandoned, bounds>>

\* The call of libvirt; the image of a create, the volumes and floating IPs of
\* a destroy are dealt with before it and fail the same way.
Act ==
  /\ pc = "act"
  /\ \/ /\ \E d \in Success(domain[curInst]) : domain' = [domain EXCEPT ![curInst] = d]
        /\ taken' = IF curType = "snapshot_create" THEN taken \cup {curSnap} ELSE taken
        /\ IF curType = "destroy" THEN Goto("finalize") ELSE Return(OnSuccess, TRUE)
     \/ /\ \E d \in Failure(domain[curInst]) : domain' = [domain EXCEPT ![curInst] = d]
        /\ Return(OnError, FALSE)
        /\ UNCHANGED taken
  /\ UNCHANGED <<db, broker, req, sync, abandoned, bounds>>

\* FinalizeInstanceDestroy: the task, the row and its snapshots in one
\* transaction; when it fails (a volume was attached meanwhile) the error is
\* returned and nothing is written.
Finalize ==
  /\ pc = "finalize"
  /\ \/ /\ status' = [status EXCEPT ![curTask] = "succeeded"]
        /\ inst' = [inst EXCEPT ![curInst] = "gone"]
        /\ snapStatus' = [s \in Snapshots |->
             IF snap[s].inst = curInst /\ SnapExists(s) THEN "deleted" ELSE snapStatus[s]]
        /\ Return(<<>>, TRUE)
        /\ UNCHANGED bounds
     \/ Fault /\ Return(<<>>, FALSE) /\ UNCHANGED <<status, inst, snapStatus>>
  /\ UNCHANGED <<snap, tasks, virt, broker, req, sync, abandoned>>

\* The next write of the branch the handler returns through.
WriteNext ==
  /\ pc = "write" /\ todo # <<>>
  /\ Write(Head(todo), curTask, curInst, curSnap)
  /\ todo' = Tail(todo)
  /\ UNCHANGED <<virt, broker, req, pc, msg, ok, sync, abandoned, bounds>>

\* What a handler still does when a write on its way to success fails.
GiveUp == (IF Head(todo)[1] = "snap" THEN <<(<<"inst", curPrior>>)>> ELSE <<>>)
          \o (IF Head(todo)[1] = "task" THEN <<>> ELSE <<TaskFailed>>)

\* Mutant: the errors of the last writes are not looked at.
MutWriteFails ==
  /\ pc = "write" /\ todo # <<>>
  /\ Fault
  /\ Return(Tail(todo), ok)
  /\ UNCHANGED <<db, virt, broker, req, sync, abandoned>>

\* The write fails; on an error path nobody looks.
WriteFails ==
  /\ pc = "write" /\ todo # <<>>
  /\ Fault
  /\ Return(IF ok THEN GiveUp ELSE Tail(todo), FALSE)
  /\ UNCHANGED <<db, virt, broker, req, sync, abandoned>>

Returned == pc = "write" /\ todo = <<>>
\* Mutant: one try too many.
MutLastTry == msg.retry > MaxConsecutiveFailures - 1

LastTry  == msg.retry >= MaxConsecutiveFailures - 1
Copy     == [task |-> curTask, retry |-> msg.retry + 1]

\* finalizeDelivery: acknowledge, dead-letter, or publish a copy and
\* acknowledge.
Settle ==
  /\ Returned
  /\ dlq'   = IF ~ok /\ LastTry THEN dlq \cup {curTask} ELSE dlq
  /\ queue' = IF ~ok /\ ~LastTry THEN Append(queue, Copy) ELSE queue
  /\ Rest("idle")
  /\ UNCHANGED <<db, virt, req, sync, abandoned, bounds>>

\* The worker process dies, its state sync with it, and the broker requeues
\* the delivery; a copy may have been published just before.
Crash ==
  /\ pc # "down"
  /\ Fault
  /\ LET back == IF msg = NoDelivery THEN queue ELSE <<msg>> \o queue
     IN \/ queue' = back
        \/ Returned /\ ~ok /\ ~LastTry /\ queue' = Append(back, Copy)
  /\ Rest("down")
  /\ sync' = SyncIdle
  /\ UNCHANGED <<db, virt, dlq, req, abandoned>>

Restart ==
  /\ pc = "down"
  /\ Rest("idle")
  /\ UNCHANGED <<db, virt, broker, req, sync, abandoned, bounds>>

-----------------------------------------------------------------------------
(* The other goroutines of the worker process, and the guests.             *)

\* SyncHypervisorWithDB: the domains first, the rows next, the writes last.
SyncDomains ==
  /\ pc # "down" /\ sync.pc = "idle"
  /\ sync' = [pc |-> "rows", lib |-> {i \in Instances : domain[i] = "running"}, upd |-> {}]
  /\ UNCHANGED <<db, virt, broker, req, worker, abandoned, bounds>>

\* Mutant: only running instances are looked at.
MutDiffers(i) == inst[i] = "running" /\ i \notin sync.lib

\* Rows in deletion are not read; creating and snapshotting ones are skipped.
Differs(i) == /\ inst[i] \in {"running", "stopped", "error"}
              /\ (inst[i] = "running") # (i \in sync.lib)

SyncRows ==
  /\ sync.pc = "rows"
  /\ LET upd == {<<i, IF i \in sync.lib THEN "running" ELSE "stopped">> :
                   i \in {j \in Instances : Differs(j)}}
     IN sync' = IF upd = {} THEN SyncIdle ELSE [pc |-> "write", lib |-> {}, upd |-> upd]
  /\ UNCHANGED <<db, virt, broker, req, worker, abandoned, bounds>>

\* BatchUpdateInstanceStates: one batch, whatever the rows say by now.
SyncWrite ==
  /\ sync.pc = "write"
  /\ inst' = [i \in Instances |->
       IF Exists(i) /\ \E u \in sync.upd : u[1] = i
       THEN (CHOOSE u \in sync.upd : u[1] = i)[2] ELSE inst[i]]
  /\ sync' = SyncIdle
  /\ UNCHANGED <<snap, snapStatus, tasks, status, virt, broker, req, worker,
                 abandoned, bounds>>

\* ReconcileStaleRunningTasks: of the tasks in status running, those for more
\* than 30 minutes (any, here) fail and their instances go to error.
Sweep(stale) ==
  /\ pc # "down"
  /\ stale # {} /\ sweeps + Cardinality(stale) <= MaxSweeps
  /\ \A n \in stale : status[n] = "running"
  /\ status' = [n \in DOMAIN tasks |-> IF n \in stale THEN "failed" ELSE status[n]]
  /\ inst' = [i \in Instances |->
       IF Exists(i) /\ \E n \in stale : tasks[n].inst = i THEN "error" ELSE inst[i]]
  /\ sweeps' = sweeps + Cardinality(stale)
  /\ UNCHANGED <<snap, snapStatus, tasks, virt, broker, req, worker, sync, abandoned, faults>>

\* A guest powers off: it was asked to shut down, or does so by itself.
GuestPowersOff(i) ==
  /\ domain[i] = "running"
  /\ domain' = [domain EXCEPT ![i] = "shutoff"]
  /\ UNCHANGED <<db, taken, broker, req, worker, sync, abandoned, bounds>>

-----------------------------------------------------------------------------
ApiStep(c) == \/ BeginSnapshotRevert(c) \/ CreateTask(c) \/ PublishTask(c) \/ Undo(c)
              \/ Refused(c) /\ RequestFails(c)

Request(c) ==
  \/ \E i \in Instances :
       \/ CreateAsync(c, i)
       \/ \E type \in Lifecycle : RequestInstanceAction(c, i, type)
       \/ \E s \in Snapshots : RequestSnapshotCreate(c, i, s)
  \/ \E s \in Snapshots : RequestSnapshotRevert(c, s)

WorkerStep == \/ Take \/ Begin \/ Load \/ MarkDeleting \/ Act \/ Finalize
              \/ WriteNext \/ Settle \/ Restart

SyncStep == SyncDomains \/ SyncRows \/ SyncWrite

Next ==
  \/ \E c \in Clients : Request(c) \/ ApiStep(c) \/ RequestFails(c) \/ RequestAborted(c)
  \/ WorkerStep \/ WriteFails \/ Crash
  \/ SyncStep
  \/ \E stale \in SUBSET DOMAIN tasks : Sweep(stale)
  \/ \E i \in Instances : GuestPowersOff(i)

\* A request in progress goes on, the worker works and is restarted when it
\* died, the ticker of the state sync fires; nothing else has to happen.
Fairness == /\ \A c \in Clients : WF_vars(ApiStep(c))
            /\ WF_vars(WorkerStep) /\ WF_vars(SyncStep)

Spec == Init /\ [][Next]_vars /\ Fairness

-----------------------------------------------------------------------------
(* What has to hold.                                                       *)

\* Who still has to do something about task n: its message is in the queue or
\* with the worker, or its request is not over.
InHand(n) == \/ \E k \in DOMAIN queue : queue[k].task = n
             \/ msg.task = n
             \/ \E c \in Clients : req[c].task = n

\* The same about the state of instance i that a request of that type is the
\* reason for; a dead letter or an abandoned request are in nobody's hands.
Owned(i, type) ==
  \/ \E n \in DOMAIN tasks : /\ tasks[n].inst = i /\ tasks[n].type \in type
                             /\ InHand(n) \/ n \in dlq
  \/ \E c \in Clients : /\ req[c].step # "none"
                        /\ req[c].inst = i /\ req[c].type \in type
  \/ \E a \in abandoned : a.inst = i

\* No orphan state: an instance is creating, snapshotting or deleting only
\* while a task or a request of that kind is under way, whatever retries,
\* redeliveries, syncs and sweeps have done (the exceptions: a dead-lettered
\* task, an abandoned request).  No action is allowed on such an instance, so
\* an orphan state is for ever.
TransientStatesAreOwned ==
  \A i \in Instances :
    /\ inst[i] = "creating"     => Owned(i, {"create"})
    /\ inst[i] = "snapshotting" => Owned(i, SnapTypes)
    /\ inst[i] = "deleting"     => Owned(i, {"destroy"})

\* No forgotten task: a task that is pending or running is in somebody's hands.
OpenTasksAreInHand ==
  \A n \in DOMAIN tasks : status[n] \in {"pending", "running"} =>
    InHand(n) \/ n \in dlq \/ \E a \in abandoned : a.task = n

\* No leaked machine: once the row of an instance is gone its domain is gone
\* too, and no late, repeated or redelivered task brings it back.
GoneMeansUndefined ==
  \A i \in Instances : inst[i] \in {"none", "gone"} => domain[i] = "undefined"

\* An available snapshot can be reverted to: libvirt has it.
AvailableMeansTaken ==
  \A s \in Snapshots : snapStatus[s] = "available" =>
    s \in taken /\ domain[snap[s].inst] # "undefined"

\* The state sync repairs what graceful shutdowns, guests, failed handlers and
\* its own stale writes got wrong: in the end the rows agree with libvirt.
SyncConverges ==
  <>[](\A i \in Instances : inst[i] \in {"running", "stopped", "error"} =>
                              (inst[i] = "running" <=> domain[i] = "running"))

\* No transient state for ever: an instance leaves creating (a client polls
\* until it does, cmd/cli/instances.go:142), snapshotting and deleting, unless
\* its request was abandoned or one of its tasks is dead.
TransientStatesEnd ==
  \A i \in Instances, state \in {"creating", "snapshotting", "deleting"} :
    inst[i] = state ~> \/ inst[i] # state
                       \/ \E a \in abandoned : a.inst = i
                       \/ \E n \in dlq : tasks[n].inst = i

-----------------------------------------------------------------------------
(* What the repository says of the code and the code does not do.          *)

\* migrations/0003:1, tasks of destroyed instances keep their status succeeded.
DestroyStaysSucceeded ==
  [][\A n \in DOMAIN tasks :
       tasks[n].type = "destroy" /\ status[n] = "succeeded"
         => status'[n] = "succeeded"]_vars

\* instance_service.go:544, a snapshot request locks the instance: a retry of
\* its task finds it locked, as the first try did.
SnapshotRetriesRunLocked ==
  pc = "act" /\ curType \in SnapTypes /\ msg.retry > 0 => inst[curInst] = "snapshotting"

\* state_sync.go:25, the sync leaves instances in the delete flow alone.
SyncLeavesDeleting ==
  [][SyncWrite => \A i \in Instances : inst[i] = "deleting" => inst'[i] = "deleting"]_vars
==============================================================================
