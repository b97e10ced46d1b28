---------------------- MODULE InstanceLifecycleProofs ------------------------
(***************************************************************************)
(* Proofs about InstanceLifecycle for any sets of instances, snapshots and *)
(* clients, any number of tasks, tries, faults and sweeps: the types, and  *)
(* that no domain outlives the row of its instance.                        *)
(***************************************************************************)
EXTENDS InstanceLifecycle, FiniteSetTheorems, TLAPS

\* Messages are about task rows that exist, in the queue and with the worker.
Issued == [task : DOMAIN tasks, retry : 0..(MaxConsecutiveFailures - 1)]

IssuedInv ==
  /\ queue \in Seq(Issued)
  /\ msg \in Issued \cup {NoDelivery}
  /\ pc \notin {"idle", "down"} => msg \in Issued

\* A snapshot task remembers a state that can be restored, and what is published
\* is a task with a row.
Restorable == {"running", "stopped"}
RequestInv ==
  /\ \A n \in DOMAIN tasks : tasks[n].type \in SnapTypes => tasks[n].prior \in Restorable
  /\ \A c \in Clients : req[c].step \in {"task", "publish"} /\ req[c].type \in SnapTypes
                          => req[c].prior \in Restorable
  /\ \A c \in Clients : req[c].step = "publish" => req[c].task \in DOMAIN tasks

\* From Load to Finalize the row of the instance in hand exists, since only the
\* worker itself deletes rows; it finalizes what it has undefined; and only a
\* snapshot task writes to a snapshot on its way to success.
HandInv ==
  /\ pc \in {"mark", "act", "finalize"} => Exists(curInst)
  /\ pc = "finalize" => domain[curInst] = "undefined"
  /\ pc = "write" /\ ok =>
       \A k \in DOMAIN todo : todo[k][1] = "snap" => curType \in SnapTypes

IInv == TypeOK /\ IssuedInv /\ RequestInv /\ HandInv /\ GoneMeansUndefined

-----------------------------------------------------------------------------
(* Sequences, constants and the writes of handlers and requests.           *)

LEMMA SeqMonotone ==
  ASSUME NEW S, NEW T, S \subseteq T, NEW q \in Seq(S)
  PROVE  q \in Seq(T)
OBVIOUS

LEMMA ElementType ==
  ASSUME NEW S, NEW q \in Seq(S), NEW k \in DOMAIN q
  PROVE  q[k] \in S
OBVIOUS

LEMMA ConsType ==
  ASSUME NEW S, NEW q \in Seq(S), NEW e \in S
  PROVE  <<e>> \o q \in Seq(S) /\ Append(q, e) \in Seq(S)
OBVIOUS

LEMMA EmptyConcat ==
  ASSUME NEW S, NEW q \in Seq(S)
  PROVE  <<>> \o q = q
OBVIOUS

LEMMA AnyType == AnyInstance \in Instances /\ AnySnapshot \in Snapshots
BY ConstantsAssumption DEF AnyInstance, AnySnapshot

LEMMA NoRequestType ==
  /\ NoRequest \in [step : Steps, type : TaskTypes, inst : Instances,
         snap : Snapshots, prior : Prior, task : TaskIds \cup {0}, todo : Seq(Writes)]
  /\ NoRequest.step = "none"
BY AnyType DEF NoRequest, Asked, Steps, TaskTypes, Prior, TaskIds

\* The task in hand is one of the rows.
LEMMA InHandType ==
  ASSUME TypeOK, IssuedInv, RequestInv, pc \notin {"idle", "down"}
  PROVE  /\ curTask \in DOMAIN tasks
         /\ curType \in TaskTypes /\ curInst \in Instances
         /\ curSnap \in Snapshots /\ curPrior \in Prior
         /\ curType \in SnapTypes => curPrior \in Restorable
<1>1. msg.task \in DOMAIN tasks
  BY DEF IssuedInv, Issued
<1>2. tasks \in Seq([type : TaskTypes, inst : Instances, snap : Snapshots, prior : Prior])
  BY DEF TypeOK
<1>3. tasks[msg.task] \in [type : TaskTypes, inst : Instances, snap : Snapshots, prior : Prior]
  BY <1>1, <1>2, ElementType
<1> QED BY <1>1, <1>3 DEF RequestInv, curTask, curType, curInst, curSnap, curPrior

LEMMA Literals ==
  /\ TaskFailed \in Writes /\ <<"task", "succeeded">> \in Writes
  /\ <<"snap", "error">> \in Writes /\ <<"snap", "available">> \in Writes
  /\ \A p \in States : <<"inst", p>> \in Writes
BY DEF TaskFailed, Writes, Status

LEMMA WritesOfHandlers ==
  ASSUME TypeOK, IssuedInv, RequestInv, pc \notin {"idle", "down"}
  PROVE  /\ OnError \in Seq(Writes) /\ OnSuccess \in Seq(Writes)
         /\ \A k \in DOMAIN OnSuccess : OnSuccess[k][1] = "snap" => curType \in SnapTypes
<1>1. curType \in SnapTypes => curPrior \in States
  BY InHandType DEF Restorable, States
<1> DEFINE state == IF curType \in SnapTypes THEN curPrior ELSE "error"
           failed == <<(<<"inst", state>>), TaskFailed>>
           done   == <<(<<"inst", NewState>>), (<<"task", "succeeded">>)>>
           error  == IF curType = "snapshot_create" THEN <<(<<"snap", "error">>)>> ELSE <<>>
           avail  == IF curType = "snapshot_create" THEN <<(<<"snap", "available">>)>> ELSE <<>>
<1>2. state \in States /\ NewState \in States
  BY <1>1 DEF NewState, States
<1>3. /\ failed \in Seq(Writes) /\ done \in Seq(Writes)
      /\ error \in Seq(Writes) /\ avail \in Seq(Writes)
  BY <1>2, Literals
<1>4. OnError = error \o failed /\ OnSuccess = avail \o done
  BY DEF OnError, OnSuccess
<1>5. CASE curType \in SnapTypes
  BY <1>3, <1>4, <1>5
<1>6. CASE curType \notin SnapTypes
  <2>1. avail = <<>> /\ Len(done) = 2 /\ done[1][1] = "inst" /\ done[2][1] = "task"
    BY <1>6 DEF SnapTypes
  <2>2. OnSuccess = done
    BY <1>3, <1>4, <2>1, EmptyConcat
  <2> QED BY <1>3, <1>4, <2>1, <2>2
<1> QED BY <1>5, <1>6

LEMMA GiveUpType ==
  ASSUME TypeOK, IssuedInv, RequestInv, HandInv, pc = "write", todo # <<>>, ok
  PROVE  GiveUp \in Seq(Writes)
<1>1. Head(todo)[1] = "snap" => curPrior \in States
  <2>1. 1 \in DOMAIN todo /\ Head(todo) = todo[1]
    BY DEF TypeOK
  <2> QED BY <2>1, InHandType DEF HandInv, Restorable, States
<1> DEFINE inst1 == IF Head(todo)[1] = "snap" THEN <<(<<"inst", curPrior>>)>> ELSE <<>>
           task1 == IF Head(todo)[1] = "task" THEN <<>> ELSE <<TaskFailed>>
<1>2. inst1 \in Seq(Writes) /\ task1 \in Seq(Writes)
  BY <1>1, Literals
<1> QED BY <1>2 DEF GiveUp

LEMMA WritesOfRequests ==
  ASSUME TypeOK, RequestInv, NEW c \in Clients, req[c].step \in {"task", "publish"}
  PROVE  Compensation(req[c]) \in Seq(Writes)
<1> DEFINE r == req[c]
           task1 == IF r.step = "publish" THEN <<TaskFailed>> ELSE <<>>
           snap1 == IF r.type = "snapshot_create" THEN <<(<<"snap", "error">>)>> ELSE <<>>
<1>1. r.type \in SnapTypes => r.prior \in States
  BY DEF RequestInv, Restorable, States
<1>2. task1 \in Seq(Writes) /\ snap1 \in Seq(Writes)
  BY Literals
<1>3. UnlockedBy(r) \in Seq(Writes)
  BY <1>1, Literals DEF UnlockedBy, States
<1>4. Compensation(r) = task1 \o snap1 \o UnlockedBy(r)
  BY DEF Compensation
<1> QED BY <1>2, <1>3, <1>4

\* What one UPDATE can change.
LEMMA WriteEffect ==
  ASSUME TypeOK, NEW w \in Writes, NEW n, NEW i \in Instances, NEW s \in Snapshots,
         Write(w, n, i, s)
  PROVE  /\ inst' \in [Instances -> States \cup {"none", "gone"}]
         /\ snapStatus' \in [Snapshots -> {"none", "creating", "available", "error", "deleted"}]
         /\ status' \in [DOMAIN tasks -> Status]
         /\ snap' = snap /\ tasks' = tasks
         /\ \A j \in Instances : IF Exists(j) THEN inst'[j] \in States ELSE inst'[j] = inst[j]
         /\ \A t \in Snapshots : snapStatus[t] = "none" <=> snapStatus'[t] = "none"
<1>1. /\ w[1] = "task" => w[2] \in Status
      /\ w[1] = "inst" => w[2] \in States
      /\ w[1] = "snap" => w[2] \in {"available", "error"}
  BY DEF Writes
<1>2. status' \in [DOMAIN tasks -> Status]
  BY <1>1 DEF Write, TypeOK
<1>3. /\ inst' \in [Instances -> States \cup {"none", "gone"}]
      /\ \A j \in Instances : IF Exists(j) THEN inst'[j] \in States ELSE inst'[j] = inst[j]
  BY <1>1 DEF Write, TypeOK, Exists
<1>4. /\ snapStatus' \in [Snapshots -> {"none", "creating", "available", "error", "deleted"}]
      /\ \A t \in Snapshots : snapStatus[t] = "none" <=> snapStatus'[t] = "none"
  BY <1>1 DEF Write, TypeOK, SnapExists
<1> QED BY <1>2, <1>3, <1>4 DEF Write
-----------------------------------------------------------------------------
(* The invariant holds at first.                                           *)

LEMMA InitInv == Init => IInv
<1> SUFFICES ASSUME Init PROVE IInv
  OBVIOUS
<1> USE ConstantsAssumption DEF Init
<1>1. TypeOK
  <2>1. /\ inst \in [Instances -> States \cup {"none", "gone"}]
        /\ domain \in [Instances -> {"undefined", "shutoff", "running"}]
    BY DEF States
  <2>2. /\ snap \in [Snapshots -> [inst : Instances, wasRunning : BOOLEAN]]
        /\ snapStatus \in [Snapshots -> {"none", "creating", "available", "error", "deleted"}]
        /\ taken \subseteq Snapshots
    BY AnyType
  <2>3. /\ tasks \in Seq([type : TaskTypes, inst : Instances, snap : Snapshots, prior : Prior])
        /\ status \in [DOMAIN tasks -> Status]
        /\ queue \in Seq(Delivery) /\ dlq \subseteq TaskIds
    OBVIOUS
  <2>4. /\ req \in [Clients -> [step : Steps, type : TaskTypes, inst : Instances,
               snap : Snapshots, prior : Prior, task : TaskIds \cup {0}, todo : Seq(Writes)]]
    BY NoRequestType
  <2>7. pc \in PCs /\ msg \in Delivery \cup {NoDelivery} /\ todo \in Seq(Writes)
    BY DEF PCs
  <2>8. ok \in BOOLEAN
    OBVIOUS
  <2>5. /\ abandoned \subseteq [inst : Instances, task : TaskIds \cup {0}]
        /\ faults \in 0..MaxFaults /\ sweeps \in 0..MaxSweeps
    OBVIOUS
  <2>6. sync \in [pc : {"idle", "rows", "write"}, lib : SUBSET Instances,
               upd : SUBSET (Instances \X {"running", "stopped"})]
    BY DEF SyncIdle
  <2> QED BY <2>1, <2>2, <2>3, <2>4, <2>5, <2>6, <2>7, <2>8 DEF TypeOK
<1>2. IssuedInv
  BY DEF IssuedInv
<1>3. RequestInv
  BY NoRequestType DEF RequestInv
<1>4. HandInv
  BY DEF HandInv
<1>5. GoneMeansUndefined
  BY DEF GoneMeansUndefined
<1> QED BY <1>1, <1>2, <1>3, <1>4, <1>5 DEF IInv
-----------------------------------------------------------------------------
(* Steps the worker has no part in.                                        *)

\* No row of an instance goes away.
RowsStay == \A i \in Instances : inst'[i] = inst[i] \/ inst'[i] \in States

\* The writes of others disturb nothing of what the worker relies on.
LEMMA OutsideTheWorker ==
  ASSUME IInv, TypeOK', RequestInv', RowsStay,
         UNCHANGED <<tasks, domain, queue, pc, msg, todo, ok>>
  PROVE  IInv'
<1>1. IssuedInv'
  BY DEF IInv, IssuedInv, Issued
<1>2. HandInv'
  <2>1. pc \in {"mark", "act", "finalize"} => curInst \in Instances
    BY InHandType DEF IInv
  <2> QED BY <2>1 DEF IInv, HandInv, RowsStay, Exists, curInst, curTask, curType
<1>3. GoneMeansUndefined'
  BY DEF IInv, GoneMeansUndefined, RowsStay, States
<1> QED BY <1>1, <1>2, <1>3 DEF IInv

\* The parts of TypeOK, for steps that change few of them.
ReqRec == [step : Steps, type : TaskTypes, inst : Instances, snap : Snapshots,
           prior : Prior, task : TaskIds \cup {0}, todo : Seq(Writes)]

LEMMA AskedType ==
  ASSUME NEW step \in Steps, NEW type \in TaskTypes, NEW i \in Instances,
         NEW s \in Snapshots, NEW prior \in Prior
  PROVE  /\ Asked(step, type, i, s, prior) \in ReqRec
         /\ Asked(step, type, i, s, prior).step = step
         /\ Asked(step, type, i, s, prior).type = type
         /\ Asked(step, type, i, s, prior).prior = prior
BY DEF Asked, ReqRec

LEMMA OnwardType ==
  ASSUME NEW r \in ReqRec, NEW step \in Steps, NEW n \in TaskIds \cup {0},
         NEW writes \in Seq(Writes)
  PROVE  /\ Onward(r, step, n, writes) \in ReqRec
         /\ Onward(r, step, n, writes).step = step
         /\ Onward(r, step, n, writes).type = r.type
         /\ Onward(r, step, n, writes).prior = r.prior
BY DEF Onward, ReqRec

\* One request changes: the types of all, and what a snapshot task will remember.
LEMMA RequestStep ==
  ASSUME IInv, NEW c \in Clients, NEW r \in ReqRec,
         req' = [req EXCEPT ![c] = r], UNCHANGED tasks,
         r.step \in {"task", "publish"} /\ r.type \in SnapTypes => r.prior \in Restorable,
         r.step # "publish"
  PROVE  RequestInv' /\ req' \in [Clients -> ReqRec]
<1>1. req \in [Clients -> ReqRec]
  BY DEF IInv, TypeOK, ReqRec
<1> QED BY <1>1 DEF IInv, RequestInv

LEMMA CreateAsyncInv ==
  ASSUME IInv, NEW c \in Clients, NEW i \in Instances, CreateAsync(c, i)
  PROVE  IInv'
<1> DEFINE r == Asked("task", "create", i, AnySnapshot, "none")
<1>1. r \in ReqRec /\ r.step = "task" /\ r.type = "create"
  BY AnyType, AskedType DEF Steps, TaskTypes, Prior
<1>2. RequestInv' /\ req' \in [Clients -> ReqRec]
  BY <1>1, RequestStep DEF CreateAsync, SnapTypes
<1>3. inst' \in [Instances -> States \cup {"none", "gone"}] /\ RowsStay
  BY DEF CreateAsync, IInv, TypeOK, States, RowsStay
<1>4. TypeOK'
  BY <1>2, <1>3 DEF IInv, TypeOK, ReqRec, CreateAsync, virt, broker, worker, bounds
<1> QED BY <1>2, <1>3, <1>4, OutsideTheWorker DEF CreateAsync, virt, broker, worker

LEMMA RequestInstanceActionInv ==
  ASSUME IInv, NEW c \in Clients, NEW i \in Instances, NEW type \in Lifecycle,
         RequestInstanceAction(c, i, type)
  PROVE  IInv'
<1> DEFINE r == Asked("task", type, i, AnySnapshot, "none")
<1>1. r \in ReqRec /\ r.step = "task" /\ r.type = type
  BY AnyType, AskedType DEF Steps, TaskTypes, Lifecycle, Prior
<1>2. RequestInv' /\ req' \in [Clients -> ReqRec]
  BY <1>1, RequestStep DEF RequestInstanceAction, SnapTypes, Lifecycle, db
<1>3. RowsStay
  BY DEF RequestInstanceAction, RowsStay, db
<1>4. TypeOK'
  BY <1>2 DEF IInv, TypeOK, ReqRec, RequestInstanceAction, db, virt, broker, worker, bounds
<1> QED BY <1>2, <1>3, <1>4, OutsideTheWorker DEF RequestInstanceAction, db, virt, broker, worker

LEMMA RequestSnapshotCreateInv ==
  ASSUME IInv, NEW c \in Clients, NEW i \in Instances, NEW s \in Snapshots,
         RequestSnapshotCreate(c, i, s)
  PROVE  IInv'
<1> DEFINE r == Asked("task", "snapshot_create", i, s, inst[i])
<1>0. inst[i] \in Restorable
  BY DEF RequestSnapshotCreate, Restorable
<1>1. r \in ReqRec /\ r.step = "task" /\ r.prior = inst[i]
  BY <1>0, AskedType DEF Steps, TaskTypes, SnapTypes, Prior, Restorable
<1>2. RequestInv' /\ req' \in [Clients -> ReqRec]
  BY <1>0, <1>1, RequestStep DEF RequestSnapshotCreate
<1>3. inst' \in [Instances -> States \cup {"none", "gone"}] /\ RowsStay
  BY DEF RequestSnapshotCreate, IInv, TypeOK, States, RowsStay
<1>5. /\ snap' \in [Snapshots -> [inst : Instances, wasRunning : BOOLEAN]]
      /\ snapStatus' \in [Snapshots -> {"none", "creating", "available", "error", "deleted"}]
  BY DEF RequestSnapshotCreate, IInv, TypeOK
<1>4. TypeOK'
  BY <1>2, <1>3, <1>5
     DEF IInv, TypeOK, ReqRec, RequestSnapshotCreate, virt, broker, worker, bounds
<1> QED BY <1>2, <1>3, <1>4, OutsideTheWorker DEF RequestSnapshotCreate, virt, broker, worker

LEMMA RequestSnapshotRevertInv ==
  ASSUME IInv, NEW c \in Clients, NEW s \in Snapshots, RequestSnapshotRevert(c, s)
  PROVE  IInv'
<1> DEFINE r == Asked("lock", "snapshot_revert", snap[s].inst, s, "none")
<1>1. snap[s].inst \in Instances
  BY DEF IInv, TypeOK
<1>2. r \in ReqRec /\ r.step = "lock"
  BY <1>1, AskedType DEF Steps, TaskTypes, SnapTypes, Prior
<1>3. RequestInv' /\ req' \in [Clients -> ReqRec]
  BY <1>2, RequestStep DEF RequestSnapshotRevert, db
<1>4. RowsStay
  BY DEF RequestSnapshotRevert, RowsStay, db
<1>5. TypeOK'
  BY <1>3 DEF IInv, TypeOK, ReqRec, RequestSnapshotRevert, db, virt, broker, worker, bounds
<1> QED BY <1>3, <1>4, <1>5, OutsideTheWorker DEF RequestSnapshotRevert, db, virt, broker, worker

LEMMA BeginSnapshotRevertInv ==
  ASSUME IInv, NEW c \in Clients, BeginSnapshotRevert(c)
  PROVE  IInv'
<1> DEFINE i == req[c].inst
           r == Asked("task", "snapshot_revert", i, req[c].snap, inst[i])
<1>1. i \in Instances /\ req[c].snap \in Snapshots
  BY DEF IInv, TypeOK
<1>2. inst' \in [Instances -> States \cup {"none", "gone"}] /\ RowsStay
  BY <1>1 DEF BeginSnapshotRevert, IInv, TypeOK, States, RowsStay
<1>3. RequestInv' /\ req' \in [Clients -> ReqRec]
  <2>1. CASE inst[i] \in Restorable
    <3>1. r \in ReqRec /\ r.step = "task" /\ r.prior = inst[i]
      BY <1>1, <2>1, AskedType DEF Steps, TaskTypes, SnapTypes, Prior, Restorable
    <3>2. req' = [req EXCEPT ![c] = r]
      BY <2>1 DEF BeginSnapshotRevert, Restorable
    <3> QED BY <2>1, <3>1, <3>2, RequestStep DEF BeginSnapshotRevert
  <2>2. CASE inst[i] \notin Restorable
    <3>1. req' = [req EXCEPT ![c] = NoRequest]
      BY <2>2 DEF BeginSnapshotRevert, Restorable
    <3> QED BY <3>1, NoRequestType, RequestStep DEF BeginSnapshotRevert, ReqRec
  <2> QED BY <2>1, <2>2
<1>4. TypeOK'
  BY <1>2, <1>3 DEF IInv, TypeOK, ReqRec, BeginSnapshotRevert, virt, broker, worker, bounds
<1> QED BY <1>2, <1>3, <1>4, OutsideTheWorker DEF BeginSnapshotRevert, virt, broker, worker
LEMMA FaultType ==
  ASSUME TypeOK, Fault
  PROVE  faults' \in 0..MaxFaults /\ sweeps' \in 0..MaxSweeps
BY ConstantsAssumption DEF TypeOK, Fault

LEMMA AbandonType ==
  ASSUME TypeOK, NEW c \in Clients, Abandon(req[c])
  PROVE  abandoned' \subseteq [inst : Instances, task : TaskIds \cup {0}]
<1>1. req[c].inst \in Instances /\ req[c].task \in TaskIds \cup {0}
  BY DEF TypeOK
<1> QED BY <1>1 DEF TypeOK, Abandon

LEMMA RequestFailsInv ==
  ASSUME IInv, NEW c \in Clients, RequestFails(c)
  PROVE  IInv'
<1> DEFINE r == Onward(req[c], "undo", req[c].task, Compensation(req[c]))
<1>1. req[c] \in ReqRec /\ req[c].task \in TaskIds \cup {0}
  BY DEF IInv, TypeOK, ReqRec
<1>2. r \in ReqRec /\ r.step = "undo"
  BY <1>1, WritesOfRequests, OnwardType DEF RequestFails, IInv, Steps
<1>3. RequestInv' /\ req' \in [Clients -> ReqRec]
  <2>1. req' = [req EXCEPT ![c] = r]
    BY DEF RequestFails, IInv, TypeOK
  <2> QED BY <1>2, <2>1, RequestStep DEF RequestFails, db
<1>4. RowsStay
  BY DEF RequestFails, RowsStay, db
<1>5. faults' \in 0..MaxFaults /\ sweeps' \in 0..MaxSweeps
  BY FaultType DEF RequestFails, IInv, TypeOK, bounds
<1>6. abandoned' \subseteq [inst : Instances, task : TaskIds \cup {0}]
  BY AbandonType DEF RequestFails, IInv, TypeOK
<1>7. TypeOK'
  BY <1>3, <1>5, <1>6 DEF IInv, TypeOK, ReqRec, RequestFails, db, virt, broker, worker
<1> QED BY <1>3, <1>4, <1>7, OutsideTheWorker DEF RequestFails, db, virt, broker, worker

LEMMA HeadTailType ==
  ASSUME NEW S, NEW q \in Seq(S), q # <<>>
  PROVE  Head(q) \in S /\ Tail(q) \in Seq(S)
OBVIOUS

LEMMA UndoInv ==
  ASSUME IInv, NEW c \in Clients, Undo(c)
  PROVE  IInv'
<1>1. req[c] \in ReqRec /\ req[c].task \in TaskIds \cup {0}
  BY DEF IInv, TypeOK, ReqRec
<1>2. CASE req[c].todo = <<>>
  <2>1. req' = [req EXCEPT ![c] = NoRequest] /\ UNCHANGED db
    BY <1>2 DEF Undo
  <2>2. RequestInv' /\ req' \in [Clients -> ReqRec]
    BY <2>1, NoRequestType, RequestStep DEF ReqRec, db
  <2>3. RowsStay
    BY <2>1 DEF RowsStay, db
  <2>4. TypeOK'
    BY <2>1, <2>2 DEF IInv, TypeOK, ReqRec, Undo, db, virt, broker, worker, bounds
  <2> QED BY <2>1, <2>2, <2>3, <2>4, OutsideTheWorker DEF Undo, db, virt, broker, worker
<1>3. CASE req[c].todo # <<>>
  <2> DEFINE w == Head(req[c].todo)
             r == Onward(req[c], "undo", req[c].task, Tail(req[c].todo))
  <2>1. Write(w, req[c].task, req[c].inst, req[c].snap) /\ req' = [req EXCEPT ![c] = r]
    BY <1>3 DEF Undo, IInv, TypeOK
  <2>2. w \in Writes /\ Tail(req[c].todo) \in Seq(Writes)
    BY <1>1, <1>3, HeadTailType DEF ReqRec
  <2>3. r \in ReqRec /\ r.step = "undo"
    <3>1. "undo" \in Steps
      BY DEF Steps
    <3> QED BY <1>1, <2>2, <3>1, OnwardType
  <2>4. /\ inst' \in [Instances -> States \cup {"none", "gone"}]
        /\ snapStatus' \in [Snapshots -> {"none", "creating", "available", "error", "deleted"}]
        /\ status' \in [DOMAIN tasks -> Status]
        /\ snap' = snap /\ tasks' = tasks
        /\ RowsStay
    BY <1>1, <2>1, <2>2, WriteEffect DEF ReqRec, IInv, RowsStay
  <2>5. RequestInv' /\ req' \in [Clients -> ReqRec]
    BY <2>1, <2>3, <2>4, RequestStep
  <2>6. TypeOK'
    BY <2>4, <2>5 DEF IInv, TypeOK, ReqRec, Undo, virt, broker, worker, bounds
  <2> QED BY <2>4, <2>5, <2>6, OutsideTheWorker DEF Undo, virt, broker, worker
<1> QED BY <1>2, <1>3

LEMMA RequestAbortedInv ==
  ASSUME IInv, NEW c \in Clients, RequestAborted(c)
  PROVE  IInv'
<1>1. RequestInv' /\ req' \in [Clients -> ReqRec]
  BY NoRequestType, RequestStep DEF RequestAborted, ReqRec, db
<1>2. RowsStay
  BY DEF RequestAborted, RowsStay, db
<1>3. TypeOK'
  BY <1>1, FaultType, AbandonType
     DEF IInv, TypeOK, ReqRec, RequestAborted, db, virt, broker, worker
<1> QED BY <1>1, <1>2, <1>3, OutsideTheWorker DEF RequestAborted, db, virt, broker, worker

LEMMA SyncDomainsInv == IInv /\ SyncDomains => IInv'
<1> SUFFICES ASSUME IInv, SyncDomains PROVE IInv'
  OBVIOUS
<1>1. TypeOK'
  BY DEF IInv, TypeOK, SyncDomains, db, virt, broker, worker, bounds
<1>2. RowsStay /\ RequestInv'
  BY DEF IInv, RequestInv, SyncDomains, RowsStay, db
<1> QED BY <1>1, <1>2, OutsideTheWorker DEF SyncDomains, db, virt, broker, worker

LEMMA SyncRowsInv == IInv /\ SyncRows => IInv'
<1> SUFFICES ASSUME IInv, SyncRows PROVE IInv'
  OBVIOUS
<1>1. sync' \in [pc : {"idle", "rows", "write"}, lib : SUBSET Instances,
               upd : SUBSET (Instances \X {"running", "stopped"})]
  BY DEF SyncRows, SyncIdle
<1>2. TypeOK'
  BY <1>1 DEF IInv, TypeOK, SyncRows, db, virt, broker, worker, bounds
<1>3. RowsStay /\ RequestInv'
  BY DEF IInv, RequestInv, SyncRows, RowsStay, db
<1> QED BY <1>2, <1>3, OutsideTheWorker DEF SyncRows, db, virt, broker, worker

LEMMA SyncWriteInv == IInv /\ SyncWrite => IInv'
<1> SUFFICES ASSUME IInv, SyncWrite PROVE IInv'
  OBVIOUS
<1>1. \A u \in sync.upd : u[2] \in States
  BY DEF IInv, TypeOK, States
<1>2. inst' \in [Instances -> States \cup {"none", "gone"}] /\ RowsStay
  BY <1>1 DEF SyncWrite, IInv, TypeOK, RowsStay
<1>3. TypeOK'
  BY <1>2 DEF IInv, TypeOK, SyncWrite, SyncIdle, virt, broker, worker, bounds
<1>4. RequestInv'
  BY DEF IInv, RequestInv, SyncWrite
<1> QED BY <1>2, <1>3, <1>4, OutsideTheWorker DEF SyncWrite, virt, broker, worker

LEMMA SweepInv ==
  ASSUME IInv, NEW stale \in SUBSET DOMAIN tasks, Sweep(stale)
  PROVE  IInv'
<1>1. inst' \in [Instances -> States \cup {"none", "gone"}] /\ RowsStay
  BY DEF Sweep, IInv, TypeOK, RowsStay, States
<1>2. status' \in [DOMAIN tasks -> Status]
  BY DEF Sweep, IInv, TypeOK, Status
<1>3. sweeps' \in 0..MaxSweeps
  <2>1. IsFiniteSet(stale)
    <3>1. IsFiniteSet(1..Len(tasks)) /\ DOMAIN tasks = 1..Len(tasks)
      BY FS_Interval DEF IInv, TypeOK
    <3> QED BY <3>1, FS_Subset
  <2>2. Cardinality(stale) \in Nat
    BY <2>1, FS_CardinalityType
  <2> QED BY <2>2, ConstantsAssumption DEF Sweep, IInv, TypeOK
<1>4. TypeOK'
  BY <1>1, <1>2, <1>3 DEF IInv, TypeOK, Sweep, virt, broker, worker
<1>5. RequestInv'
  BY DEF IInv, RequestInv, Sweep
<1> QED BY <1>1, <1>4, <1>5, OutsideTheWorker DEF Sweep, virt, broker, worker
-----------------------------------------------------------------------------
(* Steps that issue a task, and the guests.                                *)

\* A new row at the end changes nothing about the tasks there are.
LEMMA CreateTaskInv ==
  ASSUME IInv, NEW c \in Clients, CreateTask(c)
  PROVE  IInv'
<1> DEFINE row == [type |-> req[c].type, inst |-> req[c].inst,
                   snap |-> req[c].snap, prior |-> req[c].prior]
           TaskRec == [type : TaskTypes, inst : Instances, snap : Snapshots, prior : Prior]
           r == Onward(req[c], "publish", Len(tasks) + 1, <<>>)
<1>1. req[c] \in ReqRec /\ row \in TaskRec
  BY DEF IInv, TypeOK, ReqRec
<1>2. tasks \in Seq(TaskRec) /\ Len(tasks) \in Nat /\ DOMAIN tasks = 1..Len(tasks)
  BY DEF IInv, TypeOK
<1>3. /\ tasks' \in Seq(TaskRec) /\ DOMAIN tasks' = 1..(Len(tasks) + 1)
      /\ \A n \in DOMAIN tasks : tasks'[n] = tasks[n]
      /\ tasks'[Len(tasks) + 1] = row
  BY <1>1, <1>2 DEF CreateTask
<1>4. /\ r \in ReqRec /\ r.step = "publish" /\ r.task = Len(tasks) + 1
      /\ r.type = req[c].type /\ r.prior = req[c].prior
  <2>1. Len(tasks) + 1 \in TaskIds \cup {0} /\ "publish" \in Steps /\ <<>> \in Seq(Writes)
    BY <1>2 DEF TaskIds, Steps
  <2> QED BY <1>1, <2>1 DEF Onward, ReqRec
<1>5. req \in [Clients -> ReqRec] /\ req' = [req EXCEPT ![c] = r]
  BY DEF CreateTask, IInv, TypeOK, ReqRec
<1>6. TypeOK'
  <2>1. status' \in [DOMAIN tasks' -> Status]
    BY <1>2, <1>3 DEF CreateTask, IInv, TypeOK, Status
  <2>2. req' \in [Clients -> ReqRec]
    BY <1>4, <1>5
  <2>3. tasks' \in Seq([type : TaskTypes, inst : Instances, snap : Snapshots, prior : Prior])
    BY <1>3
  <2>4. UNCHANGED <<inst, domain, snap, snapStatus, taken, queue, dlq, pc, msg, todo, ok,
                    sync, abandoned, faults, sweeps>>
    BY DEF CreateTask, virt, broker, worker, bounds
  <2> QED BY <2>1, <2>2, <2>3, <2>4 DEF IInv, TypeOK, ReqRec
<1>7. IssuedInv'
  <2>1. Issued \subseteq Issued'
    BY <1>2, <1>3 DEF Issued
  <2>2. queue \in Seq(Issued')
    BY <2>1, SeqMonotone DEF IInv, IssuedInv
  <2> QED BY <2>1, <2>2 DEF IInv, IssuedInv, CreateTask, broker, worker
<1>8. RequestInv'
  <2>1. row.type \in SnapTypes => row.prior \in Restorable
    BY DEF IInv, RequestInv, CreateTask
  <2>2. \A n \in DOMAIN tasks' : tasks'[n].type \in SnapTypes => tasks'[n].prior \in Restorable
    BY <1>2, <1>3, <2>1 DEF IInv, RequestInv
  <2>3. \A d \in Clients : req'[d].step \in {"task", "publish"} /\ req'[d].type \in SnapTypes
                             => req'[d].prior \in Restorable
    BY <1>4, <1>5 DEF IInv, RequestInv, CreateTask
  <2>4. \A d \in Clients : req'[d].step = "publish" => req'[d].task \in DOMAIN tasks'
    BY <1>2, <1>3, <1>4, <1>5 DEF IInv, RequestInv
  <2> QED BY <2>2, <2>3, <2>4 DEF RequestInv
<1>9. HandInv'
  <2>1. pc \notin {"idle", "down"} => curType' = curType /\ curInst' = curInst
    BY <1>3, InHandType DEF IInv, CreateTask, worker, curTask, curType, curInst
  <2>2. pc = "write" /\ ok =>
          \A k \in DOMAIN todo : todo[k][1] = "snap" => curType' \in SnapTypes
    BY <2>1 DEF IInv, HandInv, CreateTask, worker
  <2> QED BY <2>1, <2>2 DEF IInv, HandInv, CreateTask, worker, virt, Exists
<1>10. GoneMeansUndefined'
  BY DEF IInv, GoneMeansUndefined, CreateTask, virt
<1> QED BY <1>6, <1>7, <1>8, <1>9, <1>10 DEF IInv
LEMMA PublishTaskInv ==
  ASSUME IInv, NEW c \in Clients, PublishTask(c)
  PROVE  IInv'
<1> DEFINE m == [task |-> req[c].task, retry |-> 0]
<1>1. req[c].task \in DOMAIN tasks /\ DOMAIN tasks = 1..Len(tasks) /\ Len(tasks) \in Nat
  BY DEF PublishTask, IInv, RequestInv, TypeOK
<1>2. m \in Issued /\ m \in Delivery
  BY <1>1, ConstantsAssumption DEF Issued, Delivery, TaskIds
<1>3. queue' \in Seq(Issued) /\ queue' \in Seq(Delivery)
  BY <1>2 DEF PublishTask, IInv, IssuedInv, TypeOK
<1>4. req' = [req EXCEPT ![c] = NoRequest] /\ UNCHANGED tasks
  BY DEF PublishTask, db
<1>5. RequestInv' /\ req' \in [Clients -> ReqRec]
  BY <1>4, NoRequestType, RequestStep DEF ReqRec
<1>6. UNCHANGED <<inst, snap, snapStatus, tasks, status, domain, taken, dlq, pc, msg, todo, ok,
                  sync, abandoned, faults, sweeps>>
  BY DEF PublishTask, db, virt, worker, bounds
<1>7. TypeOK'
  BY <1>3, <1>5, <1>6 DEF IInv, TypeOK, ReqRec
<1>8. IssuedInv' /\ HandInv' /\ GoneMeansUndefined'
  BY <1>3, <1>6
     DEF IInv, IssuedInv, Issued, HandInv, GoneMeansUndefined, Exists, curInst, curType, curTask
<1> QED BY <1>5, <1>7, <1>8 DEF IInv

LEMMA GuestPowersOffInv ==
  ASSUME IInv, NEW i \in Instances, GuestPowersOff(i)
  PROVE  IInv'
<1>1. /\ domain' \in [Instances -> {"undefined", "shutoff", "running"}]
      /\ \A j \in Instances : domain[j] = "undefined" => domain'[j] = "undefined"
  BY DEF GuestPowersOff, IInv, TypeOK
<1>2. UNCHANGED <<inst, snap, snapStatus, tasks, status, taken, queue, dlq, req,
                  pc, msg, todo, ok, sync, abandoned, faults, sweeps>>
  BY DEF GuestPowersOff, db, broker, worker, bounds
<1>3. TypeOK'
  BY <1>1, <1>2 DEF IInv, TypeOK
<1>4. IssuedInv' /\ RequestInv'
  BY <1>2 DEF IInv, IssuedInv, Issued, RequestInv
<1>5. HandInv'
  <2>1. pc = "finalize" => curInst \in Instances
    BY InHandType DEF IInv
  <2> QED BY <1>1, <1>2, <2>1 DEF IInv, HandInv, Exists, curInst, curType, curTask
<1>6. GoneMeansUndefined'
  BY <1>1, <1>2 DEF IInv, GoneMeansUndefined
<1> QED BY <1>3, <1>4, <1>5, <1>6 DEF IInv

-----------------------------------------------------------------------------
(* Steps of the worker.                                                    *)

\* Most steps of the worker leave the requests and the rows of tasks alone.
LEMMA RequestsFrame ==
  ASSUME IInv, UNCHANGED <<req, tasks>>
  PROVE  RequestInv'
BY DEF IInv, RequestInv

LEMMA TakeInv == IInv /\ Take => IInv'
<1> SUFFICES ASSUME IInv, Take PROVE IInv'
  OBVIOUS
<1>1. /\ msg' \in Issued /\ queue' \in Seq(Issued)
      /\ msg' \in Delivery /\ queue' \in Seq(Delivery)
  BY HeadTailType DEF Take, IInv, IssuedInv, TypeOK
<1>2. /\ pc' = "begin"
      /\ UNCHANGED <<inst, snap, snapStatus, tasks, status, domain, taken, dlq, req, todo, ok,
                     sync, abandoned, faults, sweeps>>
  BY DEF Take, db, virt, bounds
<1>3. TypeOK'
  BY <1>1, <1>2 DEF IInv, TypeOK, PCs
<1>4. IssuedInv' /\ HandInv' /\ GoneMeansUndefined'
  BY <1>1, <1>2 DEF IInv, IssuedInv, Issued, HandInv, GoneMeansUndefined
<1> QED BY <1>2, <1>3, <1>4, RequestsFrame DEF IInv

\* A handler goes on, or has the writes it returns through before it.
LEMMA GotoType ==
  ASSUME TypeOK, NEW l \in PCs, Goto(l)
  PROVE  pc' \in PCs /\ msg' = msg /\ todo' \in Seq(Writes) /\ ok' \in BOOLEAN
<1>1. ok' = ok /\ ok \in BOOLEAN
  BY DEF TypeOK, Goto
<1>2. pc' \in PCs /\ msg' = msg /\ todo' \in Seq(Writes)
  BY DEF TypeOK, Goto
<1> QED BY Zenon, <1>1, <1>2

LEMMA ReturnType ==
  ASSUME NEW writes \in Seq(Writes), NEW nil \in BOOLEAN, Return(writes, nil)
  PROVE  pc' \in PCs /\ msg' = msg /\ todo' \in Seq(Writes) /\ ok' \in BOOLEAN
<1>1. pc' = "write" /\ msg' = msg /\ todo' = writes /\ ok' = nil
  BY Zenon DEF Return
<1>2. "write" \in PCs
  BY DEF PCs
<1> QED BY Zenon, <1>1, <1>2

LEMMA BeginInv == IInv /\ Begin => IInv'
<1> SUFFICES ASSUME IInv, Begin PROVE IInv'
  OBVIOUS
<1>1. UNCHANGED <<inst, snap, snapStatus, tasks, domain, taken, queue, dlq, req, sync, abandoned>>
  BY DEF Begin, virt, broker
<1>2. /\ pc' \in PCs /\ msg' = msg /\ todo' \in Seq(Writes) /\ ok' \in BOOLEAN
      /\ status' \in [DOMAIN tasks -> Status]
      /\ faults' \in 0..MaxFaults /\ sweeps' \in 0..MaxSweeps
  <2>1. CASE status' = [status EXCEPT ![curTask] = "running"] /\ Goto("load") /\ UNCHANGED bounds
    <3>1. "load" \in PCs
      BY DEF PCs
    <3>2. /\ status' \in [DOMAIN tasks -> Status]
          /\ faults' \in 0..MaxFaults /\ sweeps' \in 0..MaxSweeps
      BY <2>1 DEF IInv, TypeOK, Status, bounds
    <3> QED BY <2>1, <3>1, <3>2, GotoType DEF IInv
  <2>2. CASE Fault /\ Return(<<>>, FALSE) /\ UNCHANGED status
    <3>1. <<>> \in Seq(Writes) /\ FALSE \in BOOLEAN
      OBVIOUS
    <3>2. pc' \in PCs /\ msg' = msg /\ todo' \in Seq(Writes) /\ ok' \in BOOLEAN
      BY <2>2, <3>1, ReturnType
    <3>3. /\ status' \in [DOMAIN tasks -> Status]
          /\ faults' \in 0..MaxFaults /\ sweeps' \in 0..MaxSweeps
      BY <2>2, FaultType DEF IInv, TypeOK
    <3> QED BY <3>2, <3>3
  <2> QED BY <2>1, <2>2 DEF Begin
<1>3. pc' \in {"load", "write"} /\ (pc' = "write" => todo' = <<>>)
  BY DEF Begin, Goto, Return
<1>4. TypeOK'
  BY <1>1, <1>2 DEF IInv, TypeOK
<1>5. IssuedInv' /\ HandInv' /\ GoneMeansUndefined'
  BY <1>1, <1>2, <1>3 DEF Begin, IInv, IssuedInv, Issued, HandInv, GoneMeansUndefined
<1> QED BY <1>1, <1>4, <1>5, RequestsFrame DEF IInv
\* The delivery in hand stays in hand.
LEMMA InHandFrame ==
  ASSUME IInv, pc \notin {"idle", "down"}, UNCHANGED <<tasks, queue, msg, req>>
  PROVE  /\ IssuedInv' /\ RequestInv'
         /\ curTask' = curTask /\ curInst' = curInst /\ curType' = curType
<1>1. RequestInv'
  BY RequestsFrame
<1>2. msg \in Issued /\ UNCHANGED Issued
  BY DEF IInv, IssuedInv, Issued
<1>3. IssuedInv'
  BY <1>2 DEF IInv, IssuedInv
<1> QED BY <1>1, <1>3 DEF curTask, curInst, curType

LEMMA LoadInv == IInv /\ Load => IInv'
<1> SUFFICES ASSUME IInv, Load PROVE IInv'
  OBVIOUS
<1> DEFINE writes == IF curType \in SnapTypes THEN OnError ELSE <<TaskFailed>>
           l == IF curType = "destroy" THEN "mark" ELSE "act"
<1>1. /\ pc = "load"
      /\ UNCHANGED <<inst, snap, snapStatus, tasks, status, domain, taken, queue, dlq, req, sync,
                     abandoned>>
  BY DEF Load, db, virt, broker
<1>2. writes \in Seq(Writes) /\ FALSE \in BOOLEAN
  BY <1>1, WritesOfHandlers, Literals DEF IInv
<1>3. l \in PCs
  BY DEF PCs
<1>4. /\ pc' \in PCs /\ msg' = msg /\ todo' \in Seq(Writes) /\ ok' \in BOOLEAN
      /\ faults' \in 0..MaxFaults /\ sweeps' \in 0..MaxSweeps
      /\ (pc' \in {"mark", "act"} /\ Exists(curInst)) \/ (pc' = "write" /\ ~ok')
  <2>1. CASE Loadable /\ Goto(l) /\ UNCHANGED bounds
    <3>1. pc' \in PCs /\ msg' = msg /\ todo' \in Seq(Writes) /\ ok' \in BOOLEAN
      BY <1>3, <2>1, GotoType DEF IInv
    <3>2. faults' \in 0..MaxFaults /\ sweeps' \in 0..MaxSweeps
      BY <2>1 DEF IInv, TypeOK, bounds
    <3>3. pc' \in {"mark", "act"} /\ Exists(curInst)
      BY <2>1 DEF Goto, Loadable
    <3> QED BY Zenon, <3>1, <3>2, <3>3
  <2>2. CASE (IF Loadable THEN Fault ELSE UNCHANGED bounds) /\ Return(writes, FALSE)
    <3>1. pc' \in PCs /\ msg' = msg /\ todo' \in Seq(Writes) /\ ok' \in BOOLEAN
      BY <1>2, <2>2, ReturnType
    <3>2. faults' \in 0..MaxFaults /\ sweeps' \in 0..MaxSweeps
      BY <2>2, FaultType DEF IInv, TypeOK, bounds
    <3>3. pc' = "write" /\ ~ok'
      BY Zenon, <2>2 DEF Return
    <3> QED BY Zenon, <3>1, <3>2, <3>3
  <2> QED BY <2>1, <2>2 DEF Load
<1>5. TypeOK'
  BY <1>1, <1>4 DEF IInv, TypeOK
<1>6. IssuedInv' /\ RequestInv' /\ curInst' = curInst
  BY <1>1, <1>4, InHandFrame
<1>7. HandInv'
  BY <1>1, <1>4, <1>6 DEF HandInv, Exists
<1>8. GoneMeansUndefined'
  BY <1>1 DEF IInv, GoneMeansUndefined
<1> QED BY <1>5, <1>6, <1>7, <1>8 DEF IInv

LEMMA MarkDeletingInv == IInv /\ MarkDeleting => IInv'
<1> SUFFICES ASSUME IInv, MarkDeleting PROVE IInv'
  OBVIOUS
<1>1. /\ pc = "mark" /\ curInst \in Instances /\ Exists(curInst)
      /\ UNCHANGED <<snap, snapStatus, tasks, status, domain, taken, queue, dlq, req, sync,
                     abandoned>>
  BY InHandType DEF MarkDeleting, IInv, HandInv, virt, broker
<1>2. /\ pc' \in PCs /\ msg' = msg /\ todo' \in Seq(Writes) /\ ok' \in BOOLEAN
      /\ faults' \in 0..MaxFaults /\ sweeps' \in 0..MaxSweeps
      /\ pc' = "act" \/ (pc' = "write" /\ ~ok')
      /\ inst' = [inst EXCEPT ![curInst] = "deleting"] \/ inst' = inst
  <2>1. CASE inst' = [inst EXCEPT ![curInst] = "deleting"] /\ Goto("act") /\ UNCHANGED bounds
    <3>1. "act" \in PCs
      BY DEF PCs
    <3>2. pc' \in PCs /\ msg' = msg /\ todo' \in Seq(Writes) /\ ok' \in BOOLEAN
      BY <2>1, <3>1, GotoType DEF IInv
    <3>3. faults' \in 0..MaxFaults /\ sweeps' \in 0..MaxSweeps
      BY <2>1 DEF IInv, TypeOK, bounds
    <3>4. pc' = "act"
      BY <2>1 DEF Goto
    <3> QED BY Zenon, <2>1, <3>2, <3>3, <3>4
  <2>2. CASE Fault /\ Return(<<TaskFailed>>, FALSE) /\ UNCHANGED inst
    <3>1. <<TaskFailed>> \in Seq(Writes) /\ FALSE \in BOOLEAN
      BY Literals
    <3>2. pc' \in PCs /\ msg' = msg /\ todo' \in Seq(Writes) /\ ok' \in BOOLEAN
      BY <2>2, <3>1, ReturnType
    <3>3. faults' \in 0..MaxFaults /\ sweeps' \in 0..MaxSweeps
      BY <2>2, FaultType DEF IInv, TypeOK
    <3>4. pc' = "write" /\ ~ok'
      BY Zenon, <2>2 DEF Return
    <3> QED BY Zenon, <2>2, <3>2, <3>3, <3>4
  <2> QED BY <2>1, <2>2 DEF MarkDeleting
<1>3. /\ inst' \in [Instances -> States \cup {"none", "gone"}]
      /\ \A i \in Instances : inst'[i] = inst[i] \/ (Exists(i) /\ inst'[i] \in States)
  BY <1>1, <1>2 DEF IInv, TypeOK, States
<1>4. TypeOK'
  BY <1>1, <1>2, <1>3 DEF IInv, TypeOK
<1>5. IssuedInv' /\ RequestInv' /\ curInst' = curInst
  BY <1>1, <1>2, InHandFrame
<1>6. HandInv'
  BY <1>1, <1>2, <1>3, <1>5 DEF HandInv, Exists
<1>7. GoneMeansUndefined'
  BY <1>1, <1>3 DEF IInv, GoneMeansUndefined, States
<1> QED BY <1>4, <1>5, <1>6, <1>7 DEF IInv
\* What libvirt may leave of a domain; a destroy that succeeded leaves nothing.
Domains == {"undefined", "shutoff", "running"}

LEMMA SuccessType ==
  ASSUME NEW x \in Domains, curType \in TaskTypes, NEW d \in Success(x)
  PROVE  d \in Domains /\ (curType = "destroy" => d = "undefined")
<1>1. CASE curType = "create"
  BY <1>1 DEF Success, Domains
<1>2. CASE curType = "destroy"
  BY <1>2 DEF Success, Domains
<1>3. CASE curType = "start"
  BY <1>3 DEF Success, Domains
<1>4. CASE curType = "stop"
  BY <1>4 DEF Success, ShutDown, Domains
<1>5. CASE curType = "reboot"
  BY <1>5 DEF Success, Domains
<1>6. CASE curType = "snapshot_create"
  BY <1>6 DEF Success, Snapped, Domains
<1>7. CASE curType = "snapshot_revert"
  BY <1>7 DEF Success, Reverted, Domains
<1> QED BY <1>1, <1>2, <1>3, <1>4, <1>5, <1>6, <1>7 DEF TaskTypes, Lifecycle, SnapTypes

LEMMA FailureType ==
  ASSUME NEW x \in Domains, NEW d \in Failure(x)
  PROVE  d \in Domains
BY DEF Failure, Domains

LEMMA ActInv == IInv /\ Act => IInv'
<1> SUFFICES ASSUME IInv, Act PROVE IInv'
  OBVIOUS
<1> DEFINE x == domain[curInst]
<1>1. /\ pc = "act" /\ Exists(curInst)
      /\ UNCHANGED <<inst, snap, snapStatus, tasks, status, queue, dlq, req, sync, abandoned,
                     faults, sweeps>>
  BY DEF Act, IInv, HandInv, db, broker, bounds
<1>2. curType \in TaskTypes /\ curInst \in Instances /\ curSnap \in Snapshots /\ x \in Domains
  BY <1>1, InHandType DEF IInv, TypeOK, Domains
<1>3. /\ OnError \in Seq(Writes) /\ OnSuccess \in Seq(Writes)
      /\ \A k \in DOMAIN OnSuccess : OnSuccess[k][1] = "snap" => curType \in SnapTypes
  BY <1>1, WritesOfHandlers DEF IInv
<1> DEFINE after == /\ pc' \in PCs /\ msg' = msg /\ todo' \in Seq(Writes) /\ ok' \in BOOLEAN
                    /\ pc' \in {"finalize", "write"}
                    /\ pc' = "write" /\ ok' => todo' = OnSuccess
           effect == /\ domain' \in [Instances -> Domains] /\ taken' \subseteq Snapshots
                     /\ \A i \in Instances : domain'[i] = domain[i] \/ i = curInst
                     /\ pc' = "finalize" => domain'[curInst] = "undefined"
<1>4. ASSUME \E d \in Success(x) : domain' = [domain EXCEPT ![curInst] = d],
             taken' = IF curType = "snapshot_create" THEN taken \cup {curSnap} ELSE taken,
             IF curType = "destroy" THEN Goto("finalize") ELSE Return(OnSuccess, TRUE)
      PROVE  after /\ effect
  <2>1. PICK d \in Success(x) : domain' = [domain EXCEPT ![curInst] = d]
    BY <1>4
  <2>2. d \in Domains /\ (curType = "destroy" => d = "undefined")
    BY <1>2, SuccessType
  <2>3. domain' \in [Instances -> Domains] /\ taken' \subseteq Snapshots
    BY <1>2, <1>4, <2>1, <2>2 DEF IInv, TypeOK, Domains
  <2>4. \A i \in Instances : domain'[i] = domain[i] \/ i = curInst
    BY <2>1 DEF IInv, TypeOK
  <2>5. after /\ (pc' = "finalize" => domain'[curInst] = "undefined")
    <3>1. CASE curType = "destroy"
      <4>1. "finalize" \in PCs
        BY DEF PCs
      <4>2. Goto("finalize")
        BY Zenon, <1>4, <3>1
      <4>3. pc' \in PCs /\ msg' = msg /\ todo' \in Seq(Writes) /\ ok' \in BOOLEAN
        BY <4>1, <4>2, GotoType DEF IInv
      <4>4. pc' = "finalize" /\ pc' # "write" /\ domain'[curInst] = "undefined"
        BY <1>2, <2>1, <2>2, <3>1, <4>2 DEF Goto, IInv, TypeOK
      <4> QED BY Zenon, <4>3, <4>4
    <3>2. CASE curType # "destroy"
      <4>1. Return(OnSuccess, TRUE)
        BY Zenon, <1>4, <3>2
      <4>2. pc' \in PCs /\ msg' = msg /\ todo' \in Seq(Writes) /\ ok' \in BOOLEAN
        BY Zenon, <1>3, <4>1, ReturnType
      <4>3. pc' = "write" /\ pc' # "finalize" /\ todo' = OnSuccess
        BY <4>1 DEF Return
      <4> QED BY Zenon, <4>2, <4>3
    <3> QED BY <3>1, <3>2
  <2> QED BY Zenon, <2>3, <2>4, <2>5
<1>5. ASSUME \E d \in Failure(x) : domain' = [domain EXCEPT ![curInst] = d],
             Return(OnError, FALSE), UNCHANGED taken
      PROVE  after /\ effect
  <2>1. PICK d \in Failure(x) : domain' = [domain EXCEPT ![curInst] = d]
    BY <1>5
  <2>2. d \in Domains
    BY <1>2, FailureType
  <2>3. domain' \in [Instances -> Domains] /\ taken' \subseteq Snapshots
    BY <1>2, <1>5, <2>1, <2>2 DEF IInv, TypeOK, Domains
  <2>4. \A i \in Instances : domain'[i] = domain[i] \/ i = curInst
    BY <2>1 DEF IInv, TypeOK
  <2>5. pc' \in PCs /\ msg' = msg /\ todo' \in Seq(Writes) /\ ok' \in BOOLEAN
    BY Zenon, <1>3, <1>5, ReturnType
  <2>6. pc' = "write" /\ pc' # "finalize"
    BY <1>5 DEF Return
  <2>7. ~ok'
    BY Zenon, <1>5 DEF Return
  <2> QED BY Zenon, <2>3, <2>4, <2>5, <2>6, <2>7
<1>6. after /\ effect
  BY <1>4, <1>5 DEF Act
<1>7. TypeOK'
  BY <1>1, <1>6 DEF IInv, TypeOK, Domains
<1>8. IssuedInv' /\ RequestInv' /\ curInst' = curInst /\ curType' = curType
  BY <1>1, <1>6, InHandFrame
<1>9. HandInv'
  BY <1>1, <1>3, <1>6, <1>8 DEF HandInv, Exists
<1>10. GoneMeansUndefined'
  BY <1>1, <1>6 DEF IInv, GoneMeansUndefined, Exists, States
<1> QED BY <1>7, <1>8, <1>9, <1>10 DEF IInv
LEMMA FinalizeInv == IInv /\ Finalize => IInv'
<1> SUFFICES ASSUME IInv, Finalize PROVE IInv'
  OBVIOUS
<1>1. /\ pc = "finalize" /\ Exists(curInst) /\ domain[curInst] = "undefined"
      /\ curInst \in Instances
      /\ UNCHANGED <<snap, tasks, domain, taken, queue, dlq, req, sync, abandoned>>
  BY InHandType DEF Finalize, IInv, HandInv, virt, broker
<1>2. <<>> \in Seq(Writes) /\ TRUE \in BOOLEAN /\ FALSE \in BOOLEAN
  OBVIOUS
<1>3. Return(<<>>, TRUE) \/ Return(<<>>, FALSE)
  BY Zenon DEF Finalize
<1>4. pc' \in PCs /\ msg' = msg /\ todo' \in Seq(Writes) /\ ok' \in BOOLEAN
  BY Zenon, <1>2, <1>3, ReturnType
<1>5. pc' = "write" /\ todo' = <<>>
  BY <1>3 DEF Return
<1>6. /\ inst' \in [Instances -> States \cup {"none", "gone"}]
      /\ snapStatus' \in [Snapshots -> {"none", "creating", "available", "error", "deleted"}]
      /\ \A i \in Instances : inst'[i] = inst[i] \/ i = curInst
  <2>1. \/ inst' = [inst EXCEPT ![curInst] = "gone"] /\ snapStatus' =
             [s \in Snapshots |-> IF snap[s].inst = curInst /\ SnapExists(s)
                                  THEN "deleted" ELSE snapStatus[s]]
        \/ inst' = inst /\ snapStatus' = snapStatus
    BY DEF Finalize
  <2>2. /\ inst \in [Instances -> States \cup {"none", "gone"}]
        /\ snapStatus \in [Snapshots -> {"none", "creating", "available", "error", "deleted"}]
    BY DEF IInv, TypeOK
  <2>3. snapStatus' \in [Snapshots -> {"none", "creating", "available", "error", "deleted"}]
    BY <2>1, <2>2
  <2>4. /\ inst' \in [Instances -> States \cup {"none", "gone"}]
        /\ \A i \in Instances : inst'[i] = inst[i] \/ i = curInst
    BY <2>1, <2>2
  <2> QED BY <2>3, <2>4
<1>7. status' \in [DOMAIN tasks -> Status]
  BY DEF Finalize, IInv, TypeOK, Status
<1>8. faults' \in 0..MaxFaults /\ sweeps' \in 0..MaxSweeps
  BY FaultType DEF Finalize, IInv, TypeOK, bounds
<1>9. TypeOK'
  BY <1>1, <1>4, <1>6, <1>7, <1>8 DEF IInv, TypeOK
<1>10. IssuedInv' /\ RequestInv'
  BY <1>1, <1>4, InHandFrame
<1>11. HandInv'
  BY <1>5 DEF HandInv
<1>12. GoneMeansUndefined'
  BY <1>1, <1>6 DEF IInv, GoneMeansUndefined
<1> QED BY <1>9, <1>10, <1>11, <1>12 DEF IInv

LEMMA TailElement ==
  ASSUME NEW S, NEW q \in Seq(S), q # <<>>, NEW k \in DOMAIN Tail(q)
  PROVE  k + 1 \in DOMAIN q /\ Tail(q)[k] = q[k + 1]
OBVIOUS

LEMMA WriteNextInv == IInv /\ WriteNext => IInv'
<1> SUFFICES ASSUME IInv, WriteNext PROVE IInv'
  OBVIOUS
<1>1. /\ pc = "write" /\ todo # <<>> /\ todo' = Tail(todo)
      /\ UNCHANGED <<domain, taken, queue, dlq, req, pc, msg, ok, sync, abandoned, faults, sweeps>>
  BY DEF WriteNext, virt, broker, bounds
<1>2. curInst \in Instances /\ curSnap \in Snapshots
  BY <1>1, InHandType DEF IInv
<1>3. todo \in Seq(Writes) /\ Head(todo) \in Writes /\ todo' \in Seq(Writes)
  BY <1>1, HeadTailType DEF IInv, TypeOK
<1>4. /\ inst' \in [Instances -> States \cup {"none", "gone"}]
      /\ snapStatus' \in [Snapshots -> {"none", "creating", "available", "error", "deleted"}]
      /\ status' \in [DOMAIN tasks -> Status]
      /\ snap' = snap /\ tasks' = tasks
      /\ RowsStay
  BY <1>2, <1>3, WriteEffect DEF WriteNext, IInv, RowsStay
<1>5. TypeOK'
  BY <1>1, <1>3, <1>4 DEF IInv, TypeOK
<1>6. IssuedInv' /\ RequestInv' /\ curType' = curType
  BY <1>1, <1>4, InHandFrame
<1>7. HandInv'
  <2> SUFFICES ASSUME ok, NEW k \in DOMAIN todo', todo'[k][1] = "snap"
               PROVE  curType \in SnapTypes
    BY <1>1, <1>6 DEF HandInv
  <2>1. k + 1 \in DOMAIN todo /\ todo'[k] = todo[k + 1]
    BY <1>1, <1>3, TailElement
  <2> QED BY <1>1, <2>1 DEF IInv, HandInv
<1>8. GoneMeansUndefined'
  BY <1>1, <1>4 DEF IInv, GoneMeansUndefined, RowsStay, States
<1> QED BY <1>5, <1>6, <1>7, <1>8 DEF IInv

LEMMA WriteFailsInv == IInv /\ WriteFails => IInv'
<1> SUFFICES ASSUME IInv, WriteFails PROVE IInv'
  OBVIOUS
<1> DEFINE writes == IF ok THEN GiveUp ELSE Tail(todo)
<1>1. /\ pc = "write" /\ todo # <<>> /\ Fault /\ Return(writes, FALSE)
      /\ UNCHANGED <<inst, snap, snapStatus, tasks, status, domain, taken, queue, dlq, req, sync,
                     abandoned>>
  BY Zenon DEF WriteFails, db, virt, broker
<1>2. writes \in Seq(Writes)
  <2>1. CASE ok
    BY <1>1, <2>1, GiveUpType DEF IInv
  <2>2. CASE ~ok
    BY <1>1, <2>2, HeadTailType DEF IInv, TypeOK
  <2> QED BY <2>1, <2>2
<1> HIDE DEF writes
<1>3. pc' \in PCs /\ msg' = msg /\ todo' \in Seq(Writes) /\ ok' \in BOOLEAN
  BY Zenon, <1>1, <1>2, ReturnType
<1>4. pc' = "write"
  BY <1>1 DEF Return
<1>5. ~ok'
  BY Zenon, <1>1 DEF Return
<1>6. TypeOK'
  BY <1>1, <1>3, FaultType DEF IInv, TypeOK
<1>7. IssuedInv' /\ RequestInv'
  BY <1>1, <1>3, InHandFrame
<1>8. HandInv'
  BY <1>4, <1>5 DEF HandInv
<1>9. GoneMeansUndefined'
  BY <1>1 DEF IInv, GoneMeansUndefined
<1> QED BY <1>6, <1>7, <1>8, <1>9 DEF IInv

LEMMA RestType ==
  ASSUME NEW l \in {"idle", "down"}, Rest(l)
  PROVE  /\ pc' \in PCs /\ pc' \in {"idle", "down"} /\ msg' = NoDelivery
         /\ todo' \in Seq(Writes) /\ ok' \in BOOLEAN
<1>1. pc' = l /\ msg' = NoDelivery /\ todo' = <<>> /\ ok' = FALSE
  BY Zenon DEF Rest
<1>2. l \in PCs /\ <<>> \in Seq(Writes)
  BY DEF PCs
<1> QED BY Zenon, <1>1, <1>2

\* A worker at rest: what is left is that the queue is one of issued messages.
LEMMA AtRest ==
  ASSUME IInv, NEW l \in {"idle", "down"}, Rest(l),
         queue' \in Seq(Issued), UNCHANGED <<inst, domain, tasks, req>>
  PROVE  IssuedInv' /\ RequestInv' /\ HandInv' /\ GoneMeansUndefined'
<1>1. pc' \in {"idle", "down"} /\ msg' = NoDelivery
  BY RestType
<1>2. RequestInv'
  BY RequestsFrame
<1>3. IssuedInv' /\ HandInv'
  BY <1>1 DEF IssuedInv, Issued, HandInv
<1>4. GoneMeansUndefined'
  BY DEF IInv, GoneMeansUndefined
<1> QED BY <1>2, <1>3, <1>4

\* A copy that is published with one more failure is still below the limit.
LEMMA CopyType ==
  ASSUME IInv, pc = "write", ~LastTry
  PROVE  Copy \in Issued /\ Copy \in Delivery
<1>1. msg \in Issued /\ msg.task \in TaskIds
  BY DEF IInv, IssuedInv, Issued, TypeOK, TaskIds
<1> QED BY <1>1, ConstantsAssumption DEF Issued, Delivery, Copy, curTask, LastTry

LEMMA SettleInv == IInv /\ Settle => IInv'
<1> SUFFICES ASSUME IInv, Settle PROVE IInv'
  OBVIOUS
<1>1. /\ pc = "write" /\ Rest("idle")
      /\ UNCHANGED <<inst, snap, snapStatus, tasks, status, domain, taken, req, sync, abandoned,
                     faults, sweeps>>
  BY DEF Settle, Returned, db, virt, bounds
<1>2. queue' \in Seq(Issued) /\ queue' \in Seq(Delivery)
  <2>1. queue \in Seq(Issued) /\ queue \in Seq(Delivery)
    BY DEF IInv, IssuedInv, TypeOK
  <2>2. CASE queue' = queue
    BY <2>1, <2>2
  <2>3. CASE ~LastTry /\ queue' = Append(queue, Copy)
    BY <1>1, <2>1, <2>3, CopyType, ConsType
  <2> QED BY <2>2, <2>3 DEF Settle
<1>3. dlq' \subseteq TaskIds
  <2>1. curTask \in TaskIds /\ dlq \subseteq TaskIds
    BY <1>1, InHandType DEF IInv, TypeOK, TaskIds
  <2> QED BY <2>1 DEF Settle
<1>4. TypeOK'
  BY <1>1, <1>2, <1>3, RestType DEF IInv, TypeOK
<1> QED BY <1>1, <1>2, <1>4, AtRest DEF IInv

LEMMA CrashInv == IInv /\ Crash => IInv'
<1> SUFFICES ASSUME IInv, Crash PROVE IInv'
  OBVIOUS
<1> DEFINE back == IF msg = NoDelivery THEN queue ELSE <<msg>> \o queue
<1>1. /\ Rest("down") /\ Fault /\ sync' = SyncIdle
      /\ UNCHANGED <<inst, snap, snapStatus, tasks, status, domain, taken, dlq, req, abandoned>>
  BY DEF Crash, db, virt
<1>2. back \in Seq(Issued) /\ back \in Seq(Delivery)
  BY ConsType DEF IInv, IssuedInv, TypeOK
<1>3. queue' \in Seq(Issued) /\ queue' \in Seq(Delivery)
  <2>1. CASE queue' = back
    BY <1>2, <2>1
  <2>2. CASE Returned /\ ~LastTry /\ queue' = Append(back, Copy)
    <3>1. Copy \in Issued /\ Copy \in Delivery
      BY <2>2, CopyType DEF Returned
    <3> HIDE DEF back
    <3> QED BY <1>2, <2>2, <3>1, ConsType
  <2> QED BY <2>1, <2>2 DEF Crash
<1>4. TypeOK'
  BY <1>1, <1>3, RestType, FaultType DEF IInv, TypeOK, SyncIdle
<1> QED BY <1>1, <1>3, <1>4, AtRest DEF IInv

LEMMA RestartInv == IInv /\ Restart => IInv'
<1> SUFFICES ASSUME IInv, Restart PROVE IInv'
  OBVIOUS
<1>1. /\ Rest("idle")
      /\ UNCHANGED <<inst, snap, snapStatus, tasks, status, domain, taken, queue, dlq, req, sync,
                     abandoned, faults, sweeps>>
  BY DEF Restart, db, virt, broker, bounds
<1>2. TypeOK'
  BY <1>1, RestType DEF IInv, TypeOK
<1> QED BY <1>1, <1>2, AtRest DEF IInv, IssuedInv
-----------------------------------------------------------------------------
(* The theorems.                                                           *)

LEMMA NextInv == IInv /\ [Next]_vars => IInv'
<1> SUFFICES ASSUME IInv, [Next]_vars PROVE IInv'
  OBVIOUS
<1>1. ASSUME NEW c \in Clients, Request(c) PROVE IInv'
  BY <1>1, CreateAsyncInv, RequestInstanceActionInv, RequestSnapshotCreateInv,
     RequestSnapshotRevertInv DEF Request
<1>2. ASSUME NEW c \in Clients, ApiStep(c) PROVE IInv'
  BY <1>2, BeginSnapshotRevertInv, CreateTaskInv, PublishTaskInv, UndoInv, RequestFailsInv
     DEF ApiStep
<1>3. ASSUME NEW c \in Clients, RequestFails(c) \/ RequestAborted(c) PROVE IInv'
  BY <1>3, RequestFailsInv, RequestAbortedInv
<1>4. CASE WorkerStep
  BY <1>4, TakeInv, BeginInv, LoadInv, MarkDeletingInv, ActInv, FinalizeInv, WriteNextInv,
     SettleInv, RestartInv DEF WorkerStep
<1>5. CASE WriteFails \/ Crash
  BY <1>5, WriteFailsInv, CrashInv
<1>6. CASE SyncStep
  BY <1>6, SyncDomainsInv, SyncRowsInv, SyncWriteInv DEF SyncStep
<1>7. CASE \E stale \in SUBSET DOMAIN tasks : Sweep(stale)
  BY <1>7, SweepInv
<1>8. CASE \E i \in Instances : GuestPowersOff(i)
  BY <1>8, GuestPowersOffInv
<1>9. CASE UNCHANGED vars
  <2>1. UNCHANGED <<inst, domain, snap, snapStatus, taken, tasks, status, queue, dlq, req,
                    pc, msg, todo, ok, sync, abandoned, faults, sweeps>>
    BY <1>9 DEF vars, db, virt, broker, worker, bounds
  <2>2. TypeOK'
    BY <2>1 DEF IInv, TypeOK
  <2>3. RowsStay /\ RequestInv'
    BY <2>1 DEF IInv, RequestInv, RowsStay
  <2> QED BY <2>1, <2>2, <2>3, OutsideTheWorker
<1> QED BY <1>1, <1>2, <1>3, <1>4, <1>5, <1>6, <1>7, <1>8, <1>9 DEF Next

\* The inductive invariant holds in every reachable state, for all constants.
THEOREM Invariance == Spec => []IInv
<1>1. Init => IInv
  BY InitInv
<1>2. IInv /\ [Next]_vars => IInv'
  BY NextInv
<1> QED BY <1>1, <1>2, PTL DEF Spec

\* Every variable keeps its type, whatever requests, tries, kills, syncs and
\* sweeps do; with it, every write a handler or a request has left is one that
\* makes sense (a snapshot task restores running or stopped, never nothing).
THEOREM TypeCorrect == Spec => []TypeOK
<1>1. IInv => TypeOK
  BY DEF IInv
<1> QED BY <1>1, Invariance, PTL

\* HandleDestroyTask deletes the row only after libvirt has undefined the
\* domain, and no retry, redelivery, late task or restart brings the domain
\* back: a row that is gone has no domain, at any moment.
THEOREM NoDomainOutlivesItsRow == Spec => []GoneMeansUndefined
<1>1. IInv => GoneMeansUndefined
  BY DEF IInv
<1> QED BY <1>1, Invariance, PTL
==============================================================================
