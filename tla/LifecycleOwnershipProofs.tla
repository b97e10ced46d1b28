----------------------- MODULE LifecycleOwnershipProofs ------------------------
(***************************************************************************)
(* More proofs about InstanceLifecycle: no task is forgotten, no transient *)
(* state is an orphan, and what is offered as a snapshot is one.           *)
(***************************************************************************)
EXTENDS InstanceLifecycleProofs

\* The writes of handlers and compensations close a task and leave an instance
\* in a state in which something can be asked of it.
Stable      == {"running", "stopped", "error"}
FinalWrites == ({"task"} \X {"succeeded", "failed"}) \cup ({"inst"} \X Stable)
                 \cup ({"snap"} \X {"available", "error"})
\* Only a task that has succeeded offers a snapshot.
QuietWrites == FinalWrites \ {<<"snap", "available">>}

Pending(writes, kind) == \E k \in DOMAIN writes : writes[k][1] = kind

InQueue(q, n) == \E k \in DOMAIN q : q[k].task = n

\* Somebody still has to process the delivery of task n or, on its way to
\* success, to write its row (or the row of its instance).
InProgress(n, kind) ==
  \/ InQueue(queue, n)
  \/ n \in dlq
  \/ msg.task = n /\ (pc = "write" /\ ok => Pending(todo, kind))

\* A request that is going to publish its task (and to create it, while there is
\* only an instance), or has yet to take back what it wrote to that row.
Engaged(r, kind) ==
  \/ r.step = "publish"
  \/ r.step = "task" /\ kind = "inst"
  \/ r.step = "undo" /\ Pending(r.todo, kind)

WritesInv ==
  /\ todo \in Seq(FinalWrites)
  /\ \A c \in Clients : req[c].todo \in Seq(QuietWrites)
  /\ pc = "mark" => curType = "destroy"
  /\ pc \in {"idle", "down"} => msg = NoDelivery
  /\ \A c \in Clients : req[c].step = "publish" =>
       /\ tasks[req[c].task].inst = req[c].inst
       /\ tasks[req[c].task].type = req[c].type

OpenInv ==
  \A n \in DOMAIN tasks : status[n] \in {"pending", "running"} =>
    \/ InProgress(n, "task")
    \/ \E c \in Clients : req[c].task = n /\ Engaged(req[c], "task")
    \/ \E a \in abandoned : a.task = n

TaskReason(i, types) ==
  \E n \in DOMAIN tasks : /\ tasks[n].inst = i /\ tasks[n].type \in types
                          /\ InProgress(n, "inst")

\* A destroy request owns nothing: it is its task that writes deleting.
RequestReason(r, i, types) ==
  r.inst = i /\ r.type \in types \ {"destroy"} /\ Engaged(r, "inst")

ReasonFor(i, types) ==
  \/ TaskReason(i, types)
  \/ \E c \in Clients : RequestReason(req[c], i, types)
  \/ \E a \in abandoned : a.inst = i

\* What an instance in a transient state has a task or request of.
Transient == {"creating", "snapshotting", "deleting"}
Reasons(state) == IF state = "creating" THEN {"create"}
                  ELSE IF state = "snapshotting" THEN SnapTypes ELSE {"destroy"}

OwnedInv ==
  \A i \in Instances : inst[i] \in Transient => ReasonFor(i, Reasons(inst[i]))

OwnershipInv == IInv /\ WritesInv /\ OpenInv /\ OwnedInv

\* A snapshot task or request is of the instance of its snapshot, whose row is
\* there or was.
Owns(r) == r.type \in SnapTypes =>
             snapStatus[r.snap] # "none" /\ snap[r.snap].inst = r.inst

\* libvirt does not undefine a domain with snapshots, and a snapshot is offered
\* only when libvirt has it.
SnapRowsInv ==
  /\ \A s \in taken : snapStatus[s] # "none" /\ domain[snap[s].inst] # "undefined"
  /\ \A s \in Snapshots : snapStatus[s] = "available" => s \in taken
  /\ \A n \in DOMAIN tasks : Owns(tasks[n])

SnapRequestsInv ==
  \A c \in Clients : Owns(req[c]) /\ (req[c].step = "lock" => req[c].type \in SnapTypes)

\* Whoever is about to offer a snapshot has taken it.
SnapTodoInv ==
  pc = "write" => \A k \in DOMAIN todo :
    todo[k] = <<"snap", "available">> => curSnap \in taken

SnapshotInv == SnapRowsInv /\ SnapRequestsInv /\ SnapTodoInv
-----------------------------------------------------------------------------
(* Queues, and lists of writes.                                            *)

LEMMA QueueGrows ==
  ASSUME NEW S, NEW q \in Seq(S), NEW e \in S, NEW n
  PROVE  /\ InQueue(q, n) => InQueue(Append(q, e), n) /\ InQueue(<<e>> \o q, n)
         /\ InQueue(Append(q, e), e.task) /\ InQueue(<<e>> \o q, e.task)
<1>1. ASSUME NEW k \in DOMAIN q
      PROVE  /\ k \in DOMAIN Append(q, e) /\ Append(q, e)[k] = q[k]
             /\ k + 1 \in DOMAIN (<<e>> \o q) /\ (<<e>> \o q)[k + 1] = q[k]
  OBVIOUS
<1>2. /\ Len(q) + 1 \in DOMAIN Append(q, e) /\ Append(q, e)[Len(q) + 1] = e
      /\ 1 \in DOMAIN (<<e>> \o q) /\ (<<e>> \o q)[1] = e
  OBVIOUS
<1>3. InQueue(q, n) => InQueue(Append(q, e), n) /\ InQueue(<<e>> \o q, n)
  BY Zenon, <1>1 DEF InQueue
<1>4. InQueue(Append(q, e), e.task) /\ InQueue(<<e>> \o q, e.task)
  BY Zenon, <1>2 DEF InQueue
<1> QED BY <1>3, <1>4

LEMMA QueueTaken ==
  ASSUME NEW S, NEW q \in Seq(S), q # <<>>, NEW n, InQueue(q, n)
  PROVE  Head(q).task = n \/ InQueue(Tail(q), n)
<1>1. PICK k \in DOMAIN q : q[k].task = n
  BY DEF InQueue
<1>2. CASE k = 1
  BY <1>1, <1>2
<1>3. CASE k # 1
  <2>1. k - 1 \in DOMAIN Tail(q) /\ Tail(q)[k - 1] = q[k]
    BY <1>3
  <2> QED BY Zenon, <1>1, <2>1 DEF InQueue
<1> QED BY <1>2, <1>3

LEMMA PendingTail ==
  ASSUME NEW S, NEW q \in Seq(S), q # <<>>, NEW kind, Pending(q, kind)
  PROVE  Head(q)[1] = kind \/ Pending(Tail(q), kind)
<1>1. PICK k \in DOMAIN q : q[k][1] = kind
  BY DEF Pending
<1>2. CASE k = 1
  BY <1>1, <1>2
<1>3. CASE k # 1
  <2>1. k - 1 \in DOMAIN Tail(q) /\ Tail(q)[k - 1] = q[k]
    BY <1>3
  <2> QED BY Zenon, <1>1, <2>1 DEF Pending
<1> QED BY <1>2, <1>3

LEMMA PendingConcat ==
  ASSUME NEW S, NEW p \in Seq(S), NEW q \in Seq(S), NEW kind
  PROVE  Pending(p, kind) \/ Pending(q, kind) => Pending(p \o q, kind)
<1>1. ASSUME NEW k \in DOMAIN p PROVE k \in DOMAIN (p \o q) /\ (p \o q)[k] = p[k]
  OBVIOUS
<1>2. ASSUME NEW k \in DOMAIN q
      PROVE  Len(p) + k \in DOMAIN (p \o q) /\ (p \o q)[Len(p) + k] = q[k]
  OBVIOUS
<1>3. Pending(p, kind) => Pending(p \o q, kind)
  BY Zenon, <1>1 DEF Pending
<1>4. Pending(q, kind) => Pending(p \o q, kind)
  BY Zenon, <1>2 DEF Pending
<1> QED BY <1>3, <1>4

LEMMA NothingPending == \A kind : ~Pending(<<>>, kind)
BY DEF Pending

LEMMA FinalLiterals ==
  /\ TaskFailed \in QuietWrites /\ <<"task", "succeeded">> \in QuietWrites
  /\ <<"snap", "error">> \in QuietWrites /\ <<"snap", "available">> \in FinalWrites
  /\ \A p \in Stable : <<"inst", p>> \in QuietWrites
  /\ \A p \in Restorable : <<"inst", p>> \in QuietWrites
BY DEF TaskFailed, QuietWrites, FinalWrites, Stable, Restorable

LEMMA QuietIsFinal ==
  ASSUME NEW q \in Seq(QuietWrites)
  PROVE  q \in Seq(FinalWrites)
BY SeqMonotone DEF QuietWrites

\* What a handler has left to write, and what of it is about its instance and task.
LEMMA FinalWritesOfHandlers ==
  ASSUME TypeOK, IssuedInv, RequestInv, pc \notin {"idle", "down"}
  PROVE  /\ OnError \in Seq(QuietWrites) /\ OnSuccess \in Seq(FinalWrites)
         /\ curType # "snapshot_create" => OnSuccess \in Seq(QuietWrites)
         /\ Pending(OnSuccess, "inst") /\ Pending(OnSuccess, "task")
<1> DEFINE state == IF curType \in SnapTypes THEN curPrior ELSE "error"
           failed == <<(<<"inst", state>>), TaskFailed>>
           done   == <<(<<"inst", NewState>>), (<<"task", "succeeded">>)>>
           error  == IF curType = "snapshot_create" THEN <<(<<"snap", "error">>)>> ELSE <<>>
           avail  == IF curType = "snapshot_create" THEN <<(<<"snap", "available">>)>> ELSE <<>>
<1>1. curType \in SnapTypes => curPrior \in Stable
  BY InHandType DEF Restorable, Stable
<1>2. state \in Stable /\ NewState \in Stable
  BY <1>1 DEF NewState, Stable
<1>3. /\ failed \in Seq(QuietWrites) /\ done \in Seq(QuietWrites)
      /\ error \in Seq(QuietWrites) /\ avail \in Seq(FinalWrites)
      /\ curType # "snapshot_create" => avail \in Seq(QuietWrites)
  BY <1>2, FinalLiterals
<1>4. Pending(done, "inst") /\ Pending(done, "task")
  <2>1. 1 \in DOMAIN done /\ 2 \in DOMAIN done /\ done[1][1] = "inst" /\ done[2][1] = "task"
    OBVIOUS
  <2> QED BY Zenon, <2>1 DEF Pending
<1>5. OnError = error \o failed /\ OnSuccess = avail \o done
  BY DEF OnError, OnSuccess
<1> HIDE DEF failed, done, error, avail
<1>6. done \in Seq(FinalWrites)
  BY <1>3, QuietIsFinal
<1>7. Pending(avail \o done, "inst") /\ Pending(avail \o done, "task")
  BY <1>3, <1>4, <1>6, PendingConcat
<1> QED BY <1>3, <1>5, <1>6, <1>7

LEMMA FinalGiveUp ==
  ASSUME TypeOK, IssuedInv, RequestInv, HandInv, pc = "write", todo # <<>>, ok
  PROVE  GiveUp \in Seq(QuietWrites)
<1>1. Head(todo)[1] = "snap" => curPrior \in Restorable
  <2>1. 1 \in DOMAIN todo /\ Head(todo) = todo[1]
    BY DEF TypeOK
  <2> QED BY <2>1, InHandType DEF HandInv
<1> DEFINE inst1 == IF Head(todo)[1] = "snap" THEN <<(<<"inst", curPrior>>)>> ELSE <<>>
           task1 == IF Head(todo)[1] = "task" THEN <<>> ELSE <<TaskFailed>>
<1>2. inst1 \in Seq(QuietWrites) /\ task1 \in Seq(QuietWrites)
  BY <1>1, FinalLiterals
<1> QED BY <1>2 DEF GiveUp

\* A request that is not a mere action on an instance takes back its state, and
\* one that has a task closes it.
LEMMA FinalCompensation ==
  ASSUME TypeOK, RequestInv, NEW c \in Clients, req[c].step \in {"task", "publish"}
  PROVE  LET r == req[c] IN
         /\ Compensation(r) \in Seq(QuietWrites)
         /\ r.step = "publish" => Pending(Compensation(r), "task")
         /\ r.type \in SnapTypes => Pending(Compensation(r), "inst")
         /\ r.type = "create" /\ r.step = "publish" => Pending(Compensation(r), "inst")
<1> DEFINE r == req[c]
           task1 == IF r.step = "publish" THEN <<TaskFailed>> ELSE <<>>
           snap1 == IF r.type = "snapshot_create" THEN <<(<<"snap", "error">>)>> ELSE <<>>
           first == task1 \o snap1
           rest  == UnlockedBy(r)
<1>1. r.type \in SnapTypes => r.prior \in Restorable
  BY DEF RequestInv
<1>2. task1 \in Seq(QuietWrites) /\ snap1 \in Seq(QuietWrites)
  BY FinalLiterals
<1>3. rest \in Seq(QuietWrites)
  BY <1>1, FinalLiterals DEF UnlockedBy, Stable
<1>4. Compensation(r) = first \o rest
  BY DEF Compensation
<1>5. r.step = "publish" => Pending(task1, "task")
  <2>1. r.step = "publish" => 1 \in DOMAIN task1 /\ task1[1][1] = "task"
    BY DEF TaskFailed
  <2> QED BY Zenon, <2>1 DEF Pending
<1>6. r.type \in SnapTypes \/ (r.type = "create" /\ r.step = "publish") => Pending(rest, "inst")
  <2>1. r.type \in SnapTypes \/ (r.type = "create" /\ r.step = "publish")
          => 1 \in DOMAIN rest /\ rest[1][1] = "inst"
    BY DEF UnlockedBy
  <2> QED BY Zenon, <2>1 DEF Pending
<1>7. first \in Seq(QuietWrites)
  BY <1>2
<1>8. r.step = "publish" => Pending(first, "task")
  <2> HIDE DEF task1, snap1
  <2> QED BY <1>2, <1>5, PendingConcat
<1> HIDE DEF first, rest
<1> QED BY <1>3, <1>4, <1>6, <1>7, <1>8, PendingConcat
-----------------------------------------------------------------------------
(* Who is in progress stays so, but for the row the worker writes.         *)

LEMMA ProgressFrame ==
  ASSUME NEW n, NEW kind, InProgress(n, kind), UNCHANGED <<queue, dlq, worker>>
  PROVE  InProgress(n, kind)'
BY DEF InProgress, worker

LEMMA TaskIdsOfRows ==
  ASSUME TypeOK, NEW n \in DOMAIN tasks
  PROVE  n # 0 /\ n # NoDelivery.task
BY DEF TypeOK, NoDelivery

LEMMA PublishProgress ==
  ASSUME IInv, NEW c \in Clients, PublishTask(c), NEW n, NEW kind
  PROVE  /\ InProgress(n, kind) => InProgress(n, kind)'
         /\ req[c].task = n => InProgress(n, kind)'
<1> DEFINE m == [task |-> req[c].task, retry |-> 0]
<1>1. req[c].task \in DOMAIN tasks /\ DOMAIN tasks = 1..Len(tasks) /\ Len(tasks) \in Nat
  BY DEF PublishTask, IInv, RequestInv, TypeOK
<1>2. m \in Delivery /\ queue \in Seq(Delivery) /\ m.task = req[c].task
  BY <1>1, ConstantsAssumption DEF Delivery, TaskIds, IInv, TypeOK
<1>3. queue' = Append(queue, m) /\ UNCHANGED <<dlq, pc, msg, todo, ok>>
  BY DEF PublishTask, worker
<1> HIDE DEF m
<1>4. (InQueue(queue, n) => InQueue(queue', n)) /\ (req[c].task = n => InQueue(queue', n))
  BY <1>2, <1>3, QueueGrows
<1> QED BY <1>3, <1>4 DEF InProgress

LEMMA TakeProgress ==
  ASSUME IInv, WritesInv, Take, NEW n \in DOMAIN tasks, NEW kind, InProgress(n, kind)
  PROVE  InProgress(n, kind)'
<1>1. /\ queue \in Seq(Delivery) /\ queue # <<>>
      /\ msg' = Head(queue) /\ queue' = Tail(queue) /\ dlq' = dlq /\ pc' = "begin"
  BY DEF Take, IInv, TypeOK
<1>2. msg.task # n
  BY TaskIdsOfRows DEF IInv, WritesInv, Take
<1>3. InQueue(queue, n) => msg'.task = n \/ InQueue(queue', n)
  BY <1>1, QueueTaken
<1> QED BY <1>1, <1>2, <1>3 DEF InProgress

\* The worker goes on, or returns an error.
LEMMA GoOnProgress ==
  ASSUME NEW n, NEW kind, InProgress(n, kind), UNCHANGED <<queue, dlq, msg>>,
         pc' # "write" \/ ~ok'
  PROVE  InProgress(n, kind)'
BY DEF InProgress

LEMMA GotoOrError ==
  ASSUME NEW l \in PCs \ {"write"}, NEW writes, Goto(l) \/ Return(writes, FALSE)
  PROVE  msg' = msg /\ (pc' # "write" \/ ~ok')
<1>1. CASE Goto(l)
  BY <1>1 DEF Goto
<1>2. CASE Return(writes, FALSE)
  <2>1. ~ok' /\ msg' = msg
    BY Zenon, <1>2 DEF Return
  <2> QED BY <2>1
<1> QED BY <1>1, <1>2

LEMMA BeginProgress ==
  ASSUME Begin, NEW n, NEW kind
  PROVE  /\ InProgress(n, kind) => InProgress(n, kind)'
         /\ n = curTask => InProgress(n, kind)'
<1>1. "load" \in PCs \ {"write"}
  BY DEF PCs
<1>2. Goto("load") \/ Return(<<>>, FALSE)
  BY Zenon DEF Begin
<1>3. msg' = msg /\ (pc' # "write" \/ ~ok')
  BY <1>1, <1>2, GotoOrError
<1>4. UNCHANGED <<queue, dlq>>
  BY DEF Begin, broker
<1> QED BY <1>3, <1>4, GoOnProgress DEF InProgress, curTask

LEMMA LoadProgress ==
  ASSUME Load, NEW n, NEW kind, InProgress(n, kind)
  PROVE  InProgress(n, kind)'
<1> DEFINE l == IF curType = "destroy" THEN "mark" ELSE "act"
           writes == IF curType \in SnapTypes THEN OnError ELSE <<TaskFailed>>
<1>1. l \in PCs \ {"write"}
  BY DEF PCs
<1>2. Goto(l) \/ Return(writes, FALSE)
  BY Zenon DEF Load
<1> HIDE DEF l, writes
<1>3. msg' = msg /\ (pc' # "write" \/ ~ok')
  BY <1>1, <1>2, GotoOrError
<1>4. UNCHANGED <<queue, dlq>>
  BY DEF Load, broker
<1> QED BY <1>3, <1>4, GoOnProgress

LEMMA MarkDeletingProgress ==
  ASSUME MarkDeleting, NEW n, NEW kind
  PROVE  /\ InProgress(n, kind) => InProgress(n, kind)'
         /\ n = curTask => InProgress(n, kind)'
<1>1. "act" \in PCs \ {"write"}
  BY DEF PCs
<1>2. Goto("act") \/ Return(<<TaskFailed>>, FALSE)
  BY Zenon DEF MarkDeleting
<1>3. msg' = msg /\ (pc' # "write" \/ ~ok')
  BY <1>1, <1>2, GotoOrError
<1>4. UNCHANGED <<queue, dlq>>
  BY DEF MarkDeleting, broker
<1> QED BY <1>3, <1>4, GoOnProgress DEF InProgress, curTask

\* On success everything is still to be written.
LEMMA ActProgress ==
  ASSUME IInv, Act, NEW n, NEW kind \in {"inst", "task"}, InProgress(n, kind)
  PROVE  InProgress(n, kind)'
<1>1. Pending(OnSuccess, kind)
  BY FinalWritesOfHandlers DEF IInv, Act
<1>2. Goto("finalize") \/ Return(OnSuccess, TRUE) \/ Return(OnError, FALSE)
  BY Zenon DEF Act
<1>3. UNCHANGED <<queue, dlq>>
  BY DEF Act, broker
<1>4. CASE Goto("finalize") \/ Return(OnError, FALSE)
  <2>1. "finalize" \in PCs \ {"write"}
    BY DEF PCs
  <2>2. msg' = msg /\ (pc' # "write" \/ ~ok')
    BY <1>4, <2>1, GotoOrError
  <2> QED BY <1>3, <2>2, GoOnProgress
<1>5. CASE Return(OnSuccess, TRUE)
  <2>1. msg' = msg /\ todo' = OnSuccess
    BY <1>5 DEF Return
  <2> QED BY <1>1, <1>3, <2>1 DEF InProgress
<1> QED BY <1>2, <1>4, <1>5

\* The row of the task that is finalized, and its instance, are written for good.
LEMMA FinalizeProgress ==
  ASSUME IInv, Finalize, NEW n, NEW kind, InProgress(n, kind),
         n # curTask \/ ~ok'
  PROVE  InProgress(n, kind)'
<1>1. msg' = msg /\ UNCHANGED <<queue, dlq>>
  BY DEF Finalize, broker, Return
<1> QED BY <1>1 DEF InProgress, curTask

LEMMA WriteNextProgress ==
  ASSUME IInv, WriteNext, NEW n, NEW kind, InProgress(n, kind),
         n # curTask \/ Head(todo)[1] # kind
  PROVE  InProgress(n, kind)'
<1>1. /\ todo \in Seq(Writes) /\ todo # <<>> /\ todo' = Tail(todo)
      /\ UNCHANGED <<queue, dlq, pc, msg, ok>>
  BY DEF WriteNext, broker, IInv, TypeOK
<1>2. CASE n # curTask
  BY <1>1, <1>2 DEF InProgress, curTask
<1>3. CASE Head(todo)[1] # kind
  <2>1. Pending(todo, kind) => Pending(todo', kind)
    BY <1>1, <1>3, PendingTail
  <2> QED BY <1>1, <2>1 DEF InProgress
<1> QED BY <1>2, <1>3

LEMMA WriteFailsProgress ==
  ASSUME WriteFails, NEW n, NEW kind, InProgress(n, kind)
  PROVE  InProgress(n, kind)'
<1>1. ~ok' /\ msg' = msg
  BY Zenon DEF WriteFails, Return
<1>2. UNCHANGED <<queue, dlq>>
  BY DEF WriteFails, broker
<1> QED BY <1>1, <1>2, GoOnProgress

\* A delivery that failed is published again or becomes a dead letter.
LEMMA SettleProgress ==
  ASSUME IInv, Settle, NEW n, NEW kind, InProgress(n, kind)
  PROVE  InProgress(n, kind)'
<1>1. queue \in Seq(Delivery) /\ pc = "write" /\ todo = <<>>
  BY DEF Settle, Returned, IInv, TypeOK
<1>2. CASE InQueue(queue, n) \/ n \in dlq
  <2>1. ~LastTry => Copy \in Delivery
    BY <1>1, CopyType
  <2>2. InQueue(queue, n) => InQueue(queue', n)
    BY <1>1, <2>1, QueueGrows DEF Settle
  <2>3. dlq \subseteq dlq'
    BY DEF Settle
  <2> QED BY <1>2, <2>2, <2>3 DEF InProgress
<1>3. CASE msg.task = n /\ ~ok
  <2>1. CASE LastTry
    <3>1. n \in dlq'
      BY <1>3, <2>1 DEF Settle, curTask
    <3> QED BY <3>1 DEF InProgress
  <2>2. CASE ~LastTry
    <3>1. Copy \in Delivery /\ Copy.task = n /\ queue' = Append(queue, Copy)
      BY <1>1, <1>3, <2>2, CopyType DEF Settle, Copy, curTask
    <3>2. InQueue(queue', n)
      BY <1>1, <3>1, QueueGrows
    <3> QED BY <3>2 DEF InProgress
  <2> QED BY <2>1, <2>2
<1> QED BY <1>1, <1>2, <1>3, NothingPending DEF InProgress

\* What the broker has not had settled it delivers again.
LEMMA CrashProgress ==
  ASSUME IInv, Crash, NEW n \in DOMAIN tasks, NEW kind, InProgress(n, kind)
  PROVE  InProgress(n, kind)'
<1> DEFINE back == IF msg = NoDelivery THEN queue ELSE <<msg>> \o queue
<1>1. queue \in Seq(Delivery) /\ (msg # NoDelivery => msg \in Delivery) /\ dlq' = dlq
  BY DEF Crash, IInv, TypeOK
<1>2. back \in Seq(Delivery)
  BY <1>1, ConsType
<1>3. InQueue(queue, n) => InQueue(back, n)
  BY <1>1, QueueGrows
<1>4. msg.task = n => InQueue(back, n)
  <2>1. msg.task = n => msg # NoDelivery
    BY TaskIdsOfRows DEF IInv
  <2> QED BY <1>1, <2>1, QueueGrows
<1> HIDE DEF back
<1>5. InQueue(back, n) => InQueue(queue', n)
  <2>1. CASE queue' = back
    BY <2>1
  <2>2. CASE Returned /\ ~LastTry /\ queue' = Append(back, Copy)
    <3>1. Copy \in Delivery
      BY <2>2, CopyType DEF Returned
    <3> QED BY <1>2, <2>2, <3>1, QueueGrows
  <2> QED BY <2>1, <2>2 DEF Crash, back
<1> QED BY <1>1, <1>3, <1>4, <1>5 DEF InProgress

LEMMA RestartProgress ==
  ASSUME IInv, WritesInv, Restart, NEW n \in DOMAIN tasks, NEW kind, InProgress(n, kind)
  PROVE  InProgress(n, kind)'
<1>1. msg.task # n
  BY TaskIdsOfRows DEF IInv, WritesInv, Restart
<1> QED BY <1>1 DEF InProgress, Restart, broker
-----------------------------------------------------------------------------
(* What is left to write.                                                  *)

LEMMA EmptyRequest ==
  /\ NoRequest \in ReqRec
  /\ NoRequest.step = "none" /\ NoRequest.todo = <<>> /\ NoRequest.task = 0
  /\ NoRequest.type = "create"
<1>1. NoRequest \in ReqRec
  BY NoRequestType DEF ReqRec
<1> QED BY <1>1 DEF NoRequest, Asked

\* A client asks for something, or locks what it asks for.
LEMMA AskEffect ==
  ASSUME IInv, NEW c \in Clients, Request(c) \/ BeginSnapshotRevert(c)
  PROVE  /\ \E r \in ReqRec :
              /\ req' = [req EXCEPT ![c] = r]
              /\ r.step \in {"task", "lock", "none"} /\ r.todo = <<>>
              /\ \A j \in Instances : inst'[j] = inst[j] \/ RequestReason(r, j, Reasons(inst'[j]))
         /\ req[c].step \in {"none", "lock"}
         /\ UNCHANGED <<tasks, status, domain, taken, queue, dlq, pc, msg, todo, ok, abandoned>>
<1> DEFINE effect ==
      /\ \E r \in ReqRec :
           /\ req' = [req EXCEPT ![c] = r]
           /\ r.step \in {"task", "lock", "none"} /\ r.todo = <<>>
           /\ \A j \in Instances : inst'[j] = inst[j] \/ RequestReason(r, j, Reasons(inst'[j]))
      /\ req[c].step \in {"none", "lock"}
      /\ UNCHANGED <<tasks, status, domain, taken, queue, dlq, pc, msg, todo, ok, abandoned>>
<1>0. "task" \in Steps /\ "lock" \in Steps /\ "none" \in Prior
  BY DEF Steps, Prior
<1>1. ASSUME NEW i \in Instances, CreateAsync(c, i) PROVE effect
  <2> DEFINE r == Asked("task", "create", i, AnySnapshot, "none")
  <2>1. r \in ReqRec
    BY <1>0, AnyType, AskedType DEF TaskTypes
  <2>2. r.step = "task" /\ r.todo = <<>>
    BY DEF Asked
  <2>3. req' = [req EXCEPT ![c] = r]
    BY <1>1 DEF CreateAsync
  <2>4. RequestReason(r, i, Reasons("creating"))
    BY DEF RequestReason, Reasons, Engaged, Asked
  <2>5. \A j \in Instances : inst'[j] = inst[j] \/ (j = i /\ inst'[j] = "creating")
    BY <1>1 DEF CreateAsync, IInv, TypeOK
  <2> HIDE DEF r
  <2> QED BY <1>1, <2>1, <2>2, <2>3, <2>4, <2>5 DEF CreateAsync, Ask, virt, broker, worker
<1>2. ASSUME NEW i \in Instances, NEW type \in Lifecycle, RequestInstanceAction(c, i, type)
      PROVE  effect
  <2> DEFINE r == Asked("task", type, i, AnySnapshot, "none")
  <2>1. r \in ReqRec
    BY <1>0, AnyType, AskedType DEF TaskTypes
  <2>2. r.step = "task" /\ r.todo = <<>>
    BY DEF Asked
  <2>3. req' = [req EXCEPT ![c] = r]
    BY <1>2 DEF RequestInstanceAction
  <2> HIDE DEF r
  <2> QED BY <1>2, <2>1, <2>2, <2>3 DEF RequestInstanceAction, Ask, db, virt, broker, worker
<1>3. ASSUME NEW i \in Instances, NEW s \in Snapshots, RequestSnapshotCreate(c, i, s)
      PROVE  effect
  <2> DEFINE r == Asked("task", "snapshot_create", i, s, inst[i])
  <2>1. r \in ReqRec
    BY <1>0, <1>3, AskedType DEF TaskTypes, SnapTypes, Prior, RequestSnapshotCreate
  <2>2. r.step = "task" /\ r.todo = <<>>
    BY DEF Asked
  <2>3. req' = [req EXCEPT ![c] = r]
    BY <1>3 DEF RequestSnapshotCreate
  <2>4. RequestReason(r, i, Reasons("snapshotting"))
    BY DEF RequestReason, Reasons, Engaged, Asked, SnapTypes
  <2>5. \A j \in Instances : inst'[j] = inst[j] \/ (j = i /\ inst'[j] = "snapshotting")
    BY <1>3 DEF RequestSnapshotCreate, IInv, TypeOK
  <2> HIDE DEF r
  <2> QED BY <1>3, <2>1, <2>2, <2>3, <2>4, <2>5 DEF RequestSnapshotCreate, Ask, virt, broker, worker
<1>4. ASSUME NEW s \in Snapshots, RequestSnapshotRevert(c, s) PROVE effect
  <2> DEFINE r == Asked("lock", "snapshot_revert", snap[s].inst, s, "none")
  <2>1. r \in ReqRec
    BY <1>0, AskedType DEF TaskTypes, SnapTypes, IInv, TypeOK
  <2>2. r.step = "lock" /\ r.todo = <<>>
    BY DEF Asked
  <2>3. req' = [req EXCEPT ![c] = r]
    BY <1>4 DEF RequestSnapshotRevert
  <2> HIDE DEF r
  <2> QED BY <1>4, <2>1, <2>2, <2>3 DEF RequestSnapshotRevert, Ask, db, virt, broker, worker
<1>5. ASSUME BeginSnapshotRevert(c) PROVE effect
  <2> DEFINE i == req[c].inst
             r == Asked("task", "snapshot_revert", i, req[c].snap, inst[i])
  <2>1. i \in Instances /\ req[c].snap \in Snapshots
    BY DEF IInv, TypeOK
  <2>2. /\ req[c].step = "lock"
        /\ UNCHANGED <<tasks, status, domain, taken, queue, dlq, pc, msg, todo, ok, abandoned>>
    BY <1>5 DEF BeginSnapshotRevert, virt, broker, worker
  <2>3. CASE inst[i] \in {"running", "stopped"}
    <3>1. r \in ReqRec
      BY <1>0, <2>1, <2>3, AskedType DEF TaskTypes, SnapTypes, Prior
    <3>2. r.step = "task" /\ r.todo = <<>>
      BY DEF Asked
    <3>3. req' = [req EXCEPT ![c] = r]
      BY <1>5, <2>3 DEF BeginSnapshotRevert
    <3>4. RequestReason(r, i, Reasons("snapshotting"))
      BY DEF RequestReason, Reasons, Engaged, Asked, SnapTypes
    <3>5. \A j \in Instances : inst'[j] = inst[j] \/ (j = i /\ inst'[j] = "snapshotting")
      BY <1>5, <2>3 DEF BeginSnapshotRevert, IInv, TypeOK
    <3> HIDE DEF r, i
    <3> QED BY <2>2, <3>1, <3>2, <3>3, <3>4, <3>5
  <2>4. CASE inst[i] \notin {"running", "stopped"}
    <3>1. req' = [req EXCEPT ![c] = NoRequest] /\ UNCHANGED inst
      BY <1>5, <2>4 DEF BeginSnapshotRevert
    <3> QED BY <2>2, <3>1, EmptyRequest
  <2> QED BY <2>3, <2>4
<1> QED BY <1>1, <1>2, <1>3, <1>4, <1>5 DEF Request

\* The request could not create or publish its task.
LEMMA FailEffect ==
  ASSUME IInv, NEW c \in Clients, RequestFails(c)
  PROVE  /\ req[c].step \in {"task", "publish"}
         /\ \E r \in ReqRec :
              /\ req' = [req EXCEPT ![c] = r]
              /\ r.step = "undo" /\ r.todo = Compensation(req[c]) /\ r.task = req[c].task
              /\ r.type = req[c].type /\ r.inst = req[c].inst /\ r.snap = req[c].snap
         /\ UNCHANGED <<inst, snap, snapStatus, tasks, status, domain, taken, queue, dlq,
                        pc, msg, todo, ok>>
<1> DEFINE r == Onward(req[c], "undo", req[c].task, Compensation(req[c]))
<1>1. req[c] \in ReqRec /\ req[c].task \in TaskIds \cup {0}
  BY DEF IInv, TypeOK, ReqRec
<1>2. r \in ReqRec
  BY <1>1, WritesOfRequests, OnwardType DEF RequestFails, IInv, Steps
<1>3. /\ r.step = "undo" /\ r.todo = Compensation(req[c]) /\ r.task = req[c].task
      /\ r.type = req[c].type /\ r.inst = req[c].inst /\ r.snap = req[c].snap
  BY DEF Onward
<1>4. req' = [req EXCEPT ![c] = r]
  BY DEF RequestFails, IInv, TypeOK
<1> HIDE DEF r
<1> QED BY <1>2, <1>3, <1>4 DEF RequestFails, db, virt, broker, worker

\* A compensation does its next write, or is through.
LEMMA UndoEffect ==
  ASSUME IInv, WritesInv, NEW c \in Clients, Undo(c)
  PROVE  /\ req[c].step = "undo"
         /\ UNCHANGED <<snap, tasks, domain, taken, queue, dlq, pc, msg, todo, ok, abandoned>>
         /\ \/ /\ req[c].todo = <<>> /\ req' = [req EXCEPT ![c] = NoRequest]
               /\ UNCHANGED <<inst, snapStatus, status>>
            \/ /\ req[c].todo # <<>> /\ Head(req[c].todo) \in QuietWrites
               /\ Write(Head(req[c].todo), req[c].task, req[c].inst, req[c].snap)
               /\ \E r \in ReqRec :
                    /\ req' = [req EXCEPT ![c] = r]
                    /\ r.step = "undo" /\ r.todo = Tail(req[c].todo) /\ r.task = req[c].task
                    /\ r.type = req[c].type /\ r.inst = req[c].inst
                    /\ r.snap = req[c].snap /\ r.todo \in Seq(QuietWrites)
<1> DEFINE r == Onward(req[c], "undo", req[c].task, Tail(req[c].todo))
<1>1. /\ req[c].step = "undo"
      /\ UNCHANGED <<snap, tasks, domain, taken, queue, dlq, pc, msg, todo, ok, abandoned>>
  BY DEF Undo, Write, db, virt, broker, worker
<1>2. CASE req[c].todo = <<>>
  BY <1>1, <1>2 DEF Undo, db
<1>3. CASE req[c].todo # <<>>
  <2>1. /\ req[c] \in ReqRec /\ req[c].task \in TaskIds \cup {0}
        /\ req[c].todo \in Seq(Writes)
    BY DEF IInv, TypeOK, ReqRec
  <2>2. Head(req[c].todo) \in QuietWrites /\ Tail(req[c].todo) \in Seq(QuietWrites)
    BY <1>3, HeadTailType DEF WritesInv
  <2>3. "undo" \in Steps /\ Tail(req[c].todo) \in Seq(Writes)
    BY <1>3, <2>1, HeadTailType DEF Steps
  <2>4. r \in ReqRec
    BY <2>1, <2>3, OnwardType
  <2>5. /\ r.step = "undo" /\ r.todo = Tail(req[c].todo) /\ r.task = req[c].task
        /\ r.type = req[c].type /\ r.inst = req[c].inst /\ r.snap = req[c].snap
    BY DEF Onward
  <2>6. /\ req' = [req EXCEPT ![c] = r]
        /\ Write(Head(req[c].todo), req[c].task, req[c].inst, req[c].snap)
    BY <1>3 DEF Undo, IInv, TypeOK
  <2> HIDE DEF r
  <2> QED BY <1>1, <1>3, <2>2, <2>4, <2>5, <2>6
<1> QED BY <1>2, <1>3

\* A request changes and is not about to publish a task.
LEMMA WritesOfRequest ==
  ASSUME IInv, WritesInv, NEW c \in Clients, NEW r \in ReqRec, req' = [req EXCEPT ![c] = r],
         r.todo \in Seq(QuietWrites), r.step # "publish", UNCHANGED <<tasks, pc, msg, todo>>
  PROVE  WritesInv'
<1>1. req \in [Clients -> ReqRec]
  BY DEF IInv, TypeOK, ReqRec
<1>2. \A d \in Clients : req'[d] = req[d] \/ (req'[d].todo \in Seq(QuietWrites)
                                               /\ req'[d].step # "publish")
  BY <1>1
<1>3. curType' = curType
  BY DEF curType, curTask
<1> QED BY <1>2, <1>3 DEF WritesInv

LEMMA WritesOfOthers ==
  ASSUME WritesInv, UNCHANGED <<req, tasks, pc, msg, todo>>
  PROVE  WritesInv'
BY DEF WritesInv, curType, curTask

\* The worker changes, its requests and tasks do not.
LEMMA WritesOfWorker ==
  ASSUME WritesInv, UNCHANGED <<req, tasks>>, todo' \in Seq(FinalWrites),
         pc' = "mark" => curType' = "destroy",
         pc' \in {"idle", "down"} => msg' = NoDelivery
  PROVE  WritesInv'
BY DEF WritesInv

LEMMA WritesOfCreateTask ==
  ASSUME IInv, WritesInv, NEW c \in Clients, CreateTask(c)
  PROVE  WritesInv'
<1> DEFINE row == [type |-> req[c].type, inst |-> req[c].inst,
                   snap |-> req[c].snap, prior |-> req[c].prior]
           r == Onward(req[c], "publish", Len(tasks) + 1, <<>>)
<1>1. Len(tasks) \in Nat /\ DOMAIN tasks = 1..Len(tasks) /\ req \in [Clients -> ReqRec]
  BY DEF IInv, TypeOK, ReqRec
<1>2. /\ \A n \in DOMAIN tasks : tasks'[n] = tasks[n]
      /\ tasks'[Len(tasks) + 1] = row
  BY <1>1 DEF CreateTask, IInv, TypeOK
<1>3. /\ req' = [req EXCEPT ![c] = r] /\ r.todo = <<>> /\ r.task = Len(tasks) + 1
      /\ r.inst = row.inst /\ r.type = row.type
  BY DEF CreateTask, Onward
<1>4. UNCHANGED <<pc, msg, todo>>
  BY DEF CreateTask, worker
<1>5. pc = "mark" => curType' = "destroy"
  <2>1. pc = "mark" => curTask \in DOMAIN tasks
    BY InHandType DEF IInv
  <2> QED BY <1>2, <1>4, <2>1 DEF WritesInv, curType, curTask
<1> HIDE DEF r, row
<1>6. \A d \in Clients : req'[d].todo \in Seq(QuietWrites)
  <2>1. r.todo \in Seq(QuietWrites)
    BY <1>3
  <2> QED BY <1>1, <1>3, <2>1 DEF WritesInv
<1>7. \A d \in Clients : req'[d].step = "publish" =>
        /\ tasks'[req'[d].task].inst = req'[d].inst
        /\ tasks'[req'[d].task].type = req'[d].type
  <2> SUFFICES ASSUME NEW d \in Clients, req'[d].step = "publish"
               PROVE  /\ tasks'[req'[d].task].inst = req'[d].inst
                      /\ tasks'[req'[d].task].type = req'[d].type
    OBVIOUS
  <2>1. CASE d = c
    <3>1. req'[d] = r
      BY <1>1, <1>3, <2>1
    <3> QED BY <1>2, <1>3, <3>1
  <2>2. CASE d # c
    <3>1. req'[d] = req[d] /\ req[d].task \in DOMAIN tasks
      BY <1>1, <1>3, <2>2 DEF IInv, RequestInv
    <3> QED BY <1>2, <3>1 DEF WritesInv
  <2> QED BY <2>1, <2>2
<1> QED BY <1>4, <1>5, <1>6, <1>7 DEF WritesInv

LEMMA WritesNext == IInv /\ WritesInv /\ [Next]_vars => WritesInv'
<1> SUFFICES ASSUME IInv, WritesInv, [Next]_vars PROVE WritesInv'
  OBVIOUS
<1>e. <<>> \in Seq(FinalWrites) /\ <<>> \in Seq(QuietWrites)
  OBVIOUS
<1>1. ASSUME NEW c \in Clients, Request(c) \/ BeginSnapshotRevert(c) PROVE WritesInv'
  <2>1. PICK r \in ReqRec : /\ req' = [req EXCEPT ![c] = r]
                            /\ r.step \in {"task", "lock", "none"} /\ r.todo = <<>>
    BY <1>1, AskEffect
  <2>2. UNCHANGED <<tasks, pc, msg, todo>>
    BY <1>1, AskEffect
  <2> QED BY <1>e, <2>1, <2>2, WritesOfRequest
<1>6. ASSUME NEW c \in Clients, CreateTask(c) PROVE WritesInv'
  BY <1>6, WritesOfCreateTask
<1>7. ASSUME NEW c \in Clients, PublishTask(c) PROVE WritesInv'
  BY <1>7, <1>e, EmptyRequest, WritesOfRequest DEF PublishTask, worker, db
<1>8. ASSUME NEW c \in Clients, RequestFails(c) PROVE WritesInv'
  <2>1. req[c].step \in {"task", "publish"} /\ UNCHANGED <<tasks, pc, msg, todo>>
    BY <1>8, FailEffect
  <2>2. PICK r \in ReqRec : /\ req' = [req EXCEPT ![c] = r]
                            /\ r.step = "undo" /\ r.todo = Compensation(req[c])
    BY <1>8, FailEffect
  <2>3. r.todo \in Seq(QuietWrites)
    BY <2>1, <2>2, FinalCompensation DEF IInv
  <2> QED BY <2>1, <2>2, <2>3, WritesOfRequest
<1>9. ASSUME NEW c \in Clients, Undo(c) PROVE WritesInv'
  <2>1. UNCHANGED <<tasks, pc, msg, todo>>
    BY <1>9, UndoEffect
  <2>2. CASE req[c].todo = <<>>
    <3>1. req' = [req EXCEPT ![c] = NoRequest]
      BY <1>9, <2>2, UndoEffect
    <3> QED BY <1>e, <2>1, <3>1, EmptyRequest, WritesOfRequest
  <2>3. CASE req[c].todo # <<>>
    <3>1. PICK r \in ReqRec : /\ req' = [req EXCEPT ![c] = r]
                              /\ r.step = "undo" /\ r.todo \in Seq(QuietWrites)
      BY <1>9, <2>3, UndoEffect
    <3> QED BY <2>1, <3>1, WritesOfRequest
  <2> QED BY <2>2, <2>3
<1>10. ASSUME NEW c \in Clients, RequestAborted(c) PROVE WritesInv'
  BY <1>10, <1>e, EmptyRequest, WritesOfRequest DEF RequestAborted, worker, db
<1>11. ASSUME Take PROVE WritesInv'
  BY <1>11, WritesOfWorker DEF Take, db, WritesInv
<1>12. ASSUME Begin PROVE WritesInv'
  <2>1. Goto("load") \/ Return(<<>>, FALSE)
    BY Zenon, <1>12 DEF Begin
  <2>2. (pc' = "load" /\ todo' = todo) \/ (pc' = "write" /\ todo' = <<>>)
    BY <2>1 DEF Goto, Return
  <2> QED BY <1>12, <1>e, <2>2, WritesOfWorker DEF Begin, WritesInv
<1>13. ASSUME Load PROVE WritesInv'
  <2> DEFINE writes == IF curType \in SnapTypes THEN OnError ELSE <<TaskFailed>>
  <2>1. writes \in Seq(FinalWrites)
    <3>1. OnError \in Seq(QuietWrites)
      BY <1>13, FinalWritesOfHandlers DEF IInv, Load
    <3>2. <<TaskFailed>> \in Seq(QuietWrites)
      BY FinalLiterals
    <3> QED BY <3>1, <3>2, QuietIsFinal
  <2>2. UNCHANGED <<req, tasks, msg>>
    BY <1>13 DEF Load, db, Goto, Return
  <2>3. CASE Goto(IF curType = "destroy" THEN "mark" ELSE "act")
    <3>1. todo' = todo /\ pc' \in {"mark", "act"} /\ (pc' = "mark" => curType' = "destroy")
      BY <2>2, <2>3 DEF Goto, curType, curTask
    <3> QED BY <2>2, <3>1, WritesOfWorker DEF WritesInv
  <2>4. CASE Return(writes, FALSE)
    <3>1. todo' = writes /\ pc' = "write"
      BY <2>4 DEF Return
    <3> HIDE DEF writes
    <3> QED BY <2>1, <2>2, <3>1, WritesOfWorker
  <2> QED BY Zenon, <1>13, <2>3, <2>4 DEF Load
<1>14. ASSUME MarkDeleting PROVE WritesInv'
  <2>1. Goto("act") \/ Return(<<TaskFailed>>, FALSE)
    BY Zenon, <1>14 DEF MarkDeleting
  <2>2. (pc' = "act" /\ todo' = todo) \/ (pc' = "write" /\ todo' = <<TaskFailed>>)
    BY <2>1 DEF Goto, Return
  <2>3. <<TaskFailed>> \in Seq(QuietWrites)
    BY FinalLiterals
  <2> QED BY <1>14, <2>2, <2>3, QuietIsFinal, WritesOfWorker DEF MarkDeleting, WritesInv
<1>15. ASSUME Act PROVE WritesInv'
  <2>1. Goto("finalize") \/ Return(OnSuccess, TRUE) \/ Return(OnError, FALSE)
    BY Zenon, <1>15 DEF Act
  <2>2. \/ pc' = "finalize" /\ todo' = todo
        \/ pc' = "write" /\ todo' = OnSuccess
        \/ pc' = "write" /\ todo' = OnError
    BY <2>1 DEF Goto, Return
  <2>3. OnError \in Seq(FinalWrites) /\ OnSuccess \in Seq(FinalWrites)
    BY <1>15, FinalWritesOfHandlers, QuietIsFinal DEF IInv, Act
  <2>4. UNCHANGED <<req, tasks>>
    BY <1>15 DEF Act, db
  <2> QED BY <2>2, <2>3, <2>4, WritesOfWorker DEF WritesInv
<1>16. ASSUME Finalize PROVE WritesInv'
  <2>1. Return(<<>>, TRUE) \/ Return(<<>>, FALSE)
    BY Zenon, <1>16 DEF Finalize
  <2>2. pc' = "write" /\ todo' = <<>>
    BY <2>1 DEF Return
  <2> QED BY <1>16, <1>e, <2>2, WritesOfWorker DEF Finalize
<1>17. ASSUME WriteNext PROVE WritesInv'
  <2>1. Tail(todo) \in Seq(FinalWrites)
    BY <1>17, HeadTailType DEF WriteNext, WritesInv
  <2> QED BY <1>17, <2>1, WritesOfWorker DEF WriteNext, Write
<1>18. ASSUME WriteFails PROVE WritesInv'
  <2> DEFINE writes == IF ok THEN GiveUp ELSE Tail(todo)
  <2>1. writes \in Seq(FinalWrites)
    <3>1. pc = "write" /\ todo # <<>>
      BY <1>18 DEF WriteFails
    <3>2. ok => GiveUp \in Seq(FinalWrites)
      BY <3>1, FinalGiveUp, QuietIsFinal DEF IInv
    <3>3. Tail(todo) \in Seq(FinalWrites)
      BY <3>1, HeadTailType DEF WritesInv
    <3> QED BY <3>2, <3>3
  <2>2. Return(writes, FALSE)
    BY Zenon, <1>18 DEF WriteFails
  <2>3. pc' = "write" /\ todo' = writes
    BY <2>2 DEF Return
  <2> HIDE DEF writes
  <2> QED BY <1>18, <2>1, <2>3, WritesOfWorker DEF WriteFails, db
<1>19. ASSUME Settle PROVE WritesInv'
  BY <1>19, <1>e, WritesOfWorker DEF Settle, Rest, db
<1>20. ASSUME Crash PROVE WritesInv'
  BY <1>20, <1>e, WritesOfWorker DEF Crash, Rest, db
<1>21. ASSUME Restart PROVE WritesInv'
  BY <1>21, <1>e, WritesOfWorker DEF Restart, Rest, db
<1>22. ASSUME SyncStep PROVE WritesInv'
  BY <1>22, WritesOfOthers DEF SyncStep, SyncDomains, SyncRows, SyncWrite, worker, db
<1>23. ASSUME NEW stale \in SUBSET DOMAIN tasks, Sweep(stale) PROVE WritesInv'
  BY <1>23, WritesOfOthers DEF Sweep, worker
<1>24. ASSUME NEW i \in Instances, GuestPowersOff(i) PROVE WritesInv'
  BY <1>24, WritesOfOthers DEF GuestPowersOff, worker, db
<1>25. ASSUME UNCHANGED vars PROVE WritesInv'
  BY <1>25, WritesOfOthers DEF vars, worker, db
<1>27. ASSUME NEW c \in Clients, ApiStep(c) PROVE WritesInv'
  BY <1>27, <1>1, <1>6, <1>7, <1>8, <1>9 DEF ApiStep
<1>28. ASSUME WorkerStep PROVE WritesInv'
  BY <1>28, <1>11, <1>12, <1>13, <1>14, <1>15, <1>16, <1>17, <1>19, <1>21 DEF WorkerStep
<1> QED BY <1>1, <1>8, <1>10, <1>18, <1>20, <1>22, <1>23, <1>24, <1>25, <1>27, <1>28 DEF Next
-----------------------------------------------------------------------------
(* No task is forgotten.                                                   *)

LEMMA OpenWorker ==
  ASSUME OpenInv, UNCHANGED <<req, tasks, abandoned>>,
         \A n \in DOMAIN tasks : status'[n] \in {"pending", "running"} =>
           \/ InProgress(n, "task")'
           \/ /\ status[n] \in {"pending", "running"}
              /\ InProgress(n, "task") => InProgress(n, "task")'
  PROVE  OpenInv'
<1> SUFFICES ASSUME NEW n \in DOMAIN tasks, status'[n] \in {"pending", "running"},
                    ~InProgress(n, "task")'
             PROVE  \/ \E c \in Clients : req[c].task = n /\ Engaged(req[c], "task")
                    \/ \E a \in abandoned : a.task = n
  BY DEF OpenInv, Engaged, Pending
<1>1. status[n] \in {"pending", "running"} /\ ~InProgress(n, "task")
  OBVIOUS
<1> QED BY <1>1 DEF OpenInv

LEMMA OpenRequest ==
  ASSUME IInv, OpenInv, NEW c \in Clients, NEW r \in ReqRec, req' = [req EXCEPT ![c] = r],
         UNCHANGED tasks, abandoned \subseteq abandoned',
         \A n \in DOMAIN tasks : status'[n] \in {"pending", "running"} =>
           /\ status[n] \in {"pending", "running"}
           /\ InProgress(n, "task") => InProgress(n, "task")'
           /\ req[c].task = n /\ Engaged(req[c], "task") =>
                \/ r.task = n /\ Engaged(r, "task")
                \/ InProgress(n, "task")'
                \/ \E a \in abandoned' : a.task = n
  PROVE  OpenInv'
<1> SUFFICES ASSUME NEW n \in DOMAIN tasks, status'[n] \in {"pending", "running"},
                    ~InProgress(n, "task")', ~\E a \in abandoned' : a.task = n
             PROVE  \E d \in Clients : req'[d].task = n /\ Engaged(req'[d], "task")
  BY DEF OpenInv, Engaged, Pending
<1>1. PICK d \in Clients : req[d].task = n /\ Engaged(req[d], "task")
  BY DEF OpenInv
<1>2. req'[c] = r /\ \A e \in Clients : e # c => req'[e] = req[e]
  BY DEF IInv, TypeOK
<1>3. CASE d = c
  BY <1>1, <1>2, <1>3
<1>4. CASE d # c
  BY <1>1, <1>2, <1>4
<1> QED BY <1>3, <1>4

LEMMA OpenCreateTask ==
  ASSUME IInv, OpenInv, NEW c \in Clients, CreateTask(c)
  PROVE  OpenInv'
<1> DEFINE r == Onward(req[c], "publish", Len(tasks) + 1, <<>>)
<1>1. /\ Len(tasks) \in Nat /\ DOMAIN tasks = 1..Len(tasks) /\ req \in [Clients -> ReqRec]
      /\ DOMAIN tasks' = 1..(Len(tasks) + 1)
  BY DEF IInv, TypeOK, ReqRec, CreateTask
<1>2. req' = [req EXCEPT ![c] = r] /\ r.task = Len(tasks) + 1 /\ r.step = "publish"
  BY DEF CreateTask, Onward
<1>3. /\ req[c].step = "task" /\ UNCHANGED <<abandoned, queue, dlq, worker>>
      /\ \A n \in DOMAIN tasks : status'[n] = status[n]
  BY <1>1 DEF CreateTask, broker
<1> HIDE DEF r
<1>4. ASSUME NEW n \in DOMAIN tasks', status'[n] \in {"pending", "running"}
      PROVE  \/ InProgress(n, "task")'
             \/ \E d \in Clients : req'[d].task = n /\ Engaged(req'[d], "task")
             \/ \E a \in abandoned' : a.task = n
  <2>1. CASE n = Len(tasks) + 1
    <3>1. req'[c].task = n /\ Engaged(req'[c], "task")
      BY <1>1, <1>2, <2>1 DEF Engaged
    <3> QED BY <3>1
  <2>2. CASE n # Len(tasks) + 1
    <3>1. n \in DOMAIN tasks /\ status[n] \in {"pending", "running"}
      BY <1>1, <1>3, <1>4, <2>2
    <3>2. CASE InProgress(n, "task")
      BY <1>3, <3>2, ProgressFrame
    <3>3. CASE \E d \in Clients : req[d].task = n /\ Engaged(req[d], "task")
      <4>1. PICK d \in Clients : req[d].task = n /\ Engaged(req[d], "task")
        BY <3>3
      <4>2. d # c
        BY <1>3, <4>1 DEF Engaged
      <4> QED BY <1>1, <1>2, <4>1, <4>2
    <3>4. CASE \E a \in abandoned : a.task = n
      BY <1>3, <3>4
    <3> QED BY <3>1, <3>2, <3>3, <3>4 DEF OpenInv
  <2> QED BY <2>1, <2>2
<1> QED BY <1>4 DEF OpenInv, Engaged, Pending

LEMMA AbandonEffect ==
  ASSUME NEW c \in Clients, Abandon(req[c])
  PROVE  /\ abandoned \subseteq abandoned'
         /\ \E a \in abandoned' : a.inst = req[c].inst /\ a.task = req[c].task
<1> DEFINE a == [inst |-> req[c].inst, task |-> req[c].task]
<1>1. a.inst = req[c].inst /\ a.task = req[c].task
  OBVIOUS
<1>2. abandoned' = abandoned \cup {a}
  BY DEF Abandon
<1> HIDE DEF a
<1> QED BY <1>1, <1>2

LEMMA OpenNext == IInv /\ WritesInv /\ OpenInv /\ [Next]_vars => OpenInv'
<1> SUFFICES ASSUME IInv, WritesInv, OpenInv, [Next]_vars PROVE OpenInv'
  OBVIOUS
<1>1. ASSUME NEW c \in Clients, Request(c) \/ BeginSnapshotRevert(c) PROVE OpenInv'
  <2>1. PICK r \in ReqRec : req' = [req EXCEPT ![c] = r]
    BY <1>1, AskEffect
  <2>2. ~Engaged(req[c], "task")
    BY <1>1, AskEffect DEF Engaged
  <2>3. UNCHANGED <<tasks, status, abandoned, queue, dlq, worker>>
    BY <1>1, AskEffect DEF worker
  <2> QED BY <2>1, <2>2, <2>3, ProgressFrame, OpenRequest
<1>2. ASSUME NEW c \in Clients, CreateTask(c) PROVE OpenInv'
  BY <1>2, OpenCreateTask
<1>3. ASSUME NEW c \in Clients, PublishTask(c) PROVE OpenInv'
  <2>1. req' = [req EXCEPT ![c] = NoRequest] /\ UNCHANGED <<tasks, status, abandoned>>
    BY <1>3 DEF PublishTask, db
  <2> QED BY <1>3, <2>1, EmptyRequest, PublishProgress, OpenRequest
<1>4. ASSUME NEW c \in Clients, RequestFails(c) PROVE OpenInv'
  <2>1. /\ req[c].step \in {"task", "publish"}
        /\ UNCHANGED <<tasks, status, queue, dlq, worker>>
    BY <1>4, FailEffect DEF worker
  <2>2. PICK r \in ReqRec : /\ req' = [req EXCEPT ![c] = r]
                            /\ r.step = "undo" /\ r.todo = Compensation(req[c])
                            /\ r.task = req[c].task
    BY <1>4, FailEffect
  <2>3. Engaged(req[c], "task") => Engaged(r, "task")
    <3>1. req[c].step = "publish" => Pending(Compensation(req[c]), "task")
      BY <2>1, FinalCompensation DEF IInv
    <3> QED BY <2>1, <2>2, <3>1 DEF Engaged
  <2>4. abandoned \subseteq abandoned'
    BY <1>4 DEF RequestFails, Abandon
  <2> QED BY <2>1, <2>2, <2>3, <2>4, ProgressFrame, OpenRequest
<1>5. ASSUME NEW c \in Clients, RequestAborted(c) PROVE OpenInv'
  <2>1. /\ req' = [req EXCEPT ![c] = NoRequest]
        /\ UNCHANGED <<tasks, status, queue, dlq, worker>>
    BY <1>5 DEF RequestAborted, db, broker
  <2>2. abandoned \subseteq abandoned' /\ \E a \in abandoned' : a.task = req[c].task
    BY <1>5, AbandonEffect DEF RequestAborted
  <2>3. \A n \in DOMAIN tasks : InProgress(n, "task") => InProgress(n, "task")'
    BY <2>1, ProgressFrame
  <2>4. NoRequest \in ReqRec
    BY EmptyRequest
  <2> HIDE DEF NoRequest
  <2> QED BY <2>1, <2>2, <2>3, <2>4, OpenRequest
<1>6. ASSUME NEW c \in Clients, Undo(c) PROVE OpenInv'
  <2>1. req[c].step = "undo" /\ UNCHANGED <<tasks, abandoned, queue, dlq, worker>>
    BY <1>6, UndoEffect DEF worker
  <2>2. CASE req[c].todo = <<>>
    <3>1. req' = [req EXCEPT ![c] = NoRequest] /\ UNCHANGED status
      BY <1>6, <2>2, UndoEffect
    <3>2. ~Engaged(req[c], "task")
      BY <2>1, <2>2, NothingPending DEF Engaged
    <3> QED BY <2>1, <3>1, <3>2, EmptyRequest, ProgressFrame, OpenRequest
  <2>3. CASE req[c].todo # <<>>
    <3> DEFINE w == Head(req[c].todo)
    <3>1. /\ w \in FinalWrites
          /\ Write(w, req[c].task, req[c].inst, req[c].snap)
      BY <1>6, <2>3, UndoEffect DEF QuietWrites
    <3>2. PICK r \in ReqRec : /\ req' = [req EXCEPT ![c] = r]
                              /\ r.step = "undo" /\ r.todo = Tail(req[c].todo)
                              /\ r.task = req[c].task
      BY <1>6, <2>3, UndoEffect
    <3>3. \A n \in DOMAIN tasks : status'[n] \in {"pending", "running"} =>
            status'[n] = status[n] /\ (n # req[c].task \/ w[1] # "task")
      <4>1. w[1] = "task" => w[2] \in {"succeeded", "failed"}
        BY <3>1 DEF FinalWrites
      <4> QED BY <3>1, <4>1 DEF Write, IInv, TypeOK
    <3>4. Engaged(req[c], "task") => Engaged(r, "task") \/ w[1] = "task"
      <4>1. Pending(req[c].todo, "task") => Pending(r.todo, "task") \/ w[1] = "task"
        BY <2>3, <3>2, PendingTail DEF WritesInv
      <4> QED BY <2>1, <3>2, <4>1 DEF Engaged
    <3> HIDE DEF w
    <3>5. \A n \in DOMAIN tasks : status'[n] \in {"pending", "running"} =>
            /\ status[n] \in {"pending", "running"}
            /\ InProgress(n, "task") => InProgress(n, "task")'
            /\ req[c].task = n /\ Engaged(req[c], "task") => r.task = n /\ Engaged(r, "task")
      BY <2>1, <3>2, <3>3, <3>4, ProgressFrame
    <3> QED BY <2>1, <3>2, <3>5, OpenRequest
  <2> QED BY <2>2, <2>3
<1>7. ASSUME Take PROVE OpenInv'
  <2>1. UNCHANGED <<req, tasks, status, abandoned>>
    BY <1>7 DEF Take, db
  <2> QED BY <1>7, <2>1, TakeProgress, OpenWorker
<1>8. ASSUME Begin PROVE OpenInv'
  <2>1. UNCHANGED <<req, tasks, abandoned>>
    BY <1>8 DEF Begin
  <2>2. \A n \in DOMAIN tasks : n = curTask \/ status'[n] = status[n]
    BY <1>8 DEF Begin, IInv, TypeOK
  <2> QED BY <1>8, <2>1, <2>2, BeginProgress, OpenWorker
<1>9. ASSUME Load PROVE OpenInv'
  <2>1. UNCHANGED <<req, tasks, status, abandoned>>
    BY <1>9 DEF Load, db
  <2> QED BY <1>9, <2>1, LoadProgress, OpenWorker
<1>10. ASSUME MarkDeleting PROVE OpenInv'
  <2>1. UNCHANGED <<req, tasks, status, abandoned>>
    BY <1>10 DEF MarkDeleting
  <2> QED BY <1>10, <2>1, MarkDeletingProgress, OpenWorker
<1>11. ASSUME Act PROVE OpenInv'
  <2>1. UNCHANGED <<req, tasks, status, abandoned>>
    BY <1>11 DEF Act, db
  <2> QED BY <1>11, <2>1, ActProgress, OpenWorker
<1>12. ASSUME Finalize PROVE OpenInv'
  <2>1. UNCHANGED <<req, tasks, abandoned>>
    BY <1>12 DEF Finalize
  <2>2. \A n \in DOMAIN tasks : status'[n] \in {"pending", "running"} =>
          status'[n] = status[n] /\ (n # curTask \/ ~ok')
    <3>1. CASE status' = [status EXCEPT ![curTask] = "succeeded"]
      BY <3>1 DEF IInv, TypeOK
    <3>2. CASE Return(<<>>, FALSE) /\ UNCHANGED status
      <4>1. ~ok'
        BY Zenon, <3>2 DEF Return
      <4> QED BY <3>2, <4>1
    <3> QED BY Zenon, <1>12, <3>1, <3>2 DEF Finalize
  <2> QED BY <1>12, <2>1, <2>2, FinalizeProgress, OpenWorker
<1>13. ASSUME WriteNext PROVE OpenInv'
  <2>1. UNCHANGED <<req, tasks, abandoned>>
    BY <1>13 DEF WriteNext, Write
  <2>2. \A n \in DOMAIN tasks : status'[n] \in {"pending", "running"} =>
          status'[n] = status[n] /\ (n # curTask \/ Head(todo)[1] # "task")
    <3>1. Head(todo) \in FinalWrites
      BY <1>13, HeadTailType DEF WriteNext, WritesInv
    <3>2. Head(todo)[1] = "task" => Head(todo)[2] \in {"succeeded", "failed"}
      BY <3>1 DEF FinalWrites
    <3> QED BY <1>13, <3>2 DEF WriteNext, Write, IInv, TypeOK
  <2> QED BY <1>13, <2>1, <2>2, WriteNextProgress, OpenWorker
<1>14. ASSUME WriteFails PROVE OpenInv'
  <2>1. UNCHANGED <<req, tasks, status, abandoned>>
    BY <1>14 DEF WriteFails, db
  <2> QED BY <1>14, <2>1, WriteFailsProgress, OpenWorker
<1>15. ASSUME Settle PROVE OpenInv'
  <2>1. UNCHANGED <<req, tasks, status, abandoned>>
    BY <1>15 DEF Settle, db
  <2> QED BY <1>15, <2>1, SettleProgress, OpenWorker
<1>16. ASSUME Crash PROVE OpenInv'
  <2>1. UNCHANGED <<req, tasks, status, abandoned>>
    BY <1>16 DEF Crash, db
  <2> QED BY <1>16, <2>1, CrashProgress, OpenWorker
<1>17. ASSUME Restart PROVE OpenInv'
  <2>1. UNCHANGED <<req, tasks, status, abandoned>>
    BY <1>17 DEF Restart, db
  <2> QED BY <1>17, <2>1, RestartProgress, OpenWorker
<1>18. ASSUME SyncStep \/ (\E i \in Instances : GuestPowersOff(i)) \/ UNCHANGED vars
       PROVE  OpenInv'
  <2>1. UNCHANGED <<req, tasks, status, abandoned, queue, dlq, worker>>
    BY <1>18 DEF SyncStep, SyncDomains, SyncRows, SyncWrite, GuestPowersOff, vars, db, broker
  <2> QED BY <2>1, ProgressFrame, OpenWorker
<1>19. ASSUME NEW stale \in SUBSET DOMAIN tasks, Sweep(stale) PROVE OpenInv'
  <2>1. UNCHANGED <<req, tasks, abandoned, queue, dlq, worker>>
    BY <1>19 DEF Sweep, broker
  <2>2. \A n \in DOMAIN tasks : status'[n] \in {"pending", "running"} => status'[n] = status[n]
    BY <1>19 DEF Sweep
  <2> QED BY <2>1, <2>2, ProgressFrame, OpenWorker
<1>20. ASSUME NEW c \in Clients, ApiStep(c) PROVE OpenInv'
  BY <1>20, <1>1, <1>2, <1>3, <1>4, <1>6 DEF ApiStep
<1>21. ASSUME WorkerStep PROVE OpenInv'
  BY <1>21, <1>7, <1>8, <1>9, <1>10, <1>11, <1>12, <1>13, <1>15, <1>17 DEF WorkerStep
<1> QED BY <1>1, <1>4, <1>5, <1>14, <1>16, <1>18, <1>19, <1>20, <1>21 DEF Next
-----------------------------------------------------------------------------
(* No transient state is an orphan.                                        *)

\* What is left to write leaves no instance in a transient state.
LEMMA StableWrite ==
  ASSUME IInv, NEW w \in FinalWrites, NEW n, NEW i \in Instances, NEW s, Write(w, n, i, s)
  PROVE  \A j \in Instances : inst'[j] \in Transient =>
           inst'[j] = inst[j] /\ (j # i \/ w[1] # "inst")
<1>1. w[1] = "inst" => w[2] \in Stable
  BY DEF FinalWrites
<1> QED BY <1>1 DEF Write, IInv, TypeOK, Exists, States, Transient, Stable

LEMMA OwnedWorker ==
  ASSUME OwnedInv, UNCHANGED <<req, tasks, abandoned>>,
         \A i \in Instances : inst'[i] \in Transient =>
           \/ TaskReason(i, Reasons(inst[i]))'
           \/ /\ inst'[i] = inst[i]
              /\ \A n \in DOMAIN tasks :
                   tasks[n].inst = i /\ InProgress(n, "inst") => InProgress(n, "inst")'
  PROVE  OwnedInv'
<1> SUFFICES ASSUME NEW i \in Instances, inst'[i] \in Transient,
                    ~TaskReason(i, Reasons(inst[i]))'
             PROVE  \/ \E c \in Clients : RequestReason(req[c], i, Reasons(inst[i]))'
                    \/ \E a \in abandoned : a.inst = i
  BY DEF OwnedInv, ReasonFor
<1>1. inst'[i] = inst[i] /\ ~TaskReason(i, Reasons(inst[i]))
  BY DEF TaskReason
<1>2. ReasonFor(i, Reasons(inst[i]))
  BY <1>1 DEF OwnedInv
<1>3. \A c \in Clients : RequestReason(req[c], i, Reasons(inst[i]))
                           => RequestReason(req[c], i, Reasons(inst[i]))'
  BY <1>1 DEF RequestReason, Engaged, Pending, Reasons
<1> QED BY <1>1, <1>2, <1>3 DEF ReasonFor

LEMMA OwnedRequest ==
  ASSUME IInv, OwnedInv, NEW c \in Clients, NEW r \in ReqRec, req' = [req EXCEPT ![c] = r],
         UNCHANGED tasks, abandoned \subseteq abandoned',
         \A n \in DOMAIN tasks : InProgress(n, "inst") => InProgress(n, "inst")',
         \A i \in Instances : inst'[i] \in Transient =>
           \/ RequestReason(r, i, Reasons(inst'[i]))
           \/ /\ inst'[i] = inst[i]
              /\ RequestReason(req[c], i, Reasons(inst[i])) =>
                   TaskReason(i, Reasons(inst[i]))' \/ \E a \in abandoned' : a.inst = i
  PROVE  OwnedInv'
<1> SUFFICES ASSUME NEW i \in Instances, inst'[i] \in Transient,
                    ~TaskReason(i, Reasons(inst[i]))', ~\E a \in abandoned' : a.inst = i
             PROVE  \E d \in Clients : RequestReason(req'[d], i, Reasons(inst'[i]))
  BY DEF OwnedInv, ReasonFor, RequestReason, Engaged, Pending
<1>1. req'[c] = r /\ \A e \in Clients : e # c => req'[e] = req[e]
  BY DEF IInv, TypeOK
<1>2. CASE RequestReason(r, i, Reasons(inst'[i]))
  BY <1>1, <1>2
<1>3. CASE ~RequestReason(r, i, Reasons(inst'[i]))
  <2>1. inst'[i] = inst[i] /\ ~RequestReason(req[c], i, Reasons(inst[i]))
    BY <1>3
  <2>2. ~TaskReason(i, Reasons(inst[i]))
    BY <2>1 DEF TaskReason
  <2>3. ReasonFor(i, Reasons(inst[i]))
    BY <2>1 DEF OwnedInv
  <2>4. PICK d \in Clients : RequestReason(req[d], i, Reasons(inst[i]))
    BY <2>2, <2>3 DEF ReasonFor
  <2>5. d # c
    BY <2>1, <2>4
  <2> QED BY <1>1, <2>1, <2>4, <2>5
<1> QED BY <1>2, <1>3

LEMMA OwnedCreateTask ==
  ASSUME IInv, OwnedInv, NEW c \in Clients, CreateTask(c)
  PROVE  OwnedInv'
<1> DEFINE r == Onward(req[c], "publish", Len(tasks) + 1, <<>>)
<1>1. /\ Len(tasks) \in Nat /\ DOMAIN tasks = 1..Len(tasks) /\ req \in [Clients -> ReqRec]
      /\ DOMAIN tasks' = 1..(Len(tasks) + 1)
      /\ \A n \in DOMAIN tasks : tasks'[n] = tasks[n]
  BY DEF IInv, TypeOK, ReqRec, CreateTask
<1>2. /\ req' = [req EXCEPT ![c] = r]
      /\ r.step = "publish" /\ r.type = req[c].type /\ r.inst = req[c].inst
  BY DEF CreateTask, Onward
<1>3. UNCHANGED <<inst, abandoned, queue, dlq, worker>>
  BY DEF CreateTask, broker
<1> HIDE DEF r
<1>4. ASSUME NEW i \in Instances, inst[i] \in Transient
      PROVE  \/ TaskReason(i, Reasons(inst[i]))'
             \/ \E d \in Clients : RequestReason(req'[d], i, Reasons(inst[i]))
             \/ \E a \in abandoned' : a.inst = i
  <2>1. CASE TaskReason(i, Reasons(inst[i]))
    <3>1. PICK n \in DOMAIN tasks : /\ tasks[n].inst = i /\ tasks[n].type \in Reasons(inst[i])
                                    /\ InProgress(n, "inst")
      BY <2>1 DEF TaskReason
    <3>2. n \in DOMAIN tasks' /\ tasks'[n] = tasks[n] /\ InProgress(n, "inst")'
      BY <1>1, <1>3, <3>1, ProgressFrame
    <3> QED BY <1>3, <3>1, <3>2 DEF TaskReason, Reasons
  <2>2. ASSUME NEW d \in Clients, RequestReason(req[d], i, Reasons(inst[i]))
        PROVE  RequestReason(req'[d], i, Reasons(inst[i]))
    <3>1. CASE d = c
      <4>1. req'[d] = r
        BY <1>1, <1>2, <3>1
      <4> QED BY <1>2, <2>2, <3>1, <4>1 DEF RequestReason, Engaged
    <3>2. CASE d # c
      BY <1>1, <1>2, <2>2, <3>2
    <3> QED BY <3>1, <3>2
  <2> QED BY <1>3, <1>4, <2>1, <2>2 DEF OwnedInv, ReasonFor
<1> QED BY <1>3, <1>4 DEF OwnedInv, ReasonFor, RequestReason, Engaged, Pending, Reasons

LEMMA OwnedNext == IInv /\ WritesInv /\ OwnedInv /\ [Next]_vars => OwnedInv'
<1> SUFFICES ASSUME IInv, WritesInv, OwnedInv, [Next]_vars PROVE OwnedInv'
  OBVIOUS
<1>1. ASSUME NEW c \in Clients, Request(c) \/ BeginSnapshotRevert(c) PROVE OwnedInv'
  <2>1. PICK r \in ReqRec :
          /\ req' = [req EXCEPT ![c] = r]
          /\ \A j \in Instances : inst'[j] = inst[j] \/ RequestReason(r, j, Reasons(inst'[j]))
    BY <1>1, AskEffect
  <2>2. ~Engaged(req[c], "inst")
    BY <1>1, AskEffect DEF Engaged
  <2>3. UNCHANGED <<tasks, abandoned, queue, dlq, worker>>
    BY <1>1, AskEffect DEF worker
  <2>4. \A n \in DOMAIN tasks : InProgress(n, "inst") => InProgress(n, "inst")'
    BY <2>3, ProgressFrame
  <2> QED BY <2>1, <2>2, <2>3, <2>4, OwnedRequest DEF RequestReason
<1>2. ASSUME NEW c \in Clients, CreateTask(c) PROVE OwnedInv'
  BY <1>2, OwnedCreateTask
<1>3. ASSUME NEW c \in Clients, PublishTask(c) PROVE OwnedInv'
  <2>1. req' = [req EXCEPT ![c] = NoRequest] /\ UNCHANGED <<inst, tasks, abandoned>>
    BY <1>3 DEF PublishTask, db
  <2>2. PICK n \in DOMAIN tasks : /\ n = req[c].task
                                 /\ tasks[n].inst = req[c].inst /\ tasks[n].type = req[c].type
    BY <1>3 DEF PublishTask, IInv, RequestInv, WritesInv
  <2>3. InProgress(n, "inst")'
    BY <1>3, <2>2, PublishProgress
  <2>4. ASSUME NEW i \in Instances, RequestReason(req[c], i, Reasons(inst[i]))
        PROVE  TaskReason(i, Reasons(inst[i]))'
    BY <2>1, <2>2, <2>3, <2>4 DEF TaskReason, RequestReason, Reasons
  <2>5. \A m \in DOMAIN tasks : InProgress(m, "inst") => InProgress(m, "inst")'
    BY <1>3, PublishProgress
  <2> QED BY <2>1, <2>4, <2>5, EmptyRequest, OwnedRequest
<1>4. ASSUME NEW c \in Clients, RequestFails(c) PROVE OwnedInv'
  <2>1. /\ req[c].step \in {"task", "publish"}
        /\ UNCHANGED <<inst, tasks, queue, dlq, worker>>
    BY <1>4, FailEffect DEF worker
  <2>2. PICK r \in ReqRec : /\ req' = [req EXCEPT ![c] = r]
                            /\ r.step = "undo" /\ r.todo = Compensation(req[c])
                            /\ r.type = req[c].type /\ r.inst = req[c].inst
    BY <1>4, FailEffect
  <2>3. /\ req[c].type \in SnapTypes => Pending(r.todo, "inst")
        /\ req[c].type = "create" /\ req[c].step = "publish" => Pending(r.todo, "inst")
    BY <2>1, <2>2, FinalCompensation DEF IInv
  <2>4. /\ abandoned \subseteq abandoned'
        /\ req[c].type = "create" /\ req[c].step = "task" =>
             \E a \in abandoned' : a.inst = req[c].inst
    BY <1>4, AbandonEffect DEF RequestFails
  <2>5. ASSUME NEW i \in Instances, RequestReason(req[c], i, Reasons(inst[i]))
        PROVE  RequestReason(r, i, Reasons(inst[i])) \/ \E a \in abandoned' : a.inst = i
    BY <2>1, <2>2, <2>3, <2>4, <2>5 DEF RequestReason, Engaged, Reasons
  <2>6. \A n \in DOMAIN tasks : InProgress(n, "inst") => InProgress(n, "inst")'
    BY <2>1, ProgressFrame
  <2> QED BY <2>1, <2>2, <2>4, <2>5, <2>6, OwnedRequest
<1>5. ASSUME NEW c \in Clients, RequestAborted(c) PROVE OwnedInv'
  <2>1. /\ req' = [req EXCEPT ![c] = NoRequest]
        /\ UNCHANGED <<inst, tasks, queue, dlq, worker>>
    BY <1>5 DEF RequestAborted, db, broker
  <2>2. abandoned \subseteq abandoned' /\ \E a \in abandoned' : a.inst = req[c].inst
    BY <1>5, AbandonEffect DEF RequestAborted
  <2>3. \A n \in DOMAIN tasks : InProgress(n, "inst") => InProgress(n, "inst")'
    BY <2>1, ProgressFrame
  <2>4. NoRequest \in ReqRec
    BY EmptyRequest
  <2> HIDE DEF NoRequest
  <2> QED BY <2>1, <2>2, <2>3, <2>4, OwnedRequest DEF RequestReason
<1>6. ASSUME NEW c \in Clients, Undo(c) PROVE OwnedInv'
  <2>1. req[c].step = "undo" /\ UNCHANGED <<tasks, abandoned, queue, dlq, worker>>
    BY <1>6, UndoEffect DEF worker
  <2>2. \A n \in DOMAIN tasks : InProgress(n, "inst") => InProgress(n, "inst")'
    BY <2>1, ProgressFrame
  <2>3. CASE req[c].todo = <<>>
    <3>1. req' = [req EXCEPT ![c] = NoRequest] /\ UNCHANGED inst
      BY <1>6, <2>3, UndoEffect
    <3>2. ~Engaged(req[c], "inst")
      BY <2>1, <2>3, NothingPending DEF Engaged
    <3> QED BY <2>1, <2>2, <3>1, <3>2, EmptyRequest, OwnedRequest DEF RequestReason
  <2>4. CASE req[c].todo # <<>>
    <3> DEFINE w == Head(req[c].todo)
    <3>1. /\ w \in FinalWrites
          /\ Write(w, req[c].task, req[c].inst, req[c].snap)
      BY <1>6, <2>4, UndoEffect DEF QuietWrites
    <3>2. PICK r \in ReqRec : /\ req' = [req EXCEPT ![c] = r]
                              /\ r.step = "undo" /\ r.todo = Tail(req[c].todo)
                              /\ r.type = req[c].type /\ r.inst = req[c].inst
      BY <1>6, <2>4, UndoEffect
    <3>3. req[c].inst \in Instances
      BY DEF IInv, TypeOK
    <3>4. \A i \in Instances : inst'[i] \in Transient =>
            inst'[i] = inst[i] /\ (i # req[c].inst \/ w[1] # "inst")
      BY <3>1, <3>3, StableWrite
    <3>5. Pending(req[c].todo, "inst") => Pending(r.todo, "inst") \/ w[1] = "inst"
      BY <2>4, <3>2, PendingTail DEF WritesInv
    <3> HIDE DEF w
    <3>6. \A i \in Instances : inst'[i] \in Transient =>
            /\ inst'[i] = inst[i]
            /\ RequestReason(req[c], i, Reasons(inst[i])) => RequestReason(r, i, Reasons(inst'[i]))
      BY <2>1, <3>2, <3>4, <3>5 DEF RequestReason, Engaged
    <3> QED BY <2>1, <2>2, <3>2, <3>6, OwnedRequest
  <2> QED BY <2>3, <2>4
<1>7. ASSUME Take PROVE OwnedInv'
  <2>1. UNCHANGED <<inst, req, tasks, abandoned>>
    BY <1>7 DEF Take, db
  <2> QED BY <1>7, <2>1, TakeProgress, OwnedWorker
<1>8. ASSUME Begin PROVE OwnedInv'
  <2>1. UNCHANGED <<inst, req, tasks, abandoned>>
    BY <1>8 DEF Begin
  <2> QED BY <1>8, <2>1, BeginProgress, OwnedWorker
<1>9. ASSUME Load PROVE OwnedInv'
  <2>1. UNCHANGED <<inst, req, tasks, abandoned>>
    BY <1>9 DEF Load, db
  <2> QED BY <1>9, <2>1, LoadProgress, OwnedWorker
<1>10. ASSUME MarkDeleting PROVE OwnedInv'
  <2>1. UNCHANGED <<req, tasks, abandoned>>
    BY <1>10 DEF MarkDeleting
  <2>2. \A n \in DOMAIN tasks : InProgress(n, "inst") => InProgress(n, "inst")'
    BY <1>10, MarkDeletingProgress
  <2>3. PICK n \in DOMAIN tasks : n = curTask /\ tasks[n].inst = curInst /\ tasks[n].type = "destroy"
    BY <1>10, InHandType DEF MarkDeleting, IInv, WritesInv, curInst, curType
  <2>4. InProgress(n, "inst")'
    BY <1>10, <2>3, MarkDeletingProgress
  <2>5. \A i \in Instances : inst'[i] = inst[i] \/ (i = curInst /\ inst'[i] = "deleting")
    BY <1>10 DEF MarkDeleting, IInv, TypeOK
  <2>6. \A i \in Instances : inst'[i] = inst[i] \/ TaskReason(i, Reasons(inst[i]))'
    <3> HIDE DEF curTask, curInst
    <3> QED BY <2>1, <2>3, <2>4, <2>5 DEF TaskReason, Reasons
  <2> QED BY <2>1, <2>2, <2>6, OwnedWorker
<1>11. ASSUME Act PROVE OwnedInv'
  <2>1. UNCHANGED <<inst, req, tasks, abandoned>>
    BY <1>11 DEF Act, db
  <2> QED BY <1>11, <2>1, ActProgress, OwnedWorker
<1>12. ASSUME Finalize PROVE OwnedInv'
  <2>1. UNCHANGED <<req, tasks, abandoned>>
    BY <1>12 DEF Finalize
  <2>2. \A i \in Instances : inst'[i] \in Transient => inst'[i] = inst[i] /\ (i # curInst \/ ~ok')
    <3>1. CASE inst' = [inst EXCEPT ![curInst] = "gone"]
      BY <3>1 DEF IInv, TypeOK, Transient
    <3>2. CASE Return(<<>>, FALSE) /\ UNCHANGED inst
      <4>1. ~ok'
        BY Zenon, <3>2 DEF Return
      <4> QED BY <3>2, <4>1
    <3> QED BY Zenon, <1>12, <3>1, <3>2 DEF Finalize
  <2>3. \A i \in Instances : inst'[i] \in Transient => \A n \in DOMAIN tasks :
          tasks[n].inst = i /\ InProgress(n, "inst") => InProgress(n, "inst")'
    BY <1>12, <2>2, FinalizeProgress DEF curInst
  <2> QED BY <2>1, <2>2, <2>3, OwnedWorker
<1>13. ASSUME WriteNext PROVE OwnedInv'
  <2>1. UNCHANGED <<req, tasks, abandoned>>
    BY <1>13 DEF WriteNext, Write
  <2>2. Head(todo) \in FinalWrites /\ curInst \in Instances
    BY <1>13, HeadTailType, InHandType DEF WriteNext, WritesInv, IInv
  <2>3. \A i \in Instances : inst'[i] \in Transient =>
          inst'[i] = inst[i] /\ (i # curInst \/ Head(todo)[1] # "inst")
    BY <1>13, <2>2, StableWrite DEF WriteNext
  <2>4. \A i \in Instances : inst'[i] \in Transient => \A n \in DOMAIN tasks :
          tasks[n].inst = i /\ InProgress(n, "inst") => InProgress(n, "inst")'
    BY <1>13, <2>3, WriteNextProgress DEF curInst
  <2> QED BY <2>1, <2>3, <2>4, OwnedWorker
<1>14. ASSUME WriteFails PROVE OwnedInv'
  <2>1. UNCHANGED <<inst, req, tasks, abandoned>>
    BY <1>14 DEF WriteFails, db
  <2> QED BY <1>14, <2>1, WriteFailsProgress, OwnedWorker
<1>15. ASSUME Settle PROVE OwnedInv'
  <2>1. UNCHANGED <<inst, req, tasks, abandoned>>
    BY <1>15 DEF Settle, db
  <2> QED BY <1>15, <2>1, SettleProgress, OwnedWorker
<1>16. ASSUME Crash PROVE OwnedInv'
  <2>1. UNCHANGED <<inst, req, tasks, abandoned>>
    BY <1>16 DEF Crash, db
  <2> QED BY <1>16, <2>1, CrashProgress, OwnedWorker
<1>17. ASSUME Restart PROVE OwnedInv'
  <2>1. UNCHANGED <<inst, req, tasks, abandoned>>
    BY <1>17 DEF Restart, db
  <2> QED BY <1>17, <2>1, RestartProgress, OwnedWorker
<1>18. ASSUME \/ SyncStep \/ (\E i \in Instances : GuestPowersOff(i)) \/ UNCHANGED vars
              \/ \E stale \in SUBSET DOMAIN tasks : Sweep(stale)
       PROVE  OwnedInv'
  <2>1. UNCHANGED <<req, tasks, abandoned, queue, dlq, worker>>
    BY <1>18 DEF SyncStep, SyncDomains, SyncRows, SyncWrite, GuestPowersOff, Sweep, vars, db, broker
  <2>2. \A i \in Instances : inst'[i] \in Transient => inst'[i] = inst[i]
    <3>1. CASE SyncWrite
      <4>1. \A u \in sync.upd : u[2] \in {"running", "stopped"}
        BY DEF IInv, TypeOK
      <4> QED BY <3>1, <4>1 DEF SyncWrite, Transient
    <3>2. CASE \E stale \in SUBSET DOMAIN tasks : Sweep(stale)
      BY <3>2 DEF Sweep, Transient
    <3>3. CASE SyncDomains \/ SyncRows \/ (\E i \in Instances : GuestPowersOff(i)) \/ UNCHANGED vars
      BY <3>3 DEF SyncDomains, SyncRows, GuestPowersOff, vars, db
    <3> QED BY <1>18, <3>1, <3>2, <3>3 DEF SyncStep
  <2> QED BY <2>1, <2>2, ProgressFrame, OwnedWorker
<1>20. ASSUME NEW c \in Clients, ApiStep(c) PROVE OwnedInv'
  BY <1>20, <1>1, <1>2, <1>3, <1>4, <1>6 DEF ApiStep
<1>21. ASSUME WorkerStep PROVE OwnedInv'
  BY <1>21, <1>7, <1>8, <1>9, <1>10, <1>11, <1>12, <1>13, <1>15, <1>17 DEF WorkerStep
<1> QED BY <1>1, <1>4, <1>5, <1>14, <1>16, <1>18, <1>20, <1>21 DEF Next
-----------------------------------------------------------------------------
(* The theorems about tasks and states.                                    *)

LEMMA OwnershipInit == Init => OwnershipInv
<1> SUFFICES ASSUME Init PROVE OwnershipInv
  OBVIOUS
<1>1. IInv
  BY InitInv
<1>2. todo \in Seq(FinalWrites) /\ \A c \in Clients : req[c].todo \in Seq(QuietWrites)
  <2>1. <<>> \in Seq(FinalWrites) /\ <<>> \in Seq(QuietWrites)
    OBVIOUS
  <2> QED BY <2>1, EmptyRequest DEF Init
<1>3. WritesInv
  BY <1>2, EmptyRequest DEF Init, WritesInv
<1>4. OpenInv
  BY DEF Init, OpenInv
<1>5. OwnedInv
  BY DEF Init, OwnedInv, Transient
<1> QED BY <1>1, <1>3, <1>4, <1>5 DEF OwnershipInv

\* The inductive invariant: the lifecycle's own, the writes a handler or a
\* compensation still has to do end what it began, every open task is in
\* progress, and every transient state has its reason.
THEOREM Ownership == Spec => []OwnershipInv
<1>1. Init => OwnershipInv
  BY OwnershipInit
<1>2. OwnershipInv /\ [Next]_vars => OwnershipInv'
  BY NextInv, WritesNext, OpenNext, OwnedNext DEF OwnershipInv
<1> QED BY <1>1, <1>2, PTL DEF Spec

\* A task whose status is pending or running is never forgotten: its message
\* waits or is being processed, a request has yet to publish or to close it, it
\* is a dead letter, or its request was abandoned - whatever is retried,
\* redelivered, swept and lost in between.
THEOREM NoTaskForgotten == Spec => []OpenTasksAreInHand
<1>1. OwnershipInv => OpenTasksAreInHand
  BY DEF OwnershipInv, OpenInv, OpenTasksAreInHand, InProgress, InQueue, InHand
<1> QED BY <1>1, Ownership, PTL

\* No orphan state: creating, snapshotting and deleting always have a task or a
\* request of that kind under way, a dead letter, or an abandoned request, so no
\* sequence of retries, syncs and sweeps locks an instance by itself.
THEOREM NoOrphanState == Spec => []TransientStatesAreOwned
<1>1. ASSUME OwnershipInv, NEW i \in Instances, inst[i] \in Transient
      PROVE  Owned(i, Reasons(inst[i]))
  <2>1. ReasonFor(i, Reasons(inst[i]))
    BY <1>1 DEF OwnershipInv, OwnedInv
  <2>2. TaskReason(i, Reasons(inst[i])) => Owned(i, Reasons(inst[i]))
    BY DEF TaskReason, Owned, InProgress, InQueue, InHand
  <2>3. \A c \in Clients : RequestReason(req[c], i, Reasons(inst[i])) =>
          Owned(i, Reasons(inst[i]))
    BY DEF RequestReason, Engaged, Owned
  <2> QED BY <2>1, <2>2, <2>3 DEF ReasonFor, Owned
<1>2. OwnershipInv => TransientStatesAreOwned
  BY <1>1 DEF TransientStatesAreOwned, Transient, Reasons
<1> QED BY <1>2, Ownership, PTL
-----------------------------------------------------------------------------
(* What is offered as a snapshot is one.                                   *)

LEMMA SnapshotOfRow ==
  ASSUME TypeOK, NEW n \in DOMAIN tasks
  PROVE  tasks[n].snap \in Snapshots
<1>1. tasks \in Seq([type : TaskTypes, inst : Instances, snap : Snapshots, prior : Prior])
  BY DEF TypeOK
<1>2. tasks[n] \in [type : TaskTypes, inst : Instances, snap : Snapshots, prior : Prior]
  BY <1>1, ElementType
<1> QED BY <1>2

LEMMA SnapRowsStep ==
  ASSUME IInv, SnapRowsInv, UNCHANGED <<snap, tasks>>, taken \subseteq taken',
         \A s \in Snapshots : snapStatus[s] # "none" => snapStatus'[s] # "none",
         \A s \in Snapshots : snapStatus'[s] = "available" =>
           snapStatus[s] = "available" \/ s \in taken',
         \A s \in taken' : s \in taken \/ snapStatus[s] # "none",
         \A s \in taken' : domain'[snap[s].inst] # "undefined",
         taken' \subseteq Snapshots
  PROVE  SnapRowsInv'
<1>1. \A n \in DOMAIN tasks : tasks[n].snap \in Snapshots
  BY SnapshotOfRow DEF IInv
<1>2. (\A n \in DOMAIN tasks : Owns(tasks[n]))'
  BY <1>1 DEF SnapRowsInv, Owns
<1>3. (\A s \in taken : snapStatus[s] # "none" /\ domain[snap[s].inst] # "undefined")'
  BY DEF SnapRowsInv
<1> QED BY <1>2, <1>3 DEF SnapRowsInv

LEMMA SnapRowsStay ==
  ASSUME SnapRowsInv, UNCHANGED <<snap, snapStatus, tasks, taken, domain>>
  PROVE  SnapRowsInv'
BY DEF SnapRowsInv, Owns

LEMMA SnapRequestsStep ==
  ASSUME IInv, SnapRequestsInv, UNCHANGED snap, NEW c \in Clients, NEW r \in ReqRec,
         req' = [req EXCEPT ![c] = r],
         \A s \in Snapshots : snapStatus[s] # "none" => snapStatus'[s] # "none",
         r.type \in SnapTypes => snapStatus[r.snap] # "none" /\ snap[r.snap].inst = r.inst,
         r.step = "lock" => r.type \in SnapTypes
  PROVE  SnapRequestsInv'
<1>1. req \in [Clients -> ReqRec]
  BY DEF IInv, TypeOK, ReqRec
<1>2. \A d \in Clients : req[d].snap \in Snapshots /\ r.snap \in Snapshots
  BY <1>1 DEF ReqRec
<1>3. \A d \in Clients : req'[d] = IF d = c THEN r ELSE req[d]
  BY <1>1
<1> QED BY <1>2, <1>3 DEF SnapRequestsInv, Owns

LEMMA SnapRequestsStay ==
  ASSUME IInv, SnapRequestsInv, UNCHANGED <<req, snap>>,
         \A s \in Snapshots : snapStatus[s] # "none" => snapStatus'[s] # "none"
  PROVE  SnapRequestsInv'
<1>1. \A d \in Clients : req[d].snap \in Snapshots
  BY DEF IInv, TypeOK
<1> QED BY <1>1 DEF SnapRequestsInv, Owns

LEMMA SnapTodoStay ==
  ASSUME SnapTodoInv, UNCHANGED <<tasks, pc, msg, todo>>, taken \subseteq taken'
  PROVE  SnapTodoInv'
BY DEF SnapTodoInv, curSnap, curTask

LEMMA SnapTodoQuiet ==
  ASSUME pc' = "write" => todo' \in Seq(QuietWrites)
  PROVE  SnapTodoInv'
<1>1. pc' = "write" => \A k \in DOMAIN todo' : todo'[k] # <<"snap", "available">>
  BY ElementType DEF QuietWrites
<1> QED BY <1>1 DEF SnapTodoInv

LEMMA SnapWrite ==
  ASSUME IInv, NEW w \in FinalWrites, NEW n, NEW i, NEW s \in Snapshots, Write(w, n, i, s)
  PROVE  \A t \in Snapshots :
           /\ snapStatus[t] # "none" => snapStatus'[t] # "none"
           /\ snapStatus'[t] = "available" =>
                snapStatus[t] = "available" \/ (t = s /\ w = <<"snap", "available">>)
<1>1. /\ w[1] = "snap" => w[2] \in {"available", "error"}
      /\ w[1] = "snap" /\ w[2] = "available" => w = <<"snap", "available">>
  BY DEF FinalWrites
<1> QED BY <1>1 DEF Write, IInv, TypeOK

\* A domain is undefined only when it has no snapshots, or was before.
LEMMA UndefinedLate ==
  ASSUME NEW x \in Domains, curType \in TaskTypes, NEW d \in Success(x) \cup Failure(x),
         d = "undefined"
  PROVE  x = "undefined" \/ Undefinable(curInst)
<1>1. CASE d \in Failure(x)
  BY <1>1 DEF Failure
<1>2. CASE d \in Success(x)
  <2>1. CASE curType \in {"create", "destroy"}
    BY <1>2, <2>1 DEF Success
  <2>2. CASE curType \in {"start", "stop", "reboot"}
    BY <1>2, <2>2 DEF Success, ShutDown
  <2>3. CASE curType = "snapshot_create"
    BY <1>2, <2>3 DEF Success, Snapped
  <2>4. CASE curType = "snapshot_revert"
    BY <1>2, <2>4 DEF Success, Reverted
  <2> QED BY <2>1, <2>2, <2>3, <2>4 DEF TaskTypes, Lifecycle, SnapTypes
<1> QED BY <1>1, <1>2

LEMMA ActSnapshot ==
  ASSUME IInv, WritesInv, SnapshotInv, Act
  PROVE  SnapshotInv'
<1> DEFINE x == domain[curInst]
<1>1. pc = "act" /\ UNCHANGED <<snap, snapStatus, tasks, req, msg>>
  BY DEF Act, db, Goto, Return
<1>2. /\ curTask \in DOMAIN tasks /\ curType \in TaskTypes
      /\ curInst \in Instances /\ curSnap \in Snapshots /\ x \in Domains
  BY <1>1, InHandType DEF IInv, TypeOK, Domains
<1>3. \A s \in taken : s \in Snapshots /\ snap[s].inst \in Instances
  BY DEF IInv, TypeOK
<1>4. PICK d \in Success(x) \cup Failure(x) : domain' = [domain EXCEPT ![curInst] = d]
  BY DEF Act
<1>5. \A s \in taken : domain'[snap[s].inst] # "undefined"
  <2> SUFFICES ASSUME NEW s \in taken PROVE domain'[snap[s].inst] # "undefined"
    OBVIOUS
  <2>1. domain[snap[s].inst] # "undefined"
    BY DEF SnapshotInv, SnapRowsInv
  <2>2. CASE snap[s].inst = curInst
    <3>1. ~Undefinable(curInst) /\ x # "undefined"
      BY <2>1, <2>2 DEF Undefinable
    <3>2. d # "undefined"
      BY <1>2, <3>1, UndefinedLate
    <3> QED BY <1>2, <1>4, <2>2, <3>2 DEF IInv, TypeOK
  <2>3. CASE snap[s].inst # curInst
    BY <1>3, <1>4, <2>1, <2>3 DEF IInv, TypeOK
  <2> QED BY <2>2, <2>3
<1>6. SnapRequestsInv'
  BY <1>1, SnapRequestsStay DEF SnapshotInv
<1>7. /\ OnError \in Seq(QuietWrites) /\ OnSuccess \in Seq(FinalWrites)
      /\ curType # "snapshot_create" => OnSuccess \in Seq(QuietWrites)
  BY <1>1, FinalWritesOfHandlers DEF IInv
<1>8. CASE curType = "snapshot_create" /\ Return(OnSuccess, TRUE)
  <2>1. /\ domain' \in {[domain EXCEPT ![curInst] = e] : e \in Success(x)}
        /\ taken' = taken \cup {curSnap}
    <3>1. pc' = "write" /\ todo' = OnSuccess /\ ok'
      BY Zenon, <1>8 DEF Return
    <3>2. ~Return(OnError, FALSE)
      BY Zenon, <3>1 DEF Return
    <3> QED BY <1>8, <3>2 DEF Act
  <2>2. domain'[curInst] # "undefined"
    BY <1>2, <1>8, <2>1 DEF Success, Snapped, IInv, TypeOK
  <2>3. Owns(tasks[curTask])
    BY <1>2 DEF SnapshotInv, SnapRowsInv
  <2>4. snapStatus[curSnap] # "none" /\ snap[curSnap].inst = curInst
    BY <1>8, <2>3 DEF Owns, SnapTypes, curType, curSnap, curInst
  <2>5. SnapRowsInv'
    <3>1. \A s \in taken' : s \in Snapshots /\ (s \in taken \/ snapStatus[s] # "none")
                            /\ domain'[snap[s].inst] # "undefined"
      <4> HIDE DEF curSnap, curInst
      <4> QED BY <1>2, <1>3, <1>5, <2>1, <2>2, <2>4
    <3> QED BY <1>1, <2>1, <3>1, SnapRowsStep DEF SnapshotInv
  <2>6. SnapTodoInv'
    <3>1. curSnap' = curSnap
      BY <1>1 DEF curSnap, curTask
    <3> QED BY <2>1, <3>1 DEF SnapTodoInv
  <2> QED BY <1>6, <2>5, <2>6 DEF SnapshotInv
<1>9. CASE ~(curType = "snapshot_create" /\ Return(OnSuccess, TRUE))
  <2>1. taken' = taken
    BY <1>9 DEF Act
  <2>2. Goto("finalize") \/ (curType # "snapshot_create" /\ Return(OnSuccess, TRUE))
          \/ Return(OnError, FALSE)
    BY Zenon, <1>9 DEF Act
  <2>3. pc' = "write" => todo' \in Seq(QuietWrites)
    <3>1. CASE Goto("finalize")
      BY <3>1 DEF Goto
    <3>2. CASE curType # "snapshot_create" /\ Return(OnSuccess, TRUE)
      BY <1>7, <3>2 DEF Return
    <3>3. CASE Return(OnError, FALSE)
      BY <1>7, <3>3 DEF Return
    <3> QED BY <2>2, <3>1, <3>2, <3>3
  <2>4. SnapTodoInv'
    BY <2>3, SnapTodoQuiet
  <2>5. SnapRowsInv'
    <3>1. taken' \subseteq Snapshots
      BY <2>1 DEF IInv, TypeOK
    <3> QED BY <1>1, <1>5, <2>1, <3>1, SnapRowsStep DEF SnapshotInv
  <2> QED BY <1>6, <2>4, <2>5 DEF SnapshotInv
<1> QED BY <1>8, <1>9

\* A new row is written while there is none, so nothing refers to it yet.
LEMMA SnapshotCreateSnapshot ==
  ASSUME IInv, SnapshotInv, NEW c \in Clients, NEW i \in Instances, NEW s \in Snapshots,
         RequestSnapshotCreate(c, i, s)
  PROVE  SnapshotInv'
<1> DEFINE r == Asked("task", "snapshot_create", i, s, inst[i])
<1>1. /\ snapStatus[s] = "none" /\ snapStatus' = [snapStatus EXCEPT ![s] = "creating"]
      /\ req' = [req EXCEPT ![c] = r]
      /\ UNCHANGED <<domain, taken, tasks, pc, msg, todo>>
  BY DEF RequestSnapshotCreate, virt, worker
<1>2. snap' = [snap EXCEPT ![s] = [inst |-> i, wasRunning |-> inst[i] = "running"]]
  BY DEF RequestSnapshotCreate
<1>3. /\ \A t \in Snapshots : t # s => snap'[t] = snap[t] /\ snapStatus'[t] = snapStatus[t]
      /\ snap'[s].inst = i /\ snapStatus'[s] = "creating"
  BY <1>1, <1>2 DEF IInv, TypeOK
<1>4. r.type = "snapshot_create" /\ r.snap = s /\ r.inst = i /\ r.step = "task"
  BY DEF Asked
<1> HIDE DEF r
<1>5. ASSUME NEW q, Owns(q), q.snap \in Snapshots
      PROVE  q.type \in SnapTypes => snapStatus'[q.snap] # "none" /\ snap'[q.snap].inst = q.inst
  BY <1>1, <1>3, <1>5 DEF Owns
<1>6. SnapRowsInv'
  <2>1. \A t \in taken : t # s /\ t \in Snapshots
    BY <1>1 DEF SnapshotInv, SnapRowsInv, IInv, TypeOK
  <2>2. \A n \in DOMAIN tasks : tasks[n].type \in SnapTypes =>
          snapStatus'[tasks[n].snap] # "none" /\ snap'[tasks[n].snap].inst = tasks[n].inst
    BY <1>1, <1>3, SnapshotOfRow DEF SnapshotInv, SnapRowsInv, Owns, IInv
  <2>3. \A t \in taken : snapStatus'[t] # "none" /\ domain'[snap'[t].inst] # "undefined"
    BY <1>1, <1>3, <2>1 DEF SnapshotInv, SnapRowsInv
  <2>4. \A t \in Snapshots : snapStatus'[t] = "available" => t \in taken
    BY <1>3 DEF SnapshotInv, SnapRowsInv
  <2> QED BY <1>1, <2>2, <2>3, <2>4 DEF SnapRowsInv, Owns
<1>7. SnapRequestsInv'
  <2>1. req \in [Clients -> ReqRec]
    BY DEF IInv, TypeOK, ReqRec
  <2>2. \A d \in Clients : req[d].type \in SnapTypes =>
          snapStatus'[req[d].snap] # "none" /\ snap'[req[d].snap].inst = req[d].inst
    <3>1. \A d \in Clients : req[d].snap \in Snapshots
      BY <2>1 DEF ReqRec
    <3> QED BY <1>1, <1>3, <3>1 DEF SnapshotInv, SnapRequestsInv, Owns
  <2>3. \A d \in Clients : req'[d] = IF d = c THEN r ELSE req[d]
    BY <1>1, <2>1
  <2> QED BY <1>3, <1>4, <2>2, <2>3 DEF SnapshotInv, SnapRequestsInv, Owns
<1>8. SnapTodoInv'
  BY <1>1, SnapTodoStay DEF SnapshotInv
<1> QED BY <1>6, <1>7, <1>8 DEF SnapshotInv

\* Everything else a client or the API server does to its request.
LEMMA SnapshotOfRequest ==
  ASSUME IInv, SnapshotInv, NEW c \in Clients, NEW r \in ReqRec, req' = [req EXCEPT ![c] = r],
         r.type \in SnapTypes => snapStatus[r.snap] # "none" /\ snap[r.snap].inst = r.inst,
         r.step = "lock" => r.type \in SnapTypes,
         UNCHANGED <<snap, snapStatus, tasks, taken, domain, pc, msg, todo>>
  PROVE  SnapshotInv'
BY SnapRowsStay, SnapRequestsStep, SnapTodoStay DEF SnapshotInv

LEMMA SnapshotAsk ==
  ASSUME IInv, SnapshotInv, NEW c \in Clients, Request(c) \/ BeginSnapshotRevert(c)
  PROVE  SnapshotInv'
<1>0. "task" \in Steps /\ "lock" \in Steps /\ "none" \in Prior
  BY DEF Steps, Prior
<1>1. ASSUME NEW i \in Instances, CreateAsync(c, i) PROVE SnapshotInv'
  <2> DEFINE r == Asked("task", "create", i, AnySnapshot, "none")
  <2>1. r \in ReqRec
    BY <1>0, AnyType, AskedType DEF TaskTypes
  <2>2. r.step = "task" /\ r.type \notin SnapTypes
    BY DEF Asked, SnapTypes
  <2>3. /\ req' = [req EXCEPT ![c] = r]
        /\ UNCHANGED <<snap, snapStatus, tasks, taken, domain, pc, msg, todo>>
    BY <1>1 DEF CreateAsync, virt, worker
  <2> HIDE DEF r
  <2> QED BY <2>1, <2>2, <2>3, SnapshotOfRequest
<1>2. ASSUME NEW i \in Instances, NEW type \in Lifecycle, RequestInstanceAction(c, i, type)
      PROVE  SnapshotInv'
  <2> DEFINE r == Asked("task", type, i, AnySnapshot, "none")
  <2>1. r \in ReqRec
    BY <1>0, AnyType, AskedType DEF TaskTypes
  <2>2. r.step = "task" /\ r.type \notin SnapTypes
    BY DEF Asked, SnapTypes, Lifecycle
  <2>3. /\ req' = [req EXCEPT ![c] = r]
        /\ UNCHANGED <<snap, snapStatus, tasks, taken, domain, pc, msg, todo>>
    BY <1>2 DEF RequestInstanceAction, db, virt, worker
  <2> HIDE DEF r
  <2> QED BY <2>1, <2>2, <2>3, SnapshotOfRequest
<1>3. ASSUME NEW s \in Snapshots, RequestSnapshotRevert(c, s) PROVE SnapshotInv'
  <2> DEFINE r == Asked("lock", "snapshot_revert", snap[s].inst, s, "none")
  <2>1. r \in ReqRec
    BY <1>0, AskedType DEF TaskTypes, SnapTypes, IInv, TypeOK
  <2>2. r.type \in SnapTypes /\ r.snap = s /\ r.inst = snap[s].inst
    BY DEF Asked, SnapTypes
  <2>3. /\ req' = [req EXCEPT ![c] = r] /\ snapStatus[s] = "available"
        /\ UNCHANGED <<snap, snapStatus, tasks, taken, domain, pc, msg, todo>>
    BY <1>3 DEF RequestSnapshotRevert, db, virt, worker
  <2> HIDE DEF r
  <2> QED BY <2>1, <2>2, <2>3, SnapshotOfRequest
<1>4. ASSUME BeginSnapshotRevert(c) PROVE SnapshotInv'
  <2> DEFINE i == req[c].inst
             r == Asked("task", "snapshot_revert", i, req[c].snap, inst[i])
  <2>1. UNCHANGED <<snap, snapStatus, tasks, taken, domain, pc, msg, todo>>
    BY <1>4 DEF BeginSnapshotRevert, virt, worker
  <2>2. CASE inst[i] \in {"running", "stopped"}
    <3>1. i \in Instances /\ req[c].snap \in Snapshots
      BY DEF IInv, TypeOK
    <3>2. r \in ReqRec
      BY <1>0, <2>2, <3>1, AskedType DEF TaskTypes, SnapTypes, Prior
    <3>3. r.type \in SnapTypes /\ r.snap = req[c].snap /\ r.inst = req[c].inst
      BY DEF Asked, SnapTypes
    <3>4. snapStatus[req[c].snap] # "none" /\ snap[req[c].snap].inst = req[c].inst
      BY <1>4 DEF BeginSnapshotRevert, SnapshotInv, SnapRequestsInv, Owns
    <3>5. req' = [req EXCEPT ![c] = r]
      BY <1>4, <2>2 DEF BeginSnapshotRevert
    <3> HIDE DEF r
    <3> QED BY <2>1, <3>2, <3>3, <3>4, <3>5, SnapshotOfRequest
  <2>3. CASE inst[i] \notin {"running", "stopped"}
    <3>1. req' = [req EXCEPT ![c] = NoRequest]
      BY <1>4, <2>3 DEF BeginSnapshotRevert
    <3>2. NoRequest.type \notin SnapTypes
      BY EmptyRequest DEF SnapTypes
    <3> QED BY <2>1, <3>1, <3>2, EmptyRequest, SnapshotOfRequest
  <2> QED BY <2>2, <2>3
<1> QED BY <1>1, <1>2, <1>3, <1>4, SnapshotCreateSnapshot DEF Request

LEMMA SnapshotCreateTask ==
  ASSUME IInv, SnapshotInv, NEW c \in Clients, CreateTask(c)
  PROVE  SnapshotInv'
<1> DEFINE row == [type |-> req[c].type, inst |-> req[c].inst,
                   snap |-> req[c].snap, prior |-> req[c].prior]
           r == Onward(req[c], "publish", Len(tasks) + 1, <<>>)
<1>1. /\ Len(tasks) \in Nat /\ DOMAIN tasks = 1..Len(tasks) /\ req \in [Clients -> ReqRec]
      /\ DOMAIN tasks' = 1..(Len(tasks) + 1)
      /\ \A n \in DOMAIN tasks : tasks'[n] = tasks[n]
      /\ tasks'[Len(tasks) + 1] = row
  BY DEF IInv, TypeOK, ReqRec, CreateTask
<1>2. /\ row.type = req[c].type /\ row.inst = req[c].inst /\ row.snap = req[c].snap
      /\ r.step = "publish" /\ r.type = req[c].type /\ r.inst = req[c].inst
      /\ r.snap = req[c].snap
  BY DEF Onward
<1>3. /\ req' = [req EXCEPT ![c] = r]
      /\ UNCHANGED <<snap, snapStatus, taken, domain, pc, msg, todo>>
  BY DEF CreateTask, virt, worker
<1> HIDE DEF row, r
<1>4. SnapRowsInv'
  BY <1>1, <1>2, <1>3 DEF SnapshotInv, SnapRowsInv, SnapRequestsInv, Owns
<1>5. SnapRequestsInv'
  <2>1. \A d \in Clients : req'[d] = IF d = c THEN r ELSE req[d]
    BY <1>1, <1>3
  <2> QED BY <1>2, <1>3, <2>1 DEF SnapshotInv, SnapRequestsInv, Owns
<1>6. SnapTodoInv'
  <2>1. pc = "write" => curTask \in DOMAIN tasks
    BY InHandType DEF IInv
  <2>2. pc = "write" => curSnap' = curSnap
    BY <1>1, <1>3, <2>1 DEF curSnap, curTask
  <2> QED BY <1>3, <2>2 DEF SnapshotInv, SnapTodoInv
<1> QED BY <1>4, <1>5, <1>6 DEF SnapshotInv

\* A step of the worker that touches neither snapshots nor libvirt.
LEMMA SnapshotOfWorker ==
  ASSUME IInv, SnapshotInv, UNCHANGED <<req, snap, snapStatus, tasks, taken, domain>>,
         pc' = "write" => todo' \in Seq(QuietWrites)
  PROVE  SnapshotInv'
BY SnapRowsStay, SnapRequestsStay, SnapTodoQuiet DEF SnapshotInv

LEMMA SnapshotWriteNext ==
  ASSUME IInv, WritesInv, SnapshotInv, WriteNext
  PROVE  SnapshotInv'
<1> DEFINE w == Head(todo)
<1>1. /\ pc = "write" /\ todo # <<>> /\ todo' = Tail(todo) /\ todo \in Seq(FinalWrites)
      /\ Write(w, curTask, curInst, curSnap)
      /\ UNCHANGED <<snap, tasks, req, taken, domain, pc, msg>>
  BY DEF WriteNext, WritesInv, Write, virt
<1>2. w \in FinalWrites /\ curSnap \in Snapshots
  BY <1>1, HeadTailType, InHandType DEF IInv
<1>3. w = <<"snap", "available">> => curSnap \in taken
  <2>1. 1 \in DOMAIN todo /\ w = todo[1]
    BY <1>1
  <2> QED BY <1>1, <2>1 DEF SnapshotInv, SnapTodoInv
<1> HIDE DEF w
<1>4. \A t \in Snapshots :
        /\ snapStatus[t] # "none" => snapStatus'[t] # "none"
        /\ snapStatus'[t] = "available" => snapStatus[t] = "available" \/ t \in taken
  BY <1>1, <1>2, <1>3, SnapWrite
<1>5. SnapRowsInv'
  <2>1. \A s \in taken : domain[snap[s].inst] # "undefined"
    BY DEF SnapshotInv, SnapRowsInv
  <2>2. taken \subseteq Snapshots
    BY DEF IInv, TypeOK
  <2> QED BY <1>1, <1>4, <2>1, <2>2, SnapRowsStep DEF SnapshotInv
<1>6. SnapRequestsInv'
  BY <1>1, <1>4, SnapRequestsStay DEF SnapshotInv
<1>7. SnapTodoInv'
  <2> SUFFICES ASSUME NEW k \in DOMAIN todo', todo'[k] = <<"snap", "available">>
               PROVE  curSnap \in taken
    BY <1>1 DEF SnapTodoInv, curSnap, curTask
  <2>1. k + 1 \in DOMAIN todo /\ todo'[k] = todo[k + 1]
    BY <1>1, TailElement
  <2> QED BY <1>1, <2>1 DEF SnapshotInv, SnapTodoInv
<1> QED BY <1>5, <1>6, <1>7 DEF SnapshotInv

LEMMA SnapshotUndo ==
  ASSUME IInv, WritesInv, SnapshotInv, NEW c \in Clients, Undo(c)
  PROVE  SnapshotInv'
<1>1. UNCHANGED <<snap, tasks, domain, taken, pc, msg, todo>> /\ req[c].step = "undo"
  BY UndoEffect
<1>2. CASE req[c].todo = <<>>
  <2>1. req' = [req EXCEPT ![c] = NoRequest] /\ UNCHANGED snapStatus
    BY <1>2, UndoEffect
  <2>2. NoRequest.type \notin SnapTypes
    BY EmptyRequest DEF SnapTypes
  <2> QED BY <1>1, <2>1, <2>2, EmptyRequest, SnapshotOfRequest
<1>3. CASE req[c].todo # <<>>
  <2> DEFINE w == Head(req[c].todo)
  <2>1. /\ w \in FinalWrites /\ w # <<"snap", "available">>
        /\ Write(w, req[c].task, req[c].inst, req[c].snap)
    BY <1>3, UndoEffect DEF QuietWrites
  <2>2. PICK r \in ReqRec : /\ req' = [req EXCEPT ![c] = r] /\ r.step = "undo"
                            /\ r.type = req[c].type /\ r.inst = req[c].inst
                            /\ r.snap = req[c].snap
    BY <1>3, UndoEffect
  <2>3. req[c].snap \in Snapshots
    BY DEF IInv, TypeOK
  <2> HIDE DEF w
  <2>4. \A t \in Snapshots :
          /\ snapStatus[t] # "none" => snapStatus'[t] # "none"
          /\ snapStatus'[t] = "available" => snapStatus[t] = "available"
    BY <2>1, <2>3, SnapWrite
  <2>5. SnapRowsInv'
    <3>1. \A s \in taken : domain[snap[s].inst] # "undefined"
      BY DEF SnapshotInv, SnapRowsInv
    <3>2. taken \subseteq Snapshots
      BY DEF IInv, TypeOK
    <3> QED BY <1>1, <2>4, <3>1, <3>2, SnapRowsStep DEF SnapshotInv
  <2>6. SnapRequestsInv'
    <3>1. Owns(req[c])
      BY DEF SnapshotInv, SnapRequestsInv
    <3> QED BY <1>1, <2>2, <2>4, <3>1, SnapRequestsStep DEF SnapshotInv, Owns
  <2> QED BY <1>1, <2>5, <2>6, SnapTodoStay DEF SnapshotInv
<1> QED BY <1>2, <1>3

LEMMA SnapshotWriteFails ==
  ASSUME IInv, WritesInv, SnapshotInv, WriteFails
  PROVE  SnapshotInv'
<1>1. /\ pc = "write" /\ todo # <<>> /\ todo \in Seq(FinalWrites)
      /\ UNCHANGED <<req, snap, snapStatus, tasks, taken, domain>>
  BY DEF WriteFails, WritesInv, db, virt
<1>2. Return(IF ok THEN GiveUp ELSE Tail(todo), FALSE)
  BY Zenon DEF WriteFails
<1>3. CASE ok
  <2>1. GiveUp \in Seq(QuietWrites)
    BY <1>1, <1>3, FinalGiveUp DEF IInv
  <2>2. todo' = GiveUp
    BY <1>2, <1>3 DEF Return
  <2> QED BY <1>1, <2>1, <2>2, SnapshotOfWorker
<1>4. CASE ~ok
  <2>1. todo' = Tail(todo) /\ UNCHANGED msg
    BY <1>2, <1>4 DEF Return
  <2>2. SnapTodoInv'
    <3> SUFFICES ASSUME NEW k \in DOMAIN todo', todo'[k] = <<"snap", "available">>
                 PROVE  curSnap \in taken
      BY <1>1, <2>1 DEF SnapTodoInv, curSnap, curTask
    <3>1. k + 1 \in DOMAIN todo /\ todo'[k] = todo[k + 1]
      BY <1>1, <2>1, TailElement
    <3> QED BY <1>1, <3>1 DEF SnapshotInv, SnapTodoInv
  <2> QED BY <1>1, <2>2, SnapRowsStay, SnapRequestsStay DEF SnapshotInv
<1> QED BY <1>3, <1>4

LEMMA SnapshotFinalize ==
  ASSUME IInv, SnapshotInv, Finalize
  PROVE  SnapshotInv'
<1>1. Return(<<>>, TRUE) \/ Return(<<>>, FALSE)
  BY Zenon DEF Finalize
<1>2. todo' = <<>> /\ UNCHANGED <<snap, tasks, req, taken, domain>>
  BY <1>1 DEF Finalize, Return, virt
<1>3. \A s \in Snapshots : /\ snapStatus[s] # "none" => snapStatus'[s] # "none"
                           /\ snapStatus'[s] = "available" => snapStatus[s] = "available"
  BY DEF Finalize
<1>4. SnapRowsInv'
  <2>1. \A s \in taken : domain[snap[s].inst] # "undefined"
    BY DEF SnapshotInv, SnapRowsInv
  <2>2. taken \subseteq Snapshots
    BY DEF IInv, TypeOK
  <2> QED BY <1>2, <1>3, <2>1, <2>2, SnapRowsStep DEF SnapshotInv
<1>5. SnapRequestsInv'
  BY <1>2, <1>3, SnapRequestsStay DEF SnapshotInv
<1>6. <<>> \in Seq(QuietWrites)
  OBVIOUS
<1> QED BY <1>2, <1>4, <1>5, <1>6, SnapTodoQuiet DEF SnapshotInv

\* A domain that powers off stays defined.
LEMMA SnapshotGuest ==
  ASSUME IInv, SnapshotInv, NEW i \in Instances, GuestPowersOff(i)
  PROVE  SnapshotInv'
<1>1. /\ UNCHANGED <<snap, snapStatus, tasks, taken, req, pc, msg, todo>>
      /\ domain' = [domain EXCEPT ![i] = "shutoff"]
  BY DEF GuestPowersOff, db, worker
<1>2. \A s \in taken : domain'[snap[s].inst] # "undefined"
  BY <1>1 DEF SnapshotInv, SnapRowsInv, IInv, TypeOK
<1>3. taken \subseteq Snapshots
  BY DEF IInv, TypeOK
<1>4. SnapRowsInv'
  BY <1>1, <1>2, <1>3, SnapRowsStep DEF SnapshotInv, SnapRowsInv
<1> QED BY <1>1, <1>4, SnapRequestsStay, SnapTodoStay DEF SnapshotInv

LEMMA SnapshotNext == IInv /\ WritesInv /\ SnapshotInv /\ [Next]_vars => SnapshotInv'
<1> SUFFICES ASSUME IInv, WritesInv, SnapshotInv, [Next]_vars PROVE SnapshotInv'
  OBVIOUS
<1>e. <<>> \in Seq(QuietWrites) /\ NoRequest.type \notin SnapTypes
  BY EmptyRequest DEF SnapTypes
<1>1. ASSUME NEW c \in Clients, Request(c) \/ BeginSnapshotRevert(c) PROVE SnapshotInv'
  BY <1>1, SnapshotAsk
<1>2. ASSUME NEW c \in Clients, PublishTask(c) \/ RequestAborted(c) PROVE SnapshotInv'
  <2>1. /\ req' = [req EXCEPT ![c] = NoRequest]
        /\ UNCHANGED <<snap, snapStatus, tasks, taken, domain, pc, msg, todo>>
    BY <1>2 DEF PublishTask, RequestAborted, db, virt, worker
  <2> QED BY <1>e, <2>1, EmptyRequest, SnapshotOfRequest
<1>3. ASSUME NEW c \in Clients, RequestFails(c) PROVE SnapshotInv'
  <2>1. UNCHANGED <<snap, snapStatus, tasks, taken, domain, pc, msg, todo>>
    BY <1>3, FailEffect
  <2>2. PICK r \in ReqRec : /\ req' = [req EXCEPT ![c] = r] /\ r.step = "undo"
                            /\ r.type = req[c].type /\ r.inst = req[c].inst
                            /\ r.snap = req[c].snap
    BY <1>3, FailEffect
  <2>3. Owns(req[c])
    BY DEF SnapshotInv, SnapRequestsInv
  <2> QED BY <2>1, <2>2, <2>3, SnapshotOfRequest DEF Owns
<1>4. ASSUME NEW c \in Clients, ApiStep(c) PROVE SnapshotInv'
  BY <1>4, <1>1, <1>2, <1>3, SnapshotCreateTask, SnapshotUndo DEF ApiStep
<1>5. ASSUME Take PROVE SnapshotInv'
  BY <1>5, SnapshotOfWorker DEF Take, db, virt
<1>6. ASSUME Begin PROVE SnapshotInv'
  <2>1. Goto("load") \/ Return(<<>>, FALSE)
    BY Zenon, <1>6 DEF Begin
  <2>2. pc' = "write" => todo' = <<>>
    BY <2>1 DEF Goto, Return
  <2> QED BY <1>6, <1>e, <2>2, SnapshotOfWorker DEF Begin, virt
<1>7. ASSUME Load PROVE SnapshotInv'
  <2> DEFINE writes == IF curType \in SnapTypes THEN OnError ELSE <<TaskFailed>>
  <2>1. writes \in Seq(QuietWrites)
    <3>1. OnError \in Seq(QuietWrites)
      BY <1>7, FinalWritesOfHandlers DEF IInv, Load
    <3> QED BY <3>1, FinalLiterals
  <2>2. Goto(IF curType = "destroy" THEN "mark" ELSE "act") \/ Return(writes, FALSE)
    BY Zenon, <1>7 DEF Load
  <2> HIDE DEF writes
  <2>3. pc' = "write" => todo' = writes
    BY <2>2 DEF Goto, Return
  <2> QED BY <1>7, <2>1, <2>3, SnapshotOfWorker DEF Load, db, virt
<1>8. ASSUME MarkDeleting PROVE SnapshotInv'
  <2>1. Goto("act") \/ Return(<<TaskFailed>>, FALSE)
    BY Zenon, <1>8 DEF MarkDeleting
  <2>2. pc' = "write" => todo' = <<TaskFailed>>
    BY <2>1 DEF Goto, Return
  <2> QED BY <1>8, <2>2, FinalLiterals, SnapshotOfWorker DEF MarkDeleting, virt
<1>9. ASSUME Settle \/ Crash \/ Restart PROVE SnapshotInv'
  <2>1. /\ Rest("idle") \/ Rest("down")
        /\ UNCHANGED <<req, snap, snapStatus, tasks, taken, domain>>
    BY <1>9 DEF Settle, Crash, Restart, db, virt
  <2>2. todo' = <<>>
    BY <2>1 DEF Rest
  <2> QED BY <1>e, <2>1, <2>2, SnapshotOfWorker
<1>10. ASSUME WorkerStep PROVE SnapshotInv'
  BY <1>10, <1>5, <1>6, <1>7, <1>8, <1>9, ActSnapshot, SnapshotFinalize, SnapshotWriteNext
     DEF WorkerStep
<1>11. ASSUME SyncStep \/ (\E stale \in SUBSET DOMAIN tasks : Sweep(stale)) \/ UNCHANGED vars
       PROVE  SnapshotInv'
  <2>1. UNCHANGED <<req, snap, snapStatus, tasks, taken, domain, pc, msg, todo>>
    BY <1>11 DEF SyncStep, SyncDomains, SyncRows, SyncWrite, Sweep, vars, db, virt, worker
  <2> QED BY <2>1, SnapRowsStay, SnapRequestsStay, SnapTodoStay DEF SnapshotInv
<1> QED BY <1>1, <1>2, <1>3, <1>4, <1>9, <1>10, <1>11, SnapshotWriteFails, SnapshotGuest DEF Next

\* The snapshots' invariant holds with the one about tasks and states, whose
\* part on the writes left to do it rests on.
THEOREM Snapshotted == Spec => [](OwnershipInv /\ SnapshotInv)
<1>1. Init => SnapshotInv
  <2> SUFFICES ASSUME Init PROVE SnapshotInv
    OBVIOUS
  <2>1. SnapRowsInv
    BY DEF Init, SnapRowsInv
  <2>2. SnapRequestsInv
    BY EmptyRequest DEF Init, SnapRequestsInv, Owns, SnapTypes
  <2> QED BY <2>1, <2>2 DEF Init, SnapTodoInv, SnapshotInv
<1>2. OwnershipInv /\ SnapshotInv /\ [Next]_vars => SnapshotInv'
  BY SnapshotNext DEF OwnershipInv
<1> QED BY <1>1, <1>2, Ownership, PTL DEF Spec

\* What is offered as available can be reverted to: libvirt has the snapshot,
\* and the domain it belongs to is defined, however creates and destroys of the
\* instance, lost answers and retries of snapshot tasks interleave.
THEOREM SnapshotsCanBeReverted == Spec => []AvailableMeansTaken
<1>1. SnapshotInv => AvailableMeansTaken
  BY DEF SnapshotInv, SnapRowsInv, AvailableMeansTaken
<1> QED BY <1>1, Snapshotted, PTL
==============================================================================
