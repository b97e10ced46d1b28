------------------------------- MODULE Volumes ------------------------------
(***************************************************************************)
(* Volumes: a row of the volumes table, a qcow2 file and a disk of a       *)
(* libvirt domain, which requests keep in step without a lock or a         *)
(* transaction over the three (internal/service/volume_service.go,         *)
(* internal/repository/volumes.go, internal/libvirt/volume_attach.go,      *)
(* internal/storage/volume.go, the clean-up in HandleDestroyTask).         *)
(*                                                                         *)
(* A client sends one request after the other, for ever; an action is one  *)
(* SQL statement, one libvirt call or one operation on the file.  Several  *)
(* clients run side by side, some of which attach, detach, or create and   *)
(* delete, beside the worker that destroys an instance.                    *)
(***************************************************************************)
EXTENDS Integers

CONSTANTS
  Volumes, Instances,
  MaxTarget,               \* vdb is 1; the code has 25 letters
  Attachers, Detachers, Owners,
  Present,                 \* volumes that are there from the start
  Stoppable, Destroyable,  \* instances that may be stopped, destroyed
  MaxRetries,              \* limit of retries of a destroy
  MaxFaults,               \* bound on clients that go away and deaths of the API
  None

Clients == Attachers \cup Detachers \cup Owners
Targets == 1..MaxTarget

ASSUME ConstantsAssumption ==
  /\ MaxTarget \in Nat /\ MaxRetries \in Nat /\ MaxFaults \in Nat
  /\ Present \subseteq Volumes
  /\ Stoppable \subseteq Instances /\ Destroyable \subseteq Instances
  /\ None \notin Volumes \cup Instances \cup Clients

VARIABLES
  inst,   \* inst[i]: instances.state, "gone" after the row
  dom,    \* dom[i]: the libvirt domain
  config, \* config[i]: disks of the persistent configuration, volume and target
  live,   \* live[i]: disks of the running guest
  vol,    \* vol[v]: the volumes row
  file,   \* the volumes whose file exists
  req,    \* req[c]: the request of client c
  job,    \* the destroy in the hands of the worker
  faults

virt  == <<dom, config, live>>
vars  == <<inst, virt, vol, file, req, job, faults>>

Disks == Volumes \X Targets
Row(status, i, t) == [status |-> status, inst |-> i, tgt |-> t]
NoRequest == [step |-> "idle", vol |-> None, inst |-> None, tgt |-> 0, flag |-> FALSE, ctx |-> TRUE]
NoDisk    == <<None, 0>>
NoJob     == [step |-> "idle", inst |-> None, live |-> FALSE, cur |-> NoDisk,
              left |-> {}, tries |-> 0]

TypeOK ==
  /\ inst \in [Instances -> {"running", "stopped", "deleting", "error", "gone"}]
  /\ dom \in [Instances -> {"active", "shutoff", "undefined"}]
  /\ config \in [Instances -> SUBSET Disks] /\ live \in [Instances -> SUBSET Disks]
  /\ vol \in [Volumes -> [status : {"none", "available", "in-use", "error", "deleted"},
       inst : Instances \cup {None}, tgt : Targets \cup {0}]]
  /\ file \subseteq Volumes
  /\ req \in [Clients -> [step : {"idle", "volume", "target", "attach", "record", "undo",
         "row", "detach", "release", "file", "mark", "remove", "unlink"},
       vol : Volumes \cup {None}, inst : Instances \cup {None},
       tgt : Targets \cup {0}, flag : BOOLEAN, ctx : BOOLEAN]]
  /\ job \in [step : {"idle", "begin", "list", "detach", "release", "delete", "finalize"},
       inst : Instances \cup {None}, live : BOOLEAN, cur : Disks \cup {NoDisk},
       left : SUBSET Disks, tries : 0..MaxRetries]
  /\ faults \in 0..MaxFaults

Init ==
  /\ inst = [i \in Instances |-> "running"]
  /\ dom = [i \in Instances |-> "active"]
  /\ config = [i \in Instances |-> {}] /\ live = [i \in Instances |-> {}]
  /\ vol = [v \in Volumes |-> Row(IF v \in Present THEN "available" ELSE "none", None, 0)]
  /\ file = Present
  /\ req = [c \in Clients |-> NoRequest]
  /\ job = NoJob
  /\ faults = 0

Exists(i) == inst[i] # "gone"
HasRow(v) == vol[v].status \notin {"none", "deleted"}
Free(v)   == vol[v].status = "available" /\ vol[v].inst = None

Ask(c, step, v, i, flag) ==
  req' = [req EXCEPT ![c] = [step |-> step, vol |-> v, inst |-> i, tgt |-> 0,
                             flag |-> flag, ctx |-> TRUE]]
To(c, step) == req' = [req EXCEPT ![c].step = step]
Done(c)     == req' = [req EXCEPT ![c] = NoRequest]
At(c, step) == req[c].step = step
\* A statement runs under the context of the request.
Runs(c) == req[c].ctx

------------------------------------------------------------------------------
\* libvirt (a disk is found by its target in a domain)

DisksAt(disks, t) == {d \in disks : d[2] = t}

\* Attaching with CONFIG and LIVE: the guest runs, the target is free, the file
\* can be opened (a file another guest has open can be, or cannot, as image
\* locking goes).
Attachable(v, i, t) ==
  /\ dom[i] = "active" /\ v \in file
  /\ DisksAt(live[i] \cup config[i], t) = {}
InUseByAGuest(v) == \E i \in Instances, t \in Targets : <<v, t>> \in live[i]

Plug(v, i, t) ==
  /\ config' = [config EXCEPT ![i] = @ \cup {<<v, t>>}]
  /\ live' = [live EXCEPT ![i] = @ \cup {<<v, t>>}]
  /\ UNCHANGED dom

\* Detaching with CONFIG, and LIVE when the row said running.
Detachable(i, t, alive) ==
  /\ dom[i] # "undefined" /\ DisksAt(config[i], t) # {}
  /\ alive => dom[i] = "active" /\ DisksAt(live[i], t) # {}

Unplug(i, t, alive) ==
  /\ config' = [config EXCEPT ![i] = @ \ DisksAt(@, t)]
  /\ live' = IF alive THEN [live EXCEPT ![i] = @ \ DisksAt(@, t)] ELSE live
  /\ UNCHANGED dom

------------------------------------------------------------------------------
\* AttachVolume

AskAttach(c, v, i) ==
  /\ c \in Attachers /\ At(c, "idle")
  /\ inst[i] = "running"
  /\ Ask(c, "volume", v, i, TRUE)
  /\ UNCHANGED <<inst, virt, vol, file, job, faults>>

GetVolume(c) ==
  /\ At(c, "volume")
  /\ IF Runs(c) /\ Free(req[c].vol) THEN To(c, "target") ELSE Done(c)
  /\ UNCHANGED <<inst, virt, vol, file, job, faults>>

\* Mutant: the letters go one too far.
MutUnused(i) ==
  {t \in 1..(MaxTarget + 1) : DisksAt(IF dom[i] = "active" THEN live[i] ELSE config[i], t) = {}}

\* The lowest free letter of the domain as it is now, if there is one.
Unused(i) == {t \in Targets : DisksAt(IF dom[i] = "active" THEN live[i] ELSE config[i], t) = {}}

NextVirtioDiskTarget(c) ==
  /\ At(c, "target")
  /\ LET free == Unused(req[c].inst)
     IN  IF dom[req[c].inst] = "undefined" \/ free = {}
         THEN Done(c)
         ELSE req' = [req EXCEPT ![c].step = "attach",
                        ![c].tgt = CHOOSE t \in free : \A u \in free : t <= u]
  /\ UNCHANGED <<inst, virt, vol, file, job, faults>>

\* Mutant: an error of libvirt is taken for success.
MutLibvirtAttach(c) ==
  LET v == req[c].vol  i == req[c].inst  t == req[c].tgt
  IN  /\ At(c, "attach") /\ To(c, "record")
      /\ IF Attachable(v, i, t) THEN Plug(v, i, t) ELSE UNCHANGED virt
      /\ UNCHANGED <<inst, vol, file, job, faults>>

LibvirtAttach(c) ==
  LET v == req[c].vol  i == req[c].inst  t == req[c].tgt
  IN  /\ At(c, "attach")
      /\ \/ Attachable(v, i, t) /\ Plug(v, i, t) /\ To(c, "record")
         \/ (Attachable(v, i, t) => InUseByAGuest(v)) /\ Done(c) /\ UNCHANGED virt
      /\ UNCHANGED <<inst, vol, file, job, faults>>

\* Mutant: the row may name an instance that is gone.
MutRecordableGone(v, i) == Free(v)
Recordable(v, i) == Free(v) /\ Exists(i)

AttachVolumeRecord(c) ==
  LET v == req[c].vol  i == req[c].inst
  IN  /\ At(c, "record")
      /\ IF Runs(c) /\ Recordable(v, i)
         THEN vol' = [vol EXCEPT ![v] = Row("in-use", i, req[c].tgt)] /\ Done(c)
         ELSE To(c, "undo") /\ UNCHANGED vol
      /\ UNCHANGED <<inst, virt, file, job, faults>>

\* Mutant: the compensation takes the disk from the guest only.
MutUndoAttach(c) ==
  LET i == req[c].inst  t == req[c].tgt
  IN  /\ At(c, "undo")
      /\ live' = [live EXCEPT ![i] = @ \ DisksAt(@, t)]
      /\ Done(c)
      /\ UNCHANGED <<inst, dom, config, vol, file, job, faults>>

\* The compensation, its error dropped.
UndoAttach(c) ==
  LET i == req[c].inst  t == req[c].tgt
  IN  /\ At(c, "undo")
      /\ IF Detachable(i, t, TRUE) THEN Unplug(i, t, TRUE) ELSE UNCHANGED virt
      /\ Done(c)
      /\ UNCHANGED <<inst, vol, file, job, faults>>

------------------------------------------------------------------------------
\* DetachVolume

\* The state of the row decides whether the guest is asked as well.
AskDetach(c, v, i) ==
  /\ c \in Detachers /\ At(c, "idle")
  /\ Exists(i)
  /\ Ask(c, "row", v, i, inst[i] = "running")
  /\ UNCHANGED <<inst, virt, vol, file, job, faults>>

GetAttachment(c) ==
  LET v == req[c].vol
  IN  /\ At(c, "row")
      /\ IF Runs(c) /\ HasRow(v) /\ vol[v].inst = req[c].inst
         THEN req' = [req EXCEPT ![c].step = "detach", ![c].tgt = vol[v].tgt]
         ELSE Done(c)
      /\ UNCHANGED <<inst, virt, vol, file, job, faults>>

LibvirtDetach(c) ==
  LET i == req[c].inst  t == req[c].tgt  alive == req[c].flag
  IN  /\ At(c, "detach")
      /\ IF Detachable(i, t, alive)
         THEN Unplug(i, t, alive) /\ To(c, "release")
         ELSE Done(c) /\ UNCHANGED virt
      /\ UNCHANGED <<inst, vol, file, job, faults>>

Released(v) == [vol EXCEPT ![v] = Row("available", None, 0)]

DetachVolumeRecord(c) ==
  LET v == req[c].vol
  IN  /\ At(c, "release")
      /\ vol' = IF Runs(c) /\ HasRow(v) /\ vol[v].inst = req[c].inst THEN Released(v) ELSE vol
      /\ Done(c)
      /\ UNCHANGED <<inst, virt, file, job, faults>>

------------------------------------------------------------------------------
\* CreateVolume and DeleteVolume

\* The row says available before there is a file.
CreateVolume(c, v) ==
  /\ c \in Owners /\ At(c, "idle")
  /\ vol[v].status = "none"
  /\ vol' = [vol EXCEPT ![v].status = "available"]
  /\ Ask(c, "file", v, None, FALSE)
  /\ UNCHANGED <<inst, virt, file, job, faults>>

CreateSparseQCOW2(c) ==
  /\ At(c, "file") /\ Runs(c)
  /\ file' = file \cup {req[c].vol}
  /\ Done(c)
  /\ UNCHANGED <<inst, virt, vol, job, faults>>

\* qemu-img fails, or is killed with the context, before the file is there or after.
ProvisioningFails(c) ==
  /\ At(c, "file")
  /\ IF Runs(c) THEN faults < MaxFaults /\ faults' = faults + 1 ELSE UNCHANGED faults
  /\ file' \in {file, file \cup {req[c].vol}}
  /\ To(c, "mark")
  /\ UNCHANGED <<inst, virt, vol, job>>

SetVolumeError(c) ==
  /\ At(c, "mark")
  /\ vol' = IF Runs(c) /\ HasRow(req[c].vol)
            THEN [vol EXCEPT ![req[c].vol].status = "error"] ELSE vol
  /\ To(c, "remove")
  /\ UNCHANGED <<inst, virt, file, job, faults>>

Deletable(v) == HasRow(v) /\ vol[v].inst = None

DeleteVolume(c, v) ==
  /\ c \in Owners /\ At(c, "idle")
  /\ Deletable(v)
  /\ vol' = [vol EXCEPT ![v] = Row("deleted", None, 0)]
  /\ Ask(c, "unlink", v, None, FALSE)
  /\ UNCHANGED <<inst, virt, file, job, faults>>

RemoveFile(c) ==
  /\ At(c, "remove") \/ At(c, "unlink")
  /\ file' = file \ {req[c].vol}
  /\ Done(c)
  /\ UNCHANGED <<inst, virt, vol, job, faults>>

------------------------------------------------------------------------------
\* Faults of a request

\* The client goes away: statements and qemu-img fail from now on, libvirt calls
\* do not look at the context.
ClientGone(c) ==
  /\ ~At(c, "idle") /\ Runs(c)
  /\ faults < MaxFaults /\ faults' = faults + 1
  /\ req' = [req EXCEPT ![c].ctx = FALSE]
  /\ UNCHANGED <<inst, virt, vol, file, job>>

ApiDies(c) ==
  /\ ~At(c, "idle")
  /\ faults < MaxFaults /\ faults' = faults + 1
  /\ Done(c)
  /\ UNCHANGED <<inst, virt, vol, file, job>>

------------------------------------------------------------------------------
\* HandleDestroyTask, and the check of its request

RequestDestroy(i) ==
  /\ i \in Destroyable /\ job = NoJob
  /\ inst[i] \in {"running", "stopped", "error"}
  /\ \A v \in Volumes : vol[v].inst # i
  /\ job' = [NoJob EXCEPT !.step = "begin", !.inst = i]
  /\ UNCHANGED <<inst, virt, vol, file, req, faults>>

BeginDestroy ==
  /\ job.step = "begin"
  /\ job' = [job EXCEPT !.step = "list", !.live = inst[job.inst] = "running"]
  /\ inst' = [inst EXCEPT ![job.inst] = "deleting"]
  /\ UNCHANGED <<virt, vol, file, req, faults>>

ListAttached ==
  /\ job.step = "list"
  /\ job' = [job EXCEPT !.step = "detach",
       !.left = {<<v, vol[v].tgt>> : v \in {w \in Volumes : vol[w].inst = job.inst}}]
  /\ UNCHANGED <<inst, virt, vol, file, req, faults>>

\* An error of libvirt is logged, and the row released all the same.
DetachNext(d) ==
  /\ job.step = "detach" /\ d \in job.left
  /\ IF Detachable(job.inst, d[2], job.live)
     THEN Unplug(job.inst, d[2], job.live) ELSE UNCHANGED virt
  /\ job' = [job EXCEPT !.step = "release", !.cur = d, !.left = @ \ {d}]
  /\ UNCHANGED <<inst, vol, file, req, faults>>

\* The handler returned an error: another try, until the dead letter.
Again ==
  job' = IF job.tries < MaxRetries
         THEN [NoJob EXCEPT !.step = "begin", !.inst = job.inst, !.tries = job.tries + 1]
         ELSE NoJob

ReleaseNext ==
  /\ job.step = "release"
  /\ IF vol[job.cur[1]].inst = job.inst
     THEN /\ vol' = Released(job.cur[1])
          /\ job' = [job EXCEPT !.step = "detach", !.cur = NoDisk]
          /\ UNCHANGED inst
     ELSE /\ inst' = [inst EXCEPT ![job.inst] = "error"]
          /\ Again
          /\ UNCHANGED vol
  /\ UNCHANGED <<virt, file, req, faults>>

DeleteVM ==
  /\ job.step = "detach" /\ job.left = {}
  /\ dom' = [dom EXCEPT ![job.inst] = "undefined"]
  /\ config' = [config EXCEPT ![job.inst] = {}]
  /\ live' = [live EXCEPT ![job.inst] = {}]
  /\ job' = [job EXCEPT !.step = "finalize"]
  /\ UNCHANGED <<inst, vol, file, req, faults>>

\* ON DELETE RESTRICT
FinalizeDestroy ==
  /\ job.step = "finalize"
  /\ IF \E v \in Volumes : vol[v].inst = job.inst
     THEN Again /\ UNCHANGED inst
     ELSE inst' = [inst EXCEPT ![job.inst] = "gone"] /\ job' = NoJob
  /\ UNCHANGED <<virt, vol, file, req, faults>>

------------------------------------------------------------------------------
\* Instances

\* Stop is a graceful shutdown: the row says stopped, the guest goes on until
\* it has powered off.
Stop(i) ==
  /\ i \in Stoppable /\ inst[i] = "running"
  /\ inst' = [inst EXCEPT ![i] = "stopped"]
  /\ UNCHANGED <<virt, vol, file, req, job, faults>>

PowerOff(i) ==
  /\ i \in Stoppable /\ dom[i] = "active"
  /\ dom' = [dom EXCEPT ![i] = "shutoff"] /\ live' = [live EXCEPT ![i] = {}]
  /\ UNCHANGED <<inst, config, vol, file, req, job, faults>>

Start(i) ==
  /\ inst[i] = "stopped" /\ dom[i] # "undefined"
  /\ inst' = [inst EXCEPT ![i] = "running"]
  /\ dom' = [dom EXCEPT ![i] = "active"]
  /\ live' = IF dom[i] = "active" THEN live ELSE [live EXCEPT ![i] = config[i]]
  /\ UNCHANGED <<config, vol, file, req, job, faults>>

------------------------------------------------------------------------------
WorkerStep ==
  \/ BeginDestroy \/ ListAttached \/ ReleaseNext \/ DeleteVM \/ FinalizeDestroy
  \/ \E d \in job.left : DetachNext(d)

RequestStep(c) ==
  \/ GetVolume(c) \/ NextVirtioDiskTarget(c) \/ LibvirtAttach(c)
  \/ AttachVolumeRecord(c) \/ UndoAttach(c)
  \/ GetAttachment(c) \/ LibvirtDetach(c) \/ DetachVolumeRecord(c)
  \/ CreateSparseQCOW2(c) \/ ProvisioningFails(c) \/ SetVolumeError(c) \/ RemoveFile(c)

Next ==
  \/ \E c \in Clients, v \in Volumes :
       \/ \E i \in Instances : AskAttach(c, v, i) \/ AskDetach(c, v, i)
       \/ CreateVolume(c, v) \/ DeleteVolume(c, v)
  \/ \E c \in Clients : RequestStep(c) \/ ClientGone(c) \/ ApiDies(c)
  \/ \E i \in Instances : RequestDestroy(i) \/ Stop(i) \/ PowerOff(i) \/ Start(i)
  \/ WorkerStep

Spec == Init /\ [][Next]_vars

------------------------------------------------------------------------------
\* Requests that detach come one after the other.
OneDetacher == \A c, d \in Detachers : c = d

(***************************************************************************)
(* No disk without an owner: a disk in a domain is the one the row of its  *)
(* volume names, or that of a request about to record or to undo it, or    *)
(* the domain is being destroyed.  Two requests may attach one volume to   *)
(* two instances, or two volumes at one target; check, libvirt and record  *)
(* interleave, and only one of them may come out with the disk.  It holds  *)
(* until a client goes away or the API dies between libvirt and the row,   *)
(* and of instances that are never stopped: a detach from one that is      *)
(* stopping leaves the disk in the guest, and the undoing of an attachment *)
(* to one that has powered off does nothing.  Nor does it hold of two      *)
(* detaches of one volume at once: the second releases the row under       *)
(* whoever attached the volume in between.                                 *)
(***************************************************************************)
DisksHaveOwners ==
  faults = 0 /\ OneDetacher => \A i \in Instances \ Stoppable : \A d \in config[i] \cup live[i] :
    \/ vol[d[1]] = Row("in-use", i, d[2])
    \/ \E c \in Attachers : /\ req[c].step \in {"record", "undo"}
                           /\ req[c].vol = d[1] /\ req[c].inst = i /\ req[c].tgt = d[2]
    \/ inst[i] \in {"deleting", "error"}

(***************************************************************************)
(* An instance that is gone leaves nothing: no row says a volume is        *)
(* attached to it and its domain has no disk, whatever requests were in    *)
(* flight, failed or died while it was destroyed.                          *)
(***************************************************************************)
DestroyedLeavesNothing ==
  \A i \in Instances :
    inst[i] = "gone" => /\ config[i] = {} /\ live[i] = {}
                       /\ \A v \in Volumes : vol[v].inst # i

(***************************************************************************)
(* migrations/0004_volumes.sql: "instance_id set only while attached" -    *)
(* what a row says is attached is in the configuration of that domain, at  *)
(* that target, unless somebody is about to release the row or the         *)
(* instance is being destroyed.  A row that breaks this can never be       *)
(* detached (libvirt fails first), and its instance never destroyed (the   *)
(* request counts rows).  A fault breaks it, and so do two detaches at     *)
(* once: the second has read a target that is given away before it calls   *)
(* libvirt, and unplugs the disk that has it now.                          *)
(***************************************************************************)
InstanceIdOnlyWhileAttached ==
  faults = 0 /\ OneDetacher => \A v \in Volumes, i \in Instances :
    vol[v].inst = i =>
      \/ <<v, vol[v].tgt>> \in config[i]
      \/ \E c \in Detachers : At(c, "release") /\ req[c].vol = v /\ req[c].inst = i
      \/ inst[i] \in {"deleting", "error"}
==============================================================================
