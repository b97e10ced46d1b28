---------------------------- MODULE VolumesProofs ----------------------------
(***************************************************************************)
(* Proofs about Volumes, for any volumes, instances, letters and clients:  *)
(* its types; that a target of a domain has one disk; that a destroyed     *)
(* instance leaves nothing; and, of requests nobody walks away from, that  *)
(* rows and disks agree.                                                   *)
(***************************************************************************)
EXTENDS Volumes, WellFoundedInduction, TLAPS

ReqRec == [step : {"idle", "volume", "target", "attach", "record", "undo",
                   "row", "detach", "release", "file", "mark", "remove", "unlink"},
           vol : Volumes \cup {None}, inst : Instances \cup {None},
           tgt : Targets \cup {0}, flag : BOOLEAN, ctx : BOOLEAN]
RowRec == [status : {"none", "available", "in-use", "error", "deleted"},
           inst : Instances \cup {None}, tgt : Targets \cup {0}]

AttachSteps == {"volume", "target", "attach", "record", "undo"}
DetachSteps == {"row", "detach", "release"}
VolumeSteps == {"file", "mark", "remove", "unlink"}

\* What each request is about, and who sends it.
Shape(c, r) ==
  /\ r.step \in AttachSteps => c \in Attachers
  /\ r.step \in DetachSteps => c \in Detachers
  /\ r.step \in AttachSteps \cup DetachSteps => r.vol \in Volumes /\ r.inst \in Instances
  /\ r.step \in VolumeSteps => r.vol \in Volumes
  /\ r.step \in {"attach", "record", "undo"} => r.tgt \in Targets

ReqInv == \A c \in Clients : Shape(c, req[c])

\* A row names an instance only with a target, and without faults only when it
\* says in-use: nobody marks a volume that was attached in the meantime.
RowInv ==
  /\ \A v \in Volumes : vol[v].inst # None => vol[v].tgt \in Targets
  /\ faults = 0 =>
       /\ \A v \in Volumes : vol[v].inst # None => vol[v].status = "in-use"
       /\ \A c \in Clients : req[c].ctx /\ req[c].step # "mark"

\* The destroy in progress is of an instance that is there, and that is not
\* started again once it is being deleted.
JobInv ==
  /\ job.step # "idle" => job.inst \in Instances /\ Exists(job.inst)
  /\ job.step \in {"list", "detach", "release", "finalize"} => inst[job.inst] = "deleting"
  /\ job.step = "release" => job.cur \in Disks
  /\ job.step = "finalize" => dom[job.inst] = "undefined"

\* A domain that is not there has no disks, one that does not run has no guest,
\* and a target has one disk.
DomainInv ==
  \A i \in Instances :
    /\ dom[i] = "undefined" => config[i] = {}
    /\ dom[i] # "active" => live[i] = {}
    /\ \A d, e \in config[i] \cup live[i] : d[2] = e[2] => d = e

GoneInv ==
  \A i \in Instances :
    inst[i] = "gone" => dom[i] = "undefined" /\ \A v \in Volumes : vol[v].inst # i

IInv == TypeOK /\ ReqInv /\ RowInv /\ JobInv /\ DomainInv /\ GoneInv

\* An instance nobody has begun to destroy.
Kept(i) == inst[i] \in {"running", "stopped"}

\* A client has its disk in the domain and has not recorded it.
Attaching(c) == req[c].step \in {"record", "undo"}
Claims(c, v, i, t) == Attaching(c) /\ req[c].vol = v /\ req[c].inst = i /\ req[c].tgt = t

\* A client has taken the disk out of the domain and has not said so.
Releasing(v, i) == \E c \in Clients : req[c].step = "release" /\ req[c].vol = v /\ req[c].inst = i

\* What libvirt has at a target is what one request or one row says: a request
\* that attaches has its disk there, alone; ...
AttachClaims ==
  \A v \in Volumes, i \in Instances, t \in Targets : \A c \in Clients :
    Claims(c, v, i, t) /\ Kept(i) =>
      /\ <<v, t>> \in config[i]
      /\ \A b \in Clients : Claims(b, v, i, t) => b = c
      /\ vol[v].inst = i /\ vol[v].tgt = t => Releasing(v, i)

\* ... so has a row, unless it is about to be released; ...
RowClaims ==
  \A v \in Volumes, i \in Instances :
    vol[v].inst = i /\ Kept(i) => <<v, vol[v].tgt>> \in config[i] \/ Releasing(v, i)

\* ... and a request that detaches follows the row.
DetachClaims ==
  \A c \in Clients :
    req[c].step \in {"detach", "release"} /\ Kept(req[c].inst) =>
      vol[req[c].vol].inst = req[c].inst /\ vol[req[c].vol].tgt = req[c].tgt

ClaimsInv == AttachClaims /\ RowClaims /\ DetachClaims

\* An instance that is never stopped has one list of disks, ...
GuestInv ==
  \A i \in Instances \ Stoppable : Kept(i) =>
    inst[i] = "running" /\ dom[i] = "active" /\ live[i] = config[i]

\* ... each of which is that of a row or of a request, ...
OwnInv ==
  \A i \in Instances \ Stoppable : Kept(i) => \A v \in Volumes, t \in Targets :
    <<v, t>> \in config[i] =>
      \/ vol[v].inst = i /\ vol[v].tgt = t /\ ~Releasing(v, i)
      \/ \E c \in Clients : Claims(c, v, i, t)

\* ... and whoever detaches asks its guest, too.
FlagInv ==
  \A c \in Clients : req[c].step \in {"row", "detach"} =>
    req[c].inst \in Stoppable \/ ~Kept(req[c].inst) \/ req[c].flag

OwnersInv == GuestInv /\ OwnInv /\ FlagInv

DisksInv == faults = 0 /\ OneDetacher => ClaimsInv /\ OwnersInv
------------------------------------------------------------------------------
(* Requests, field by field.                                               *)

LEMMA IdleRequest ==
  /\ NoRequest \in ReqRec
  /\ NoRequest.step = "idle" /\ NoRequest.vol = None /\ NoRequest.inst = None
  /\ NoRequest.tgt = 0 /\ NoRequest.flag = FALSE /\ NoRequest.ctx = TRUE
BY DEF NoRequest, ReqRec

LEMMA TypedRequests == TypeOK => req \in [Clients -> ReqRec]
BY DEF TypeOK, ReqRec

Asked(step, v, i, flag) ==
  [step |-> step, vol |-> v, inst |-> i, tgt |-> 0, flag |-> flag, ctx |-> TRUE]

LEMMA ToEffect ==
  ASSUME TypeOK, NEW c \in Clients, NEW step, To(c, step),
         step \in AttachSteps \cup DetachSteps \cup VolumeSteps
  PROVE  \E r \in ReqRec : /\ req' = [req EXCEPT ![c] = r]
                           /\ r.step = step /\ r.vol = req[c].vol /\ r.inst = req[c].inst
                           /\ r.tgt = req[c].tgt /\ r.flag = req[c].flag /\ r.ctx = req[c].ctx
<1> DEFINE r == [req[c] EXCEPT !.step = step]
<1>1. req[c] \in ReqRec
  BY TypedRequests
<1>2. r \in ReqRec
  BY <1>1 DEF ReqRec, AttachSteps, DetachSteps, VolumeSteps
<1>3. req' = [req EXCEPT ![c] = r]
  BY DEF To
<1>4. /\ r.step = step /\ r.vol = req[c].vol /\ r.inst = req[c].inst
      /\ r.tgt = req[c].tgt /\ r.flag = req[c].flag /\ r.ctx = req[c].ctx
  BY <1>1 DEF ReqRec
<1> QED BY <1>2, <1>3, <1>4

\* ... with a target.
ToWith(c, step, t) == req' = [req EXCEPT ![c].step = step, ![c].tgt = t]

LEMMA ToWithEffect ==
  ASSUME TypeOK, NEW c \in Clients, NEW t \in Targets \cup {0},
         NEW step \in AttachSteps \cup DetachSteps, ToWith(c, step, t)
  PROVE  \E r \in ReqRec : /\ req' = [req EXCEPT ![c] = r]
                           /\ r.step = step /\ r.vol = req[c].vol /\ r.inst = req[c].inst
                           /\ r.tgt = t /\ r.flag = req[c].flag /\ r.ctx = req[c].ctx
<1> DEFINE r == [req[c] EXCEPT !.step = step, !.tgt = t]
<1>1. req[c] \in ReqRec /\ req \in [Clients -> ReqRec]
  BY TypedRequests
<1>2. r \in ReqRec
  BY <1>1 DEF ReqRec, AttachSteps, DetachSteps
<1>3. req' = [req EXCEPT ![c] = r]
  BY <1>1 DEF ToWith
<1>4. /\ r.step = step /\ r.vol = req[c].vol /\ r.inst = req[c].inst
      /\ r.tgt = t /\ r.flag = req[c].flag /\ r.ctx = req[c].ctx
  BY <1>1 DEF ReqRec
<1> QED BY <1>2, <1>3, <1>4

JobRec == [step : {"idle", "begin", "list", "detach", "release", "delete", "finalize"},
           inst : Instances \cup {None}, live : BOOLEAN, cur : Disks \cup {NoDisk},
           left : SUBSET Disks, tries : 0..MaxRetries]

LEMMA IdleJob ==
  NoJob \in JobRec /\ NoJob.step = "idle" /\ NoJob.inst = None /\ NoJob.tries = 0
BY ConstantsAssumption DEF NoJob, JobRec

LEMMA JobBegins ==
  ASSUME NEW i \in Instances, NEW n \in 0..MaxRetries,
         job' = [NoJob EXCEPT !.step = "begin", !.inst = i, !.tries = n]
  PROVE  job' \in JobRec /\ job'.step = "begin" /\ job'.inst = i
BY IdleJob DEF JobRec

LEMMA JobListed ==
  ASSUME TypeOK, NEW b \in BOOLEAN, job' = [job EXCEPT !.step = "list", !.live = b]
  PROVE  job' \in JobRec /\ job'.step = "list" /\ job'.inst = job.inst
BY DEF JobRec, TypeOK

\* One client's request moves on.
LEMMA RequestMoves ==
  ASSUME TypeOK, ReqInv, NEW c \in Clients, NEW r \in ReqRec, req' = [req EXCEPT ![c] = r],
         Shape(c, r)
  PROVE  /\ req' \in [Clients -> ReqRec] /\ ReqInv'
         /\ \A d \in Clients : req'[d] = IF d = c THEN r ELSE req[d]
<1>1. req \in [Clients -> ReqRec]
  BY TypedRequests
<1>2. req' \in [Clients -> ReqRec] /\ \A d \in Clients : req'[d] = IF d = c THEN r ELSE req[d]
  BY <1>1
<1>3. \A d \in Clients : Shape(d, req[d]) => Shape(d, req'[d])
  BY <1>2 DEF Shape
<1> QED BY <1>2, <1>3 DEF ReqInv

\* ... and nothing else happens.
LEMMA RequestOnly ==
  ASSUME IInv, NEW c \in Clients, NEW r \in ReqRec, req' = [req EXCEPT ![c] = r], Shape(c, r),
         faults' \in 0..MaxFaults,
         faults' = 0 => faults = 0 /\ r.ctx /\ r.step # "mark",
         UNCHANGED <<inst, dom, config, live, vol, job>>, file' \subseteq Volumes
  PROVE  IInv'
<1>1. /\ req' \in [Clients -> ReqRec] /\ ReqInv'
      /\ \A d \in Clients : req'[d] = IF d = c THEN r ELSE req[d]
  BY RequestMoves DEF IInv
<1>2. TypeOK'
  BY <1>1 DEF IInv, TypeOK, ReqRec
<1>3. RowInv'
  BY <1>1 DEF IInv, RowInv
<1>4. JobInv' /\ DomainInv' /\ GoneInv'
  BY DEF IInv, JobInv, DomainInv, GoneInv, Exists
<1> QED BY <1>1, <1>2, <1>3, <1>4 DEF IInv

\* ... or a row changes with it.
LEMMA RequestAndRow ==
  ASSUME IInv, NEW c \in Clients, NEW r \in ReqRec, req' = [req EXCEPT ![c] = r], Shape(c, r),
         req[c].ctx => r.ctx, r.step # "mark",
         NEW v \in Volumes, NEW row \in RowRec, vol' = [vol EXCEPT ![v] = row],
         row.inst # None => /\ row.tgt \in Targets /\ Exists(row.inst)
                            /\ faults = 0 => row.status = "in-use",
         UNCHANGED <<inst, dom, config, live, job, file, faults>>
  PROVE  IInv'
<1>1. /\ req' \in [Clients -> ReqRec] /\ ReqInv'
      /\ \A d \in Clients : req'[d] = IF d = c THEN r ELSE req[d]
  BY RequestMoves DEF IInv
<1>2. vol \in [Volumes -> RowRec]
  BY DEF IInv, TypeOK, RowRec
<1>3. /\ vol' \in [Volumes -> RowRec]
      /\ \A w \in Volumes : vol'[w] = IF w = v THEN row ELSE vol[w]
  BY <1>2
<1>4. TypeOK'
  BY <1>1, <1>3 DEF IInv, TypeOK, ReqRec, RowRec
<1>5. RowInv'
  BY <1>1, <1>3 DEF IInv, RowInv
<1>6. GoneInv'
  <2>1. row.inst \in Instances => inst[row.inst] # "gone"
    BY ConstantsAssumption DEF Exists
  <2> QED BY <1>3, <2>1 DEF IInv, GoneInv
<1>7. JobInv' /\ DomainInv'
  BY DEF IInv, JobInv, DomainInv, Exists
<1> QED BY <1>1, <1>4, <1>5, <1>6, <1>7 DEF IInv

\* ... or the disks of a domain do.
LEMMA RequestAndDisks ==
  ASSUME IInv, NEW c \in Clients, NEW r \in ReqRec, req' = [req EXCEPT ![c] = r], Shape(c, r),
         req[c].ctx => r.ctx, r.step # "mark",
         config' \in [Instances -> SUBSET Disks], live' \in [Instances -> SUBSET Disks],
         DomainInv', UNCHANGED <<inst, dom, vol, job, file, faults>>
  PROVE  IInv'
<1>1. /\ req' \in [Clients -> ReqRec] /\ ReqInv'
      /\ \A d \in Clients : req'[d] = IF d = c THEN r ELSE req[d]
  BY RequestMoves DEF IInv
<1>2. TypeOK'
  BY <1>1 DEF IInv, TypeOK, ReqRec
<1>3. RowInv'
  BY <1>1 DEF IInv, RowInv
<1>4. JobInv' /\ GoneInv'
  BY DEF IInv, JobInv, GoneInv, Exists
<1> QED BY <1>1, <1>2, <1>3, <1>4 DEF IInv
------------------------------------------------------------------------------
(* Disks.                                                                  *)

LEMMA Plugged ==
  ASSUME IInv, NEW v \in Volumes, NEW i \in Instances, NEW t \in Targets,
         Attachable(v, i, t), Plug(v, i, t)
  PROVE  /\ config' \in [Instances -> SUBSET Disks] /\ live' \in [Instances -> SUBSET Disks]
         /\ dom' = dom /\ DomainInv'
<1>1. <<v, t>> \in Disks /\ <<v, t>>[1] = v /\ <<v, t>>[2] = t
  BY DEF Disks
<1>2. config \in [Instances -> SUBSET Disks] /\ live \in [Instances -> SUBSET Disks]
  BY DEF IInv, TypeOK
<1>3. \A j \in Instances :
        /\ config'[j] = IF j = i THEN config[j] \cup {<<v, t>>} ELSE config[j]
        /\ live'[j] = IF j = i THEN live[j] \cup {<<v, t>>} ELSE live[j]
  BY <1>2 DEF Plug
<1>4. config' \in [Instances -> SUBSET Disks] /\ live' \in [Instances -> SUBSET Disks]
  BY <1>1, <1>2 DEF Plug
<1>5. dom[i] = "active" /\ dom' = dom /\ \A d \in live[i] \cup config[i] : d[2] # t
  BY DEF Attachable, Plug, DisksAt
<1>6. DomainInv'
  <2> SUFFICES ASSUME NEW j \in Instances
               PROVE  /\ dom[j] = "undefined" => config'[j] = {}
                      /\ dom[j] # "active" => live'[j] = {}
                      /\ \A d, e \in config'[j] \cup live'[j] : d[2] = e[2] => d = e
    BY <1>5 DEF DomainInv
  <2>1. CASE j # i
    BY <1>3, <2>1 DEF IInv, DomainInv
  <2>2. CASE j = i
    <3> DEFINE x == <<v, t>>
    <3>1. x[2] = t /\ config'[i] = config[i] \cup {x} /\ live'[i] = live[i] \cup {x}
      BY <1>1, <1>3
    <3> HIDE DEF x
    <3>2. ASSUME NEW d \in config'[i] \cup live'[i], NEW e \in config'[i] \cup live'[i], d[2] = e[2]
          PROVE  d = e
      BY <1>5, <3>1, <3>2 DEF IInv, DomainInv
    <3> QED BY Zenon, <1>5, <2>2, <3>2
  <2> QED BY <2>1, <2>2
<1> QED BY <1>4, <1>5, <1>6

LEMMA Unplugged ==
  ASSUME IInv, NEW i \in Instances, NEW t, NEW alive, Unplug(i, t, alive)
  PROVE  /\ config' \in [Instances -> SUBSET Disks] /\ live' \in [Instances -> SUBSET Disks]
         /\ dom' = dom /\ DomainInv'
<1>1. config \in [Instances -> SUBSET Disks] /\ live \in [Instances -> SUBSET Disks]
  BY DEF IInv, TypeOK
<1>2. dom' = dom /\ \A j \in Instances : config'[j] \subseteq config[j] /\ live'[j] \subseteq live[j]
  BY <1>1 DEF Unplug
<1>3. config' \in [Instances -> SUBSET Disks] /\ live' \in [Instances -> SUBSET Disks]
  BY <1>1 DEF Unplug
<1>4. DomainInv'
  <2> SUFFICES ASSUME NEW j \in Instances
               PROVE  /\ dom[j] = "undefined" => config'[j] = {}
                      /\ dom[j] # "active" => live'[j] = {}
                      /\ \A d, e \in config'[j] \cup live'[j] : d[2] = e[2] => d = e
    BY <1>2 DEF DomainInv
  <2> QED BY <1>2 DEF IInv, DomainInv
<1> QED BY <1>2, <1>3, <1>4
------------------------------------------------------------------------------
(* The invariant of types, domains and rows, step by step.                 *)

LEMMA InitInv == Init => IInv
<1> SUFFICES ASSUME Init PROVE IInv
  OBVIOUS
<1>1. \A c \in Clients : req[c] = NoRequest
  BY DEF Init
<1>2. TypeOK
  <2>1. req \in [Clients -> ReqRec]
    BY IdleRequest DEF Init
  <2>2. vol \in [Volumes -> RowRec]
    BY DEF Init, Row, RowRec
  <2>3. job \in JobRec
    BY IdleJob DEF Init
  <2>4. file \subseteq Volumes /\ faults \in 0..MaxFaults
    BY ConstantsAssumption DEF Init
  <2> QED BY <2>1, <2>2, <2>3, <2>4 DEF Init, TypeOK, ReqRec, RowRec, JobRec
<1>3. ReqInv
  BY <1>1, IdleRequest DEF ReqInv, Shape, AttachSteps, DetachSteps, VolumeSteps
<1>4. \A v \in Volumes : vol[v].inst = None
  BY DEF Init, Row
<1>5. RowInv
  BY <1>1, <1>4, IdleRequest DEF RowInv
<1>6. JobInv
  BY IdleJob DEF Init, JobInv
<1>7. DomainInv /\ GoneInv
  BY DEF Init, DomainInv, GoneInv
<1> QED BY <1>2, <1>3, <1>5, <1>6, <1>7 DEF IInv

\* There is a lowest letter.
LEMMA LowestLetter ==
  ASSUME NEW S \in SUBSET Targets, S # {}
  PROVE  \E x \in S : \A u \in S : x <= u
<1> DEFINE below == OpToRel(<, Nat)
<1>1. \A x, y \in Nat : y < x => <<y, x>> \in below
  BY DEF OpToRel
<1>2. S \subseteq Nat
  BY DEF Targets
<1> HIDE DEF below
<1>3. PICK x \in S : \A y \in S : ~(<<y, x>> \in below)
  <2>1. IsWellFoundedOn(below, Nat)
    BY NatLessThanWellFounded DEF below
  <2> QED BY <1>2, <2>1, WFMin
<1>4. ASSUME NEW y \in S PROVE x <= y
  <2>1. x \in Nat /\ y \in Nat /\ ~(y < x)
    BY <1>1, <1>2, <1>3
  <2> QED BY <2>1
<1> QED BY <1>4

LEMMA DoneInv ==
  ASSUME IInv, NEW c \in Clients, Done(c), UNCHANGED <<inst, virt, vol, job>>,
         file' \subseteq Volumes, faults' \in 0..MaxFaults, faults' = 0 => faults = 0
  PROVE  IInv'
<1>1. Shape(c, NoRequest)
  BY IdleRequest DEF Shape, AttachSteps, DetachSteps, VolumeSteps
<1> QED BY <1>1, IdleRequest, RequestOnly DEF Done, virt

LEMMA AskInv ==
  ASSUME IInv, NEW c \in Clients, NEW v \in Volumes, NEW i \in Instances, NEW r \in ReqRec,
         req' = [req EXCEPT ![c] = r], r.vol = v, r.inst = i, r.ctx,
         (r.step = "volume" /\ c \in Attachers) \/ (r.step = "row" /\ c \in Detachers),
         UNCHANGED <<inst, virt, vol, file, job, faults>>
  PROVE  IInv'
<1>1. Shape(c, r)
  BY DEF Shape, AttachSteps, DetachSteps, VolumeSteps
<1> QED BY <1>1, RequestOnly DEF IInv, TypeOK, virt

LEMMA GoOnInv ==
  ASSUME IInv, NEW c \in Clients, NEW r \in ReqRec, req' = [req EXCEPT ![c] = r], Shape(c, r),
         r.ctx = req[c].ctx, r.step # "mark",
         UNCHANGED <<inst, virt, vol, file, job, faults>>
  PROVE  IInv'
<1>1. faults = 0 => req[c].ctx
  BY DEF IInv, RowInv
<1> QED BY <1>1, RequestOnly DEF IInv, TypeOK, virt

LEMMA AttachInv ==
  ASSUME IInv, NEW c \in Clients,
         \/ GetVolume(c) \/ NextVirtioDiskTarget(c) \/ LibvirtAttach(c)
         \/ AttachVolumeRecord(c) \/ UndoAttach(c)
  PROVE  IInv'
<1>0. /\ Shape(c, req[c]) /\ req[c] \in ReqRec /\ file \subseteq Volumes
      /\ faults \in 0..MaxFaults /\ (faults = 0 => req[c].ctx)
  BY TypedRequests DEF IInv, ReqInv, TypeOK, RowInv
<1>1. CASE GetVolume(c)
  <2>1. UNCHANGED <<inst, virt, vol, file, job, faults>>
    BY <1>1 DEF GetVolume
  <2>2. CASE To(c, "target")
    <3>1. PICK r \in ReqRec : /\ req' = [req EXCEPT ![c] = r]
                              /\ r.step = "target" /\ r.vol = req[c].vol
                              /\ r.inst = req[c].inst /\ r.ctx = req[c].ctx
      BY <2>2, ToEffect DEF IInv, AttachSteps
    <3>2. Shape(c, r)
      BY <1>0, <1>1, <3>1 DEF GetVolume, At, Shape, AttachSteps, DetachSteps, VolumeSteps
    <3> QED BY <2>1, <3>1, <3>2, GoOnInv
  <2> QED BY <1>0, <1>1, <2>1, <2>2, DoneInv DEF GetVolume
<1>2. CASE NextVirtioDiskTarget(c)
  <2>1. UNCHANGED <<inst, virt, vol, file, job, faults>>
    BY <1>2 DEF NextVirtioDiskTarget
  <2> DEFINE free == Unused(req[c].inst)
             t == CHOOSE t \in free : \A u \in free : t <= u
  <2>2. CASE free # {} /\ req' = [req EXCEPT ![c].step = "attach", ![c].tgt = t]
    <3>1. t \in Targets
      <4>1. free \subseteq Targets /\ Targets \subseteq Nat
        BY DEF Unused, Targets
      <4>2. \E x \in free : \A u \in free : x <= u
        BY <2>2, <4>1, LowestLetter
      <4> QED BY Zenon, <4>1, <4>2
    <3> HIDE DEF t
    <3>2. PICK r \in ReqRec : /\ req' = [req EXCEPT ![c] = r]
                              /\ r.step = "attach" /\ r.vol = req[c].vol /\ r.tgt = t
                              /\ r.inst = req[c].inst /\ r.ctx = req[c].ctx
      <4>1. "attach" \in AttachSteps \cup DetachSteps /\ t \in Targets \cup {0} /\ TypeOK
        BY <3>1 DEF AttachSteps, IInv
      <4>2. ToWith(c, "attach", t)
        BY <2>2 DEF ToWith
      <4> QED BY <4>1, <4>2, ToWithEffect
    <3>3. Shape(c, r)
      BY <1>0, <1>2, <3>1, <3>2
         DEF NextVirtioDiskTarget, At, Shape, AttachSteps, DetachSteps, VolumeSteps
    <3> QED BY <2>1, <3>2, <3>3, GoOnInv
  <2>3. Done(c) \/ (free # {} /\ req' = [req EXCEPT ![c].step = "attach", ![c].tgt = t])
    BY Zenon, <1>2 DEF NextVirtioDiskTarget
  <2> QED BY <1>0, <2>1, <2>2, <2>3, DoneInv
<1>3. CASE LibvirtAttach(c)
  <2> DEFINE v == req[c].vol  i == req[c].inst  t == req[c].tgt
  <2>1. /\ UNCHANGED <<inst, vol, file, job, faults>>
        /\ v \in Volumes /\ i \in Instances /\ t \in Targets
    BY <1>0, <1>3 DEF LibvirtAttach, At, Shape, AttachSteps
  <2>2. CASE Attachable(v, i, t) /\ Plug(v, i, t) /\ To(c, "record")
    <3>1. /\ config' \in [Instances -> SUBSET Disks] /\ live' \in [Instances -> SUBSET Disks]
          /\ dom' = dom /\ DomainInv'
      BY <2>1, <2>2, Plugged
    <3>2. PICK r \in ReqRec : /\ req' = [req EXCEPT ![c] = r]
                              /\ r.step = "record" /\ r.vol = req[c].vol /\ r.tgt = req[c].tgt
                              /\ r.inst = req[c].inst /\ r.ctx = req[c].ctx
      BY <2>2, ToEffect DEF IInv, AttachSteps
    <3>3. Shape(c, r)
      BY <1>0, <1>3, <3>2 DEF LibvirtAttach, At, Shape, AttachSteps, DetachSteps, VolumeSteps
    <3> QED BY <2>1, <3>1, <3>2, <3>3, RequestAndDisks
  <2>3. CASE Done(c) /\ UNCHANGED virt
    BY <1>0, <2>1, <2>3, DoneInv
  <2> QED BY <1>3, <2>2, <2>3 DEF LibvirtAttach
<1>4. CASE AttachVolumeRecord(c)
  <2> DEFINE v == req[c].vol  i == req[c].inst
  <2>1. /\ UNCHANGED <<inst, virt, file, job, faults>>
        /\ v \in Volumes /\ i \in Instances /\ req[c].tgt \in Targets
    BY <1>0, <1>4 DEF AttachVolumeRecord, At, Shape, AttachSteps
  <2>2. CASE /\ Recordable(v, i)
             /\ vol' = [vol EXCEPT ![v] = Row("in-use", i, req[c].tgt)] /\ Done(c)
    <3> DEFINE row == Row("in-use", i, req[c].tgt)
    <3>1. row \in RowRec /\ row.inst = i /\ row.tgt = req[c].tgt /\ row.status = "in-use"
      BY <2>1 DEF Row, RowRec
    <3>2. Shape(c, NoRequest)
      BY IdleRequest DEF Shape, AttachSteps, DetachSteps, VolumeSteps
    <3>3. /\ vol' = [vol EXCEPT ![v] = row] /\ Exists(row.inst)
          /\ req' = [req EXCEPT ![c] = NoRequest] /\ UNCHANGED <<dom, config, live>>
      BY <2>1, <2>2, <3>1 DEF Done, Recordable, virt
    <3> HIDE DEF row
    <3> QED BY <2>1, <3>1, <3>2, <3>3, IdleRequest, RequestAndRow
  <2>3. CASE To(c, "undo") /\ UNCHANGED vol
    <3>1. PICK r \in ReqRec : /\ req' = [req EXCEPT ![c] = r]
                              /\ r.step = "undo" /\ r.vol = req[c].vol /\ r.tgt = req[c].tgt
                              /\ r.inst = req[c].inst /\ r.ctx = req[c].ctx
      BY <2>3, ToEffect DEF IInv, AttachSteps
    <3>2. Shape(c, r)
      BY <1>0, <1>4, <3>1 DEF AttachVolumeRecord, At, Shape, AttachSteps, DetachSteps, VolumeSteps
    <3> QED BY <2>1, <2>3, <3>1, <3>2, GoOnInv
  <2> QED BY <1>4, <2>2, <2>3 DEF AttachVolumeRecord
<1>5. CASE UndoAttach(c)
  <2> DEFINE i == req[c].inst  t == req[c].tgt
  <2>1. UNCHANGED <<inst, vol, file, job, faults>> /\ Done(c) /\ i \in Instances
    BY <1>0, <1>5 DEF UndoAttach, At, Shape, AttachSteps
  <2>2. CASE Unplug(i, t, TRUE)
    <3>1. /\ config' \in [Instances -> SUBSET Disks] /\ live' \in [Instances -> SUBSET Disks]
          /\ dom' = dom /\ DomainInv'
      BY <2>1, <2>2, Unplugged
    <3>2. Shape(c, NoRequest)
      BY IdleRequest DEF Shape, AttachSteps, DetachSteps, VolumeSteps
    <3> QED BY <1>0, <2>1, <3>1, <3>2, IdleRequest, RequestAndDisks DEF Done
  <2>3. CASE UNCHANGED virt
    BY <1>0, <2>1, <2>3, DoneInv
  <2> QED BY <1>5, <2>2, <2>3 DEF UndoAttach
<1> QED BY <1>1, <1>2, <1>3, <1>4, <1>5

LEMMA AskBothInv ==
  ASSUME IInv, NEW c \in Clients, NEW v \in Volumes, NEW i \in Instances,
         AskAttach(c, v, i) \/ AskDetach(c, v, i)
  PROVE  IInv'
<1>0. /\ "volume" \in AttachSteps \cup DetachSteps \cup VolumeSteps
      /\ "row" \in AttachSteps \cup DetachSteps \cup VolumeSteps
      /\ i \in Instances \cup {None} /\ TRUE \in BOOLEAN /\ (inst[i] = "running") \in BOOLEAN
  BY DEF AttachSteps, DetachSteps
<1>1. CASE AskAttach(c, v, i)
  <2> DEFINE r == Asked("volume", v, i, TRUE)
  <2>1. r \in ReqRec /\ r.step = "volume" /\ r.vol = v /\ r.inst = i /\ r.ctx
    BY <1>0 DEF Asked, ReqRec
  <2>2. req' = [req EXCEPT ![c] = r]
    BY Zenon, <1>1 DEF AskAttach, Ask, Asked
  <2>3. c \in Attachers /\ UNCHANGED <<inst, virt, vol, file, job, faults>>
    BY <1>1 DEF AskAttach
  <2> HIDE DEF r
  <2> QED BY <2>1, <2>2, <2>3, AskInv
<1>2. CASE AskDetach(c, v, i)
  <2> DEFINE r == Asked("row", v, i, inst[i] = "running")
  <2>1. r \in ReqRec /\ r.step = "row" /\ r.vol = v /\ r.inst = i /\ r.ctx
    BY <1>0 DEF Asked, ReqRec
  <2>2. req' = [req EXCEPT ![c] = r]
    BY Zenon, <1>2 DEF AskDetach, Ask, Asked
  <2>3. c \in Detachers /\ UNCHANGED <<inst, virt, vol, file, job, faults>>
    BY <1>2 DEF AskDetach
  <2> HIDE DEF r
  <2> QED BY <2>1, <2>2, <2>3, AskInv
<1> QED BY <1>1, <1>2

LEMMA ReleasedRow ==
  ASSUME TypeOK, NEW v \in Volumes
  PROVE  \E row \in RowRec : Released(v) = [vol EXCEPT ![v] = row] /\ row.inst = None /\ row.tgt = 0
                             /\ row.status = "available"
<1> DEFINE row == Row("available", None, 0)
<1>1. row \in RowRec /\ row.inst = None /\ row.tgt = 0 /\ row.status = "available"
  BY DEF Row, RowRec
<1>2. Released(v) = [vol EXCEPT ![v] = row]
  BY DEF Released
<1> HIDE DEF row
<1> QED BY <1>1, <1>2

LEMMA DetachInv ==
  ASSUME IInv, NEW c \in Clients, GetAttachment(c) \/ LibvirtDetach(c) \/ DetachVolumeRecord(c)
  PROVE  IInv'
<1>0. /\ Shape(c, req[c]) /\ req[c] \in ReqRec /\ file \subseteq Volumes /\ TypeOK
      /\ faults \in 0..MaxFaults
  BY TypedRequests DEF IInv, ReqInv, TypeOK
<1>1. CASE GetAttachment(c)
  <2> DEFINE v == req[c].vol
  <2>1. UNCHANGED <<inst, virt, vol, file, job, faults>> /\ v \in Volumes
    BY <1>0, <1>1 DEF GetAttachment, At, Shape, DetachSteps
  <2>2. CASE req' = [req EXCEPT ![c].step = "detach", ![c].tgt = vol[v].tgt]
    <3>1. vol[v].tgt \in Targets \cup {0} /\ "detach" \in AttachSteps \cup DetachSteps
      BY <2>1 DEF IInv, TypeOK, DetachSteps
    <3>2. ToWith(c, "detach", vol[v].tgt)
      BY <2>2 DEF ToWith
    <3>3. PICK r \in ReqRec : /\ req' = [req EXCEPT ![c] = r]
                              /\ r.step = "detach" /\ r.vol = req[c].vol /\ r.tgt = vol[v].tgt
                              /\ r.inst = req[c].inst /\ r.ctx = req[c].ctx
      BY <1>0, <3>1, <3>2, ToWithEffect
    <3>4. Shape(c, r)
      BY <1>0, <1>1, <3>3 DEF GetAttachment, At, Shape, AttachSteps, DetachSteps, VolumeSteps
    <3> QED BY <2>1, <3>3, <3>4, GoOnInv
  <2> QED BY <1>0, <1>1, <2>1, <2>2, DoneInv DEF GetAttachment
<1>2. CASE LibvirtDetach(c)
  <2> DEFINE i == req[c].inst  t == req[c].tgt  alive == req[c].flag
  <2>1. UNCHANGED <<inst, vol, file, job, faults>> /\ i \in Instances
    BY <1>0, <1>2 DEF LibvirtDetach, At, Shape, DetachSteps
  <2>2. CASE Unplug(i, t, alive) /\ To(c, "release")
    <3>1. /\ config' \in [Instances -> SUBSET Disks] /\ live' \in [Instances -> SUBSET Disks]
          /\ dom' = dom /\ DomainInv'
      BY <2>1, <2>2, Unplugged
    <3>2. PICK r \in ReqRec : /\ req' = [req EXCEPT ![c] = r]
                              /\ r.step = "release" /\ r.vol = req[c].vol
                              /\ r.inst = req[c].inst /\ r.ctx = req[c].ctx
      BY <1>0, <2>2, ToEffect DEF DetachSteps
    <3>3. Shape(c, r)
      BY <1>0, <1>2, <3>2 DEF LibvirtDetach, At, Shape, AttachSteps, DetachSteps, VolumeSteps
    <3> QED BY <2>1, <3>1, <3>2, <3>3, RequestAndDisks
  <2>3. CASE Done(c) /\ UNCHANGED virt
    BY <1>0, <2>1, <2>3, DoneInv
  <2> QED BY <1>2, <2>2, <2>3 DEF LibvirtDetach
<1>3. CASE DetachVolumeRecord(c)
  <2> DEFINE v == req[c].vol
  <2>1. UNCHANGED <<inst, virt, file, job, faults>> /\ Done(c) /\ v \in Volumes
    BY <1>0, <1>3 DEF DetachVolumeRecord, At, Shape, DetachSteps
  <2>2. CASE vol' = Released(v)
    <3>1. PICK row \in RowRec : vol' = [vol EXCEPT ![v] = row] /\ row.inst = None
      BY <1>0, <2>1, <2>2, ReleasedRow
    <3>2. Shape(c, NoRequest)
      BY IdleRequest DEF Shape, AttachSteps, DetachSteps, VolumeSteps
    <3>3. req' = [req EXCEPT ![c] = NoRequest] /\ UNCHANGED <<dom, config, live>>
      BY <2>1 DEF Done, virt
    <3> QED BY <2>1, <3>1, <3>2, <3>3, IdleRequest, RequestAndRow
  <2>3. CASE vol' = vol
    BY <1>0, <2>1, <2>3, DoneInv
  <2> QED BY <1>3, <2>2, <2>3 DEF DetachVolumeRecord
<1> QED BY <1>1, <1>2, <1>3

LEMMA RowRecords ==
  ASSUME TypeOK, NEW v \in Volumes, NEW s \in {"available", "error", "deleted"}
  PROVE  /\ \E row \in RowRec : /\ [vol EXCEPT ![v].status = s] = [vol EXCEPT ![v] = row]
                                /\ row.status = s /\ row.inst = vol[v].inst /\ row.tgt = vol[v].tgt
         /\ Row(s, None, 0) \in RowRec /\ Row(s, None, 0).inst = None
<1> DEFINE row == [vol[v] EXCEPT !.status = s]
<1>1. vol[v] \in RowRec
  BY DEF TypeOK, RowRec
<1>2. row \in RowRec /\ row.status = s /\ row.inst = vol[v].inst /\ row.tgt = vol[v].tgt
  BY <1>1 DEF RowRec
<1>3. [vol EXCEPT ![v].status = s] = [vol EXCEPT ![v] = row]
  OBVIOUS
<1>4. Row(s, None, 0) \in RowRec /\ Row(s, None, 0).inst = None
  BY DEF Row, RowRec
<1> QED BY <1>2, <1>3, <1>4

LEMMA VolumeInv ==
  ASSUME IInv, NEW c \in Clients,
         \/ \E v \in Volumes : CreateVolume(c, v) \/ DeleteVolume(c, v)
         \/ CreateSparseQCOW2(c) \/ ProvisioningFails(c) \/ SetVolumeError(c) \/ RemoveFile(c)
  PROVE  IInv'
<1>0. /\ Shape(c, req[c]) /\ req[c] \in ReqRec /\ file \subseteq Volumes /\ TypeOK
      /\ faults \in 0..MaxFaults /\ None \in Instances \cup {None} /\ FALSE \in BOOLEAN
      /\ "file" \in AttachSteps \cup DetachSteps \cup VolumeSteps
      /\ "unlink" \in AttachSteps \cup DetachSteps \cup VolumeSteps
      /\ "mark" \in VolumeSteps /\ "remove" \in VolumeSteps
  BY TypedRequests DEF IInv, ReqInv, TypeOK, VolumeSteps
<1>1. ASSUME NEW v \in Volumes, CreateVolume(c, v) PROVE IInv'
  <2> DEFINE r == Asked("file", v, None, FALSE)
  <2>1. r \in ReqRec /\ r.step = "file" /\ r.vol = v /\ r.ctx
    BY <1>0 DEF Asked, ReqRec
  <2>2. req' = [req EXCEPT ![c] = r]
    BY Zenon, <1>1 DEF CreateVolume, Ask, Asked
  <2>3. /\ c \in Owners /\ UNCHANGED <<inst, dom, config, live, file, job, faults>>
        /\ vol[v].status = "none" /\ vol' = [vol EXCEPT ![v].status = "available"]
    BY <1>1 DEF CreateVolume, virt
  <2> HIDE DEF r
  <2>4. Shape(c, r)
    BY <2>1, <2>3 DEF Shape, AttachSteps, DetachSteps, VolumeSteps
  <2>5. PICK row \in RowRec : vol' = [vol EXCEPT ![v] = row] /\ row.inst = vol[v].inst
                              /\ row.tgt = vol[v].tgt
    BY <1>0, <2>3, RowRecords
  <2>6. vol[v].inst = None \/ faults # 0
    BY <2>3 DEF IInv, RowInv
  <2>7. row.inst # None => /\ row.tgt \in Targets /\ Exists(row.inst)
                           /\ faults = 0 => row.status = "in-use"
    <3>1. vol[v].inst \in Instances \cup {None}
      BY DEF IInv, TypeOK
    <3> QED BY <2>5, <2>6, <3>1 DEF IInv, RowInv, GoneInv, Exists
  <2> QED BY <2>1, <2>2, <2>3, <2>4, <2>5, <2>7, RequestAndRow
<1>2. ASSUME NEW v \in Volumes, DeleteVolume(c, v) PROVE IInv'
  <2> DEFINE r == Asked("unlink", v, None, FALSE)
             row == Row("deleted", None, 0)
  <2>1. r \in ReqRec /\ r.step = "unlink" /\ r.vol = v /\ r.ctx
    BY <1>0 DEF Asked, ReqRec
  <2>2. req' = [req EXCEPT ![c] = r]
    BY Zenon, <1>2 DEF DeleteVolume, Ask, Asked
  <2>3. /\ UNCHANGED <<inst, dom, config, live, file, job, faults>>
        /\ vol' = [vol EXCEPT ![v] = row] /\ row \in RowRec /\ row.inst = None
    BY <1>0, <1>2, RowRecords DEF DeleteVolume, virt
  <2> HIDE DEF r, row
  <2>4. Shape(c, r)
    BY <2>1 DEF Shape, AttachSteps, DetachSteps, VolumeSteps
  <2> QED BY <2>1, <2>2, <2>3, <2>4, RequestAndRow
<1>3. CASE CreateSparseQCOW2(c) \/ RemoveFile(c)
  <2>1. req[c].vol \in Volumes
    BY <1>0, <1>3 DEF CreateSparseQCOW2, RemoveFile, At, Shape, VolumeSteps
  <2>2. file' \subseteq Volumes /\ Done(c) /\ UNCHANGED <<inst, virt, vol, job, faults>>
    BY <1>0, <1>3, <2>1 DEF CreateSparseQCOW2, RemoveFile
  <2> QED BY <1>0, <2>2, DoneInv
<1>4. CASE ProvisioningFails(c)
  <2>1. req[c].vol \in Volumes /\ req[c].step = "file"
    BY <1>0, <1>4 DEF ProvisioningFails, At, Shape, VolumeSteps
  <2>2. PICK r \in ReqRec : /\ req' = [req EXCEPT ![c] = r]
                            /\ r.step = "mark" /\ r.vol = req[c].vol
    BY <1>0, <1>4, ToEffect DEF ProvisioningFails
  <2>3. Shape(c, r)
    BY <2>1, <2>2 DEF Shape, AttachSteps, DetachSteps, VolumeSteps
  <2>4. /\ UNCHANGED <<inst, dom, config, live, vol, job>> /\ file' \subseteq Volumes
        /\ faults' \in 0..MaxFaults
    BY <1>0, <1>4, <2>1, ConstantsAssumption DEF ProvisioningFails, virt
  <2>5. faults' # 0
    <3>1. faults = 0 => Runs(c)
      BY DEF IInv, RowInv, Runs
    <3> QED BY <1>0, <1>4, <3>1 DEF ProvisioningFails
  <2> QED BY <2>2, <2>3, <2>4, <2>5, RequestOnly
<1>5. CASE SetVolumeError(c)
  <2> DEFINE v == req[c].vol
  <2>1. /\ v \in Volumes /\ faults # 0 /\ UNCHANGED <<inst, dom, config, live, file, job, faults>>
        /\ req[c].step = "mark"
    BY <1>0, <1>5 DEF SetVolumeError, At, Shape, VolumeSteps, IInv, RowInv, virt
  <2>2. PICK r \in ReqRec : /\ req' = [req EXCEPT ![c] = r]
                            /\ r.step = "remove" /\ r.vol = req[c].vol /\ r.ctx = req[c].ctx
    BY <1>0, <1>5, ToEffect DEF SetVolumeError
  <2>3. Shape(c, r)
    BY <2>1, <2>2 DEF Shape, AttachSteps, DetachSteps, VolumeSteps
  <2>4. CASE vol' = vol
    BY <1>0, <2>1, <2>2, <2>3, <2>4, RequestOnly
  <2>5. CASE vol' = [vol EXCEPT ![v].status = "error"]
    <3>1. PICK row \in RowRec : vol' = [vol EXCEPT ![v] = row] /\ row.inst = vol[v].inst
                                /\ row.tgt = vol[v].tgt
      BY <1>0, <2>1, <2>5, RowRecords
    <3>2. row.inst # None => row.tgt \in Targets /\ Exists(row.inst)
      <4>1. vol[v].inst \in Instances \cup {None}
        BY <2>1 DEF IInv, TypeOK
      <4> QED BY <2>1, <3>1, <4>1 DEF IInv, RowInv, GoneInv, Exists
    <3> QED BY <2>1, <2>2, <2>3, <3>1, <3>2, RequestAndRow
  <2> QED BY <1>5, <2>4, <2>5 DEF SetVolumeError
<1> QED BY <1>1, <1>2, <1>3, <1>4, <1>5

LEMMA ApiFaultInv ==
  ASSUME IInv, NEW c \in Clients, ClientGone(c) \/ ApiDies(c)
  PROVE  IInv'
<1>1. /\ faults' \in 0..MaxFaults /\ faults' # 0 /\ file' \subseteq Volumes
      /\ UNCHANGED <<inst, virt, vol, file, job>>
  BY ConstantsAssumption DEF ClientGone, ApiDies, IInv, TypeOK
<1>2. CASE ClientGone(c)
  <2> DEFINE r == [req[c] EXCEPT !.ctx = FALSE]
  <2>1. Shape(c, req[c]) /\ req[c] \in ReqRec
    BY TypedRequests DEF IInv, ReqInv
  <2>2. /\ r \in ReqRec /\ r.step = req[c].step /\ r.vol = req[c].vol /\ r.inst = req[c].inst
        /\ r.tgt = req[c].tgt
    BY <2>1 DEF ReqRec
  <2>3. req' = [req EXCEPT ![c] = r]
    BY <1>2 DEF ClientGone
  <2> HIDE DEF r
  <2>4. Shape(c, r)
    BY <2>1, <2>2 DEF Shape
  <2> QED BY <1>1, <2>2, <2>3, <2>4, RequestOnly DEF virt
<1>3. CASE ApiDies(c)
  BY <1>1, <1>3, DoneInv DEF ApiDies
<1> QED BY <1>2, <1>3

\* A step of the worker: the destroy goes on, nobody else does.
LEMMA WorkerMoves ==
  ASSUME IInv, job' \in JobRec, UNCHANGED <<req, faults, file>>,
         inst' \in [Instances -> {"running", "stopped", "deleting", "error", "gone"}],
         dom' \in [Instances -> {"active", "shutoff", "undefined"}],
         config' \in [Instances -> SUBSET Disks], live' \in [Instances -> SUBSET Disks],
         vol' \in [Volumes -> RowRec], RowInv', JobInv', DomainInv', GoneInv'
  PROVE  IInv'
<1>1. TypeOK'
  BY DEF IInv, TypeOK, JobRec, RowRec
<1>2. ReqInv'
  BY DEF IInv, ReqInv, Shape
<1> QED BY <1>1, <1>2 DEF IInv

LEMMA JobTypes ==
  ASSUME IInv
  PROVE  /\ job \in JobRec /\ vol \in [Volumes -> RowRec]
         /\ inst \in [Instances -> {"running", "stopped", "deleting", "error", "gone"}]
         /\ dom \in [Instances -> {"active", "shutoff", "undefined"}]
         /\ config \in [Instances -> SUBSET Disks] /\ live \in [Instances -> SUBSET Disks]
         /\ MaxRetries \in Nat
BY ConstantsAssumption DEF IInv, TypeOK, JobRec, RowRec

LEMMA NextTry ==
  ASSUME IInv, job.step # "idle", Again
  PROVE  /\ job' \in JobRec
         /\ job' = NoJob \/ (job'.step = "begin" /\ job'.inst = job.inst)
<1>1. /\ job \in JobRec /\ MaxRetries \in Nat /\ job.inst \in Instances
      /\ job.tries \in 0..MaxRetries
  BY JobTypes DEF IInv, JobInv, JobRec
<1>2. CASE job.tries < MaxRetries
  <2>1. /\ job.tries + 1 \in 0..MaxRetries
        /\ job' = [NoJob EXCEPT !.step = "begin", !.inst = job.inst, !.tries = job.tries + 1]
    BY <1>1, <1>2 DEF Again
  <2> QED BY <1>1, <2>1, JobBegins
<1>3. CASE ~(job.tries < MaxRetries)
  BY <1>3, IdleJob DEF Again
<1> QED BY <1>2, <1>3

LEMMA DestroyInv ==
  ASSUME IInv, BeginDestroy \/ ListAttached \/ DeleteVM
  PROVE  IInv'
<1>0. /\ job \in JobRec /\ job.inst \in Instances /\ Exists(job.inst)
      /\ UNCHANGED <<req, faults, file, vol>>
  BY JobTypes DEF IInv, JobInv, BeginDestroy, ListAttached, DeleteVM
<1>1. CASE BeginDestroy
  <2> DEFINE b == inst[job.inst] = "running"
  <2>1. /\ job' \in JobRec /\ job'.step = "list" /\ job'.inst = job.inst
        /\ inst' = [inst EXCEPT ![job.inst] = "deleting"] /\ UNCHANGED <<dom, config, live>>
    <3>1. job' = [job EXCEPT !.step = "list", !.live = b] /\ b \in BOOLEAN
      BY <1>1 DEF BeginDestroy
    <3> HIDE DEF b
    <3>2. job' \in JobRec /\ job'.step = "list" /\ job'.inst = job.inst
      BY <3>1, JobListed DEF IInv
    <3> QED BY <1>1, <3>2 DEF BeginDestroy, virt
  <2>2. RowInv' /\ DomainInv'
    BY <1>0, <2>1 DEF IInv, RowInv, DomainInv
  <2>3. JobInv' /\ GoneInv'
    BY <1>0, <2>1, JobTypes DEF IInv, JobInv, GoneInv, Exists
  <2> QED BY <1>0, <2>1, <2>2, <2>3, JobTypes, WorkerMoves
<1>2. CASE ListAttached
  <2> DEFINE left == {<<v, vol[v].tgt>> : v \in {w \in Volumes : vol[w].inst = job.inst}}
  <2>1. left \in SUBSET Disks
    BY <1>0, ConstantsAssumption DEF IInv, RowInv, Disks
  <2>2. job' = [job EXCEPT !.step = "detach", !.left = left] /\ UNCHANGED <<inst, dom, config, live>>
    BY <1>2 DEF ListAttached, virt
  <2> HIDE DEF left
  <2>3. job' \in JobRec /\ job'.step = "detach" /\ job'.inst = job.inst
    BY <1>0, <2>1, <2>2 DEF JobRec
  <2>4. RowInv' /\ DomainInv' /\ GoneInv'
    BY <1>0, <2>2 DEF IInv, RowInv, DomainInv, GoneInv
  <2>5. JobInv'
    BY <1>0, <1>2, <2>2, <2>3 DEF ListAttached, IInv, JobInv, Exists
  <2> QED BY <1>0, <2>2, <2>3, <2>4, <2>5, JobTypes, WorkerMoves
<1>3. CASE DeleteVM
  <2>1. /\ dom' = [dom EXCEPT ![job.inst] = "undefined"]
        /\ config' = [config EXCEPT ![job.inst] = {}] /\ live' = [live EXCEPT ![job.inst] = {}]
        /\ job' = [job EXCEPT !.step = "finalize"] /\ inst' = inst /\ job.step = "detach"
    BY <1>3 DEF DeleteVM
  <2>2. job' \in JobRec /\ job'.step = "finalize" /\ job'.inst = job.inst
    BY <1>0, <2>1 DEF JobRec
  <2>3. /\ dom' \in [Instances -> {"active", "shutoff", "undefined"}]
        /\ config' \in [Instances -> SUBSET Disks] /\ live' \in [Instances -> SUBSET Disks]
        /\ \A i \in Instances :
             /\ dom'[i] = IF i = job.inst THEN "undefined" ELSE dom[i]
             /\ config'[i] = IF i = job.inst THEN {} ELSE config[i]
             /\ live'[i] = IF i = job.inst THEN {} ELSE live[i]
    BY <1>0, <2>1, JobTypes
  <2>4. RowInv'
    BY <1>0 DEF IInv, RowInv
  <2>5. DomainInv' /\ GoneInv'
    BY <1>0, <2>1, <2>3 DEF IInv, DomainInv, GoneInv
  <2>6. JobInv'
    BY <1>0, <2>1, <2>2, <2>3 DEF IInv, JobInv, Exists
  <2> QED BY <1>0, <2>1, <2>2, <2>3, <2>4, <2>5, <2>6, JobTypes, WorkerMoves
<1> QED BY <1>1, <1>2, <1>3

LEMMA DetachNextInv ==
  ASSUME IInv, NEW d \in job.left, DetachNext(d)
  PROVE  IInv'
<1>0. /\ job \in JobRec /\ job.inst \in Instances /\ Exists(job.inst) /\ job.step = "detach"
      /\ UNCHANGED <<req, faults, file, vol, inst>>
  BY JobTypes DEF IInv, JobInv, DetachNext
<1>1. d \in Disks /\ job.left \in SUBSET Disks
  BY <1>0 DEF JobRec
<1>2. job' \in JobRec /\ job'.step = "release" /\ job'.inst = job.inst /\ job'.cur = d
  <2> DEFINE left == job.left \ {d}
  <2>1. left \in SUBSET Disks
    BY <1>1
  <2>2. job' = [job EXCEPT !.step = "release", !.cur = d, !.left = left]
    BY DEF DetachNext
  <2> HIDE DEF left
  <2> QED BY <1>0, <1>1, <2>1, <2>2 DEF JobRec
<1>3. /\ config' \in [Instances -> SUBSET Disks] /\ live' \in [Instances -> SUBSET Disks]
      /\ dom' = dom /\ DomainInv'
  <2>1. CASE Unplug(job.inst, d[2], job.live)
    BY <1>0, <2>1, Unplugged
  <2>2. CASE UNCHANGED virt
    BY <2>2, JobTypes DEF virt, IInv, DomainInv
  <2> QED BY <2>1, <2>2 DEF DetachNext
<1>4. RowInv' /\ GoneInv'
  BY <1>0, <1>3 DEF IInv, RowInv, GoneInv
<1>5. JobInv'
  BY <1>0, <1>1, <1>2, <1>3 DEF IInv, JobInv, Exists
<1> QED BY <1>0, <1>2, <1>3, <1>4, <1>5, JobTypes, WorkerMoves

LEMMA ReleaseNextInv ==
  ASSUME IInv, ReleaseNext
  PROVE  IInv'
<1>0. /\ job \in JobRec /\ job.inst \in Instances /\ Exists(job.inst) /\ job.step = "release"
      /\ inst[job.inst] = "deleting" /\ job.cur \in Disks /\ TypeOK
      /\ UNCHANGED <<req, faults, file, dom, config, live>>
  BY JobTypes DEF IInv, JobInv, ReleaseNext, virt
<1>1. job.cur[1] \in Volumes
  BY <1>0 DEF Disks
<1>2. DomainInv'
  BY <1>0 DEF IInv, DomainInv
<1>3. CASE vol[job.cur[1]].inst = job.inst
  <2>1. PICK row \in RowRec : vol' = [vol EXCEPT ![job.cur[1]] = row] /\ row.inst = None
    BY <1>0, <1>1, <1>3, ReleasedRow DEF ReleaseNext
  <2>2. /\ vol' \in [Volumes -> RowRec]
        /\ \A w \in Volumes : vol'[w] = IF w = job.cur[1] THEN row ELSE vol[w]
    BY <1>1, <2>1, JobTypes
  <2>3. job' = [job EXCEPT !.step = "detach", !.cur = NoDisk] /\ inst' = inst
    BY <1>3 DEF ReleaseNext
  <2>4. job' \in JobRec /\ job'.step = "detach" /\ job'.inst = job.inst
    BY <1>0, <2>3 DEF JobRec
  <2>5. RowInv'
    BY <1>0, <2>1, <2>2 DEF IInv, RowInv
  <2>6. GoneInv'
    BY <1>0, <2>1, <2>2, <2>3, ConstantsAssumption DEF IInv, GoneInv
  <2>7. JobInv'
    BY <1>0, <2>3, <2>4 DEF IInv, JobInv, Exists
  <2> QED BY <1>0, <1>2, <2>2, <2>3, <2>4, <2>5, <2>6, <2>7, JobTypes, WorkerMoves
<1>4. CASE vol[job.cur[1]].inst # job.inst
  <2>1. inst' = [inst EXCEPT ![job.inst] = "error"] /\ Again /\ vol' = vol
    BY <1>4 DEF ReleaseNext
  <2>2. job' \in JobRec /\ (job' = NoJob \/ (job'.step = "begin" /\ job'.inst = job.inst))
    BY <1>0, <2>1, NextTry
  <2>3. RowInv'
    BY <1>0, <2>1 DEF IInv, RowInv
  <2>4. /\ inst' \in [Instances -> {"running", "stopped", "deleting", "error", "gone"}]
        /\ \A i \in Instances : inst'[i] = IF i = job.inst THEN "error" ELSE inst[i]
    BY <1>0, <2>1, JobTypes
  <2>5. GoneInv'
    BY <1>0, <2>1, <2>4 DEF IInv, GoneInv
  <2>6. JobInv'
    BY <1>0, <2>2, <2>4, IdleJob DEF JobInv, Exists
  <2> QED BY <1>0, <1>2, <2>1, <2>2, <2>3, <2>4, <2>5, <2>6, JobTypes, WorkerMoves
<1> QED BY <1>3, <1>4

LEMMA FinalizeInv ==
  ASSUME IInv, FinalizeDestroy
  PROVE  IInv'
<1>0. /\ job \in JobRec /\ job.inst \in Instances /\ Exists(job.inst) /\ job.step = "finalize"
      /\ dom[job.inst] = "undefined" /\ inst[job.inst] = "deleting"
      /\ UNCHANGED <<req, faults, file, vol, dom, config, live>>
  BY JobTypes DEF IInv, JobInv, FinalizeDestroy, virt
<1>1. RowInv' /\ DomainInv'
  BY <1>0 DEF IInv, RowInv, DomainInv
<1>2. CASE Again /\ inst' = inst
  <2>1. job' \in JobRec /\ (job' = NoJob \/ (job'.step = "begin" /\ job'.inst = job.inst))
    BY <1>0, <1>2, NextTry
  <2>2. GoneInv' /\ JobInv'
    BY <1>0, <1>2, <2>1, IdleJob DEF IInv, GoneInv, JobInv, Exists
  <2> QED BY <1>0, <1>1, <1>2, <2>1, <2>2, JobTypes, WorkerMoves
<1>3. CASE /\ \A v \in Volumes : vol[v].inst # job.inst
           /\ inst' = [inst EXCEPT ![job.inst] = "gone"] /\ job' = NoJob
  <2>1. /\ inst' \in [Instances -> {"running", "stopped", "deleting", "error", "gone"}]
        /\ \A i \in Instances : inst'[i] = IF i = job.inst THEN "gone" ELSE inst[i]
    BY <1>0, <1>3, JobTypes
  <2>2. GoneInv'
    BY <1>0, <1>3, <2>1 DEF IInv, GoneInv
  <2>3. JobInv' /\ job' \in JobRec
    BY <1>3, IdleJob DEF JobInv
  <2> QED BY <1>0, <1>1, <1>3, <2>1, <2>2, <2>3, JobTypes, WorkerMoves
<1> QED BY <1>2, <1>3 DEF FinalizeDestroy

LEMMA InstanceInv ==
  ASSUME IInv, NEW i \in Instances, RequestDestroy(i) \/ Stop(i) \/ PowerOff(i) \/ Start(i)
  PROVE  IInv'
<1>0. UNCHANGED <<req, faults, file, vol>>
  BY DEF RequestDestroy, Stop, PowerOff, Start
<1>1. RowInv'
  BY <1>0 DEF IInv, RowInv
<1>2. CASE RequestDestroy(i)
  <2>1. /\ job' = [NoJob EXCEPT !.step = "begin", !.inst = i] /\ UNCHANGED <<inst, dom, config, live>>
        /\ inst[i] # "gone"
    BY <1>2 DEF RequestDestroy, virt
  <2>2. job' \in JobRec /\ job'.step = "begin" /\ job'.inst = i
    BY <2>1, IdleJob DEF JobRec
  <2>3. DomainInv' /\ GoneInv' /\ JobInv'
    BY <1>0, <2>1, <2>2 DEF IInv, DomainInv, GoneInv, JobInv, Exists
  <2> QED BY <1>0, <1>1, <2>1, <2>2, <2>3, JobTypes, WorkerMoves
<1>3. CASE Stop(i)
  <2>1. inst' = [inst EXCEPT ![i] = "stopped"] /\ inst[i] = "running" /\ UNCHANGED <<dom, config, live, job>>
    BY <1>3 DEF Stop, virt
  <2>2. /\ inst' \in [Instances -> {"running", "stopped", "deleting", "error", "gone"}]
        /\ \A k \in Instances : inst'[k] = IF k = i THEN "stopped" ELSE inst[k]
    BY <2>1, JobTypes
  <2>3. DomainInv' /\ GoneInv' /\ JobInv'
    BY <1>0, <2>1, <2>2 DEF IInv, DomainInv, GoneInv, JobInv, Exists
  <2> QED BY <1>0, <1>1, <2>1, <2>2, <2>3, JobTypes, WorkerMoves
<1>4. CASE PowerOff(i)
  <2>1. /\ dom' = [dom EXCEPT ![i] = "shutoff"] /\ live' = [live EXCEPT ![i] = {}]
        /\ dom[i] = "active" /\ UNCHANGED <<inst, config, job>>
    BY <1>4 DEF PowerOff
  <2>2. /\ dom' \in [Instances -> {"active", "shutoff", "undefined"}]
        /\ live' \in [Instances -> SUBSET Disks]
        /\ \A k \in Instances : /\ dom'[k] = IF k = i THEN "shutoff" ELSE dom[k]
                                /\ live'[k] = IF k = i THEN {} ELSE live[k]
    BY <2>1, JobTypes
  <2>3. DomainInv' /\ GoneInv' /\ JobInv'
    BY <1>0, <2>1, <2>2 DEF IInv, DomainInv, GoneInv, JobInv, Exists
  <2> QED BY <1>0, <1>1, <2>1, <2>2, <2>3, JobTypes, WorkerMoves
<1>5. CASE Start(i)
  <2>1. /\ inst' = [inst EXCEPT ![i] = "running"] /\ dom' = [dom EXCEPT ![i] = "active"]
        /\ inst[i] = "stopped" /\ dom[i] # "undefined" /\ UNCHANGED <<config, job>>
        /\ live' = live \/ live' = [live EXCEPT ![i] = config[i]]
    BY <1>5 DEF Start
  <2>2. /\ inst' \in [Instances -> {"running", "stopped", "deleting", "error", "gone"}]
        /\ dom' \in [Instances -> {"active", "shutoff", "undefined"}]
        /\ live' \in [Instances -> SUBSET Disks]
        /\ \A k \in Instances :
             /\ inst'[k] = IF k = i THEN "running" ELSE inst[k]
             /\ dom'[k] = IF k = i THEN "active" ELSE dom[k]
             /\ live'[k] = live[k] \/ (k = i /\ live'[k] = config[k])
    BY <2>1, JobTypes
  <2>3. GoneInv' /\ JobInv'
    BY <1>0, <2>1, <2>2 DEF IInv, GoneInv, JobInv, Exists
  <2>4. DomainInv'
    BY <2>1, <2>2 DEF IInv, DomainInv
  <2> QED BY <1>0, <1>1, <2>1, <2>2, <2>3, <2>4, JobTypes, WorkerMoves
<1> QED BY <1>2, <1>3, <1>4, <1>5

LEMMA NextInv == IInv /\ [Next]_vars => IInv'
<1> SUFFICES ASSUME IInv, [Next]_vars PROVE IInv'
  OBVIOUS
<1>1. ASSUME NEW c \in Clients, NEW v \in Volumes,
             \/ \E i \in Instances : AskAttach(c, v, i) \/ AskDetach(c, v, i)
             \/ CreateVolume(c, v) \/ DeleteVolume(c, v)
      PROVE  IInv'
  BY <1>1, AskBothInv, VolumeInv
<1>2. ASSUME NEW c \in Clients, RequestStep(c) PROVE IInv'
  BY <1>2, AttachInv, DetachInv, VolumeInv DEF RequestStep
<1>3. CASE UNCHANGED vars
  BY <1>3 DEF vars, virt, IInv, TypeOK, ReqInv, Shape, RowInv, JobInv, DomainInv, GoneInv, Exists
<1>4. CASE WorkerStep
  BY <1>4, DestroyInv, DetachNextInv, ReleaseNextInv, FinalizeInv DEF WorkerStep
<1> QED BY <1>1, <1>2, <1>3, <1>4, ApiFaultInv, InstanceInv DEF Next

\* The types, the shape of rows and requests, one disk for a target, and the
\* traces a destroyed instance leaves: an inductive invariant.
THEOREM Invariance == Spec => []IInv
<1> QED BY InitInv, NextInv, PTL DEF Spec

\* Every variable keeps its type: no request, row, disk or job is ever built
\* with a volume, an instance or a letter it does not have.
THEOREM TypeCorrect == Spec => []TypeOK
<1>1. IInv => TypeOK
  BY DEF IInv
<1> QED BY <1>1, Invariance, PTL

\* An instance that is gone leaves no disk and no row, though requests of it
\* were in flight, failed or died: the destroy only writes gone when the domain
\* is undefined and no row names it, and libvirt attaches to no such domain.
THEOREM NothingLeftBehind == Spec => []DestroyedLeavesNothing
<1>1. IInv => DestroyedLeavesNothing
  BY DEF IInv, GoneInv, DomainInv, DestroyedLeavesNothing
<1> QED BY <1>1, Invariance, PTL
------------------------------------------------------------------------------
(* Rows and disks agree, while nobody walks away.                          *)

\* What the actions of a client start from.
Calm == /\ IInv /\ ClaimsInv /\ OwnersInv /\ OneDetacher /\ faults = 0

LEMMA CalmTypes ==
  ASSUME Calm
  PROVE  /\ req \in [Clients -> ReqRec] /\ vol \in [Volumes -> RowRec]
         /\ \A c \in Clients : Shape(c, req[c]) /\ req[c].ctx
         /\ \A v \in Volumes : /\ vol[v].inst \in Instances \cup {None}
                               /\ vol[v].inst # None => vol[v].tgt \in Targets
                                                        /\ vol[v].status = "in-use"
         /\ None \notin Instances
         /\ config \in [Instances -> SUBSET Disks] /\ live \in [Instances -> SUBSET Disks]
         /\ \A i \in Instances : \A v, w \in Volumes : \A t \in Targets :
              <<v, t>> \in config[i] /\ <<w, t>> \in config[i] => v = w
<1>1. /\ req \in [Clients -> ReqRec] /\ vol \in [Volumes -> RowRec]
      /\ \A c \in Clients : Shape(c, req[c])
      /\ config \in [Instances -> SUBSET Disks] /\ live \in [Instances -> SUBSET Disks]
  BY TypedRequests, JobTypes DEF Calm, IInv, ReqInv
<1>2. \A c \in Clients : req[c].ctx
  BY DEF Calm, IInv, RowInv
<1>3. \A v \in Volumes : /\ vol[v].inst \in Instances \cup {None}
                         /\ vol[v].inst # None => vol[v].tgt \in Targets
                                                  /\ vol[v].status = "in-use"
  BY <1>1 DEF RowRec, Calm, IInv, RowInv
<1>4. None \notin Instances
  BY ConstantsAssumption
<1>5. ASSUME NEW i \in Instances, NEW v \in Volumes, NEW w \in Volumes, NEW t \in Targets,
             <<v, t>> \in config[i], <<w, t>> \in config[i]
      PROVE  v = w
  <2>1. <<v, t>>[2] = <<w, t>>[2]
    OBVIOUS
  <2>2. <<v, t>> = <<w, t>>
    BY <1>5, <2>1 DEF Calm, IInv, DomainInv
  <2> QED BY <2>2
<1> QED BY <1>1, <1>2, <1>3, <1>4, <1>5

\* A request that does not come near a disk, whatever rows are created and
\* deleted meanwhile.
LEMMA QuietRequest ==
  ASSUME Calm, NEW c \in Clients, NEW r \in ReqRec, req' = [req EXCEPT ![c] = r],
         req[c].step \notin {"record", "undo", "release"},
         r.step \notin {"record", "undo", "detach", "release"},
         r.step = "row" => r.inst \in Instances /\ (r.flag \/ inst[r.inst] # "running"),
         \A v \in Volumes : /\ vol'[v].inst = vol[v].inst
                            /\ vol[v].inst # None => vol'[v].tgt = vol[v].tgt,
         UNCHANGED <<inst, dom, config, live>>
  PROVE  ClaimsInv' /\ OwnersInv'
<1>1. \A d \in Clients : req'[d] = IF d = c THEN r ELSE req[d]
  BY CalmTypes
<1>2. /\ \A v \in Volumes, i \in Instances, t \in Targets : \A d \in Clients :
           Claims(d, v, i, t)' <=> Claims(d, v, i, t)
      /\ \A v \in Volumes, i \in Instances : Releasing(v, i)' <=> Releasing(v, i)
      /\ \A i \in Instances : Kept(i)' <=> Kept(i)
  BY <1>1 DEF Claims, Attaching, Releasing, Kept
<1>3. AttachClaims' /\ RowClaims'
  BY <1>2, CalmTypes DEF Calm, ClaimsInv, AttachClaims, RowClaims
<1>4. DetachClaims'
  <2>1. \A d \in Clients : req[d].step \in {"detach", "release"} =>
          req[d].vol \in Volumes /\ req[d].inst \in Instances
    BY CalmTypes DEF Shape, DetachSteps
  <2> QED BY <1>1, <1>2, <2>1, CalmTypes DEF Calm, ClaimsInv, DetachClaims, Kept
<1>5. GuestInv' /\ OwnInv'
  BY <1>2, CalmTypes DEF Calm, OwnersInv, GuestInv, OwnInv
<1>6. FlagInv'
  <2> SUFFICES ASSUME NEW d \in Clients, req'[d].step \in {"row", "detach"},
                      req'[d].inst \notin Stoppable, inst[req'[d].inst] \in {"running", "stopped"}
               PROVE  req'[d].flag
    BY DEF FlagInv, Kept
  <2>1. CASE d = c
    BY <1>1, <2>1 DEF Calm, OwnersInv, GuestInv, Kept
  <2>2. CASE d # c
    BY <1>1, <2>2 DEF Calm, OwnersInv, FlagInv, Kept
  <2> QED BY <2>1, <2>2
<1> QED BY <1>3, <1>4, <1>5, <1>6 DEF ClaimsInv, OwnersInv

\* A detach has read the row it is to release.
LEMMA DetachBegins ==
  ASSUME Calm, NEW c \in Clients, NEW r \in ReqRec, req' = [req EXCEPT ![c] = r],
         req[c].step = "row", r.step = "detach", r.vol = req[c].vol, r.inst = req[c].inst,
         r.flag = req[c].flag, vol[r.vol].inst = r.inst, vol[r.vol].tgt = r.tgt,
         UNCHANGED <<inst, dom, config, live, vol>>
  PROVE  ClaimsInv' /\ OwnersInv'
<1>1. \A d \in Clients : req'[d] = IF d = c THEN r ELSE req[d]
  BY CalmTypes
<1>2. /\ \A v \in Volumes, i \in Instances, t \in Targets : \A d \in Clients :
           Claims(d, v, i, t)' <=> Claims(d, v, i, t)
      /\ \A v \in Volumes, i \in Instances : Releasing(v, i)' <=> Releasing(v, i)
      /\ \A i \in Instances : Kept(i)' <=> Kept(i)
  BY <1>1 DEF Claims, Attaching, Releasing, Kept
<1>3. AttachClaims' /\ RowClaims'
  BY <1>2, CalmTypes DEF Calm, ClaimsInv, AttachClaims, RowClaims
<1>4. DetachClaims'
  BY <1>1 DEF Calm, ClaimsInv, DetachClaims, Kept
<1>5. GuestInv' /\ OwnInv'
  BY <1>2, CalmTypes DEF Calm, OwnersInv, GuestInv, OwnInv
<1>6. FlagInv'
  <2> SUFFICES ASSUME NEW d \in Clients, req'[d].step \in {"row", "detach"},
                      req'[d].inst \notin Stoppable, inst[req'[d].inst] \in {"running", "stopped"}
               PROVE  req'[d].flag
    BY DEF FlagInv, Kept
  <2>1. /\ req[d].step \in {"row", "detach"} /\ req'[d].inst = req[d].inst
        /\ req'[d].flag = req[d].flag
    BY <1>1
  <2> QED BY <2>1 DEF Calm, OwnersInv, FlagInv, Kept
<1> QED BY <1>3, <1>4, <1>5, <1>6 DEF ClaimsInv, OwnersInv

\* libvirt attaches where nobody has a disk: nobody claims that target.
LEMMA AttachBegins ==
  ASSUME Calm, NEW c \in Clients, NEW v \in Volumes, NEW i \in Instances, NEW t \in Targets,
         NEW r \in ReqRec, req' = [req EXCEPT ![c] = r],
         req[c].step = "attach", r.step = "record", r.vol = v, r.inst = i, r.tgt = t,
         Attachable(v, i, t), Plug(v, i, t), UNCHANGED <<inst, vol>>
  PROVE  ClaimsInv' /\ OwnersInv'
<1>1. \A d \in Clients : req'[d] = IF d = c THEN r ELSE req[d]
  BY CalmTypes
<1>2. /\ \A w \in Volumes, j \in Instances, u \in Targets : \A d \in Clients \ {c} :
           Claims(d, w, j, u)' <=> Claims(d, w, j, u)
      /\ \A w \in Volumes, j \in Instances, u \in Targets :
           Claims(c, w, j, u)' <=> w = v /\ j = i /\ u = t
      /\ \A w \in Volumes, j \in Instances : Releasing(w, j)' <=> Releasing(w, j)
      /\ \A j \in Instances : Kept(j)' <=> Kept(j)
  BY <1>1 DEF Claims, Attaching, Releasing, Kept
<1>3. /\ \A j \in Instances : \A w \in Volumes, u \in Targets :
           <<w, u>> \in config'[j] <=> <<w, u>> \in config[j] \/ (w = v /\ j = i /\ u = t)
      /\ \A w \in Volumes : <<w, t>> \notin config[i]
  <2>1. config' = [config EXCEPT ![i] = @ \cup {<<v, t>>}]
    BY DEF Plug
  <2>2. \A d \in config[i] : d[2] # t
    BY DEF Attachable, DisksAt
  <2>3. \A w \in Volumes : <<w, t>>[2] = t
    OBVIOUS
  <2>4. \A w \in Volumes, u \in Targets : <<w, u>> = <<v, t>> <=> w = v /\ u = t
    OBVIOUS
  <2> QED BY <2>1, <2>2, <2>3, <2>4, CalmTypes
<1>4. AttachClaims'
  <2> SUFFICES ASSUME NEW w \in Volumes, NEW j \in Instances, NEW u \in Targets, NEW d \in Clients,
                      Claims(d, w, j, u)', Kept(j)
               PROVE  /\ <<w, u>> \in config'[j]
                      /\ \A b \in Clients : Claims(b, w, j, u)' => b = d
                      /\ vol[w].inst = j /\ vol[w].tgt = u => Releasing(w, j)
    BY <1>2 DEF AttachClaims
  <2>1. CASE d = c
    <3>1. w = v /\ j = i /\ u = t
      BY <1>2, <2>1
    <3>2. \A b \in Clients \ {c} : ~Claims(b, w, j, u)
      BY <1>3, <3>1 DEF Calm, ClaimsInv, AttachClaims
    <3>3. vol[w].inst = j /\ vol[w].tgt = u => Releasing(w, j)
      BY <1>3, <3>1 DEF Calm, ClaimsInv, RowClaims
    <3> QED BY <1>2, <1>3, <2>1, <3>1, <3>2, <3>3
  <2>2. CASE d # c
    <3>1. Claims(d, w, j, u)
      BY <1>2, <2>2
    <3>2. ~(w = v /\ j = i /\ u = t)
      BY <1>3, <3>1 DEF Calm, ClaimsInv, AttachClaims
    <3> QED BY <1>2, <1>3, <3>1, <3>2 DEF Calm, ClaimsInv, AttachClaims
  <2> QED BY <2>1, <2>2
<1>5. RowClaims'
  <2>1. \A w \in Volumes : vol[w].inst # None => vol[w].tgt \in Targets
    BY CalmTypes
  <2> QED BY <1>2, <1>3, <2>1, CalmTypes DEF Calm, ClaimsInv, RowClaims
<1>6. DetachClaims'
  BY <1>1 DEF Calm, ClaimsInv, DetachClaims, Kept
<1>7. GuestInv'
  BY CalmTypes DEF Calm, OwnersInv, GuestInv, Kept, Plug
<1>8. OwnInv'
  <2> SUFFICES ASSUME NEW j \in Instances \ Stoppable, Kept(j), NEW w \in Volumes, NEW u \in Targets,
                      <<w, u>> \in config'[j]
               PROVE  \/ vol[w].inst = j /\ vol[w].tgt = u /\ ~Releasing(w, j)
                      \/ \E d \in Clients : Claims(d, w, j, u)'
    BY <1>2 DEF OwnInv
  <2>1. CASE <<w, u>> \in config[j]
    <3>1. \A d \in Clients : Claims(d, w, j, u) => d # c
      BY DEF Claims, Attaching
    <3> QED BY <1>2, <2>1, <3>1 DEF Calm, OwnersInv, OwnInv
  <2>2. CASE w = v /\ j = i /\ u = t
    BY <1>2, <2>2
  <2> QED BY <1>3, <2>1, <2>2
<1>9. FlagInv'
  BY <1>1 DEF Calm, OwnersInv, FlagInv, Kept
<1> QED BY <1>4, <1>5, <1>6, <1>7, <1>8, <1>9 DEF ClaimsInv, OwnersInv

\* A request that could not record is to undo.
LEMMA UndoBegins ==
  ASSUME Calm, NEW c \in Clients, NEW r \in ReqRec, req' = [req EXCEPT ![c] = r],
         req[c].step = "record", r.step = "undo",
         r.vol = req[c].vol, r.inst = req[c].inst, r.tgt = req[c].tgt,
         UNCHANGED <<inst, dom, config, live, vol>>
  PROVE  ClaimsInv' /\ OwnersInv'
<1>1. \A d \in Clients : req'[d] = IF d = c THEN r ELSE req[d]
  BY CalmTypes
<1>2. /\ \A v \in Volumes, i \in Instances, t \in Targets : \A d \in Clients :
           Claims(d, v, i, t)' <=> Claims(d, v, i, t)
      /\ \A v \in Volumes, i \in Instances : Releasing(v, i)' <=> Releasing(v, i)
      /\ \A i \in Instances : Kept(i)' <=> Kept(i)
  BY <1>1 DEF Claims, Attaching, Releasing, Kept
<1>3. AttachClaims' /\ RowClaims'
  BY <1>2, CalmTypes DEF Calm, ClaimsInv, AttachClaims, RowClaims
<1>4. DetachClaims'
  BY <1>1 DEF Calm, ClaimsInv, DetachClaims, Kept
<1>5. GuestInv' /\ OwnInv'
  BY <1>2, CalmTypes DEF Calm, OwnersInv, GuestInv, OwnInv
<1>6. FlagInv'
  BY <1>1 DEF Calm, OwnersInv, FlagInv, Kept
<1> QED BY <1>3, <1>4, <1>5, <1>6 DEF ClaimsInv, OwnersInv

\* The claim of a request becomes that of a row, which was free.
LEMMA Recorded ==
  ASSUME Calm, NEW c \in Clients, NEW v \in Volumes, NEW i \in Instances, NEW t \in Targets,
         NEW r \in ReqRec, req' = [req EXCEPT ![c] = r], NEW row \in RowRec,
         Claims(c, v, i, t), req[c].step = "record", r.step = "idle",
         vol[v].inst = None, vol' = [vol EXCEPT ![v] = row], row.inst = i, row.tgt = t,
         UNCHANGED <<inst, dom, config, live>>
  PROVE  ClaimsInv' /\ OwnersInv'
<1>1. /\ \A d \in Clients : req'[d] = IF d = c THEN r ELSE req[d]
      /\ \A w \in Volumes : vol'[w] = IF w = v THEN row ELSE vol[w]
  BY CalmTypes
<1>2. /\ \A w \in Volumes, j \in Instances, u \in Targets : \A d \in Clients :
           Claims(d, w, j, u)' <=> d # c /\ Claims(d, w, j, u)
      /\ \A w \in Volumes, j \in Instances : Releasing(w, j)' <=> Releasing(w, j)
      /\ \A j \in Instances : Kept(j)' <=> Kept(j)
      /\ \A w \in Volumes, j \in Instances, u \in Targets :
           Claims(c, w, j, u) => w = v /\ j = i /\ u = t
  BY <1>1 DEF Claims, Attaching, Releasing, Kept
<1>3. Kept(i) => <<v, t>> \in config[i] /\ \A d \in Clients \ {c} : ~Claims(d, v, i, t)
  BY DEF Calm, ClaimsInv, AttachClaims
<1>4. \A j \in Instances : Kept(j) => ~Releasing(v, j)
  BY CalmTypes DEF Calm, ClaimsInv, DetachClaims, Releasing
<1>5. AttachClaims'
  <2> SUFFICES ASSUME NEW w \in Volumes, NEW j \in Instances, NEW u \in Targets, NEW d \in Clients,
                      Claims(d, w, j, u), d # c, Kept(j)
               PROVE  /\ <<w, u>> \in config[j]
                      /\ \A b \in Clients : Claims(b, w, j, u) => b = d
                      /\ vol'[w].inst = j /\ vol'[w].tgt = u => Releasing(w, j)
    BY <1>2 DEF AttachClaims
  <2>1. ~(w = v /\ j = i /\ u = t)
    BY <1>3
  <2> QED BY <1>1, <2>1 DEF Calm, ClaimsInv, AttachClaims
<1>6. RowClaims'
  BY <1>1, <1>2, <1>3 DEF Calm, ClaimsInv, RowClaims
<1>7. DetachClaims'
  <2> SUFFICES ASSUME NEW d \in Clients, d # c, req[d].step \in {"detach", "release"},
                      Kept(req[d].inst)
               PROVE  vol'[req[d].vol].inst = req[d].inst /\ vol'[req[d].vol].tgt = req[d].tgt
    BY <1>1 DEF DetachClaims, Kept
  <2>1. /\ req[d].vol \in Volumes /\ req[d].inst \in Instances
        /\ vol[req[d].vol].inst = req[d].inst /\ vol[req[d].vol].tgt = req[d].tgt
    BY CalmTypes DEF Calm, ClaimsInv, DetachClaims, Shape, DetachSteps
  <2> QED BY <1>1, <2>1, CalmTypes
<1>8. GuestInv'
  BY DEF Calm, OwnersInv, GuestInv, Kept
<1>9. OwnInv'
  <2> SUFFICES ASSUME NEW j \in Instances \ Stoppable, Kept(j), NEW w \in Volumes, NEW u \in Targets,
                      <<w, u>> \in config[j]
               PROVE  \/ vol'[w].inst = j /\ vol'[w].tgt = u /\ ~Releasing(w, j)
                      \/ \E d \in Clients \ {c} : Claims(d, w, j, u)
    BY <1>2 DEF OwnInv
  <2>1. CASE Claims(c, w, j, u)
    BY <1>1, <1>2, <1>4, <2>1
  <2>2. CASE ~Claims(c, w, j, u)
    <3>1. \/ vol[w].inst = j /\ vol[w].tgt = u /\ ~Releasing(w, j)
          \/ \E d \in Clients \ {c} : Claims(d, w, j, u)
      BY <2>2 DEF Calm, OwnersInv, OwnInv
    <3> QED BY <1>1, <3>1, CalmTypes
  <2> QED BY <2>1, <2>2
<1>10. FlagInv'
  BY <1>1 DEF Calm, OwnersInv, FlagInv, Kept
<1> QED BY <1>5, <1>6, <1>7, <1>8, <1>9, <1>10 DEF ClaimsInv, OwnersInv

\* The disks a request takes out of a domain.
LEMMA Taken ==
  ASSUME Calm, NEW i \in Instances, NEW t, config' = [config EXCEPT ![i] = @ \ DisksAt(@, t)]
  PROVE  \A j \in Instances : \A w \in Volumes, u \in Targets :
           <<w, u>> \in config'[j] <=> <<w, u>> \in config[j] /\ ~(j = i /\ u = t)
<1>1. \A w \in Volumes, u \in Targets : <<w, u>>[2] = u
  OBVIOUS
<1> QED BY <1>1, CalmTypes DEF DisksAt

\* The compensation takes out its own disk: it is the only one at its target.
LEMMA Undone ==
  ASSUME Calm, NEW c \in Clients, NEW v \in Volumes, NEW i \in Instances, NEW t \in Targets,
         NEW r \in ReqRec, req' = [req EXCEPT ![c] = r],
         Claims(c, v, i, t), req[c].step = "undo", r.step = "idle",
         IF Detachable(i, t, TRUE) THEN Unplug(i, t, TRUE) ELSE UNCHANGED virt,
         UNCHANGED <<inst, vol>>
  PROVE  ClaimsInv' /\ OwnersInv'
<1>1. \A d \in Clients : req'[d] = IF d = c THEN r ELSE req[d]
  BY CalmTypes
<1>2. /\ \A w \in Volumes, j \in Instances, u \in Targets : \A d \in Clients :
           Claims(d, w, j, u)' <=> d # c /\ Claims(d, w, j, u)
      /\ \A w \in Volumes, j \in Instances : Releasing(w, j)' <=> Releasing(w, j)
      /\ \A j \in Instances : Kept(j)' <=> Kept(j)
      /\ \A w \in Volumes, j \in Instances, u \in Targets :
           Claims(c, w, j, u) => w = v /\ j = i /\ u = t
  BY <1>1 DEF Claims, Attaching, Releasing, Kept
<1>3. Kept(i) => /\ <<v, t>> \in config[i] /\ \A d \in Clients \ {c} : ~Claims(d, v, i, t)
                 /\ vol[v].inst = i /\ vol[v].tgt = t => Releasing(v, i)
  BY DEF Calm, ClaimsInv, AttachClaims
<1>4. /\ \A j \in Instances : \A w \in Volumes, u \in Targets :
           /\ <<w, u>> \in config'[j] => <<w, u>> \in config[j]
           /\ <<w, u>> \in config[j] => <<w, u>> \in config'[j] \/ (j = i /\ u = t)
      /\ Detachable(i, t, TRUE) => \A w \in Volumes : <<w, t>> \notin config'[i]
  <2>1. CASE Detachable(i, t, TRUE)
    <3>1. config' = [config EXCEPT ![i] = @ \ DisksAt(@, t)]
      BY Zenon, <2>1 DEF Unplug
    <3>2. \A j \in Instances : \A w \in Volumes, u \in Targets :
            <<w, u>> \in config'[j] <=> <<w, u>> \in config[j] /\ ~(j = i /\ u = t)
      BY Zenon, <3>1, Taken
    <3> QED BY <3>2
  <2>2. CASE ~Detachable(i, t, TRUE)
    <3>1. UNCHANGED virt
      BY Zenon, <2>2
    <3> QED BY <2>2, <3>1 DEF virt
  <2> QED BY <2>1, <2>2
<1>5. AttachClaims'
  <2> SUFFICES ASSUME NEW w \in Volumes, NEW j \in Instances, NEW u \in Targets, NEW d \in Clients,
                      Claims(d, w, j, u), d # c, Kept(j)
               PROVE  /\ <<w, u>> \in config'[j]
                      /\ \A b \in Clients : Claims(b, w, j, u) => b = d
                      /\ vol[w].inst = j /\ vol[w].tgt = u => Releasing(w, j)
    BY <1>2 DEF AttachClaims
  <2>1. /\ <<w, u>> \in config[j]
        /\ \A b \in Clients : Claims(b, w, j, u) => b = d
        /\ vol[w].inst = j /\ vol[w].tgt = u => Releasing(w, j)
    BY DEF Calm, ClaimsInv, AttachClaims
  <2>2. ~(j = i /\ u = t)
    BY <1>3, <2>1, CalmTypes
  <2> QED BY <1>4, <2>1, <2>2
<1>6. RowClaims'
  <2> SUFFICES ASSUME NEW w \in Volumes, NEW j \in Instances, vol[w].inst = j, Kept(j)
               PROVE  <<w, vol[w].tgt>> \in config'[j] \/ Releasing(w, j)
    BY <1>2 DEF RowClaims
  <2>1. vol[w].tgt \in Targets
    BY CalmTypes
  <2>2. <<w, vol[w].tgt>> \in config[j] \/ Releasing(w, j)
    BY DEF Calm, ClaimsInv, RowClaims
  <2>3. CASE j = i /\ vol[w].tgt = t
    BY <1>3, <2>2, <2>3, CalmTypes
  <2>4. CASE ~(j = i /\ vol[w].tgt = t)
    BY <1>4, <2>1, <2>2, <2>4
  <2> QED BY <2>3, <2>4
<1>7. DetachClaims'
  BY <1>1 DEF Calm, ClaimsInv, DetachClaims, Kept
<1>8. GuestInv'
  <2> SUFFICES ASSUME NEW j \in Instances \ Stoppable, Kept(j)
               PROVE  inst[j] = "running" /\ dom'[j] = "active" /\ live'[j] = config'[j]
    BY <1>2 DEF GuestInv
  <2>1. inst[j] = "running" /\ dom[j] = "active" /\ live[j] = config[j]
    BY DEF Calm, OwnersInv, GuestInv
  <2>2. UNCHANGED virt \/ (UNCHANGED dom /\ config' = [config EXCEPT ![i] = @ \ DisksAt(@, t)]
                            /\ live' = [live EXCEPT ![i] = @ \ DisksAt(@, t)])
    BY Zenon DEF Unplug
  <2>3. CASE UNCHANGED virt
    BY <2>1, <2>3 DEF virt
  <2>4. CASE UNCHANGED dom /\ config' = [config EXCEPT ![i] = @ \ DisksAt(@, t)]
             /\ live' = [live EXCEPT ![i] = @ \ DisksAt(@, t)]
    <3>1. config'[j] = IF j = i THEN config[j] \ DisksAt(config[j], t) ELSE config[j]
      BY <2>4, CalmTypes
    <3>2. live'[j] = IF j = i THEN live[j] \ DisksAt(live[j], t) ELSE live[j]
      BY <2>4, CalmTypes
    <3> QED BY <2>1, <2>4, <3>1, <3>2
  <2> QED BY <2>2, <2>3, <2>4
<1>9. OwnInv'
  <2> SUFFICES ASSUME NEW j \in Instances \ Stoppable, Kept(j), NEW w \in Volumes, NEW u \in Targets,
                      <<w, u>> \in config'[j]
               PROVE  \/ vol[w].inst = j /\ vol[w].tgt = u /\ ~Releasing(w, j)
                      \/ \E d \in Clients \ {c} : Claims(d, w, j, u)
    BY <1>2 DEF OwnInv
  <2>1. \/ vol[w].inst = j /\ vol[w].tgt = u /\ ~Releasing(w, j)
        \/ \E d \in Clients : Claims(d, w, j, u)
    BY <1>4 DEF Calm, OwnersInv, OwnInv
  <2>2. ~Claims(c, w, j, u)
    <3> SUFFICES ASSUME Claims(c, w, j, u) PROVE FALSE
      OBVIOUS
    <3>1. w = v /\ j = i /\ u = t
      BY <1>2
    <3>2. dom[i] = "active" /\ live[i] = config[i] /\ <<v, t>> \in config[i]
      BY <1>3, <3>1 DEF Calm, OwnersInv, GuestInv
    <3>3. DisksAt(config[i], t) # {}
      <4>1. <<v, t>>[2] = t
        OBVIOUS
      <4> QED BY <3>2, <4>1 DEF DisksAt
    <3>4. Detachable(i, t, TRUE)
      BY <3>2, <3>3 DEF Detachable
    <3> QED BY <1>4, <3>1, <3>4
  <2> QED BY <2>1, <2>2
<1>10. FlagInv'
  BY <1>1 DEF Calm, OwnersInv, FlagInv, Kept
<1> QED BY <1>5, <1>6, <1>7, <1>8, <1>9, <1>10 DEF ClaimsInv, OwnersInv

\* There is one request that detaches.
LEMMA OnlyDetacher ==
  ASSUME Calm, NEW c \in Clients, NEW d \in Clients,
         req[c].step \in DetachSteps, req[d].step \in DetachSteps
  PROVE  c = d
BY CalmTypes DEF Shape, Calm, OneDetacher

\* The detach takes out the disk of the row it follows, and of no one else.
LEMMA Detached ==
  ASSUME Calm, NEW c \in Clients, NEW v \in Volumes, NEW i \in Instances, NEW t,
         NEW r \in ReqRec, req' = [req EXCEPT ![c] = r],
         req[c].step = "detach", req[c].vol = v, req[c].inst = i, req[c].tgt = t,
         r.step = "release", r.vol = v, r.inst = i, r.tgt = t,
         Detachable(i, t, req[c].flag), Unplug(i, t, req[c].flag), UNCHANGED <<inst, vol>>
  PROVE  ClaimsInv' /\ OwnersInv'
<1>1. \A d \in Clients : req'[d] = IF d = c THEN r ELSE req[d]
  BY CalmTypes
<1>2. /\ \A w \in Volumes, j \in Instances, u \in Targets : \A d \in Clients :
           Claims(d, w, j, u)' <=> Claims(d, w, j, u)
      /\ \A w \in Volumes, j \in Instances :
           Releasing(w, j)' <=> Releasing(w, j) \/ (w = v /\ j = i)
      /\ \A j \in Instances : Kept(j)' <=> Kept(j)
  BY <1>1 DEF Claims, Attaching, Releasing, Kept
<1>3. \A w \in Volumes, j \in Instances : ~Releasing(w, j)
  BY OnlyDetacher DEF Releasing, DetachSteps
<1>4. Kept(i) => vol[v].inst = i /\ vol[v].tgt = t /\ t \in Targets /\ <<v, t>> \in config[i]
  BY <1>3, CalmTypes DEF Calm, ClaimsInv, DetachClaims, RowClaims
<1>5. \A j \in Instances : \A w \in Volumes, u \in Targets :
        <<w, u>> \in config'[j] <=> <<w, u>> \in config[j] /\ ~(j = i /\ u = t)
  <2>1. config' = [config EXCEPT ![i] = @ \ DisksAt(@, t)]
    BY DEF Unplug
  <2> QED BY <2>1, Taken
<1>6. AttachClaims'
  <2> SUFFICES ASSUME NEW w \in Volumes, NEW j \in Instances, NEW u \in Targets, NEW d \in Clients,
                      Claims(d, w, j, u), Kept(j)
               PROVE  /\ <<w, u>> \in config'[j]
                      /\ \A b \in Clients : Claims(b, w, j, u) => b = d
                      /\ ~(vol[w].inst = j /\ vol[w].tgt = u)
    BY <1>2 DEF AttachClaims
  <2>1. /\ <<w, u>> \in config[j]
        /\ \A b \in Clients : Claims(b, w, j, u) => b = d
        /\ ~(vol[w].inst = j /\ vol[w].tgt = u)
    BY <1>3 DEF Calm, ClaimsInv, AttachClaims
  <2>2. ~(j = i /\ u = t)
    BY <1>4, <2>1, CalmTypes
  <2> QED BY <1>5, <2>1, <2>2
<1>7. RowClaims'
  <2> SUFFICES ASSUME NEW w \in Volumes, NEW j \in Instances, vol[w].inst = j, Kept(j)
               PROVE  <<w, vol[w].tgt>> \in config'[j] \/ (w = v /\ j = i)
    BY <1>2 DEF RowClaims
  <2>1. vol[w].tgt \in Targets /\ <<w, vol[w].tgt>> \in config[j]
    BY <1>3, CalmTypes DEF Calm, ClaimsInv, RowClaims
  <2>2. CASE j = i /\ vol[w].tgt = t
    BY <1>4, <2>1, <2>2, CalmTypes
  <2>3. CASE ~(j = i /\ vol[w].tgt = t)
    BY <1>5, <2>1, <2>3
  <2> QED BY <2>2, <2>3
<1>8. DetachClaims'
  BY <1>1 DEF Calm, ClaimsInv, DetachClaims, Kept
<1>9. ASSUME NEW j \in Instances \ Stoppable, Kept(j)
      PROVE  inst[j] = "running" /\ dom'[j] = "active" /\ live'[j] = config'[j]
  <2>1. inst[j] = "running" /\ dom[j] = "active" /\ live[j] = config[j]
    BY <1>9 DEF Calm, OwnersInv, GuestInv
  <2>2. UNCHANGED dom /\ config'[j] = IF j = i THEN config[j] \ DisksAt(config[j], t) ELSE config[j]
    BY CalmTypes DEF Unplug
  <2>3. CASE j = i
    <3>1. req[c].flag
      BY <1>9, <2>3 DEF Calm, OwnersInv, FlagInv
    <3>2. live' = [live EXCEPT ![i] = @ \ DisksAt(@, t)]
      BY Zenon, <3>1 DEF Unplug
    <3>3. live'[j] = live[j] \ DisksAt(live[j], t)
      BY <2>3, <3>2, CalmTypes
    <3> QED BY <2>1, <2>2, <2>3, <3>3
  <2>4. CASE j # i
    <3>1. live'[j] = live[j]
      BY <2>4, CalmTypes DEF Unplug
    <3> QED BY <2>1, <2>2, <2>4, <3>1
  <2> QED BY <2>3, <2>4
<1>10. GuestInv'
  BY <1>2, <1>9 DEF GuestInv
<1>11. OwnInv'
  <2> SUFFICES ASSUME NEW j \in Instances \ Stoppable, Kept(j), NEW w \in Volumes, NEW u \in Targets,
                      <<w, u>> \in config'[j]
               PROVE  \/ vol[w].inst = j /\ vol[w].tgt = u /\ ~(w = v /\ j = i)
                      \/ \E d \in Clients : Claims(d, w, j, u)
    BY <1>2, <1>3 DEF OwnInv
  <2>1. \/ vol[w].inst = j /\ vol[w].tgt = u
        \/ \E d \in Clients : Claims(d, w, j, u)
    BY <1>5 DEF Calm, OwnersInv, OwnInv
  <2>2. ~(w = v /\ j = i /\ vol[w].tgt = u)
    BY <1>4, <1>5
  <2> QED BY <2>1, <2>2
<1>12. FlagInv'
  BY <1>1 DEF Calm, OwnersInv, FlagInv, Kept
<1> QED BY <1>6, <1>7, <1>8, <1>10, <1>11, <1>12 DEF ClaimsInv, OwnersInv

\* The row is released when its disk is gone: nothing else claims it.
LEMMA RowReleased ==
  ASSUME Calm, NEW c \in Clients, NEW v \in Volumes, NEW i \in Instances,
         NEW r \in ReqRec, req' = [req EXCEPT ![c] = r],
         req[c].step = "release", req[c].vol = v, req[c].inst = i, r.step = "idle",
         IF vol[v].inst = i THEN vol' = Released(v) ELSE vol' = vol,
         UNCHANGED <<inst, dom, config, live>>
  PROVE  ClaimsInv' /\ OwnersInv'
<1>1. /\ \A d \in Clients : req'[d] = IF d = c THEN r ELSE req[d]
      /\ \A w \in Volumes : \/ vol'[w] = vol[w]
                            \/ w = v /\ vol[w].inst = i /\ vol'[w].inst = None
      /\ vol[v].inst = i => vol'[v].inst = None
  <2>1. \A d \in Clients : req'[d] = IF d = c THEN r ELSE req[d]
    BY CalmTypes
  <2>2. PICK row \in RowRec : Released(v) = [vol EXCEPT ![v] = row] /\ row.inst = None
    BY ReleasedRow DEF Calm, IInv
  <2> QED BY <2>1, <2>2, CalmTypes
<1>2. /\ \A w \in Volumes, j \in Instances, u \in Targets : \A d \in Clients :
           Claims(d, w, j, u)' <=> Claims(d, w, j, u)
      /\ \A w \in Volumes, j \in Instances :
           /\ Releasing(w, j)' => Releasing(w, j)
           /\ Releasing(w, j) => Releasing(w, j)' \/ (w = v /\ j = i)
      /\ \A j \in Instances : Kept(j)' <=> Kept(j)
      /\ Releasing(v, i)
  BY <1>1 DEF Claims, Attaching, Releasing, Kept
<1>3. \A w \in Volumes, j \in Instances : vol'[w].inst = j =>
        vol'[w] = vol[w] /\ ~(w = v /\ j = i)
  BY <1>1, CalmTypes
<1>4. AttachClaims'
  BY <1>2, <1>3 DEF Calm, ClaimsInv, AttachClaims
<1>5. RowClaims'
  BY <1>2, <1>3 DEF Calm, ClaimsInv, RowClaims
<1>6. DetachClaims'
  <2>1. \A d \in Clients : req'[d].step \notin {"detach", "release"}
    BY <1>1, OnlyDetacher DEF DetachSteps
  <2> QED BY <2>1 DEF DetachClaims
<1>7. GuestInv'
  BY DEF Calm, OwnersInv, GuestInv, Kept
<1>8. OwnInv'
  <2> SUFFICES ASSUME NEW j \in Instances \ Stoppable, Kept(j), NEW w \in Volumes, NEW u \in Targets,
                      <<w, u>> \in config[j]
               PROVE  \/ vol'[w].inst = j /\ vol'[w].tgt = u /\ ~Releasing(w, j)
                      \/ \E d \in Clients : Claims(d, w, j, u)
    BY <1>2 DEF OwnInv
  <2>1. \/ vol[w].inst = j /\ vol[w].tgt = u /\ ~Releasing(w, j)
        \/ \E d \in Clients : Claims(d, w, j, u)
    BY DEF Calm, OwnersInv, OwnInv
  <2>2. CASE w = v /\ vol[w].inst = i
    BY <1>2, <2>1, <2>2
  <2>3. CASE ~(w = v /\ vol[w].inst = i)
    BY <1>1, <2>1, <2>3
  <2> QED BY <2>2, <2>3
<1>9. FlagInv'
  BY <1>1 DEF Calm, OwnersInv, FlagInv, Kept
<1> QED BY <1>4, <1>5, <1>6, <1>7, <1>8, <1>9 DEF ClaimsInv, OwnersInv

\* What the worker and the instances do concerns instances that are being
\* destroyed, or that are stopped.
LEMMA NoRequestMoves ==
  ASSUME Calm, UNCHANGED <<req, config>> \/ (req' = req /\ \A i \in Instances :
                                               Kept(i)' => config'[i] = config[i]),
         \A i \in Instances : Kept(i)' =>
           /\ Kept(i)
           /\ i \notin Stoppable /\ inst[i] = "running" /\ dom[i] = "active" /\ live[i] = config[i]
                => inst'[i] = "running" /\ dom'[i] = "active" /\ live'[i] = config'[i]
           /\ \A v \in Volumes : /\ vol'[v].inst = i <=> vol[v].inst = i
                                 /\ vol[v].inst = i => vol'[v].tgt = vol[v].tgt
  PROVE  ClaimsInv' /\ OwnersInv'
<1>1. /\ \A v \in Volumes, i \in Instances, t \in Targets : \A d \in Clients :
           Claims(d, v, i, t)' <=> Claims(d, v, i, t)
      /\ \A v \in Volumes, i \in Instances : Releasing(v, i)' <=> Releasing(v, i)
  BY DEF Claims, Attaching, Releasing
<1>2. \A i \in Instances : Kept(i)' => config'[i] = config[i]
  OBVIOUS
<1>3. AttachClaims'
  BY <1>1, <1>2 DEF Calm, ClaimsInv, AttachClaims
<1>4. RowClaims'
  BY <1>1, <1>2 DEF Calm, ClaimsInv, RowClaims
<1>5. ASSUME NEW d \in Clients, req[d].step \in {"row", "detach", "release"}
      PROVE  /\ req[d].inst \in Instances /\ req[d].vol \in Volumes
             /\ Kept(req[d].inst)' => Kept(req[d].inst)
  <2>1. req' = req /\ req[d].inst \in Instances /\ req[d].vol \in Volumes
    BY <1>5, CalmTypes DEF Shape, DetachSteps
  <2> DEFINE i == req[d].inst
  <2>2. i' = i
    BY <2>1
  <2> QED BY <2>1, <2>2 DEF Kept
<1>6. DetachClaims'
  <2> SUFFICES ASSUME NEW d \in Clients, req[d].step \in {"detach", "release"},
                      Kept(req[d].inst)'
               PROVE  vol'[req[d].vol].inst = req[d].inst /\ vol'[req[d].vol].tgt = req[d].tgt
    BY DEF DetachClaims
  <2>1. PICK i \in Instances : i = req[d].inst
    BY <1>5
  <2>2. Kept(i)' /\ Kept(i)
    BY <1>5, <2>1 DEF Kept
  <2> QED BY <1>5, <2>1, <2>2 DEF Calm, ClaimsInv, DetachClaims
<1>7. GuestInv'
  BY <1>2 DEF Calm, OwnersInv, GuestInv
<1>8. OwnInv'
  BY <1>1, <1>2 DEF Calm, OwnersInv, OwnInv
<1>9. FlagInv'
  BY <1>5 DEF Calm, OwnersInv, FlagInv
<1> QED BY <1>3, <1>4, <1>6, <1>7, <1>8, <1>9 DEF ClaimsInv, OwnersInv
------------------------------------------------------------------------------
(* Which step is which.                                                    *)

LEMMA QuietEnd ==
  ASSUME Calm, NEW c \in Clients, Done(c), req[c].step \notin {"record", "undo", "release"},
         UNCHANGED <<inst, virt, vol>>
  PROVE  ClaimsInv' /\ OwnersInv'
<1>1. req' = [req EXCEPT ![c] = NoRequest] /\ UNCHANGED <<inst, dom, config, live, vol>>
  BY DEF Done, virt
<1> QED BY <1>1, IdleRequest, QuietRequest

LEMMA DisksAsk ==
  ASSUME Calm, NEW c \in Clients, NEW v \in Volumes, NEW i \in Instances,
         AskAttach(c, v, i) \/ AskDetach(c, v, i)
  PROVE  ClaimsInv' /\ OwnersInv'
<1>1. CASE AskAttach(c, v, i)
  <2> DEFINE r == Asked("volume", v, i, TRUE)
  <2>1. r \in ReqRec /\ r.step = "volume"
    BY DEF Asked, ReqRec
  <2>2. req' = [req EXCEPT ![c] = r]
    BY Zenon, <1>1 DEF AskAttach, Ask, Asked
  <2>3. req[c].step = "idle" /\ UNCHANGED <<inst, dom, config, live, vol>>
    BY <1>1 DEF AskAttach, At, virt
  <2> HIDE DEF r
  <2> QED BY <2>1, <2>2, <2>3, QuietRequest
<1>2. CASE AskDetach(c, v, i)
  <2> DEFINE r == Asked("row", v, i, inst[i] = "running")
  <2>1. /\ r \in ReqRec /\ r.step = "row" /\ r.inst = i
        /\ r.flag \/ inst[i] # "running"
    BY DEF Asked, ReqRec
  <2>2. req' = [req EXCEPT ![c] = r]
    BY Zenon, <1>2 DEF AskDetach, Ask, Asked
  <2>3. req[c].step = "idle" /\ UNCHANGED <<inst, dom, config, live, vol>>
    BY <1>2 DEF AskDetach, At, virt
  <2> HIDE DEF r
  <2> QED BY <2>1, <2>2, <2>3, QuietRequest
<1> QED BY <1>1, <1>2

LEMMA DisksAttach ==
  ASSUME Calm, NEW c \in Clients,
         \/ GetVolume(c) \/ NextVirtioDiskTarget(c) \/ LibvirtAttach(c)
         \/ AttachVolumeRecord(c) \/ UndoAttach(c)
  PROVE  ClaimsInv' /\ OwnersInv'
<1> DEFINE v == req[c].vol  i == req[c].inst  t == req[c].tgt
<1>0. /\ Shape(c, req[c]) /\ TypeOK
      /\ "target" \in AttachSteps /\ "record" \in AttachSteps /\ "undo" \in AttachSteps
      /\ "attach" \in AttachSteps
  BY CalmTypes DEF Calm, IInv, AttachSteps
<1>1. CASE GetVolume(c)
  <2>1. req[c].step = "volume" /\ UNCHANGED <<inst, virt, vol>>
    BY <1>1 DEF GetVolume, At
  <2>2. CASE To(c, "target")
    <3>1. PICK r \in ReqRec : req' = [req EXCEPT ![c] = r] /\ r.step = "target"
      BY <1>0, <2>2, ToEffect
    <3> QED BY <2>1, <3>1, QuietRequest DEF virt
  <2> QED BY <1>1, <2>1, <2>2, QuietEnd DEF GetVolume
<1>2. CASE NextVirtioDiskTarget(c)
  <2>1. req[c].step = "target" /\ UNCHANGED <<inst, virt, vol>>
    BY <1>2 DEF NextVirtioDiskTarget, At
  <2>2. CASE ~Done(c)
    <3> DEFINE free == Unused(i)
    <3>1. free # {} /\ free \subseteq Targets
      BY <1>2, <2>2 DEF NextVirtioDiskTarget, Unused
    <3>2. PICK u \in Targets : ToWith(c, "attach", u)
      <4>1. (CHOOSE u \in free : \A w \in free : u <= w) \in Targets
        BY <3>1, LowestLetter
      <4> QED BY <1>2, <2>2, <4>1 DEF NextVirtioDiskTarget, ToWith
    <3>3. PICK r \in ReqRec : req' = [req EXCEPT ![c] = r] /\ r.step = "attach"
      BY <1>0, <3>2, ToWithEffect
    <3> QED BY <2>1, <3>3, QuietRequest DEF virt
  <2> QED BY <2>1, <2>2, QuietEnd
<1>3. CASE LibvirtAttach(c)
  <2>1. /\ req[c].step = "attach" /\ UNCHANGED <<inst, vol>>
        /\ v \in Volumes /\ i \in Instances /\ t \in Targets
    BY <1>0, <1>3 DEF LibvirtAttach, At, Shape, AttachSteps
  <2>2. CASE Attachable(v, i, t) /\ Plug(v, i, t) /\ To(c, "record")
    <3>1. PICK r \in ReqRec : /\ req' = [req EXCEPT ![c] = r] /\ r.step = "record"
                              /\ r.vol = v /\ r.inst = i /\ r.tgt = t
      BY <1>0, <2>2, ToEffect
    <3> QED BY <2>1, <2>2, <3>1, AttachBegins
  <2>3. CASE Done(c) /\ UNCHANGED virt
    BY <2>1, <2>3, QuietEnd
  <2> QED BY <1>3, <2>2, <2>3 DEF LibvirtAttach
<1>4. CASE AttachVolumeRecord(c)
  <2>1. /\ req[c].step = "record" /\ UNCHANGED <<inst, dom, config, live>>
        /\ v \in Volumes /\ i \in Instances /\ t \in Targets
    BY <1>0, <1>4 DEF AttachVolumeRecord, At, Shape, AttachSteps, virt
  <2>2. CASE Recordable(v, i) /\ vol' = [vol EXCEPT ![v] = Row("in-use", i, t)] /\ Done(c)
    <3> DEFINE row == Row("in-use", i, t)
    <3>1. row \in RowRec /\ row.inst = i /\ row.tgt = t
      BY <2>1 DEF Row, RowRec
    <3>2. vol' = [vol EXCEPT ![v] = row] /\ vol[v].inst = None
      BY <2>2 DEF Recordable, Free
    <3> HIDE DEF row
    <3>3. req' = [req EXCEPT ![c] = NoRequest] /\ Claims(c, v, i, t)
      BY <2>1, <2>2 DEF Done, Claims, Attaching
    <3> QED BY <2>1, <3>1, <3>2, <3>3, IdleRequest, Recorded
  <2>3. CASE To(c, "undo") /\ UNCHANGED vol
    <3>1. PICK r \in ReqRec : /\ req' = [req EXCEPT ![c] = r] /\ r.step = "undo"
                              /\ r.vol = v /\ r.inst = i /\ r.tgt = t
      BY <1>0, <2>3, ToEffect
    <3> QED BY <2>1, <2>3, <3>1, UndoBegins
  <2> QED BY <1>4, <2>2, <2>3 DEF AttachVolumeRecord
<1>5. CASE UndoAttach(c)
  <2>1. /\ req[c].step = "undo" /\ UNCHANGED <<inst, vol>>
        /\ v \in Volumes /\ i \in Instances /\ t \in Targets
    BY <1>0, <1>5 DEF UndoAttach, At, Shape, AttachSteps
  <2>2. /\ req' = [req EXCEPT ![c] = NoRequest] /\ Claims(c, v, i, t)
        /\ IF Detachable(i, t, TRUE) THEN Unplug(i, t, TRUE) ELSE UNCHANGED virt
    BY Zenon, <1>5, <2>1 DEF UndoAttach, Done, Claims, Attaching
  <2> QED BY <2>1, <2>2, IdleRequest, Undone
<1> QED BY <1>1, <1>2, <1>3, <1>4, <1>5

LEMMA DisksDetach ==
  ASSUME Calm, NEW c \in Clients, GetAttachment(c) \/ LibvirtDetach(c) \/ DetachVolumeRecord(c)
  PROVE  ClaimsInv' /\ OwnersInv'
<1> DEFINE v == req[c].vol  i == req[c].inst  t == req[c].tgt
<1>0. /\ Shape(c, req[c]) /\ req[c].ctx /\ TypeOK
      /\ "detach" \in DetachSteps /\ "release" \in DetachSteps
  BY CalmTypes DEF Calm, IInv, DetachSteps
<1>1. CASE GetAttachment(c)
  <2>1. /\ req[c].step = "row" /\ UNCHANGED <<inst, dom, config, live, vol>>
        /\ v \in Volumes /\ i \in Instances /\ vol[v].tgt \in Targets \cup {0}
    BY <1>0, <1>1 DEF GetAttachment, At, Shape, DetachSteps, virt, TypeOK
  <2>2. CASE vol[v].inst = i /\ req' = [req EXCEPT ![c].step = "detach", ![c].tgt = vol[v].tgt]
    <3>1. ToWith(c, "detach", vol[v].tgt)
      BY <2>2 DEF ToWith
    <3>2. PICK r \in ReqRec : /\ req' = [req EXCEPT ![c] = r] /\ r.step = "detach"
                              /\ r.vol = v /\ r.inst = i /\ r.tgt = vol[v].tgt
                              /\ r.flag = req[c].flag
      BY <1>0, <2>1, <3>1, ToWithEffect
    <3>3. vol[r.vol].inst = r.inst /\ vol[r.vol].tgt = r.tgt
      BY <2>2, <3>2
    <3> QED BY <2>1, <3>2, <3>3, DetachBegins
  <2>3. CASE Done(c)
    BY <2>1, <2>3, QuietEnd DEF virt
  <2> QED BY <1>1, <2>2, <2>3 DEF GetAttachment
<1>2. CASE LibvirtDetach(c)
  <2>1. /\ req[c].step = "detach" /\ UNCHANGED <<inst, vol>>
        /\ v \in Volumes /\ i \in Instances
    BY <1>0, <1>2 DEF LibvirtDetach, At, Shape, DetachSteps
  <2>2. CASE Detachable(i, t, req[c].flag) /\ Unplug(i, t, req[c].flag) /\ To(c, "release")
    <3>1. PICK r \in ReqRec : /\ req' = [req EXCEPT ![c] = r] /\ r.step = "release"
                              /\ r.vol = v /\ r.inst = i /\ r.tgt = t
      BY <1>0, <2>2, ToEffect
    <3> QED BY <2>1, <2>2, <3>1, Detached
  <2>3. CASE Done(c) /\ UNCHANGED virt
    BY <2>1, <2>3, QuietEnd
  <2> QED BY <1>2, <2>2, <2>3 DEF LibvirtDetach
<1>3. CASE DetachVolumeRecord(c)
  <2>1. /\ req[c].step = "release" /\ UNCHANGED <<inst, dom, config, live>>
        /\ v \in Volumes /\ i \in Instances /\ req' = [req EXCEPT ![c] = NoRequest]
    BY <1>0, <1>3 DEF DetachVolumeRecord, At, Shape, DetachSteps, virt, Done
  <2>2. vol[v].inst = i => HasRow(v) /\ Runs(c)
    BY <1>0, <2>1, CalmTypes DEF HasRow, Runs
  <2>3. IF vol[v].inst = i THEN vol' = Released(v) ELSE vol' = vol
    BY <1>3, <2>2 DEF DetachVolumeRecord
  <2> QED BY <2>1, <2>3, IdleRequest, RowReleased
<1> QED BY <1>1, <1>2, <1>3

LEMMA DisksVolume ==
  ASSUME Calm, NEW c \in Clients, faults' = 0,
         \/ \E v \in Volumes : CreateVolume(c, v) \/ DeleteVolume(c, v)
         \/ CreateSparseQCOW2(c) \/ ProvisioningFails(c) \/ SetVolumeError(c) \/ RemoveFile(c)
  PROVE  ClaimsInv' /\ OwnersInv'
<1>0. TypeOK /\ req[c].ctx /\ req[c].step # "mark" /\ faults = 0
  BY DEF Calm, IInv, RowInv
<1>1. ASSUME NEW v \in Volumes, CreateVolume(c, v) PROVE ClaimsInv' /\ OwnersInv'
  <2> DEFINE r == Asked("file", v, None, FALSE)
  <2>1. r \in ReqRec /\ r.step = "file"
    BY DEF Asked, ReqRec
  <2>2. req' = [req EXCEPT ![c] = r]
    BY Zenon, <1>1 DEF CreateVolume, Ask, Asked
  <2>3. /\ req[c].step = "idle" /\ UNCHANGED <<inst, dom, config, live>>
        /\ vol' = [vol EXCEPT ![v].status = "available"]
    BY <1>1 DEF CreateVolume, At, virt
  <2> HIDE DEF r
  <2>4. PICK row \in RowRec : vol' = [vol EXCEPT ![v] = row] /\ row.inst = vol[v].inst
                              /\ row.tgt = vol[v].tgt
    BY <1>0, <2>3, RowRecords
  <2>5. \A w \in Volumes : vol'[w].inst = vol[w].inst /\ vol'[w].tgt = vol[w].tgt
    BY <2>4, CalmTypes
  <2> QED BY <2>1, <2>2, <2>3, <2>5, QuietRequest
<1>2. ASSUME NEW v \in Volumes, DeleteVolume(c, v) PROVE ClaimsInv' /\ OwnersInv'
  <2> DEFINE r == Asked("unlink", v, None, FALSE)
             row == Row("deleted", None, 0)
  <2>1. r \in ReqRec /\ r.step = "unlink" /\ row.inst = None
    BY DEF Asked, ReqRec, Row
  <2>2. req' = [req EXCEPT ![c] = r]
    BY Zenon, <1>2 DEF DeleteVolume, Ask, Asked
  <2>3. /\ req[c].step = "idle" /\ UNCHANGED <<inst, dom, config, live>>
        /\ vol[v].inst = None /\ vol' = [vol EXCEPT ![v] = row]
    BY <1>2 DEF DeleteVolume, Deletable, At, virt
  <2> HIDE DEF r, row
  <2>4. \A w \in Volumes : /\ vol'[w].inst = vol[w].inst
                           /\ vol[w].inst # None => vol'[w].tgt = vol[w].tgt
    BY <2>1, <2>3, CalmTypes
  <2> QED BY <2>1, <2>2, <2>3, <2>4, QuietRequest
<1>3. CASE CreateSparseQCOW2(c) \/ RemoveFile(c)
  <2>1. /\ req[c].step \in {"file", "remove", "unlink"} /\ Done(c) /\ UNCHANGED <<inst, virt, vol>>
    BY <1>3 DEF CreateSparseQCOW2, RemoveFile, At
  <2> QED BY <2>1, QuietEnd
<1>4. ~ProvisioningFails(c)
  BY <1>0 DEF ProvisioningFails, Runs
<1>5. ~SetVolumeError(c)
  BY <1>0 DEF SetVolumeError, At
<1> QED BY <1>1, <1>2, <1>3, <1>4, <1>5

\* What the worker has in hand is being deleted, or about to be.
LEMMA DisksWorker ==
  ASSUME Calm, WorkerStep
  PROVE  ClaimsInv' /\ OwnersInv'
<1> DEFINE k == job.inst
<1>1. /\ job.step # "idle" /\ k \in Instances /\ req' = req
      /\ job.step # "begin" => ~Kept(k)
  <2>1. job.step \in {"begin", "list", "detach", "release", "finalize"} /\ req' = req
    BY DEF WorkerStep, BeginDestroy, ListAttached, DetachNext, ReleaseNext, DeleteVM, FinalizeDestroy
  <2> QED BY <2>1 DEF Calm, IInv, JobInv, Kept
<1>2. /\ inst \in [Instances -> {"running", "stopped", "deleting", "error", "gone"}]
      /\ \A i \in Instances \ {k} : inst'[i] = inst[i]
      /\ ~(inst'[k] \in {"running", "stopped"})
  <2>1. inst \in [Instances -> {"running", "stopped", "deleting", "error", "gone"}]
    BY JobTypes DEF Calm
  <2>2. CASE inst' = inst /\ job.step # "begin"
    BY <1>1, <2>1, <2>2 DEF Kept
  <2>3. CASE \E s \in {"deleting", "error", "gone"} : inst' = [inst EXCEPT ![k] = s]
    BY <1>1, <2>1, <2>3
  <2> QED BY <2>2, <2>3
          DEF WorkerStep, BeginDestroy, ListAttached, DetachNext, ReleaseNext, DeleteVM, FinalizeDestroy
<1>3. \A i \in Instances \ {k} : dom'[i] = dom[i] /\ config'[i] = config[i] /\ live'[i] = live[i]
  <2>1. CASE UNCHANGED virt
    BY <2>1 DEF virt
  <2>2. CASE \E d \in job.left : Unplug(k, d[2], job.live)
    <3>1. PICK d \in job.left : Unplug(k, d[2], job.live)
      BY <2>2
    <3>2. /\ config' = [config EXCEPT ![k] = @ \ DisksAt(@, d[2])] /\ dom' = dom
          /\ live' = [live EXCEPT ![k] = @ \ DisksAt(@, d[2])] \/ live' = live
      BY <3>1 DEF Unplug
    <3> QED BY <3>2, CalmTypes
  <2>3. CASE DeleteVM
    BY <1>1, <2>3, JobTypes DEF DeleteVM, Calm
  <2> QED BY <2>1, <2>2, <2>3
          DEF WorkerStep, BeginDestroy, ListAttached, DetachNext, ReleaseNext, FinalizeDestroy
<1>4. \A v \in Volumes : \A i \in Instances \ {k} :
        (vol'[v].inst = i <=> vol[v].inst = i) /\ (vol[v].inst = i => vol'[v].tgt = vol[v].tgt)
  <2>1. CASE vol' = vol
    BY <2>1
  <2>2. CASE job.step = "release" /\ vol[job.cur[1]].inst = k /\ vol' = Released(job.cur[1])
    <3>1. job.cur[1] \in Volumes /\ TypeOK
      BY <2>2 DEF Calm, IInv, JobInv, Disks
    <3>2. PICK row \in RowRec : vol' = [vol EXCEPT ![job.cur[1]] = row] /\ row.inst = None
      BY <2>2, <3>1, ReleasedRow
    <3> QED BY <2>2, <3>1, <3>2, CalmTypes
  <2> QED BY <2>1, <2>2
          DEF WorkerStep, BeginDestroy, ListAttached, DetachNext, ReleaseNext, DeleteVM, FinalizeDestroy
<1>5. \A i \in Instances : Kept(i)' => i # k /\ Kept(i)
  BY <1>1, <1>2 DEF Kept
<1> HIDE DEF k
<1>6. \A i \in Instances : Kept(i)' => config'[i] = config[i]
  BY <1>3, <1>5
<1>7. \A i \in Instances : Kept(i)' =>
           /\ Kept(i)
           /\ i \notin Stoppable /\ inst[i] = "running" /\ dom[i] = "active" /\ live[i] = config[i]
                => inst'[i] = "running" /\ dom'[i] = "active" /\ live'[i] = config'[i]
           /\ \A v \in Volumes : /\ vol'[v].inst = i <=> vol[v].inst = i
                                 /\ vol[v].inst = i => vol'[v].tgt = vol[v].tgt
  BY <1>2, <1>3, <1>4, <1>5
<1> QED BY <1>1, <1>6, <1>7, NoRequestMoves

LEMMA DisksInstance ==
  ASSUME Calm, NEW k \in Instances, RequestDestroy(k) \/ Stop(k) \/ PowerOff(k) \/ Start(k)
  PROVE  ClaimsInv' /\ OwnersInv'
<1>1. UNCHANGED <<req, vol, config>>
  BY DEF RequestDestroy, Stop, PowerOff, Start, virt
<1>2. \A i \in Instances : Kept(i)' =>
           /\ Kept(i)
           /\ i \notin Stoppable /\ inst[i] = "running" /\ dom[i] = "active" /\ live[i] = config[i]
                => inst'[i] = "running" /\ dom'[i] = "active" /\ live'[i] = config'[i]
  <2>0. /\ inst \in [Instances -> {"running", "stopped", "deleting", "error", "gone"}]
        /\ dom \in [Instances -> {"active", "shutoff", "undefined"}]
        /\ live \in [Instances -> SUBSET Disks]
    BY JobTypes DEF Calm
  <2>1. CASE RequestDestroy(k)
    BY <1>1, <2>1 DEF RequestDestroy, virt, Kept
  <2>2. CASE Stop(k)
    BY <1>1, <2>0, <2>2 DEF Stop, virt, Kept
  <2>3. CASE PowerOff(k)
    BY <1>1, <2>0, <2>3 DEF PowerOff, Kept
  <2>4. CASE Start(k)
    <3>1. /\ inst' = [inst EXCEPT ![k] = "running"] /\ inst[k] = "stopped"
          /\ dom' = [dom EXCEPT ![k] = "active"]
          /\ live' = live \/ live' = [live EXCEPT ![k] = config[k]]
      BY <2>4 DEF Start
    <3> QED BY <1>1, <2>0, <3>1 DEF Kept
  <2> QED BY <2>1, <2>2, <2>3, <2>4
<1> QED BY <1>1, <1>2, NoRequestMoves

LEMMA DisksNext == IInv /\ DisksInv /\ [Next]_vars => DisksInv'
<1> SUFFICES ASSUME IInv, DisksInv, [Next]_vars, faults' = 0, OneDetacher
             PROVE  ClaimsInv' /\ OwnersInv'
  BY DEF DisksInv, OneDetacher
<1>1. faults = 0
  <2>1. faults \in Nat
    BY DEF IInv, TypeOK
  <2>2. faults' = faults \/ faults' = faults + 1
    BY DEF Next, vars, RequestStep, WorkerStep, AskAttach, AskDetach, CreateVolume, DeleteVolume,
           ClientGone, ApiDies, RequestDestroy, Stop, PowerOff, Start, BeginDestroy, ListAttached,
           DetachNext, ReleaseNext, DeleteVM, FinalizeDestroy, GetVolume, NextVirtioDiskTarget,
           LibvirtAttach, AttachVolumeRecord, UndoAttach, GetAttachment, LibvirtDetach,
           DetachVolumeRecord, CreateSparseQCOW2, ProvisioningFails, SetVolumeError, RemoveFile
  <2> QED BY <2>1, <2>2
<1>2. Calm
  BY <1>1 DEF Calm, DisksInv
<1>3. CASE UNCHANGED vars
  <2>1. UNCHANGED <<req, config, inst, dom, live, vol>>
    BY <1>3 DEF vars, virt
  <2> QED BY <1>2, <2>1, NoRequestMoves DEF Kept
<1>4. ASSUME NEW c \in Clients, NEW v \in Volumes,
             \/ \E i \in Instances : AskAttach(c, v, i) \/ AskDetach(c, v, i)
             \/ CreateVolume(c, v) \/ DeleteVolume(c, v)
      PROVE  ClaimsInv' /\ OwnersInv'
  BY <1>2, <1>4, DisksAsk, DisksVolume
<1>5. ASSUME NEW c \in Clients, RequestStep(c) PROVE ClaimsInv' /\ OwnersInv'
  BY <1>2, <1>5, DisksAttach, DisksDetach, DisksVolume DEF RequestStep
<1>6. \A c \in Clients : ~ClientGone(c) /\ ~ApiDies(c)
  BY <1>1 DEF ClientGone, ApiDies
<1> QED BY <1>2, <1>3, <1>4, <1>5, <1>6, DisksWorker, DisksInstance DEF Next

LEMMA DisksInit == Init => DisksInv
<1> SUFFICES ASSUME Init PROVE ClaimsInv /\ OwnersInv
  BY DEF DisksInv
<1>1. /\ \A c \in Clients : req[c].step = "idle"
      /\ \A v \in Volumes : vol[v].inst = None
      /\ \A i \in Instances : config[i] = {} /\ live[i] = {} /\ inst[i] = "running" /\ dom[i] = "active"
      /\ None \notin Instances
  BY IdleRequest, ConstantsAssumption DEF Init, Row
<1>2. ClaimsInv
  BY <1>1 DEF ClaimsInv, AttachClaims, RowClaims, DetachClaims, Claims, Attaching
<1>3. OwnersInv
  BY <1>1 DEF OwnersInv, GuestInv, OwnInv, FlagInv
<1> QED BY <1>2, <1>3

\* While no client walks away and detaches come one after the other, a row and
\* the configuration of its domain agree but for the one request between
\* libvirt and the database: an inductive invariant, with the types.
THEOREM RowsAndDisksAgree == Spec => [](IInv /\ DisksInv)
<1>1. Init => IInv /\ DisksInv
  BY InitInv, DisksInit
<1>2. IInv /\ DisksInv /\ [Next]_vars => (IInv /\ DisksInv)'
  BY NextInv, DisksNext
<1> QED BY <1>1, <1>2, PTL DEF Spec

\* A disk in a domain is the one the row of its volume names, or that of a
\* request about to record or to undo it, however many requests attach at once:
\* the one that finds the row taken still finds its own disk to take out.
THEOREM EveryDiskHasAnOwner == Spec => []DisksHaveOwners
<1>1. IInv /\ DisksInv => DisksHaveOwners
  <2> SUFFICES ASSUME IInv, DisksInv, faults = 0, OneDetacher,
                      NEW i \in Instances \ Stoppable, NEW d \in config[i] \cup live[i],
                      inst[i] \notin {"deleting", "error"}
               PROVE  \/ vol[d[1]] = Row("in-use", i, d[2])
                      \/ \E c \in Attachers : /\ req[c].step \in {"record", "undo"}
                                              /\ req[c].vol = d[1] /\ req[c].inst = i
                                              /\ req[c].tgt = d[2]
    BY DEF DisksHaveOwners
  <2>1. Calm
    BY DEF Calm, DisksInv
  <2>2. d \in Disks /\ inst[i] \in {"running", "stopped", "deleting", "error", "gone"}
    BY <2>1, CalmTypes, JobTypes
  <2>3. Kept(i)
    BY <2>2 DEF IInv, GoneInv, DomainInv, Kept
  <2>4. d \in config[i]
    BY <2>1, <2>3 DEF Calm, OwnersInv, GuestInv
  <2>5. PICK v \in Volumes, t \in Targets : d = <<v, t>> /\ d[1] = v /\ d[2] = t
    BY <2>2 DEF Disks
  <2>6. CASE vol[v].inst = i /\ vol[v].tgt = t
    <3>1. vol[v] \in RowRec /\ vol[v].status = "in-use"
      BY <2>1, <2>6, CalmTypes
    <3>2. vol[v] = [status |-> vol[v].status, inst |-> vol[v].inst, tgt |-> vol[v].tgt]
      BY <3>1 DEF RowRec
    <3> QED BY <2>5, <2>6, <3>1, <3>2 DEF Row
  <2>7. CASE \E c \in Clients : Claims(c, v, i, t)
    <3>1. PICK c \in Clients : Claims(c, v, i, t)
      BY <2>7
    <3>2. c \in Attachers
      BY <2>1, <3>1, CalmTypes DEF Claims, Attaching, Shape, AttachSteps
    <3> QED BY <2>5, <3>1, <3>2 DEF Claims, Attaching
  <2> QED BY <2>1, <2>3, <2>4, <2>5, <2>6, <2>7 DEF Calm, OwnersInv, OwnInv
<1> QED BY <1>1, RowsAndDisksAgree, PTL

\* The comment of migrations/0004_volumes.sql: a row names an instance only
\* while the configuration of its domain has the disk, at the row's target, but
\* for the request that is about to release it.
THEOREM AttachedRowsHaveDisks == Spec => []InstanceIdOnlyWhileAttached
<1>1. IInv /\ DisksInv => InstanceIdOnlyWhileAttached
  <2> SUFFICES ASSUME IInv, DisksInv, faults = 0, OneDetacher, NEW v \in Volumes,
                      NEW i \in Instances, vol[v].inst = i, inst[i] \notin {"deleting", "error"}
               PROVE  \/ <<v, vol[v].tgt>> \in config[i]
                      \/ \E c \in Detachers : At(c, "release") /\ req[c].vol = v /\ req[c].inst = i
    BY DEF InstanceIdOnlyWhileAttached
  <2>1. Calm
    BY DEF Calm, DisksInv
  <2>2. inst[i] \in {"running", "stopped", "deleting", "error", "gone"}
    BY JobTypes
  <2>3. Kept(i)
    BY <2>2 DEF IInv, GoneInv, Kept
  <2>4. <<v, vol[v].tgt>> \in config[i] \/ Releasing(v, i)
    BY <2>1, <2>3 DEF Calm, ClaimsInv, RowClaims
  <2>5. ASSUME Releasing(v, i)
        PROVE  \E c \in Detachers : At(c, "release") /\ req[c].vol = v /\ req[c].inst = i
    <3>1. PICK c \in Clients : req[c].step = "release" /\ req[c].vol = v /\ req[c].inst = i
      BY <2>5 DEF Releasing
    <3>2. c \in Detachers
      BY <2>1, <3>1, CalmTypes DEF Shape, DetachSteps
    <3> QED BY <3>1, <3>2 DEF At
  <2> QED BY <2>4, <2>5
<1> QED BY <1>1, RowsAndDisksAgree, PTL
==============================================================================
