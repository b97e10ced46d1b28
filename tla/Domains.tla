------------------------------- MODULE Domains ------------------------------
(***************************************************************************)
(* What the worker makes of an instance on the host: a libvirt domain,     *)
(* found by a name that is derived from the instance's, and a directory    *)
(* with a disk and a seed, named by its id                                 *)
(* (internal/libvirt/hypervisor.go, internal/cloudinit/nocloud.go).        *)
(*                                                                         *)
(* The worker has one task in hand; an action is one libvirt call, one     *)
(* external tool or one operation on the directory, and the worker may be  *)
(* killed between any two.  A task may be executed any number of times     *)
(* (retries, redelivery) until the row of its instance is gone.            *)
(***************************************************************************)
EXTENDS Integers, Sequences

CONSTANTS
  Instances,
  Names,      \* names a client may give, sequences of characters
  Safe,       \* letters, digits, dash and underscore
  MaxName,    \* the name of a domain is cut there (200)
  Default,    \* "instance"
  MaxFaults,  \* bound on calls that fail and on kills
  MaxLost,    \* bound on lookups that fail although the domain is there
  None

ASSUME ConstantsAssumption ==
  /\ MaxName \in Nat \ {0} /\ MaxFaults \in Nat /\ MaxLost \in Nat
  /\ "-" \in Safe /\ Names \subseteq Seq(STRING)
  /\ None \notin Instances \cup [owner : Instances, active : BOOLEAN]

VARIABLES
  name,  \* name[i]: instances.name
  row,   \* row[i]: whether the row is there
  dom,   \* dom[n]: the domain of that name, whose disk it has and whether it runs
  dir,   \* dir[i]: the files of the instance's directory
  op,    \* the call the worker is in
  faults, lost

vars == <<name, row, dom, dir, op, faults, lost>>

Files  == {"root.qcow2", "seed.iso"}
\* Mutant: the disk is cloned to another name than the domain is given.
MutDisk == "root.img"
Disk    == "root.qcow2"
Idle   == [kind |-> "idle", inst |-> None, step |-> "idle"]
Domain == [owner : Instances, active : BOOLEAN]

------------------------------------------------------------------------------
\* SanitizeLibvirtName

Mapped(s) == [k \in DOMAIN s |-> IF s[k] \in Safe THEN s[k] ELSE "-"]

Trimmed(s) ==
  LET kept == {k \in DOMAIN s : s[k] # "-"}
  IN  IF kept = {} THEN <<>>
      ELSE SubSeq(s, CHOOSE k \in kept : \A l \in kept : k <= l,
                     CHOOSE k \in kept : \A l \in kept : l <= k)

Cut(s) == IF Len(s) > MaxName THEN SubSeq(s, 1, MaxName) ELSE s

\* Mutant: what is not safe is left out.
MutSanitizeLibvirtName(s) ==
  LET out == SelectSeq(s, LAMBDA c : c \in Safe \ {"-"})
  IN  IF out = <<>> THEN Default ELSE Cut(out)

\* Mutant: an empty name stays empty.
MutSanitizeEmpty(s) == Cut(Trimmed(Mapped(s)))

SanitizeLibvirtName(s) ==
  LET out == Trimmed(Mapped(s))
  IN  IF out = <<>> THEN Default ELSE Cut(out)

DomainNames == {SanitizeLibvirtName(s) : s \in Names}
NameOf(i)   == SanitizeLibvirtName(name[i])

------------------------------------------------------------------------------
TypeOK ==
  /\ name \in [Instances -> Names]
  /\ row \in [Instances -> {"none", "there", "gone"}]
  /\ dom \in [DomainNames -> Domain \cup {None}]
  /\ dir \in [Instances -> SUBSET Files]
  /\ op \in [kind : {"create", "delete"}, inst : Instances,
             step : {"lookup", "remove", "clone", "iso", "define", "boot", "files", "finalize"}] \cup {Idle}
  /\ faults \in 0..MaxFaults /\ lost \in 0..MaxLost

\* Names are unique in a project only.
Init ==
  /\ name \in [Instances -> Names]
  /\ row = [i \in Instances |-> "none"]
  /\ dom = [n \in DomainNames |-> None]
  /\ dir = [i \in Instances |-> {}]
  /\ op = Idle /\ faults = 0 /\ lost = 0

At(step) == op.step = step
To(step) == op' = [op EXCEPT !.step = step]
Fault    == faults < MaxFaults /\ faults' = faults + 1
Fails    == Fault /\ op' = Idle
Own      == NameOf(op.inst)
SetDom(d)   == dom' = [dom EXCEPT ![Own] = d]
SetFiles(s) == dir' = [dir EXCEPT ![op.inst] = s]
\* A call of the worker that fails and takes the directory with it.
Abandon  == Fails /\ SetFiles({})

Insert(i) ==
  /\ row[i] = "none"
  /\ row' = [row EXCEPT ![i] = "there"]
  /\ UNCHANGED <<name, dom, dir, op, faults, lost>>

------------------------------------------------------------------------------
\* CreateVM and DeleteVM

Begin(i, kind) ==
  /\ op = Idle /\ row[i] = "there"
  /\ op' = [kind |-> kind, inst |-> i, step |-> "lookup"]
  /\ UNCHANGED <<name, row, dom, dir, faults, lost>>

\* Mutant: the directory stays.
MutAfterRemoval == IF op.kind = "create" THEN "clone" ELSE "finalize"
AfterRemoval == IF op.kind = "create" THEN "clone" ELSE "files"

\* Any error of the lookup is taken for a domain that is not there.
LookupDomainByName ==
  /\ At("lookup")
  /\ \/ To(IF dom[Own] = None THEN AfterRemoval ELSE "remove") /\ UNCHANGED lost
     \/ /\ dom[Own] # None /\ To(AfterRemoval)
        /\ lost < MaxLost /\ lost' = lost + 1
  /\ UNCHANGED <<name, row, dom, dir, faults>>

\* Mutant: the directory goes first.
MutDestroy ==
  /\ At("remove") /\ dom[Own] # None /\ dom[Own].active
  /\ IF op.kind = "delete" /\ dir[op.inst] # {}
     THEN SetFiles({}) /\ UNCHANGED dom
     ELSE SetDom([dom[Own] EXCEPT !.active = FALSE]) /\ UNCHANGED dir
  /\ UNCHANGED <<name, row, op, faults, lost>>

\* Whatever domain has the name: destroyed if it runs, then undefined.
Destroy ==
  /\ At("remove") /\ dom[Own] # None /\ dom[Own].active
  /\ \/ SetDom([dom[Own] EXCEPT !.active = FALSE]) /\ UNCHANGED <<op, faults>>
     \/ Fails /\ UNCHANGED dom
  /\ UNCHANGED <<name, row, dir, lost>>

Undefine ==
  /\ At("remove") /\ dom[Own] # None /\ ~dom[Own].active
  /\ \/ SetDom(None) /\ To(AfterRemoval) /\ UNCHANGED faults
     \/ Fails /\ UNCHANGED dom
  /\ UNCHANGED <<name, row, dir, lost>>

\* The disk of a running guest can be locked.
Locked == \E n \in DomainNames : dom[n] = [owner |-> op.inst, active |-> TRUE]

CloneQCOW2 ==
  /\ At("clone")
  /\ \/ SetFiles(dir[op.inst] \cup {Disk}) /\ To("iso") /\ UNCHANGED faults
     \/ Abandon
     \/ Locked /\ SetFiles({}) /\ op' = Idle /\ UNCHANGED faults
  /\ UNCHANGED <<name, row, dom, lost>>

BuildNoCloudISO ==
  /\ At("iso")
  /\ \/ SetFiles(dir[op.inst] \cup {"seed.iso"}) /\ To("define") /\ UNCHANGED faults
     \/ Abandon
  /\ UNCHANGED <<name, row, dom, lost>>

\* A domain that was not found is redefined, or refused if it has another UUID.
\* A size that the configuration got wrong is found late, and nothing removed.
DomainDefineXML ==
  /\ At("define")
  /\ \/ /\ IF dom[Own] = None
           THEN SetDom([owner |-> op.inst, active |-> FALSE])
           ELSE dom[Own].owner = op.inst /\ UNCHANGED dom
        /\ To("boot") /\ UNCHANGED <<dir, faults>>
     \/ /\ dom[Own] # None /\ dom[Own].owner # op.inst
        /\ op' = Idle /\ SetFiles({}) /\ UNCHANGED <<dom, faults>>
     \/ Abandon /\ UNCHANGED dom
     \/ Fails /\ UNCHANGED <<dom, dir>>
  /\ UNCHANGED <<name, row, lost>>

\* When the domain does not start (or runs already) it is undefined, or not: that error is dropped.
Boot ==
  /\ At("boot")
  /\ \/ /\ ~dom[Own].active
        /\ SetDom([dom[Own] EXCEPT !.active = TRUE]) /\ op' = Idle /\ UNCHANGED <<dir, faults>>
     \/ Abandon /\ (SetDom(None) \/ SetDom([dom[Own] EXCEPT !.active = FALSE]))
     \/ dom[Own].active /\ SetDom(None) /\ SetFiles({}) /\ op' = Idle /\ UNCHANGED faults
  /\ UNCHANGED <<name, row, lost>>

RemoveAll ==
  /\ At("files")
  /\ SetFiles({}) /\ To("finalize")
  /\ UNCHANGED <<name, row, dom, faults, lost>>

\* FinalizeInstanceDestroy
Finalize ==
  /\ At("finalize")
  /\ row' = [row EXCEPT ![op.inst] = "gone"]
  /\ op' = Idle
  /\ UNCHANGED <<name, dom, dir, faults, lost>>

------------------------------------------------------------------------------
\* StartVM, guests, kills

\* An active domain is a success; qemu needs the files.
StartVM(i) ==
  /\ op = Idle /\ row[i] = "there"
  /\ LET n == NameOf(i)
     IN  /\ dom[n] # None /\ ~dom[n].active /\ dir[dom[n].owner] = Files
         /\ dom' = [dom EXCEPT ![n].active = TRUE]
  /\ UNCHANGED <<name, row, dir, op, faults, lost>>

PowerOff(n) ==
  /\ dom[n] # None /\ dom[n].active
  /\ dom' = [dom EXCEPT ![n].active = FALSE]
  /\ UNCHANGED <<name, row, dir, op, faults, lost>>

Kill ==
  /\ op # Idle /\ Fails
  /\ UNCHANGED <<name, row, dom, dir, lost>>

------------------------------------------------------------------------------
Next ==
  \/ \E i \in Instances :
       \/ Insert(i) \/ StartVM(i)
       \/ \E kind \in {"create", "delete"} : Begin(i, kind)
  \/ LookupDomainByName \/ Destroy \/ Undefine
  \/ CloneQCOW2 \/ BuildNoCloudISO \/ DomainDefineXML \/ Boot
  \/ RemoveAll \/ Finalize
  \/ \E n \in DomainNames : PowerOff(n)
  \/ Kill

Spec == Init /\ [][Next]_vars

------------------------------------------------------------------------------
(***************************************************************************)
(* hypervisor.go:231: "DeleteVM destroys the domain (if running),          *)
(* undefines it, and deletes the instance disk directory" - in this order: *)
(* a guest that runs has its disk and its seed.  No failed or repeated     *)
(* creation, no deletion and no kill takes the files of a running guest,   *)
(* not even when two instances share the name of their domain; only a      *)
(* lookup that fails, which is taken for a domain that is not there, does. *)
(***************************************************************************)
GuestsHaveFiles ==
  lost = 0 => \A n \in DomainNames :
    dom[n] # None /\ dom[n].active => dir[dom[n].owner] = Files

(***************************************************************************)
(* An instance that is gone leaves neither files nor a domain on the host, *)
(* unless a lookup has failed.                                             *)
(***************************************************************************)
GoneLeavesNothing ==
  lost = 0 => \A i \in Instances :
    row[i] = "gone" => /\ dir[i] = {}
                       /\ \A n \in DomainNames : dom[n] # None => dom[n].owner # i

(***************************************************************************)
(* hypervisor.go:265: "SanitizeLibvirtName maps arbitrary instance names   *)
(* to a libvirt-safe domain name" - not empty, of safe characters, not too *)
(* long, and not to be taken for an option.                                *)
(***************************************************************************)
NamesAreSafe ==
  \A i \in Instances :
    LET n == NameOf(i)
    IN  n = Default \/ (/\ Len(n) \in 1..MaxName
                        /\ \A k \in DOMAIN n : n[k] \in Safe
                        /\ n[1] # "-")

\* A name nothing is cut from, and two that differ in no letter.
Plain(s) == Len(s) \in 1..MaxName /\ {s[1], s[Len(s)]} \subseteq Safe \ {"-"}
Alike(s, t) ==
  Len(s) = Len(t) /\ \A k \in DOMAIN s : s[k] = t[k] \/ {s[k], t[k]} \cap (Safe \ {"-"}) = {}

(***************************************************************************)
(* hypervisor.go:231: "DeleteVM destroys the domain (if running)" - the    *)
(* one of its instance: no call for another instance takes it away, as     *)
(* long as their names are told apart by a letter, a digit, an underscore  *)
(* or their length, and keep their ends.  "a b" and "a-b" of one project,  *)
(* or one name in two projects, are one domain to the code.                *)
(***************************************************************************)
OnlyItsOwnDomain ==
  [][\A n \in DomainNames :
       dom[n] # None /\ dom'[n] = None /\ op.inst # dom[n].owner =>
         LET mine == name[op.inst]  its == name[dom[n].owner]
         IN  Alike(mine, its) \/ ~(Plain(mine) /\ Plain(its))]_vars
==============================================================================
