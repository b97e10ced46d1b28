---------------------------- MODULE DomainsProofs ----------------------------
(***************************************************************************)
(* Proofs about Domains, for any instances, names and characters: what the *)
(* worker leaves on the host (of names only that the domain of an instance *)
(* is found by them), then what SanitizeLibvirtName makes of a name.       *)
(***************************************************************************)
EXTENDS Domains, SequenceTheorems, WellFoundedInduction, TLAPS

Kinds == {"create", "delete"}
Steps == {"lookup", "remove", "clone", "iso", "define", "boot", "files", "finalize"}
OpRec == [kind : Kinds, inst : Instances, step : Steps]

\* A domain has the name of the instance whose disk it has.
NameInv == \A n \in DomainNames : dom[n] # None => NameOf(dom[n].owner) = n

\* The task in hand is of an instance whose row is there, and it boots the
\* domain it has defined.
OpInv ==
  /\ op.step # "idle" => row[op.inst] = "there"
  /\ op.step = "boot" => dom[Own] \in Domain /\ dom[Own].owner = op.inst

\* From the removal of the old domain to the definition of the new one there is
\* none of that name; the files are made one after the other, and they are
\* there when the domain is.
WorkInv ==
  /\ op.step \in {"clone", "iso", "define", "files", "finalize"} => dom[Own] = None
  /\ op.step = "iso" => Disk \in dir[op.inst]
  /\ op.step \in {"define", "boot"} => dir[op.inst] = Files
  /\ op.step = "finalize" => dir[op.inst] = {}

GuestInv == \A n \in DomainNames : dom[n] # None /\ dom[n].active => dir[dom[n].owner] = Files
GoneInv ==
  \A i \in Instances :
    row[i] = "gone" => dir[i] = {} /\ \A n \in DomainNames : dom[n] # None => dom[n].owner # i

HostInv == lost = 0 => WorkInv /\ GuestInv /\ GoneInv
IInv    == TypeOK /\ NameInv /\ OpInv /\ HostInv

------------------------------------------------------------------------------
(* The task in hand.                                                       *)

LEMMA IdleOp == Idle.kind = "idle" /\ Idle.inst = None /\ Idle.step = "idle"
BY DEF Idle

LEMMA OpTypes ==
  ASSUME TypeOK
  PROVE  /\ op = Idle \/ op \in OpRec
         /\ op.step # "idle" => /\ op \in OpRec /\ op.inst \in Instances
                                /\ Own \in DomainNames
         /\ op.step = "idle" => op = Idle
         /\ \A i \in Instances : NameOf(i) \in DomainNames
<1>1. op = Idle \/ op \in OpRec
  BY DEF TypeOK, OpRec, Kinds, Steps
<1>2. \A i \in Instances : NameOf(i) \in DomainNames
  BY DEF TypeOK, NameOf, DomainNames
<1>3. op \in OpRec => op.inst \in Instances /\ op.step # "idle"
  BY DEF OpRec, Steps
<1> QED BY <1>1, <1>2, <1>3, IdleOp DEF Own

LEMMA Proceeds ==
  ASSUME TypeOK, op.step # "idle", NEW step \in Steps, To(step), name' = name
  PROVE  op' \in OpRec /\ op'.kind = op.kind /\ op'.inst = op.inst /\ op'.step = step /\ Own' = Own
<1>1. op' \in OpRec /\ op'.kind = op.kind /\ op'.inst = op.inst /\ op'.step = step
  BY OpTypes DEF To, OpRec
<1> QED BY <1>1 DEF Own, NameOf

LEMMA Switched ==
  ASSUME NEW d \in Domain
  PROVE  /\ [d EXCEPT !.active = TRUE] \in Domain /\ [d EXCEPT !.active = TRUE].owner = d.owner
         /\ [d EXCEPT !.active = FALSE] \in Domain /\ [d EXCEPT !.active = FALSE].owner = d.owner
         /\ [d EXCEPT !.active = FALSE].active = FALSE
BY DEF Domain

LEMMA DomTypes ==
  ASSUME IInv
  PROVE  /\ TypeOK /\ dom \in [DomainNames -> Domain \cup {None}]
         /\ row \in [Instances -> {"none", "there", "gone"}] /\ dir \in [Instances -> SUBSET Files]
         /\ \A n \in DomainNames : dom[n] # None => dom[n] \in Domain /\ dom[n].owner \in Instances
BY DEF IInv, TypeOK, Domain

\* No domain of another name has the disk of the instance in hand.
LEMMA OthersDisks ==
  ASSUME IInv, op.step # "idle"
  PROVE  \A n \in DomainNames : n # Own /\ dom[n] # None => dom[n].owner # op.inst
BY DEF IInv, NameInv, Own
------------------------------------------------------------------------------
(* Steps, by what they touch.                                              *)

\* The task ends.
LEMMA Ends ==
  ASSUME IInv, op' = Idle, name' = name, row' = row,
         faults' \in 0..MaxFaults, lost' = lost,
         dom' \in [DomainNames -> Domain \cup {None}], dir' \in [Instances -> SUBSET Files],
         NameInv', lost = 0 => GuestInv' /\ GoneInv'
  PROVE  IInv'
<1>1. TypeOK'
  BY DEF IInv, TypeOK
<1>2. OpInv' /\ (lost' = 0 => WorkInv')
  BY IdleOp DEF OpInv, WorkInv
<1> QED BY <1>1, <1>2 DEF IInv, HostInv

LEMMA EndsAtOnce ==
  ASSUME IInv, Fails, UNCHANGED <<name, row, dom, dir, lost>>
  PROVE  IInv'
<1>1. op' = Idle /\ faults' \in 0..MaxFaults
  BY ConstantsAssumption DEF Fails, Fault, IInv, TypeOK
<1>2. NameInv' /\ (lost = 0 => GuestInv' /\ GoneInv')
  BY DEF IInv, NameInv, HostInv, GuestInv, GoneInv, NameOf
<1> QED BY <1>1, <1>2, DomTypes, Ends

LEMMA InitInv == Init => IInv
<1> SUFFICES ASSUME Init PROVE IInv
  OBVIOUS
<1>1. TypeOK
  BY ConstantsAssumption DEF Init, TypeOK
<1>2. NameInv /\ OpInv /\ WorkInv
  BY IdleOp DEF Init, NameInv, OpInv, WorkInv
<1>3. GuestInv /\ GoneInv
  BY DEF Init, GuestInv, GoneInv
<1> QED BY <1>1, <1>2, <1>3 DEF IInv, HostInv

LEMMA BeginInv ==
  ASSUME IInv, NEW i \in Instances, Insert(i) \/ (\E kind \in Kinds : Begin(i, kind))
  PROVE  IInv'
<1>1. CASE Insert(i)
  <2>1. /\ row[i] = "none" /\ row' = [row EXCEPT ![i] = "there"]
        /\ UNCHANGED <<name, dom, dir, op, faults, lost>>
    BY <1>1 DEF Insert
  <2>2. /\ row' \in [Instances -> {"none", "there", "gone"}]
        /\ \A j \in Instances : row'[j] = IF j = i THEN "there" ELSE row[j]
    BY <2>1, DomTypes
  <2>3. TypeOK'
    BY <2>1, <2>2 DEF IInv, TypeOK
  <2>4. NameInv' /\ OpInv' /\ (lost = 0 => WorkInv' /\ GuestInv')
    BY <2>1, <2>2, DomTypes, OpTypes
       DEF IInv, NameInv, OpInv, HostInv, WorkInv, GuestInv, NameOf, Own
  <2>5. lost = 0 => GoneInv'
    BY <2>1, <2>2 DEF IInv, HostInv, GoneInv
  <2> QED BY <2>1, <2>3, <2>4, <2>5 DEF IInv, HostInv
<1>2. ASSUME NEW kind \in Kinds, Begin(i, kind) PROVE IInv'
  <2>1. /\ op' = [kind |-> kind, inst |-> i, step |-> "lookup"] /\ row[i] = "there"
        /\ UNCHANGED <<name, row, dom, dir, faults, lost>>
    BY <1>2 DEF Begin
  <2>2. op' \in OpRec /\ op'.inst = i /\ op'.step = "lookup"
    BY <2>1 DEF OpRec, Steps
  <2>3. TypeOK'
    BY <2>1, <2>2 DEF IInv, TypeOK, OpRec, Kinds, Steps
  <2>4. NameInv' /\ OpInv' /\ (lost' = 0 => WorkInv' /\ GuestInv' /\ GoneInv')
    BY <2>1, <2>2 DEF IInv, NameInv, OpInv, HostInv, WorkInv, GuestInv, GoneInv, NameOf
  <2> QED BY <2>3, <2>4 DEF IInv, HostInv
<1> QED BY <1>1, <1>2

LEMMA LookupInv ==
  ASSUME IInv, LookupDomainByName
  PROVE  IInv'
<1>1. /\ op.step = "lookup" /\ UNCHANGED <<name, row, dom, dir, faults>>
      /\ lost' \in 0..MaxLost /\ (lost' = 0 => lost = 0)
  BY ConstantsAssumption DEF LookupDomainByName, At, IInv, TypeOK
<1>2. PICK step \in {"clone", "files", "remove"} :
        To(step) /\ (lost' = 0 /\ step # "remove" => dom[Own] = None)
  <2>1. AfterRemoval \in {"clone", "files"}
    BY DEF AfterRemoval
  <2>2. lost \in Nat
    BY DEF IInv, TypeOK
  <2>3. CASE To(IF dom[Own] = None THEN AfterRemoval ELSE "remove")
    BY <2>1, <2>3
  <2>4. CASE To(AfterRemoval) /\ lost' = lost + 1
    BY <2>1, <2>2, <2>4
  <2> QED BY <2>3, <2>4 DEF LookupDomainByName
<1>3. /\ op' \in OpRec /\ op'.kind = op.kind /\ op'.inst = op.inst /\ op'.step = step /\ Own' = Own
  BY <1>1, <1>2, DomTypes, Proceeds DEF Steps
<1>4. TypeOK'
  BY <1>1, <1>3 DEF IInv, TypeOK, OpRec, Kinds, Steps
<1>5. NameInv' /\ OpInv' /\ (lost' = 0 => WorkInv' /\ GuestInv' /\ GoneInv')
  BY <1>1, <1>2, <1>3 DEF IInv, NameInv, OpInv, HostInv, WorkInv, GuestInv, GoneInv, NameOf
<1> QED BY <1>4, <1>5 DEF IInv, HostInv

LEMMA RemoveInv ==
  ASSUME IInv, Destroy \/ Undefine
  PROVE  IInv'
<1>1. /\ op.step = "remove" /\ dom[Own] # None /\ UNCHANGED <<name, row, dir, lost>>
      /\ Own \in DomainNames /\ op.inst \in Instances /\ dom[Own] \in Domain
      /\ NameOf(dom[Own].owner) = Own
  BY DomTypes, OpTypes DEF Destroy, Undefine, At, IInv, NameInv
<1>2. CASE Fails /\ UNCHANGED dom
  BY <1>1, <1>2, EndsAtOnce
<1>3. CASE Destroy /\ SetDom([dom[Own] EXCEPT !.active = FALSE]) /\ UNCHANGED <<op, faults>>
  <2> DEFINE d == [dom[Own] EXCEPT !.active = FALSE]
  <2>1. d \in Domain /\ d.owner = dom[Own].owner /\ d.active = FALSE
    BY <1>1, Switched
  <2>2. dom' = [dom EXCEPT ![Own] = d]
    BY <1>3 DEF SetDom
  <2> HIDE DEF d
  <2>3. /\ dom' \in [DomainNames -> Domain \cup {None}]
        /\ \A n \in DomainNames : dom'[n] = IF n = Own THEN d ELSE dom[n]
    BY <1>1, <2>1, <2>2, DomTypes
  <2>4. TypeOK'
    BY <1>1, <1>3, <2>3 DEF IInv, TypeOK
  <2>5. NameInv' /\ OpInv'
    BY <1>1, <1>3, <2>1, <2>3 DEF IInv, NameInv, OpInv, NameOf
  <2>6. WorkInv'
    BY <1>1, <1>3 DEF WorkInv
  <2>7. lost = 0 => GuestInv'
    BY <1>1, <2>1, <2>3 DEF IInv, HostInv, GuestInv
  <2>8. lost = 0 => GoneInv'
    BY <1>1, <2>1, <2>3 DEF IInv, HostInv, GoneInv
  <2> QED BY <1>1, <2>4, <2>5, <2>6, <2>7, <2>8 DEF IInv, HostInv
<1>4. CASE SetDom(None) /\ To(AfterRemoval) /\ UNCHANGED faults
  <2>1. /\ dom' \in [DomainNames -> Domain \cup {None}]
        /\ \A n \in DomainNames : dom'[n] = IF n = Own THEN None ELSE dom[n]
    BY <1>1, <1>4, DomTypes DEF SetDom
  <2>2. PICK step \in {"clone", "files"} : To(step)
    BY <1>4 DEF AfterRemoval
  <2>3. op' \in OpRec /\ op'.kind = op.kind /\ op'.inst = op.inst /\ op'.step = step /\ Own' = Own
    BY <1>1, <2>2, DomTypes, Proceeds DEF Steps
  <2>4. TypeOK'
    BY <1>1, <1>4, <2>1, <2>3 DEF IInv, TypeOK, OpRec, Kinds, Steps
  <2>5. NameInv' /\ OpInv'
    BY <1>1, <2>1, <2>3 DEF IInv, NameInv, OpInv, NameOf
  <2>6. WorkInv'
    BY <1>1, <2>1, <2>3 DEF WorkInv
  <2>7. lost = 0 => GuestInv' /\ GoneInv'
    BY <1>1, <2>1 DEF IInv, HostInv, GuestInv, GoneInv
  <2> QED BY <1>1, <2>4, <2>5, <2>6, <2>7 DEF IInv, HostInv
<1> QED BY <1>2, <1>3, <1>4 DEF Destroy, Undefine

\* The task gives up before there is a domain, and takes the directory along.
LEMMA AbandonInv ==
  ASSUME IInv, op.step \in {"clone", "iso", "define"}, op' = Idle, SetFiles({}),
         faults' \in 0..MaxFaults, UNCHANGED <<name, row, dom, lost>>
  PROVE  IInv'
<1>1. op.inst \in Instances /\ Own \in DomainNames
  BY DomTypes, OpTypes
<1>2. /\ dir' \in [Instances -> SUBSET Files]
      /\ \A i \in Instances : dir'[i] = IF i = op.inst THEN {} ELSE dir[i]
  BY <1>1, DomTypes DEF SetFiles
<1>3. NameInv'
  BY DEF IInv, NameInv, NameOf
<1>4. lost = 0 => GuestInv'
  BY <1>1, <1>2, DomTypes, OthersDisks DEF IInv, HostInv, WorkInv, GuestInv
<1>5. lost = 0 => GoneInv'
  BY <1>1, <1>2 DEF IInv, HostInv, GoneInv
<1> QED BY <1>2, <1>3, <1>4, <1>5, DomTypes, Ends

LEMMA FilesInv ==
  ASSUME IInv, CloneQCOW2 \/ BuildNoCloudISO
  PROVE  IInv'
<1>1. /\ op.step \in {"clone", "iso"} /\ UNCHANGED <<name, row, dom, lost>>
      /\ Own \in DomainNames /\ op.inst \in Instances
  BY DomTypes, OpTypes DEF CloneQCOW2, BuildNoCloudISO, At
<1>2. CASE op' = Idle /\ SetFiles({}) /\ faults' \in 0..MaxFaults
  BY <1>1, <1>2, AbandonInv
<1>3. CASE \/ op.step = "clone" /\ SetFiles(dir[op.inst] \cup {Disk}) /\ To("iso") /\ UNCHANGED faults
           \/ op.step = "iso" /\ SetFiles(dir[op.inst] \cup {"seed.iso"}) /\ To("define")
              /\ UNCHANGED faults
  <2>1. PICK f \in Files, step \in {"iso", "define"} :
          /\ SetFiles(dir[op.inst] \cup {f}) /\ To(step)
          /\ step = "iso" => f = Disk
          /\ step = "define" => op.step = "iso" /\ f = "seed.iso"
    BY <1>3 DEF Files, Disk
  <2>2. /\ dir' \in [Instances -> SUBSET Files]
        /\ \A i \in Instances : dir'[i] = IF i = op.inst THEN dir[i] \cup {f} ELSE dir[i]
    BY <1>1, <2>1, DomTypes DEF SetFiles
  <2>3. op' \in OpRec /\ op'.kind = op.kind /\ op'.inst = op.inst /\ op'.step = step /\ Own' = Own
    BY <1>1, <2>1, DomTypes, Proceeds DEF Steps
  <2>4. TypeOK'
    BY <1>1, <1>3, <2>2, <2>3 DEF IInv, TypeOK, OpRec, Kinds, Steps
  <2>5. NameInv' /\ OpInv'
    BY <1>1, <2>1, <2>3 DEF IInv, NameInv, OpInv, NameOf
  <2>6. lost = 0 => WorkInv'
    <3>1. lost = 0 /\ step = "define" => dir'[op.inst] = Files
      BY <1>1, <2>1, <2>2 DEF IInv, HostInv, WorkInv, Files, Disk
    <3> QED BY <1>1, <2>1, <2>2, <2>3, <3>1 DEF IInv, HostInv, WorkInv
  <2>7. lost = 0 => GuestInv'
    BY <1>1, <2>2, DomTypes DEF IInv, HostInv, GuestInv
  <2>8. lost = 0 => GoneInv'
    BY <1>1, <2>2 DEF IInv, OpInv, HostInv, GoneInv
  <2> QED BY <1>1, <2>4, <2>5, <2>6, <2>7, <2>8 DEF IInv, HostInv
<1>4. faults \in 0..MaxFaults /\ MaxFaults \in Nat
  BY ConstantsAssumption DEF IInv, TypeOK
<1>5. Fails => op' = Idle /\ faults' \in 0..MaxFaults
  BY <1>4 DEF Fails, Fault
<1> QED BY <1>2, <1>3, <1>4, <1>5 DEF CloneQCOW2, BuildNoCloudISO, At, Abandon

LEMMA DefineInv ==
  ASSUME IInv, DomainDefineXML
  PROVE  IInv'
<1>1. /\ op.step = "define" /\ UNCHANGED <<name, row, lost>> /\ TypeOK
      /\ Own \in DomainNames /\ op.inst \in Instances /\ Own = NameOf(op.inst)
  BY DomTypes, OpTypes DEF DomainDefineXML, At, Own
<1>2. Fails => op' = Idle /\ faults' \in 0..MaxFaults
  BY <1>1, ConstantsAssumption DEF Fails, Fault, TypeOK
<1>3. CASE op' = Idle /\ SetFiles({}) /\ faults' \in 0..MaxFaults /\ UNCHANGED dom
  BY <1>1, <1>3, AbandonInv
<1>4. CASE Fails /\ UNCHANGED <<dom, dir>>
  BY <1>1, <1>4, EndsAtOnce
<1>5. CASE /\ \/ dom[Own] = None /\ SetDom([owner |-> op.inst, active |-> FALSE])
              \/ dom[Own] # None /\ dom[Own].owner = op.inst /\ UNCHANGED dom
           /\ To("boot") /\ UNCHANGED <<dir, faults>>
  <2>1. PICK d \in Domain :
          /\ dom' \in [DomainNames -> Domain \cup {None}]
          /\ \A n \in DomainNames : dom'[n] = IF n = Own THEN d ELSE dom[n]
          /\ d.owner = op.inst /\ (dom[Own] = None => d.active = FALSE)
    <3>1. CASE dom[Own] = None /\ SetDom([owner |-> op.inst, active |-> FALSE])
      <4> DEFINE d == [owner |-> op.inst, active |-> FALSE]
      <4>1. d \in Domain /\ d.owner = op.inst /\ d.active = FALSE
        BY <1>1 DEF Domain
      <4>2. dom' = [dom EXCEPT ![Own] = d]
        BY <3>1 DEF SetDom
      <4> HIDE DEF d
      <4> QED BY <1>1, <4>1, <4>2, DomTypes
    <3>2. CASE dom[Own] # None /\ dom[Own].owner = op.inst /\ UNCHANGED dom
      BY <1>1, <3>2, DomTypes
    <3> QED BY <1>5, <3>1, <3>2
  <2>2. /\ op' \in OpRec /\ op'.kind = op.kind /\ op'.inst = op.inst /\ op'.step = "boot" /\ Own' = Own
    BY <1>1, <1>5, Proceeds DEF Steps
  <2>3. TypeOK'
    BY <1>1, <1>5, <2>1, <2>2 DEF TypeOK, OpRec, Kinds, Steps
  <2>4. NameInv' /\ OpInv'
    BY <1>1, <2>1, <2>2 DEF IInv, NameInv, OpInv, NameOf
  <2>5. lost = 0 => dom[Own] = None /\ dir[op.inst] = Files
    BY <1>1 DEF IInv, HostInv, WorkInv
  <2>6. lost = 0 => WorkInv' /\ GuestInv'
    BY <1>1, <1>5, <2>1, <2>2, <2>5 DEF IInv, HostInv, WorkInv, GuestInv
  <2>7. lost = 0 => GoneInv'
    BY <1>1, <1>5, <2>1 DEF IInv, OpInv, HostInv, GoneInv
  <2> QED BY <1>1, <2>3, <2>4, <2>6, <2>7 DEF IInv, HostInv
<1> QED BY <1>1, <1>2, <1>3, <1>4, <1>5 DEF DomainDefineXML, Abandon, TypeOK

LEMMA BootInv ==
  ASSUME IInv, Boot
  PROVE  IInv'
<1>1. /\ op.step = "boot" /\ UNCHANGED <<name, row, lost>> /\ op' = Idle
      /\ Own \in DomainNames /\ op.inst \in Instances /\ dom[Own] \in Domain
      /\ dom[Own].owner = op.inst /\ NameOf(op.inst) = Own /\ faults' \in 0..MaxFaults
  <2>1. faults' \in 0..MaxFaults
    BY ConstantsAssumption DEF Boot, Abandon, Fails, Fault, IInv, TypeOK
  <2> QED BY <2>1, DomTypes, OpTypes DEF Boot, At, Abandon, Fails, IInv, OpInv, Own
<1>2. PICK d \in Domain \cup {None} :
        /\ dom' = [dom EXCEPT ![Own] = d] /\ (d # None => d \in Domain /\ d.owner = op.inst)
        /\ UNCHANGED dir \/ (SetFiles({}) /\ (d = None \/ d.active = FALSE))
  <2>1. CASE SetDom([dom[Own] EXCEPT !.active = TRUE]) /\ UNCHANGED dir
    BY <1>1, <2>1, Switched DEF SetDom
  <2>2. CASE SetFiles({}) /\ (SetDom(None) \/ SetDom([dom[Own] EXCEPT !.active = FALSE]))
    BY <1>1, <2>2, Switched DEF SetDom
  <2> QED BY <2>1, <2>2 DEF Boot, Abandon
<1>3. /\ dom' \in [DomainNames -> Domain \cup {None}]
      /\ \A n \in DomainNames : dom'[n] = IF n = Own THEN d ELSE dom[n]
  BY <1>1, <1>2, DomTypes
<1>4. /\ dir' \in [Instances -> SUBSET Files]
      /\ \A i \in Instances \ {op.inst} : dir'[i] = dir[i]
      /\ dir'[op.inst] = dir[op.inst] \/ (dir'[op.inst] = {} /\ (d = None \/ d.active = FALSE))
  BY <1>1, <1>2, DomTypes DEF SetFiles
<1>5. NameInv'
  BY <1>1, <1>2, <1>3 DEF IInv, NameInv, NameOf
<1>6. lost = 0 => GuestInv'
  <2>1. lost = 0 => dir[op.inst] = Files
    BY <1>1 DEF IInv, HostInv, WorkInv
  <2> QED BY <1>1, <1>2, <1>3, <1>4, <2>1, DomTypes, OthersDisks DEF IInv, HostInv, GuestInv
<1>7. lost = 0 => GoneInv'
  BY <1>1, <1>2, <1>3, <1>4 DEF IInv, OpInv, HostInv, GoneInv
<1> QED BY <1>1, <1>3, <1>4, <1>5, <1>6, <1>7, Ends

LEMMA EndOfDelete ==
  ASSUME IInv, RemoveAll \/ Finalize
  PROVE  IInv'
<1>1. /\ op.step \in {"files", "finalize"} /\ UNCHANGED <<name, dom, faults, lost>>
      /\ Own \in DomainNames /\ op.inst \in Instances
  BY DomTypes, OpTypes DEF RemoveAll, Finalize, At
<1>2. NameInv'
  BY <1>1 DEF IInv, NameInv, NameOf
<1>3. CASE RemoveAll
  <2>1. /\ dir' \in [Instances -> SUBSET Files] /\ row' = row
        /\ \A i \in Instances : dir'[i] = IF i = op.inst THEN {} ELSE dir[i]
    BY <1>1, <1>3, DomTypes DEF RemoveAll, SetFiles
  <2>2. /\ op' \in OpRec /\ op'.kind = op.kind /\ op'.inst = op.inst /\ op'.step = "finalize"
        /\ Own' = Own
    BY <1>1, <1>3, DomTypes, Proceeds DEF RemoveAll, Steps
  <2>3. TypeOK'
    BY <1>1, <2>1, <2>2 DEF IInv, TypeOK, OpRec, Kinds, Steps
  <2>4. OpInv' /\ (lost = 0 => WorkInv')
    BY <1>1, <1>3, <2>1, <2>2 DEF RemoveAll, At, IInv, OpInv, HostInv, WorkInv
  <2>5. lost = 0 => GuestInv'
    BY <1>1, <2>1, DomTypes, OthersDisks DEF IInv, HostInv, WorkInv, GuestInv
  <2>6. lost = 0 => GoneInv'
    BY <1>1, <2>1 DEF IInv, HostInv, GoneInv
  <2> QED BY <1>1, <1>2, <2>3, <2>4, <2>5, <2>6 DEF IInv, HostInv
<1>4. CASE Finalize
  <2>1. /\ row' \in [Instances -> {"none", "there", "gone"}] /\ dir' = dir /\ op' = Idle
        /\ \A i \in Instances : row'[i] = IF i = op.inst THEN "gone" ELSE row[i]
    BY <1>1, <1>4, DomTypes DEF Finalize
  <2>2. TypeOK'
    BY <1>1, <2>1 DEF IInv, TypeOK
  <2>3. OpInv' /\ WorkInv'
    BY <2>1, IdleOp DEF OpInv, WorkInv
  <2>4. lost = 0 => GuestInv'
    BY <1>1, <2>1 DEF IInv, HostInv, GuestInv
  <2>5. lost = 0 => GoneInv'
    BY <1>1, <1>4, <2>1, OthersDisks DEF Finalize, At, IInv, HostInv, WorkInv, GoneInv
  <2> QED BY <1>1, <1>2, <2>2, <2>3, <2>4, <2>5 DEF IInv, HostInv
<1> QED BY <1>3, <1>4

LEMMA GuestsInv ==
  ASSUME IInv, (\E i \in Instances : StartVM(i)) \/ (\E n \in DomainNames : PowerOff(n))
  PROVE  IInv'
<1>1. UNCHANGED <<name, row, dir, op, faults, lost>>
  BY DEF StartVM, PowerOff
<1>2. PICK m \in DomainNames, d \in Domain :
        /\ dom[m] \in Domain /\ dom[m] # None
        /\ dom' = [dom EXCEPT ![m] = d] /\ d.owner = dom[m].owner
        /\ d.active => dir[d.owner] = Files
  <2>1. ASSUME NEW i \in Instances, StartVM(i)
        PROVE  \E m \in DomainNames, d \in Domain :
                 /\ dom[m] \in Domain /\ dom[m] # None
                 /\ dom' = [dom EXCEPT ![m] = d] /\ d.owner = dom[m].owner
                 /\ d.active => dir[d.owner] = Files
    <3>1. PICK m \in DomainNames :
            /\ dom[m] # None /\ dir[dom[m].owner] = Files
            /\ dom' = [dom EXCEPT ![m] = [dom[m] EXCEPT !.active = TRUE]]
      BY <2>1, DomTypes, OpTypes DEF StartVM
    <3> QED BY <3>1, DomTypes, Switched
  <2>2. ASSUME NEW n \in DomainNames, PowerOff(n)
        PROVE  \E m \in DomainNames, d \in Domain :
                 /\ dom[m] \in Domain /\ dom[m] # None
                 /\ dom' = [dom EXCEPT ![m] = d] /\ d.owner = dom[m].owner
                 /\ d.active => dir[d.owner] = Files
    <3>1. dom[n] # None /\ dom' = [dom EXCEPT ![n] = [dom[n] EXCEPT !.active = FALSE]]
      BY <2>2 DEF PowerOff
    <3> QED BY <3>1, DomTypes, Switched
  <2> QED BY <2>1, <2>2
<1>3. /\ dom' \in [DomainNames -> Domain \cup {None}]
      /\ \A n \in DomainNames : dom'[n] = IF n = m THEN d ELSE dom[n]
  BY <1>2, DomTypes
<1>4. TypeOK'
  BY <1>1, <1>3 DEF IInv, TypeOK
<1>5. NameInv'
  BY <1>1, <1>2, <1>3 DEF IInv, NameInv, NameOf
<1>6. OpInv' /\ (lost = 0 => WorkInv')
  <2>1. Own' = Own
    BY <1>1 DEF Own, NameOf
  <2>2. op.step # "idle" => Own \in DomainNames
    BY DomTypes, OpTypes
  <2> QED BY <1>1, <1>2, <1>3, <2>1, <2>2 DEF IInv, OpInv, HostInv, WorkInv
<1>7. lost = 0 => GuestInv' /\ GoneInv'
  BY <1>1, <1>2, <1>3 DEF IInv, HostInv, GuestInv, GoneInv
<1> QED BY <1>1, <1>4, <1>5, <1>6, <1>7 DEF IInv, HostInv

LEMMA NextInv == IInv /\ [Next]_vars => IInv'
<1> SUFFICES ASSUME IInv, [Next]_vars PROVE IInv'
  OBVIOUS
<1>1. CASE UNCHANGED vars
  BY <1>1 DEF vars, IInv, TypeOK, NameInv, OpInv, HostInv, WorkInv, GuestInv, GoneInv, NameOf, Own
<1>2. CASE Kill
  BY <1>2, EndsAtOnce DEF Kill
<1> QED BY <1>1, <1>2, BeginInv, LookupInv, RemoveInv, FilesInv, DefineInv, BootInv, EndOfDelete, GuestsInv
        DEF Next, Kinds

\* What the worker has done on the host so far, and the names it is found by:
\* an inductive invariant.
THEOREM Invariance == Spec => []IInv
<1> QED BY InitInv, NextInv, PTL DEF Spec

\* Every variable keeps its type: no call of the worker is made for an instance
\* or about a domain it does not know.
THEOREM TypeCorrect == Spec => []TypeOK
<1>1. IInv => TypeOK
  BY DEF IInv
<1> QED BY <1>1, Invariance, PTL

\* A guest that runs has its disk and its seed, whatever names instances share:
\* the directory is written and removed only while no domain of the name is
\* there, and a domain is defined only when the directory is complete.
THEOREM RunningGuestsHaveFiles == Spec => []GuestsHaveFiles
<1>1. IInv => GuestsHaveFiles
  BY DEF IInv, HostInv, GuestInv, GuestsHaveFiles
<1> QED BY <1>1, Invariance, PTL

\* An instance whose row is gone has neither files nor a domain: the row goes
\* last, and no later task is of this instance.
THEOREM NothingLeftOnTheHost == Spec => []GoneLeavesNothing
<1>1. IInv => GoneLeavesNothing
  BY DEF IInv, HostInv, GoneInv, GoneLeavesNothing
<1> QED BY <1>1, Invariance, PTL
------------------------------------------------------------------------------
(* SanitizeLibvirtName.                                                    *)

\* A set of places in a name has a first and a last one.
LEMMA FirstPlace ==
  ASSUME NEW n \in Nat, NEW S \in SUBSET (1..n), S # {}
  PROVE  \E x \in S : \A y \in S : x <= y
<1> DEFINE below == OpToRel(<, Nat)
<1>1. \A x, y \in Nat : y < x => <<y, x>> \in below
  BY DEF OpToRel
<1>2. S \subseteq Nat
  OBVIOUS
<1> HIDE DEF below
<1>3. PICK x \in S : \A y \in S : ~(<<y, x>> \in below)
  <2>1. IsWellFoundedOn(below, Nat)
    BY NatLessThanWellFounded DEF below
  <2> QED BY <1>2, <2>1, WFMin
<1>4. ASSUME NEW y \in S PROVE x <= y
  <2>1. x \in Nat /\ y \in Nat /\ ~(y < x)
    BY <1>1, <1>2, <1>3
  <2> QED BY <2>1
<1> QED BY <1>4

LEMMA LastPlace ==
  ASSUME NEW n \in Nat, NEW S \in SUBSET (1..n), S # {}
  PROVE  \E x \in S : \A y \in S : y <= x
<1> DEFINE T == {n + 1 - k : k \in S}
<1>1. \A k \in S : n + 1 - k \in T /\ k \in 1..n
  OBVIOUS
<1>2. \A x \in T : \E k \in S : x = n + 1 - k
  OBVIOUS
<1>3. T \in SUBSET (1..n) /\ T # {}
  <2>1. T # {}
    BY <1>1
  <2>2. \A x \in T : x \in 1..n
    BY <1>1, <1>2
  <2> HIDE DEF T
  <2> QED BY <2>1, <2>2
<1> HIDE DEF T
<1>4. PICK x \in T : \A y \in T : x <= y
  BY <1>3, FirstPlace
<1>5. PICK k \in S : x = n + 1 - k
  BY <1>2
<1>6. ASSUME NEW j \in S PROVE j <= k
  <2>1. x <= n + 1 - j
    BY <1>1, <1>4
  <2> QED BY <1>1, <1>5, <2>1
<1> QED BY <1>6

LEMMA MappedName ==
  ASSUME NEW s \in Seq(STRING)
  PROVE  /\ Mapped(s) \in Seq(Safe) /\ Len(Mapped(s)) = Len(s) /\ Len(s) \in Nat
         /\ \A k \in 1..Len(s) : Mapped(s)[k] = IF s[k] \in Safe THEN s[k] ELSE "-"
<1>1. DOMAIN s = 1..Len(s) /\ Len(s) \in Nat
  OBVIOUS
<1>2. Mapped(s) = [k \in 1..Len(s) |-> IF s[k] \in Safe THEN s[k] ELSE "-"]
  BY <1>1 DEF Mapped
<1> QED BY <1>1, <1>2, ConstantsAssumption

\* Trimming keeps everything from the first to the last character that is no dash.
LEMMA TrimmedName ==
  ASSUME NEW s \in Seq(Safe), NEW c \in 1..Len(s), s[c] # "-"
  PROVE  \E a, b \in 1..Len(s) : /\ a <= b /\ s[a] # "-" /\ Trimmed(s) = SubSeq(s, a, b)
                                 /\ \A k \in 1..Len(s) : s[k] # "-" => a <= k /\ k <= b
<1> DEFINE kept == {k \in DOMAIN s : s[k] # "-"}
           a == CHOOSE k \in kept : \A l \in kept : k <= l
           b == CHOOSE k \in kept : \A l \in kept : l <= k
<1>1. Len(s) \in Nat /\ DOMAIN s = 1..Len(s)
  OBVIOUS
<1>2. /\ kept \in SUBSET (1..Len(s)) /\ kept # {}
      /\ \A k \in 1..Len(s) : k \in kept <=> s[k] # "-"
  BY <1>1
<1>3. Trimmed(s) = SubSeq(s, a, b)
  BY <1>2 DEF Trimmed
<1> HIDE DEF kept
<1>4. (\E k \in kept : \A l \in kept : k <= l) /\ (\E k \in kept : \A l \in kept : l <= k)
  BY <1>1, <1>2, FirstPlace, LastPlace
<1>5. a \in kept /\ (\A l \in kept : a <= l) /\ b \in kept /\ (\A l \in kept : l <= b)
  BY Zenon, <1>4
<1> HIDE DEF a, b
<1> QED BY <1>2, <1>3, <1>5

\* What a name comes to: the default, or a name libvirt takes.
LEMMA SanitizedName ==
  ASSUME NEW s \in Seq(STRING)
  PROVE  LET n == SanitizeLibvirtName(s)
         IN  n = Default \/ (/\ Len(n) \in 1..MaxName
                             /\ \A k \in DOMAIN n : n[k] \in Safe
                             /\ n[1] # "-")
<1> DEFINE m == Mapped(s)  out == Trimmed(m)
<1>1. m \in Seq(Safe) /\ Len(m) \in Nat /\ MaxName \in Nat \ {0}
  BY MappedName, ConstantsAssumption
<1> HIDE DEF m
<1>2. CASE \A k \in 1..Len(m) : m[k] = "-"
  <2>1. {k \in DOMAIN m : m[k] # "-"} = {}
    BY <1>1, <1>2
  <2>2. out = <<>>
    BY <2>1 DEF Trimmed
  <2> QED BY <2>2 DEF SanitizeLibvirtName, m
<1>3. ASSUME NEW c \in 1..Len(m), m[c] # "-"
      PROVE  /\ Len(Cut(out)) \in 1..MaxName /\ Cut(out) \in Seq(Safe) /\ Cut(out)[1] # "-"
             /\ out # <<>>
  <2>1. PICK a, b \in 1..Len(m) : a <= b /\ m[a] # "-" /\ out = SubSeq(m, a, b)
    BY <1>1, <1>3, TrimmedName
  <2>2. out \in Seq(Safe) /\ Len(out) = b - a + 1 /\ out[1] = m[a]
    BY <1>1, <2>1
  <2> HIDE DEF out
  <2>3. Len(out) \in Nat \ {0} /\ out[1] # "-"
    BY <1>1, <2>1, <2>2
  <2>4. CASE Len(out) > MaxName
    <3>1. Cut(out) = SubSeq(out, 1, MaxName)
      BY <2>4 DEF Cut
    <3> QED BY <1>1, <2>2, <2>3, <2>4, <3>1
  <2>5. CASE ~(Len(out) > MaxName)
    <3>1. Cut(out) = out
      BY <2>5 DEF Cut
    <3> QED BY <1>1, <2>2, <2>3, <2>5, <3>1
  <2> QED BY <2>4, <2>5
<1>4. CASE \E k \in 1..Len(m) : m[k] # "-"
  <2>1. /\ Len(Cut(out)) \in 1..MaxName /\ Cut(out) \in Seq(Safe) /\ Cut(out)[1] # "-"
        /\ out # <<>>
    BY <1>3, <1>4
  <2>2. SanitizeLibvirtName(s) = Cut(out)
    BY <2>1 DEF SanitizeLibvirtName, m
  <2>3. \A k \in DOMAIN Cut(out) : Cut(out)[k] \in Safe
    BY <2>1
  <2> QED BY <2>1, <2>2, <2>3
<1> QED BY <1>2, <1>4

\* Whatever a client calls an instance, libvirt is given a name that is not
\* empty, of safe characters, not too long, and that does not begin with a dash.
THEOREM EveryNameIsSafe == Spec => []NamesAreSafe
<1>1. TypeOK => NamesAreSafe
  <2> SUFFICES ASSUME TypeOK, NEW i \in Instances
               PROVE  LET n == NameOf(i)
                      IN  n = Default \/ (/\ Len(n) \in 1..MaxName
                                          /\ \A k \in DOMAIN n : n[k] \in Safe
                                          /\ n[1] # "-")
    BY DEF NamesAreSafe
  <2>1. name[i] \in Seq(STRING)
    BY ConstantsAssumption DEF TypeOK
  <2> QED BY <2>1, SanitizedName DEF NameOf
<1> QED BY <1>1, TypeCorrect, PTL

\* A name with letters at its ends and room enough comes through letter by letter.
LEMMA PlainName ==
  ASSUME NEW s \in Seq(STRING), Plain(s)
  PROVE  SanitizeLibvirtName(s) = Mapped(s)
<1> DEFINE m == Mapped(s)
<1>1. /\ m \in Seq(Safe) /\ Len(m) = Len(s) /\ Len(s) \in 1..MaxName /\ MaxName \in Nat
      /\ \A k \in 1..Len(s) : m[k] = IF s[k] \in Safe THEN s[k] ELSE "-"
  BY MappedName, ConstantsAssumption DEF Plain
<1>2. 1 \in 1..Len(m) /\ Len(m) \in 1..Len(m) /\ m[1] # "-" /\ m[Len(m)] # "-"
  BY <1>1 DEF Plain
<1> HIDE DEF m
<1>3. PICK a, b \in 1..Len(m) : /\ a <= b /\ Trimmed(m) = SubSeq(m, a, b)
                                /\ \A k \in 1..Len(m) : m[k] # "-" => a <= k /\ k <= b
  BY <1>1, <1>2, TrimmedName
<1>4. a = 1 /\ b = Len(m)
  BY <1>1, <1>2, <1>3
<1>5. Trimmed(m) = m
  BY <1>1, <1>3, <1>4
<1>6. m # <<>> /\ Cut(m) = m
  BY <1>1 DEF Cut
<1> QED BY <1>5, <1>6 DEF SanitizeLibvirtName, m

\* Two such names that come to the same differ in no letter.
LEMMA OneNameForTwo ==
  ASSUME NEW s \in Seq(STRING), NEW t \in Seq(STRING), Plain(s), Plain(t),
         SanitizeLibvirtName(s) = SanitizeLibvirtName(t)
  PROVE  Alike(s, t)
<1>1. /\ Len(s) \in Nat /\ DOMAIN s = 1..Len(s) /\ Len(Mapped(s)) = Len(s)
      /\ Len(Mapped(t)) = Len(t) /\ Mapped(s) = Mapped(t)
  BY MappedName, PlainName
<1>2. Len(s) = Len(t)
  BY <1>1
<1>3. ASSUME NEW k \in DOMAIN s PROVE s[k] = t[k] \/ {s[k], t[k]} \cap (Safe \ {"-"}) = {}
  <2>1. (IF s[k] \in Safe THEN s[k] ELSE "-") = IF t[k] \in Safe THEN t[k] ELSE "-"
    BY <1>1, <1>2, MappedName
  <2> QED BY <2>1
<1> QED BY <1>2, <1>3 DEF Alike

\* A call that takes a domain away is made for an instance of the same name, as
\* libvirt sees it: one that differs in a letter keeps its domain.
THEOREM NamesakesOnly == Spec => OnlyItsOwnDomain
<1>1. IInv /\ [Next]_vars =>
        [\A n \in DomainNames :
           dom[n] # None /\ dom'[n] = None /\ op.inst # dom[n].owner =>
             LET mine == name[op.inst]  its == name[dom[n].owner]
             IN  Alike(mine, its) \/ ~(Plain(mine) /\ Plain(its))]_vars
  <2> SUFFICES ASSUME IInv, Next, NEW n \in DomainNames, dom[n] # None, dom'[n] = None,
                      Plain(name[op.inst]), Plain(name[dom[n].owner])
               PROVE  Alike(name[op.inst], name[dom[n].owner])
    OBVIOUS
  <2>1. /\ dom[n] \in Domain /\ None \notin Domain /\ NameOf(dom[n].owner) = n
        /\ dom \in [DomainNames -> Domain \cup {None}]
    BY DomTypes, ConstantsAssumption DEF IInv, NameInv, Domain
  <2>2. n = Own /\ op.step # "idle"
    <3>1. CASE Undefine \/ Boot \/ Destroy \/ DomainDefineXML
      <4>1. /\ op.step # "idle"
            /\ dom' = dom \/ \E d \in Domain \cup {None} : dom' = [dom EXCEPT ![Own] = d]
        <5>1. op.step # "idle" /\ op.inst \in Instances /\ Own \in DomainNames
          BY <3>1, DomTypes, OpTypes DEF Undefine, Boot, Destroy, DomainDefineXML, At
        <5>2. [owner |-> op.inst, active |-> FALSE] \in Domain
          BY <5>1 DEF Domain
        <5>3. /\ Destroy => dom[Own] \in Domain /\ dom[Own] # None
              /\ Boot => dom[Own] \in Domain
          BY <5>1, DomTypes DEF Destroy, Boot, At, IInv, OpInv
        <5>4. /\ Destroy \/ Boot => [dom[Own] EXCEPT !.active = FALSE] \in Domain
              /\ Boot => [dom[Own] EXCEPT !.active = TRUE] \in Domain
          BY <5>3, Switched
        <5> QED BY <3>1, <5>1, <5>2, <5>4 DEF Undefine, Boot, Destroy, DomainDefineXML, SetDom, Abandon
      <4> QED BY <2>1, <4>1
    <3>2. ASSUME NEW i \in Instances, StartVM(i) PROVE FALSE
      <4>1. PICK m \in DomainNames :
              /\ dom[m] # None /\ dom' = [dom EXCEPT ![m] = [dom[m] EXCEPT !.active = TRUE]]
        BY <3>2, DomTypes, OpTypes DEF StartVM
      <4>2. [dom[m] EXCEPT !.active = TRUE] \in Domain
        BY <4>1, DomTypes, Switched
      <4> QED BY <2>1, <4>1, <4>2
    <3>3. ASSUME NEW m \in DomainNames, PowerOff(m) PROVE FALSE
      <4>1. dom[m] # None /\ dom' = [dom EXCEPT ![m] = [dom[m] EXCEPT !.active = FALSE]]
        BY <3>3 DEF PowerOff
      <4>2. [dom[m] EXCEPT !.active = FALSE] \in Domain
        BY <4>1, DomTypes, Switched
      <4> QED BY <2>1, <4>1, <4>2
    <3>4. dom' # dom
      BY <2>1
    <3>5. \/ Undefine \/ Boot \/ Destroy \/ DomainDefineXML
          \/ (\E i \in Instances : StartVM(i)) \/ (\E m \in DomainNames : PowerOff(m))
      BY <3>4
         DEF Next, Insert, Begin, LookupDomainByName, CloneQCOW2, BuildNoCloudISO, RemoveAll, Finalize, Kill
    <3> QED BY <3>1, <3>2, <3>3, <3>5
  <2>3. SanitizeLibvirtName(name[op.inst]) = SanitizeLibvirtName(name[dom[n].owner])
    BY <2>1, <2>2 DEF Own, NameOf
  <2>4. name[op.inst] \in Seq(STRING) /\ name[dom[n].owner] \in Seq(STRING)
    BY <2>1, <2>2, DomTypes, OpTypes, ConstantsAssumption DEF TypeOK, Domain
  <2> QED BY <2>3, <2>4, OneNameForTwo
<1> QED BY <1>1, Invariance, PTL DEF Spec, OnlyItsOwnDomain
==============================================================================
