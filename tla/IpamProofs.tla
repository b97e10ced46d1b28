------------------------------ MODULE IpamProofs -----------------------------
(***************************************************************************)
(* Theorems of Ipam.  The tables agree and no address is held twice,       *)
(* whatever addresses a pool is filled with; then, with the arithmetic of  *)
(* prefixes, what the pools are.                                           *)
(***************************************************************************)
EXTENDS Ipam, WellFoundedInduction, TLAPS

SlotsAreFunctions ==
  /\ DOMAIN slots = Projects /\ DOMAIN net = Projects
  /\ \A p \in Projects :
       /\ slots[p] = [a \in DOMAIN slots[p] |-> slots[p][a]]
       /\ \A a \in DOMAIN slots[p] : slots[p][a] \in Owner
       /\ net[p] = {} => DOMAIN slots[p] = {}

\* A row and the slot it has.
RowsHaveSlots ==
  /\ DOMAIN row = Instances
  /\ \A i \in Instances : row[i] # NoRow =>
       /\ row[i] = [net |-> row[i].net, addr |-> row[i].addr]
       /\ row[i].net \in Projects
       /\ row[i].addr \in DOMAIN slots[row[i].net]
       /\ slots[row[i].net][row[i].addr] = i

SlotsHaveRows ==
  \A p \in Projects : \A a \in DOMAIN slots[p] :
    slots[p][a] # None => row[slots[p][a]] = [net |-> p, addr |-> a]

RowsHaveAllocations ==
  \A i \in Instances : row[i] # NoRow =>
    [net |-> row[i].net, inst |-> i, addr |-> row[i].addr] \in alloc

AllocationsHaveRows ==
  \A r \in alloc :
    /\ r = [net |-> r.net, inst |-> r.inst, addr |-> r.addr]
    /\ r.net \in Projects /\ r.inst \in Instances
    /\ row[r.inst] = [net |-> r.net, addr |-> r.addr]

TxType ==
  /\ DOMAIN tx = Clients
  /\ \A c \in Clients : tx[c] # NoTx =>
       /\ tx[c] = [step |-> tx[c].step, net |-> tx[c].net, inst |-> tx[c].inst,
                   addr |-> tx[c].addr, seeds |-> tx[c].seeds]
       /\ tx[c].step \in Steps
       /\ tx[c].net \in Projects /\ net[tx[c].net] # {}
       /\ tx[c].inst \in Instances
       /\ tx[c].step = "seed" => tx[c].seeds = {}

\* What an open transaction is about to create is not there, and nobody else's.
InstancesAreNew ==
  \A c \in Clients : tx[c] # NoTx =>
    /\ row[tx[c].inst] = NoRow
    /\ \A d \in Clients \ {c} : tx[d].inst # tx[c].inst

\* Rows that a transaction has inserted are of no other.
SeedsAreNew ==
  \A c \in Clients : tx[c] # NoTx =>
    /\ tx[c].seeds \cap DOMAIN slots[tx[c].net] = {}
    /\ \A d \in Clients \ {c} :
         tx[d].net = tx[c].net => tx[d].seeds = {} \/ tx[c].seeds = {}

ClaimsAreFree ==
  \A c \in Clients : tx[c].step = "record" =>
    /\ \/ tx[c].addr \in tx[c].seeds
       \/ /\ tx[c].addr \in DOMAIN slots[tx[c].net]
          /\ slots[tx[c].net][tx[c].addr] = None
    /\ \A d \in Clients \ {c} :
         tx[d].step = "record" /\ tx[d].net = tx[c].net => tx[d].addr # tx[c].addr

Tables == SlotsAreFunctions /\ RowsHaveSlots /\ SlotsHaveRows
          /\ RowsHaveAllocations /\ AllocationsHaveRows
Transacted == TxType /\ InstancesAreNew /\ SeedsAreNew /\ ClaimsAreFree

IInv == Tables /\ Transacted

------------------------------------------------------------------------------
\* A pool that is filled keeps its owners, and new slots have none.
LEMMA SeededPool ==
  ASSUME NEW known, NEW hosts
  PROVE  /\ DOMAIN Seeded(known, hosts) = DOMAIN known \cup hosts
         /\ \A a \in DOMAIN known \cup hosts :
              Seeded(known, hosts)[a] = IF a \in DOMAIN known THEN known[a] ELSE None
BY DEF Seeded

\* The inductive invariant implies both properties.
LEMMA Implied ==
  IInv => TablesAgree /\ NoDoubleClaim
<1> SUFFICES ASSUME IInv PROVE TablesAgree /\ NoDoubleClaim
    OBVIOUS
<1> USE DEF IInv, Tables, Transacted
<1>1. TablesAgree
  <2> SUFFICES ASSUME NEW p \in Projects, NEW i \in Instances, NEW a \in Addresses
               PROVE  LET owned == a \in DOMAIN slots[p] /\ slots[p][a] = i
                      IN  /\ owned <=> row[i] = [net |-> p, addr |-> a]
                          /\ owned <=> [net |-> p, inst |-> i, addr |-> a] \in alloc
      BY DEF TablesAgree
  <2>0. i # None /\ p # None
    BY ConstantsAssumption
  <2>1. ASSUME a \in DOMAIN slots[p], slots[p][a] = i
        PROVE  row[i] = [net |-> p, addr |-> a]
    BY <2>0, <2>1 DEF SlotsHaveRows
  <2>2. ASSUME row[i] = [net |-> p, addr |-> a]
        PROVE  /\ a \in DOMAIN slots[p] /\ slots[p][a] = i
               /\ [net |-> p, inst |-> i, addr |-> a] \in alloc
    <3>1. row[i] # NoRow /\ row[i].net = p /\ row[i].addr = a
      BY <2>0, <2>2 DEF NoRow
    <3>2. QED
      BY <3>1 DEF RowsHaveSlots, RowsHaveAllocations
  <2>3. ASSUME [net |-> p, inst |-> i, addr |-> a] \in alloc
        PROVE  row[i] = [net |-> p, addr |-> a]
    BY <2>3 DEF AllocationsHaveRows
  <2>4. QED
    BY <2>1, <2>2, <2>3
<1>2. NoDoubleClaim
  <2> SUFFICES ASSUME NEW c \in Clients, tx[c].step = "record"
               PROVE  /\ \A d \in Clients \ {c} :
                           tx[d].step = "record" /\ tx[d].net = tx[c].net => tx[d].addr # tx[c].addr
                      /\ \A r \in alloc : r.net = tx[c].net => r.addr # tx[c].addr
      BY DEF NoDoubleClaim
  <2>1. tx[c] # NoTx
    BY DEF NoTx, Tx
  <2>2. ASSUME NEW r \in alloc, r.net = tx[c].net
        PROVE  r.addr # tx[c].addr
    <3>1. row[r.inst] = [net |-> r.net, addr |-> r.addr] /\ r.inst \in Instances
      BY DEF AllocationsHaveRows
    <3>2. r.net \in Projects /\ r.net # None
      BY <2>1, <2>2, ConstantsAssumption DEF TxType
    <3>3. row[r.inst] # NoRow
      BY <3>1, <3>2 DEF NoRow
    <3>4. r.addr \in DOMAIN slots[r.net] /\ slots[r.net][r.addr] = r.inst /\ r.inst # None
      BY <3>1, <3>3, ConstantsAssumption DEF RowsHaveSlots
    <3>5. QED
      BY <2>1, <2>2, <3>4 DEF ClaimsAreFree, SeedsAreNew
  <2>3. QED
    BY <2>2 DEF ClaimsAreFree
<1>3. QED
  BY <1>1, <1>2

LEMMA InitIInv == Init => IInv
<1> SUFFICES ASSUME Init PROVE IInv
    OBVIOUS
<1> USE DEF Init
<1>1. SlotsAreFunctions /\ RowsHaveSlots /\ SlotsHaveRows
  BY DEF SlotsAreFunctions, RowsHaveSlots, SlotsHaveRows, NoSlots
<1>2. RowsHaveAllocations /\ AllocationsHaveRows
  BY DEF RowsHaveAllocations, AllocationsHaveRows
<1>3. \A c \in Clients : tx[c] = NoTx /\ tx[c].step = "idle"
  BY DEF NoTx, Tx
<1>4. Transacted
  BY <1>3 DEF Transacted, TxType, InstancesAreNew, SeedsAreNew, ClaimsAreFree
<1>5. QED
  BY <1>1, <1>2, <1>4 DEF IInv, Tables

------------------------------------------------------------------------------
(* Steps that change no table: one client's transaction moves.             *)

LEMMA TablesStand ==
  ASSUME Tables, UNCHANGED <<net, slots, row, alloc>>
  PROVE  Tables'
BY DEF Tables, SlotsAreFunctions, RowsHaveSlots, SlotsHaveRows,
       RowsHaveAllocations, AllocationsHaveRows

\* What a transaction must be for c to hold it beside those of the others.
Fits(c, t) ==
  /\ t = [step |-> t.step, net |-> t.net, inst |-> t.inst,
          addr |-> t.addr, seeds |-> t.seeds]
  /\ t.step \in Steps /\ t.net \in Projects /\ net[t.net] # {}
  /\ t.inst \in Instances /\ row[t.inst] = NoRow
  /\ t.step = "seed" => t.seeds = {}
  /\ t.seeds \cap DOMAIN slots[t.net] = {}
  /\ t.step = "record" => \/ t.addr \in t.seeds
                          \/ /\ t.addr \in DOMAIN slots[t.net]
                             /\ slots[t.net][t.addr] = None
  /\ \A d \in Clients \ {c} :
       /\ tx[d].inst # t.inst
       /\ tx[d].net = t.net => tx[d].seeds = {} \/ t.seeds = {}
       /\ (t.step = "record" /\ tx[d].step = "record" /\ tx[d].net = t.net)
            => tx[d].addr # t.addr

LEMMA Moved ==
  ASSUME TxType, NEW c \in Clients, NEW t, Go(c, t)
  PROVE  /\ DOMAIN tx' = Clients
         /\ tx'[c] = t
         /\ \A d \in Clients \ {c} : tx'[d] = tx[d]
BY DEF TxType, Go

LEMMA FittingMove ==
  ASSUME Transacted, NEW c \in Clients, NEW t, Fits(c, t), Go(c, t),
         UNCHANGED <<net, slots, row>>
  PROVE  Transacted'
<1>0. /\ DOMAIN tx' = Clients
      /\ tx'[c] = t
      /\ \A d \in Clients \ {c} : tx'[d] = tx[d]
  BY Moved DEF Transacted
<1>1. TxType'
  BY <1>0 DEF Transacted, TxType, Fits
<1>2. InstancesAreNew'
  BY <1>0 DEF Transacted, InstancesAreNew, Fits
<1>3. SeedsAreNew'
  <2> SUFFICES ASSUME NEW e \in Clients, tx'[e] # NoTx
               PROVE  /\ tx'[e].seeds \cap DOMAIN slots[tx'[e].net] = {}
                      /\ \A d \in Clients \ {e} :
                           tx'[d].net = tx'[e].net => tx'[d].seeds = {} \/ tx'[e].seeds = {}
      BY DEF SeedsAreNew
  <2>1. CASE e = c
    BY <1>0, <2>1 DEF Fits
  <2>2. CASE e # c
    <3>1. tx'[e] = tx[e] /\ tx[e] # NoTx
      BY <1>0, <2>2
    <3>2. tx[e].net = t.net => tx[e].seeds = {} \/ t.seeds = {}
      BY <2>2 DEF Fits
    <3>3. QED
      BY <1>0, <3>1, <3>2 DEF Transacted, SeedsAreNew
  <2>3. QED
    BY <2>1, <2>2
<1>4. ClaimsAreFree'
  <2> SUFFICES ASSUME NEW e \in Clients, tx'[e].step = "record"
               PROVE  /\ \/ tx'[e].addr \in tx'[e].seeds
                         \/ /\ tx'[e].addr \in DOMAIN slots[tx'[e].net]
                            /\ slots[tx'[e].net][tx'[e].addr] = None
                      /\ \A d \in Clients \ {e} :
                           tx'[d].step = "record" /\ tx'[d].net = tx'[e].net
                             => tx'[d].addr # tx'[e].addr
      BY DEF ClaimsAreFree
  <2>1. CASE e = c
    BY <1>0, <2>1 DEF Fits
  <2>2. CASE e # c
    <3>1. tx'[e] = tx[e]
      BY <1>0, <2>2
    <3>2. (t.step = "record" /\ t.net = tx[e].net) => t.addr # tx[e].addr
      BY <2>2, <3>1 DEF Fits
    <3>3. QED
      BY <1>0, <3>1, <3>2 DEF Transacted, ClaimsAreFree
  <2>3. QED
    BY <2>1, <2>2
<1>5. QED
  BY <1>1, <1>2, <1>3, <1>4 DEF Transacted

LEMMA RolledBackMove ==
  ASSUME Transacted, NEW c \in Clients, RolledBack(c), UNCHANGED <<net, slots, row>>
  PROVE  Transacted'
<1>0. /\ DOMAIN tx' = Clients
      /\ tx'[c] = NoTx
      /\ \A d \in Clients \ {c} : tx'[d] = tx[d]
  BY Moved DEF Transacted, RolledBack
<1>1. NoTx.inst = None /\ NoTx.step = "idle" /\ NoTx.seeds = {}
  BY DEF NoTx, Tx
<1>2. TxType'
  BY <1>0 DEF Transacted, TxType
<1>3. InstancesAreNew'
  BY <1>0, <1>1, ConstantsAssumption DEF Transacted, InstancesAreNew, TxType
<1>4. SeedsAreNew'
  BY <1>0, <1>1 DEF Transacted, SeedsAreNew
<1>5. ClaimsAreFree'
  BY <1>0, <1>1 DEF Transacted, ClaimsAreFree
<1>6. QED
  BY <1>2, <1>3, <1>4, <1>5 DEF Transacted

LEMMA BeginInv ==
  ASSUME IInv, NEW c \in Clients, NEW p \in Projects, NEW i \in Instances, Begin(c, p, i)
  PROVE  IInv'
<1>1. PICK step \in {"seed", "claim"} : Go(c, Tx(step, p, i, NoAddress, {}))
  BY DEF Begin
<1>2. Fits(c, Tx(step, p, i, NoAddress, {}))
  BY <1>1 DEF Begin, Fits, Tx, Steps
<1>3. QED
  BY <1>1, <1>2, TablesStand, FittingMove DEF Begin, IInv

LEMMA SeedNetworkIPSlotsInv ==
  ASSUME IInv, NEW c \in Clients, SeedNetworkIPSlots(c)
  PROVE  IInv'
<1>0. UNCHANGED <<net, slots, row, alloc>> /\ tx[c].step = "seed"
  BY DEF SeedNetworkIPSlots
<1>1. CASE RolledBack(c)
  BY <1>0, <1>1, TablesStand, RolledBackMove DEF IInv
<1>2. ASSUME NEW S, S \cap DOMAIN slots[tx[c].net] = {},
             Go(c, Tx("claim", tx[c].net, tx[c].inst, NoAddress, S))
      PROVE  IInv'
  <2>1. tx[c] # NoTx
    BY <1>0 DEF NoTx, Tx
  <2>2. \A d \in Clients \ {c} : tx[d].net = tx[c].net => tx[d].seeds = {}
    BY DEF SeedNetworkIPSlots
  <2>3. Fits(c, Tx("claim", tx[c].net, tx[c].inst, NoAddress, S))
    BY <1>2, <2>1, <2>2 DEF IInv, Transacted, TxType, InstancesAreNew, Fits, Tx, Steps
  <2>4. QED
    BY <1>0, <1>2, <2>3, TablesStand, FittingMove DEF IInv
<1>3. QED
  BY <1>1, <1>2 DEF SeedNetworkIPSlots

LEMMA ClaimNextIPSlotInv ==
  ASSUME IInv, NEW c \in Clients, ClaimNextIPSlot(c)
  PROVE  IInv'
<1>0. UNCHANGED <<net, slots, row, alloc>> /\ tx[c].step = "claim"
  BY DEF ClaimNextIPSlot
<1>1. CASE RolledBack(c)
  BY <1>0, <1>1, TablesStand, RolledBackMove DEF IInv
<1>2. ASSUME NEW a \in Claimable(c),
             Go(c, Tx("record", tx[c].net, tx[c].inst, a, tx[c].seeds))
      PROVE  IInv'
  <2>1. tx[c] # NoTx
    BY <1>0 DEF NoTx, Tx
  <2>2. \A d \in Clients \ {c} : tx[d].net = tx[c].net => tx[d].addr # a
    BY <1>2 DEF Claimable, Held
  <2>3. \/ a \in tx[c].seeds
        \/ a \in DOMAIN slots[tx[c].net] /\ slots[tx[c].net][a] = None
    BY <1>2 DEF Claimable, Free
  <2>4. Fits(c, Tx("record", tx[c].net, tx[c].inst, a, tx[c].seeds))
    BY <2>1, <2>2, <2>3
    DEF IInv, Transacted, TxType, InstancesAreNew, SeedsAreNew, Fits, Tx, Steps
  <2>5. QED
    BY <1>0, <1>2, <2>4, TablesStand, FittingMove DEF IInv
<1>3. QED
  BY <1>1, <1>2 DEF ClaimNextIPSlot

LEMMA RollbackInv ==
  ASSUME IInv, NEW c \in Clients, Rollback(c)
  PROVE  IInv'
BY TablesStand, RolledBackMove DEF Rollback, IInv

------------------------------------------------------------------------------
(* Steps that change the tables.                                           *)

LEMMA CreateProjectInv ==
  ASSUME IInv, NEW p \in Projects, CreateProject(p)
  PROVE  IInv'
<1> USE DEF IInv, Tables, Transacted
<1>1. PICK cfg : /\ net' = [net EXCEPT ![p] = {cfg}]
                 /\ slots' = [slots EXCEPT ![p] = Seeded(NoSlots, usableIPv4Hosts(cfg))]
  BY DEF CreateProject
<1>2. net[p] = {} /\ UNCHANGED <<row, alloc, tx>>
  BY DEF CreateProject
<1>3. DOMAIN slots[p] = {} /\ \A c \in Clients : tx[c] # NoTx => tx[c].net # p
  BY <1>2 DEF SlotsAreFunctions, TxType
<1>4. /\ DOMAIN slots' = Projects /\ DOMAIN net' = Projects
      /\ slots'[p] = Seeded(NoSlots, usableIPv4Hosts(cfg)) /\ net'[p] = {cfg}
      /\ \A q \in Projects \ {p} : slots'[q] = slots[q] /\ net'[q] = net[q]
  BY <1>1 DEF SlotsAreFunctions
<1>5. /\ slots'[p] = [a \in DOMAIN slots'[p] |-> slots'[p][a]]
      /\ \A a \in DOMAIN slots'[p] : slots'[p][a] = None
  BY <1>4 DEF Seeded, NoSlots
<1>6. SlotsAreFunctions'
  BY <1>4, <1>5 DEF SlotsAreFunctions, Owner
<1>7. RowsHaveSlots'
  BY <1>2, <1>3, <1>4 DEF RowsHaveSlots
<1>8. SlotsHaveRows'
  BY <1>2, <1>4, <1>5 DEF SlotsHaveRows
<1>9. RowsHaveAllocations' /\ AllocationsHaveRows'
  BY <1>2 DEF RowsHaveAllocations, AllocationsHaveRows
<1>10. TxType' /\ InstancesAreNew'
  BY <1>2, <1>3, <1>4 DEF TxType, InstancesAreNew
<1>11. SeedsAreNew'
  BY <1>2, <1>3, <1>4 DEF SeedsAreNew, TxType
<1>12. ClaimsAreFree'
  <2>1. \A c \in Clients : tx[c].step = "record" =>
           tx[c] # NoTx /\ slots'[tx[c].net] = slots[tx[c].net]
    BY <1>3, <1>4 DEF TxType, NoTx, Tx
  <2>2. QED
    BY <1>2, <2>1 DEF ClaimsAreFree
<1>13. QED
  BY <1>6, <1>7, <1>8, <1>9, <1>10, <1>11, <1>12

LEMMA RecordInv ==
  ASSUME IInv, NEW c \in Clients, Record(c)
  PROVE  IInv'
<1> DEFINE p == tx[c].net
           i == tx[c].inst
           a == tx[c].addr
           S == tx[c].seeds
<1>1. CASE UNCHANGED <<slots, row, alloc>>
  <2>1. RolledBack(c) /\ UNCHANGED net
    BY DEF Record
  <2>2. QED
    BY <1>1, <2>1, TablesStand, RolledBackMove DEF IInv
<1>2. CASE /\ slots' = [slots EXCEPT ![p] = [Seeded(slots[p], S) EXCEPT ![a] = i]]
           /\ row' = [row EXCEPT ![i] = [net |-> p, addr |-> a]]
           /\ alloc' = alloc \cup {[net |-> p, inst |-> i, addr |-> a]}
  <2> USE DEF IInv, Tables, Transacted
  <2>1. tx[c].step = "record" /\ RolledBack(c) /\ net' = net
    BY DEF Record
  <2>2. tx[c] # NoTx /\ p \in Projects /\ i \in Instances /\ net[p] # {} /\ p # None
    BY <2>1, ConstantsAssumption DEF TxType, NoTx, Tx
  <2>3. a \in S \/ (a \in DOMAIN slots[p] /\ slots[p][a] = None)
    BY <2>1 DEF ClaimsAreFree
  <2>4. S \cap DOMAIN slots[p] = {} /\ row[i] = NoRow /\ i # None
    BY <2>2, ConstantsAssumption DEF SeedsAreNew, InstancesAreNew
  <2>5. /\ DOMAIN slots' = Projects
        /\ slots'[p] = [Seeded(slots[p], S) EXCEPT ![a] = i]
        /\ \A q \in Projects \ {p} : slots'[q] = slots[q]
    BY <1>2, <2>2 DEF SlotsAreFunctions
  <2>6. /\ DOMAIN slots'[p] = DOMAIN slots[p] \cup S
        /\ slots'[p] = [b \in DOMAIN slots'[p] |-> slots'[p][b]]
        /\ a \in DOMAIN slots'[p] /\ slots'[p][a] = i
        /\ \A b \in DOMAIN slots'[p] :
             b # a => slots'[p][b] = IF b \in DOMAIN slots[p] THEN slots[p][b] ELSE None
    BY <2>3, <2>5 DEF Seeded
  <2>7. /\ DOMAIN row' = Instances /\ row'[i] = [net |-> p, addr |-> a]
        /\ row'[i] # NoRow /\ row'[i].net = p /\ row'[i].addr = a
        /\ \A j \in Instances \ {i} : row'[j] = row[j]
    BY <1>2, <2>2 DEF RowsHaveSlots, NoRow
  <2>8. /\ DOMAIN tx' = Clients /\ tx'[c] = NoTx
        /\ \A d \in Clients \ {c} : tx'[d] = tx[d]
    BY <2>1, Moved DEF RolledBack
  <2>9. \A q \in Projects : \A b \in DOMAIN slots[q] :
          b \in DOMAIN slots'[q] /\ (slots[q][b] # None => slots'[q][b] = slots[q][b])
    <3>1. a \in DOMAIN slots[p] => slots[p][a] = None
      BY <2>3, <2>4
    <3>2. QED
      BY <2>5, <2>6, <3>1
  <2>10. SlotsAreFunctions'
    BY <2>1, <2>2, <2>5, <2>6 DEF SlotsAreFunctions, Owner
  <2>11. RowsHaveSlots'
    <3> SUFFICES ASSUME NEW j \in Instances, row'[j] # NoRow
                 PROVE  /\ row'[j] = [net |-> row'[j].net, addr |-> row'[j].addr]
                        /\ row'[j].net \in Projects
                        /\ row'[j].addr \in DOMAIN slots'[row'[j].net]
                        /\ slots'[row'[j].net][row'[j].addr] = j
        BY <2>7 DEF RowsHaveSlots
    <3>1. CASE j = i
      BY <2>2, <2>6, <2>7, <3>1
    <3>2. CASE j # i
      <4>1. row'[j] = row[j] /\ j # None
        BY <2>7, <3>2, ConstantsAssumption
      <4>2. QED
        BY <2>9, <4>1 DEF RowsHaveSlots
    <3>3. QED
      BY <3>1, <3>2
  <2>12. SlotsHaveRows'
    <3> SUFFICES ASSUME NEW q \in Projects, NEW b \in DOMAIN slots'[q], slots'[q][b] # None
                 PROVE  row'[slots'[q][b]] = [net |-> q, addr |-> b]
        BY DEF SlotsHaveRows
    <3>1. CASE q = p /\ b = a
      BY <2>6, <2>7, <3>1
    <3>2. CASE ~(q = p /\ b = a)
      <4>1. b \in DOMAIN slots[q] /\ slots'[q][b] = slots[q][b]
        BY <2>5, <2>6, <3>2
      <4>2. row[slots[q][b]] = [net |-> q, addr |-> b] /\ slots[q][b] \in Instances
        BY <4>1 DEF SlotsHaveRows, SlotsAreFunctions, Owner
      <4>3. slots[q][b] # i
        <5>1. SUFFICES ASSUME slots[q][b] = i PROVE FALSE
          OBVIOUS
        <5>2. [net |-> q, addr |-> b] = NoRow
          BY <2>4, <4>2, <5>1
        <5>3. q # None
          BY ConstantsAssumption
        <5>4. QED
          BY <5>2, <5>3 DEF NoRow
      <4>4. QED
        BY <2>7, <4>1, <4>2, <4>3
    <3>3. QED
      BY <3>1, <3>2
  <2>13. RowsHaveAllocations'
    BY <1>2, <2>7 DEF RowsHaveAllocations
  <2>14. AllocationsHaveRows'
    <3> SUFFICES ASSUME NEW r \in alloc'
                 PROVE  /\ r = [net |-> r.net, inst |-> r.inst, addr |-> r.addr]
                        /\ r.net \in Projects /\ r.inst \in Instances
                        /\ row'[r.inst] = [net |-> r.net, addr |-> r.addr]
        BY DEF AllocationsHaveRows
    <3>1. CASE r = [net |-> p, inst |-> i, addr |-> a]
      BY <2>2, <2>7, <3>1
    <3>2. CASE r \in alloc
      <4>1. /\ r = [net |-> r.net, inst |-> r.inst, addr |-> r.addr]
            /\ r.net \in Projects /\ r.inst \in Instances
            /\ row[r.inst] = [net |-> r.net, addr |-> r.addr]
        BY <3>2 DEF AllocationsHaveRows
      <4>2. row[r.inst] # NoRow
        BY <4>1, ConstantsAssumption DEF NoRow
      <4>3. r.inst # i
        BY <2>4, <4>2
      <4>4. QED
        BY <2>7, <4>1, <4>3
    <3>3. QED
      BY <1>2, <3>1, <3>2
  <2>15. TxType'
    BY <2>1, <2>8 DEF TxType
  <2>16. \A d \in Clients \ {c} : tx[d].inst # i
    BY <2>2 DEF InstancesAreNew
  <2>17. InstancesAreNew'
    <3> SUFFICES ASSUME NEW e \in Clients, tx'[e] # NoTx
                 PROVE  /\ row'[tx'[e].inst] = NoRow
                        /\ \A d \in Clients \ {e} : tx'[d].inst # tx'[e].inst
        BY DEF InstancesAreNew
    <3>1. e # c /\ tx'[e] = tx[e] /\ tx[e].inst \in Instances
      BY <2>8 DEF TxType
    <3>2. NoTx.inst # tx[e].inst
      BY <3>1, ConstantsAssumption DEF NoTx, Tx
    <3>3. QED
      BY <2>7, <2>8, <2>16, <3>1, <3>2 DEF InstancesAreNew
  <2>18. SeedsAreNew'
    <3> SUFFICES ASSUME NEW e \in Clients, tx'[e] # NoTx
                 PROVE  /\ tx'[e].seeds \cap DOMAIN slots'[tx'[e].net] = {}
                        /\ \A d \in Clients \ {e} :
                             tx'[d].net = tx'[e].net => tx'[d].seeds = {} \/ tx'[e].seeds = {}
        BY DEF SeedsAreNew
    <3>1. e # c /\ tx'[e] = tx[e] /\ tx[e].net \in Projects
      BY <2>8 DEF TxType
    <3>2. tx[e].seeds \cap DOMAIN slots'[tx[e].net] = {}
      BY <2>2, <2>5, <2>6, <3>1, <2>8 DEF SeedsAreNew
    <3>3. NoTx.seeds = {}
      BY DEF NoTx, Tx
    <3>4. QED
      BY <2>8, <3>1, <3>2, <3>3 DEF SeedsAreNew
  <2>19. ClaimsAreFree'
    <3> SUFFICES ASSUME NEW e \in Clients, tx'[e].step = "record"
                 PROVE  /\ \/ tx'[e].addr \in tx'[e].seeds
                           \/ /\ tx'[e].addr \in DOMAIN slots'[tx'[e].net]
                              /\ slots'[tx'[e].net][tx'[e].addr] = None
                        /\ \A d \in Clients \ {e} :
                             tx'[d].step = "record" /\ tx'[d].net = tx'[e].net
                               => tx'[d].addr # tx'[e].addr
        BY DEF ClaimsAreFree
    <3>1. NoTx.step = "idle"
      BY DEF NoTx, Tx
    <3>2. e # c /\ tx'[e] = tx[e] /\ tx[e] # NoTx /\ tx[e].net \in Projects
      BY <2>8, <3>1 DEF TxType
    <3>3. tx[e].net = p => tx[e].addr # a
      BY <2>1, <3>2, <2>8 DEF ClaimsAreFree
    <3>4. \/ tx[e].addr \in tx[e].seeds
          \/ /\ tx[e].addr \in DOMAIN slots[tx[e].net]
             /\ slots[tx[e].net][tx[e].addr] = None
      BY <2>8, <3>2 DEF ClaimsAreFree
    <3>5. tx[e].addr \in DOMAIN slots[tx[e].net] /\ slots[tx[e].net][tx[e].addr] = None
          => tx[e].addr \in DOMAIN slots'[tx[e].net] /\ slots'[tx[e].net][tx[e].addr] = None
      BY <2>5, <2>6, <3>2, <3>3
    <3>6. QED
      BY <2>8, <3>1, <3>2, <3>4, <3>5 DEF ClaimsAreFree
  <2>20. QED
    BY <2>10, <2>11, <2>12, <2>13, <2>14, <2>15, <2>17, <2>18, <2>19
<1>3. QED
  BY <1>1, <1>2 DEF Record

LEMMA DeleteInstanceInv ==
  ASSUME IInv, NEW i \in Instances, DeleteInstance(i)
  PROVE  IInv'
<1> USE DEF IInv, Tables, Transacted
<1>1. /\ row[i] # NoRow /\ row' = [row EXCEPT ![i] = NoRow]
      /\ alloc' = {r \in alloc : r.inst # i}
      /\ net' = net /\ tx' = tx
  BY DEF DeleteInstance
<1>2. /\ DOMAIN slots' = Projects
      /\ \A p \in Projects :
           /\ DOMAIN slots'[p] = DOMAIN slots[p]
           /\ slots'[p] = [a \in DOMAIN slots'[p] |-> slots'[p][a]]
           /\ \A a \in DOMAIN slots[p] :
                slots'[p][a] = IF slots[p][a] = i THEN None ELSE slots[p][a]
  BY DEF DeleteInstance, Orphaned
<1>3. /\ DOMAIN row' = Instances /\ row'[i] = NoRow
      /\ \A j \in Instances \ {i} : row'[j] = row[j]
  BY <1>1 DEF RowsHaveSlots
<1>4. SlotsAreFunctions'
  BY <1>1, <1>2 DEF SlotsAreFunctions, Owner
<1>5. RowsHaveSlots'
  <2> SUFFICES ASSUME NEW j \in Instances, row'[j] # NoRow
               PROVE  /\ row'[j] = [net |-> row'[j].net, addr |-> row'[j].addr]
                      /\ row'[j].net \in Projects
                      /\ row'[j].addr \in DOMAIN slots'[row'[j].net]
                      /\ slots'[row'[j].net][row'[j].addr] = j
      BY <1>3 DEF RowsHaveSlots
  <2>1. j # i /\ row'[j] = row[j]
    BY <1>3
  <2>2. QED
    BY <1>2, <2>1 DEF RowsHaveSlots
<1>6. SlotsHaveRows'
  <2> SUFFICES ASSUME NEW p \in Projects, NEW a \in DOMAIN slots'[p], slots'[p][a] # None
               PROVE  row'[slots'[p][a]] = [net |-> p, addr |-> a]
      BY DEF SlotsHaveRows
  <2>1. a \in DOMAIN slots[p] /\ slots'[p][a] = slots[p][a] /\ slots[p][a] # i
    BY <1>2
  <2>2. slots[p][a] \in Instances
    BY <2>1 DEF SlotsAreFunctions, Owner
  <2>3. QED
    BY <1>3, <2>1, <2>2 DEF SlotsHaveRows
<1>7. RowsHaveAllocations' /\ AllocationsHaveRows'
  BY <1>1, <1>3 DEF RowsHaveAllocations, AllocationsHaveRows
<1>8. TxType' /\ SeedsAreNew'
  BY <1>1, <1>2 DEF TxType, SeedsAreNew
<1>9. InstancesAreNew'
  BY <1>1, <1>3 DEF InstancesAreNew, TxType
<1>10. ClaimsAreFree'
  <2>1. \A c \in Clients : tx[c].step = "record" => tx[c].net \in Projects
    BY DEF TxType, NoTx, Tx
  <2>2. QED
    BY <1>1, <1>2, <2>1 DEF ClaimsAreFree
<1>11. QED
  BY <1>4, <1>5, <1>6, <1>7, <1>8, <1>9, <1>10

------------------------------------------------------------------------------
\* The inductive invariant holds of every behaviour: each statement of a
\* transaction, each commit and each deletion keeps it.
THEOREM Invariance == Spec => []IInv
<1>1. IInv /\ [Next]_vars => IInv'
  <2> SUFFICES ASSUME IInv, [Next]_vars PROVE IInv'
      OBVIOUS
  <2>1. CASE UNCHANGED vars
    <3>1. UNCHANGED <<net, slots, row, alloc>> /\ tx' = tx
      BY <2>1 DEF vars
    <3>2. Transacted'
      BY <3>1 DEF IInv, Transacted, TxType, InstancesAreNew, SeedsAreNew, ClaimsAreFree
    <3>3. QED
      BY <3>1, <3>2, TablesStand DEF IInv
  <2>2. CASE \E p \in Projects : CreateProject(p)
    BY <2>2, CreateProjectInv
  <2>3. CASE \E i \in Instances : DeleteInstance(i)
    BY <2>3, DeleteInstanceInv
  <2>4. CASE \E c \in Clients, p \in Projects, i \in Instances : Begin(c, p, i)
    BY <2>4, BeginInv
  <2>5. CASE \E c \in Clients : SeedNetworkIPSlots(c)
    BY <2>5, SeedNetworkIPSlotsInv
  <2>6. CASE \E c \in Clients : ClaimNextIPSlot(c)
    BY <2>6, ClaimNextIPSlotInv
  <2>7. CASE \E c \in Clients : Record(c)
    BY <2>7, RecordInv
  <2>8. CASE \E c \in Clients : Rollback(c)
    BY <2>8, RollbackInv
  <2>9. QED
    BY <2>1, <2>2, <2>3, <2>4, <2>5, <2>6, <2>7, <2>8 DEF Next
<1>2. QED
  BY InitIInv, <1>1, PTL DEF Spec

\* The slots, the instances and the allocations of every project say the same
\* (ClaimNextIPSlot, the two inserts, and the cascades of a delete).
THEOREM TablesAlwaysAgree == Spec => []TablesAgree
<1>1. IInv => TablesAgree
  BY Implied
<1>2. QED
  BY <1>1, Invariance, PTL

\* FOR UPDATE SKIP LOCKED gives an address to one transaction at a time, and
\* never one that an instance has: the unique keys never have to refuse.
THEOREM NoAddressIsHeldTwice == Spec => []NoDoubleClaim
<1>1. IInv => NoDoubleClaim
  BY Implied
<1>2. QED
  BY <1>1, Invariance, PTL
------------------------------------------------------------------------------
(* The arithmetic of prefixes.                                             *)

\* A set of numbers that is not empty has a least one.
LEMMA LeastNumber ==
  ASSUME NEW S \in SUBSET Nat, S # {}
  PROVE  \E x \in S : \A y \in S : x <= y
<1> DEFINE below == OpToRel(<, Nat)
<1>1. \A x, y \in Nat : <<x, y>> \in below <=> x < y
  BY DEF OpToRel
<1>2. IsWellFoundedOn(below, Nat)
  BY NatLessThanWellFounded DEF below
<1> HIDE DEF below
<1>3. PICK x \in S : \A y \in S : ~(<<y, x>> \in below)
  BY <1>2, WFMin
<1>4. ASSUME NEW y \in S PROVE x <= y
  <2>1. x \in Nat /\ y \in Nat /\ ~(y < x)
    BY <1>1, <1>3
  <2> QED BY <2>1
<1> QED BY <1>4

\* A number of addresses is 1 or more: if not, take the least exponent.
LEMMA PowersArePositive ==
  ASSUME NEW n \in 0..Width
  PROVE  2^n \in Nat /\ 2^n >= 1
<1>0. Width \in Nat
  BY ConstantsAssumption
<1> DEFINE S == {k \in 0..Width : ~(2^k >= 1)}
<1>1. SUFFICES ASSUME n \in S PROVE FALSE
  BY <1>0
<1>2. S \in SUBSET Nat /\ S # {}
  BY <1>0, <1>1
<1>3. PICK m \in S : \A k \in S : m <= k
  <2> HIDE DEF S
  <2> QED BY <1>2, LeastNumber
<1>4. m \in 0..Width /\ ~(2^m >= 1)
  BY <1>3
<1>5. m # 0
  <2>1. 2^0 = 1
    OBVIOUS
  <2>2. m = 0 => 2^m = 2^0
    OBVIOUS
  <2> QED BY <1>4, <2>1, <2>2
<1>6. m - 1 \in 0..Width /\ ~(m <= m - 1) /\ (m - 1) + 1 = m
  BY <1>0, <1>4, <1>5
<1>7. 2^(m - 1) >= 1
  BY <1>3, <1>6
<1>8. 2^m = 2 * 2^(m - 1)
  BY <1>6, PowersOfTwo
<1> QED BY <1>4, <1>6, <1>7, <1>8

\* Prefixes of one length fill the address space: if not, take the longest
\* that do not.
LEMMA PowersDivide ==
  ASSUME NEW n \in 0..Width
  PROVE  \E m \in Int : 2^Width = m * 2^n
<1>0. Width \in Nat
  BY ConstantsAssumption
<1> DEFINE Divides(k) == \E m \in Int : 2^Width = m * 2^k
           S == {d \in 0..Width : ~Divides(Width - d)}
<1>1. SUFFICES ASSUME ~Divides(n) PROVE FALSE
  OBVIOUS
<1>2. PICK e \in 0..Width : n = Width - e
  <2>1. Width - n \in 0..Width /\ n = Width - (Width - n)
    BY <1>0
  <2> QED BY <2>1
<1> HIDE DEF Divides
<1>3. S \in SUBSET Nat /\ S # {}
  <2>1. ~Divides(Width - e)
    BY <1>1, <1>2
  <2>2. S \subseteq Nat
    BY <1>0
  <2>3. e \in S
    BY <2>1
  <2> QED BY <2>2, <2>3
<1>4. PICK d \in S : \A f \in S : d <= f
  <2> HIDE DEF S
  <2> QED BY <1>3, LeastNumber
<1>5. d \in 0..Width /\ ~Divides(Width - d)
  BY <1>4
<1>6. d # 0
  <2>1. 2^Width = 1 * 2^Width /\ Width - 0 = Width
    BY <1>0
  <2>2. Divides(Width)
    BY <2>1 DEF Divides
  <2> QED BY <1>5, <2>1, <2>2
<1>7. d - 1 \in 0..Width /\ ~(d <= d - 1)
  BY <1>0, <1>5, <1>6
<1>8. PICK k : k = Width - d
  OBVIOUS
<1>9. k \in 0..Width /\ k + 1 = Width - (d - 1)
  BY <1>0, <1>5, <1>7, <1>8
<1>10. Divides(k + 1)
  BY <1>4, <1>7, <1>9
<1>11. PICK m \in Int : 2^Width = m * 2^(k + 1)
  BY <1>10 DEF Divides
<1>12. 2^(k + 1) = 2 * 2^k /\ 2^k \in Int
  BY <1>0, <1>9, PowersOfTwo
<1>13. 2^Width = (m * 2) * 2^k
  <2>1. \A x \in Int : m * (2 * x) = (m * 2) * x
    OBVIOUS
  <2> QED BY <1>11, <1>12, <2>1
<1>14. m * 2 \in Int
  OBVIOUS
<1> QED BY <1>5, <1>8, <1>13, <1>14 DEF Divides

LEMMA Division ==
  ASSUME NEW s \in Nat, s >= 1, NEW x \in Int
  PROVE  x = s * (x \div s) + (x % s) /\ 0 <= x % s /\ x % s < s
OBVIOUS

\* Quotient and remainder are what multiplication and addition say.
LEMMA Quotient ==
  ASSUME NEW s \in Nat, s >= 1, NEW q \in Int, NEW k \in Int, 0 <= k, k < s
  PROVE  (q * s + k) \div s = q /\ (q * s + k) % s = k
<1>1. PICK x \in Int : x = q * s + k
  OBVIOUS
<1>2. PICK d \in Int, r \in Int : d = x \div s /\ r = x % s
  BY <1>1
<1>3. x = s * d + r /\ 0 <= r /\ r < s
  BY <1>2, Division
<1>4. \A y \in Int : y >= 1 => y * s >= s
  OBVIOUS
<1>5. (q - d) * s = r - k
  <2>1. (q - d) * s = q * s - s * d
    OBVIOUS
  <2> QED BY <1>1, <1>3, <2>1
<1>6. ~(q - d >= 1)
  BY <1>3, <1>4, <1>5
<1>7. ~(d - q >= 1)
  <2>1. (d - q) * s = -((q - d) * s)
    OBVIOUS
  <2>2. (d - q) * s = k - r
    BY <1>5, <1>3, <2>1
  <2> QED BY <1>3, <1>4, <2>2
<1>8. q = d
  BY <1>6, <1>7
<1>9. r = k
  BY <1>1, <1>3, <1>8
<1> QED BY <1>1, <1>2, <1>8, <1>9

\* What PoolIsExact says a pool is.
Pool(cfg) ==
  {a \in Addresses :
     /\ a \div Size(cfg.bits) = cfg.addr \div Size(cfg.bits)
     /\ a % Size(cfg.bits) \notin {0, Size(cfg.bits) - 1}
     /\ a # cfg.gw}

\* The loop over the prefix yields just these, and no address of another width.
LEMMA HostsAreThePool ==
  ASSUME NEW cfg \in Config
  PROVE  usableIPv4Hosts(cfg) = Pool(cfg)
<1>0. /\ Width \in Nat /\ cfg.bits \in 0..Width /\ 2^Width \in Int
      /\ cfg.addr \in Int /\ 0 <= cfg.addr /\ cfg.addr < 2^Width
  BY ConstantsAssumption DEF Config, Addresses
<1>1. PICK n \in 0..Width : n = Width - cfg.bits
  BY <1>0
<1>2. PICK s \in Nat : s = Size(cfg.bits) /\ s = 2^n /\ s >= 1
  BY <1>1, PowersArePositive DEF Size
<1>3. PICK m \in Int : 2^Width = m * s
  BY <1>1, <1>2, PowersDivide
<1>4. PICK q \in Int : q = cfg.addr \div s
  BY <1>0, <1>2
<1>5. PICK base \in Int : base = q * s /\ base = Masked(cfg.addr, cfg.bits)
  <2>1. cfg.addr - (cfg.addr % s) = q * s
    <3>1. PICK x \in Int : x = cfg.addr
      BY <1>0
    <3>2. x = s * (x \div s) + (x % s)
      <4>1. s >= 1
        BY <1>2
      <4> QED BY <4>1, Division
    <3>3. PICK r \in Int : r = x % s
      BY <1>2
    <3>4. x - r = s * q
      BY <1>4, <3>1, <3>2, <3>3
    <3> QED BY <3>1, <3>3, <3>4
  <2>2. Masked(cfg.addr, cfg.bits) = cfg.addr - (cfg.addr % s)
    BY <1>2 DEF Masked
  <2> QED BY <2>1, <2>2, <1>4
<1>6. 0 <= base /\ base + s <= 2^Width
  <2>1. base <= cfg.addr /\ q >= 0
    BY <1>0, <1>2, <1>4, <1>5
  <2>2. q < m
    <3>1. ASSUME q >= m PROVE q * s >= m * s
      BY <1>2, <3>1
    <3> QED BY <1>0, <1>3, <1>5, <2>1, <3>1
  <2>3. (q + 1) * s <= m * s
    BY <1>2, <2>2
  <2>4. (q + 1) * s = q * s + s
    BY <1>2
  <2>5. q * s >= 0
    BY <1>2, <2>1
  <2> QED BY <1>3, <1>5, <2>3, <2>4, <2>5
<1>7. usableIPv4Hosts(cfg) = {base + k : k \in 1..(s - 2)} \ {cfg.gw}
  BY <1>2, <1>5 DEF usableIPv4Hosts, HostCount
<1>8. ASSUME NEW k \in 1..(s - 2)
      PROVE  base + k \in Addresses /\ (base + k) \div s = q /\ (base + k) % s = k
  <2>1. k \in Int /\ 0 <= k /\ k < s
    BY <1>2, <1>8
  <2>2. (q * s + k) \div s = q /\ (q * s + k) % s = k
    BY <1>2, <2>1, Quotient
  <2>3. base + k \in Addresses
    BY <1>0, <1>6, <2>1 DEF Addresses
  <2> QED BY <1>5, <2>2, <2>3
<1>9. ASSUME NEW a \in Addresses, a \div s = q, a % s \notin {0, s - 1}
      PROVE  \E k \in 1..(s - 2) : a = base + k
  <2>1. PICK k \in Int : k = a % s
    BY <1>2, <1>0 DEF Addresses
  <2>2. a = q * s + k /\ 0 <= k /\ k < s
    BY <1>0, <1>2, <1>9, <2>1 DEF Addresses
  <2>3. k # 0 /\ k # s - 1
    BY <1>9, <2>1
  <2>4. k \in 1..(s - 2)
    BY <1>2, <2>2, <2>3
  <2> QED BY <1>5, <2>2, <2>4
<1>10. Pool(cfg) = {a \in Addresses : a \div s = q /\ a % s \notin {0, s - 1} /\ a # cfg.gw}
  BY <1>2, <1>4 DEF Pool
<1>11. ASSUME NEW a \in usableIPv4Hosts(cfg) PROVE a \in Pool(cfg)
  <2>1. PICK k \in 1..(s - 2) : a = base + k /\ a # cfg.gw
    BY <1>7
  <2>2. a \in Addresses /\ a \div s = q /\ a % s = k
    BY <1>8, <2>1
  <2>3. k \notin {0, s - 1}
    BY <1>2
  <2> QED BY <1>10, <2>1, <2>2, <2>3
<1>12. ASSUME NEW a \in Pool(cfg) PROVE a \in usableIPv4Hosts(cfg)
  <2>1. a \in Addresses /\ a \div s = q /\ a % s \notin {0, s - 1} /\ a # cfg.gw
    BY <1>10
  <2>2. \E k \in 1..(s - 2) : a = base + k
    BY <1>9, <2>1
  <2> QED BY <1>7, <2>1, <2>2
<1> QED BY <1>11, <1>12

------------------------------------------------------------------------------
(* A pool is filled at once, by the project or by the first transaction    *)
(* that commits, or it is not filled at all.                               *)

NetType ==
  /\ net \in [Projects -> SUBSET Config]
  /\ \A p \in Projects : \A x, y \in net[p] : x = y

PoolInv ==
  \A p \in Projects : \A cfg \in net[p] :
    DOMAIN slots[p] \in {{}, usableIPv4Hosts(cfg)}

SeedInv ==
  \A c \in Clients : tx[c] # NoTx =>
    /\ tx[c].addr \in Addresses \cup {NoAddress}
    /\ \A cfg \in net[tx[c].net] : tx[c].seeds \in {{}, usableIPv4Hosts(cfg)}

Pools == NetType /\ PoolInv /\ SeedInv

LEMMA FilledPools ==
  ASSUME Pools, IInv
  PROVE  /\ \A p \in Projects : DOMAIN slots[p] \subseteq Addresses
         /\ \A c \in Clients : tx[c] # NoTx => tx[c].seeds \subseteq Addresses
<1>1. \A cfg \in Config : usableIPv4Hosts(cfg) \subseteq Addresses
  BY HostsAreThePool DEF Pool
<1>2. ASSUME NEW p \in Projects PROVE DOMAIN slots[p] \subseteq Addresses
  <2>1. CASE net[p] = {}
    BY <2>1 DEF IInv, Tables, SlotsAreFunctions
  <2>2. CASE net[p] # {}
    BY <1>1, <2>2 DEF Pools, NetType, PoolInv
  <2> QED BY <2>1, <2>2
<1>3. ASSUME NEW c \in Clients, tx[c] # NoTx PROVE tx[c].seeds \subseteq Addresses
  <2>1. net[tx[c].net] # {} /\ tx[c].net \in Projects
    BY <1>3 DEF IInv, Transacted, TxType
  <2> QED BY <1>1, <1>3, <2>1 DEF Pools, NetType, SeedInv
<1> QED BY <1>2, <1>3

\* A transaction moves, the tables stay.
LEMMA MoveKeepsPools ==
  ASSUME Pools, IInv, NEW c \in Clients, NEW t, Go(c, t), UNCHANGED <<net, slots>>,
         t # NoTx => /\ t.addr \in Addresses \cup {NoAddress}
                     /\ \A cfg \in net[t.net] : t.seeds \in {{}, usableIPv4Hosts(cfg)}
  PROVE  Pools'
<1>1. tx'[c] = t /\ \A d \in Clients \ {c} : tx'[d] = tx[d]
  BY Moved DEF IInv, Transacted
<1>2. NetType' /\ PoolInv'
  BY DEF Pools, NetType, PoolInv
<1>3. SeedInv'
  BY <1>1 DEF Pools, SeedInv
<1> QED BY <1>2, <1>3 DEF Pools

LEMMA SeedKeepsPools ==
  ASSUME Pools, IInv, NEW c \in Clients, SeedNetworkIPSlots(c)
  PROVE  Pools'
<1>0. UNCHANGED <<net, slots>> /\ tx[c] # NoTx
  BY DEF SeedNetworkIPSlots, NoTx, Tx
<1>1. CASE RolledBack(c)
  BY <1>0, <1>1, MoveKeepsPools DEF RolledBack
<1>2. ASSUME NEW cfg \in net[tx[c].net],
             Go(c, Tx("claim", tx[c].net, tx[c].inst, NoAddress,
                      usableIPv4Hosts(cfg) \ DOMAIN slots[tx[c].net]))
      PROVE  Pools'
  <2>1. tx[c].net \in Projects
    BY <1>0 DEF IInv, Transacted, TxType
  <2>2. PICK S : S = usableIPv4Hosts(cfg) \ DOMAIN slots[tx[c].net]
    OBVIOUS
  <2>3. S \in {{}, usableIPv4Hosts(cfg)}
    BY <1>2, <2>1, <2>2 DEF Pools, PoolInv
  <2>4. \A x \in net[tx[c].net] : x = cfg
    BY <1>2, <2>1 DEF Pools, NetType
  <2>5. PICK t : t = Tx("claim", tx[c].net, tx[c].inst, NoAddress, S)
    OBVIOUS
  <2>6. t.net = tx[c].net /\ t.addr = NoAddress /\ t.seeds = S
    BY <2>5 DEF Tx
  <2>7. Go(c, t)
    BY <1>2, <2>2, <2>5
  <2> QED BY <1>0, <2>3, <2>4, <2>6, <2>7, MoveKeepsPools
<1> QED BY <1>1, <1>2 DEF SeedNetworkIPSlots

LEMMA ClaimKeepsPools ==
  ASSUME Pools, IInv, NEW c \in Clients, ClaimNextIPSlot(c)
  PROVE  Pools'
<1>0. UNCHANGED <<net, slots>> /\ tx[c] # NoTx
  BY DEF ClaimNextIPSlot, NoTx, Tx
<1>1. CASE RolledBack(c)
  BY <1>0, <1>1, MoveKeepsPools DEF RolledBack
<1>2. ASSUME NEW a \in Claimable(c),
             Go(c, Tx("record", tx[c].net, tx[c].inst, a, tx[c].seeds))
      PROVE  Pools'
  <2>1. tx[c].net \in Projects
    BY <1>0 DEF IInv, Transacted, TxType
  <2>2. a \in Addresses
    BY <1>0, <1>2, <2>1, FilledPools DEF Claimable, Free
  <2>3. PICK t : t = Tx("record", tx[c].net, tx[c].inst, a, tx[c].seeds)
    OBVIOUS
  <2>4. t.net = tx[c].net /\ t.addr = a /\ t.seeds = tx[c].seeds /\ Go(c, t)
    BY <1>2, <2>3 DEF Tx
  <2>5. \A cfg \in net[tx[c].net] : tx[c].seeds \in {{}, usableIPv4Hosts(cfg)}
    BY <1>0 DEF Pools, SeedInv
  <2> QED BY <1>0, <2>2, <2>4, <2>5, MoveKeepsPools
<1> QED BY <1>1, <1>2 DEF ClaimNextIPSlot

LEMMA CreateKeepsPools ==
  ASSUME Pools, IInv, NEW p \in Projects, CreateProject(p)
  PROVE  Pools'
<1>1. PICK cfg \in Configs :
        /\ net' = [net EXCEPT ![p] = {cfg}]
        /\ slots' = [slots EXCEPT ![p] = Seeded(NoSlots, usableIPv4Hosts(cfg))]
  BY DEF CreateProject
<1>2. net[p] = {} /\ tx' = tx /\ cfg \in Config
  BY ConstantsAssumption DEF CreateProject
<1>3. /\ net'[p] = {cfg} /\ \A q \in Projects \ {p} : net'[q] = net[q]
      /\ net' \in [Projects -> SUBSET Config]
  BY <1>1, <1>2 DEF Pools, NetType
<1>4. /\ DOMAIN slots'[p] = usableIPv4Hosts(cfg)
      /\ \A q \in Projects \ {p} : slots'[q] = slots[q]
  <2>1. /\ slots'[p] = Seeded(NoSlots, usableIPv4Hosts(cfg))
        /\ \A q \in Projects \ {p} : slots'[q] = slots[q]
    BY <1>1 DEF IInv, Tables, SlotsAreFunctions
  <2>2. DOMAIN NoSlots = {}
    BY DEF NoSlots
  <2>3. PICK S : S = usableIPv4Hosts(cfg)
    OBVIOUS
  <2>4. DOMAIN slots'[p] = {} \cup S
    BY <2>1, <2>2, <2>3, SeededPool
  <2> QED BY <2>1, <2>3, <2>4
<1>5. NetType'
  BY <1>3 DEF Pools, NetType
<1>6. PoolInv'
  BY <1>3, <1>4 DEF Pools, PoolInv
<1>7. SeedInv'
  <2>1. \A c \in Clients : tx[c] # NoTx => tx[c].net \in Projects \ {p}
    BY <1>2 DEF IInv, Transacted, TxType
  <2> QED BY <1>2, <1>3, <2>1 DEF Pools, SeedInv
<1> QED BY <1>5, <1>6, <1>7 DEF Pools

LEMMA RecordKeepsPools ==
  ASSUME Pools, IInv, NEW c \in Clients, Record(c)
  PROVE  Pools'
<1>0. tx[c].step = "record" /\ tx[c] # NoTx /\ RolledBack(c) /\ net' = net
  BY DEF Record, NoTx, Tx
<1>1. CASE slots' = slots
  BY <1>0, <1>1, MoveKeepsPools DEF RolledBack
<1> PICK p, i, a, S : p = tx[c].net /\ i = tx[c].inst /\ a = tx[c].addr /\ S = tx[c].seeds
  OBVIOUS
<1>2. CASE slots' = [slots EXCEPT ![p] = [Seeded(slots[p], S) EXCEPT ![a] = i]]
  <2>1. p \in Projects
    BY <1>0 DEF IInv, Transacted, TxType
  <2>2. /\ DOMAIN slots'[p] = DOMAIN slots[p] \cup S
        /\ \A q \in Projects \ {p} : slots'[q] = slots[q]
    <3>1. /\ slots'[p] = [Seeded(slots[p], S) EXCEPT ![a] = i]
          /\ \A q \in Projects \ {p} : slots'[q] = slots[q]
      BY <1>2, <2>1 DEF IInv, Tables, SlotsAreFunctions
    <3>2. DOMAIN Seeded(slots[p], S) = DOMAIN slots[p] \cup S
      BY SeededPool
    <3>3. DOMAIN slots'[p] = DOMAIN Seeded(slots[p], S)
      BY <3>1
    <3> QED BY <3>1, <3>2, <3>3
  <2>3. \A cfg \in net[p] : S \in {{}, usableIPv4Hosts(cfg)}
    BY <1>0 DEF Pools, SeedInv
  <2>4. PoolInv'
    BY <1>0, <2>2, <2>3 DEF Pools, PoolInv
  <2>5. /\ tx'[c] = NoTx /\ \A d \in Clients \ {c} : tx'[d] = tx[d]
    BY <1>0, Moved DEF RolledBack, IInv, Transacted
  <2>6. SeedInv'
    BY <1>0, <2>5 DEF Pools, SeedInv
  <2>7. NetType'
    BY <1>0 DEF Pools, NetType
  <2> QED BY <2>4, <2>6, <2>7 DEF Pools
<1> QED BY <1>1, <1>2 DEF Record

LEMMA DeleteKeepsPools ==
  ASSUME Pools, IInv, NEW i \in Instances, DeleteInstance(i)
  PROVE  Pools'
<1>1. net' = net /\ tx' = tx /\ \A p \in Projects : DOMAIN slots'[p] = DOMAIN slots[p]
  BY DEF DeleteInstance, Orphaned
<1> QED BY <1>1 DEF Pools, NetType, PoolInv, SeedInv

LEMMA NextPools ==
  ASSUME Pools, IInv, [Next]_vars
  PROVE  Pools'
<1>1. CASE UNCHANGED vars
  BY <1>1 DEF vars, Pools, NetType, PoolInv, SeedInv
<1>2. ASSUME NEW c \in Clients, NEW p \in Projects, NEW i \in Instances, Begin(c, p, i)
      PROVE  Pools'
  <2>1. PICK t : /\ Go(c, t) /\ t.net = p /\ t.addr = NoAddress /\ t.seeds = {}
                 /\ UNCHANGED <<net, slots>>
    BY <1>2 DEF Begin, Tx
  <2> QED BY <2>1, MoveKeepsPools
<1>3. ASSUME NEW c \in Clients, Rollback(c) PROVE Pools'
  BY <1>3, MoveKeepsPools DEF Rollback, RolledBack
<1> QED BY <1>1, <1>2, <1>3, CreateKeepsPools, DeleteKeepsPools, SeedKeepsPools,
           ClaimKeepsPools, RecordKeepsPools DEF Next

Mappings == row = [i \in Instances |-> row[i]] /\ tx = [c \in Clients |-> tx[c]]

LEMMA NextMappings ==
  ASSUME Mappings, [Next]_vars
  PROVE  Mappings'
<1>1. ASSUME NEW c \in Clients, NEW t, Go(c, t), row' = row PROVE Mappings'
  BY <1>1 DEF Mappings, Go
<1>2. CASE UNCHANGED vars
  BY <1>2 DEF vars, Mappings
<1>3. ASSUME NEW i \in Instances, DeleteInstance(i) PROVE Mappings'
  BY <1>3 DEF DeleteInstance, Mappings
<1>4. ASSUME NEW c \in Clients, Record(c) PROVE Mappings'
  <2>1. Go(c, NoTx)
    BY <1>4 DEF Record, RolledBack
  <2>2. CASE row' = row
    BY <1>1, <2>1, <2>2
  <2>3. ASSUME NEW i, NEW r, row' = [row EXCEPT ![i] = r] PROVE Mappings'
    BY <2>1, <2>3 DEF Mappings, Go
  <2> QED BY <1>4, <2>2, <2>3 DEF Record
<1>5. ASSUME NEW c \in Clients,
             SeedNetworkIPSlots(c) \/ ClaimNextIPSlot(c) \/ Rollback(c)
               \/ \E p \in Projects, i \in Instances : Begin(c, p, i)
      PROVE  Mappings'
  <2>1. row' = row /\ \E t : Go(c, t)
    BY <1>5 DEF SeedNetworkIPSlots, ClaimNextIPSlot, Rollback, Begin, RolledBack
  <2> QED BY <1>1, <2>1
<1>6. ASSUME NEW p \in Projects, CreateProject(p) PROVE Mappings'
  BY <1>6 DEF CreateProject, Mappings
<1> QED BY <1>2, <1>3, <1>4, <1>5, <1>6 DEF Next

\* Every pool is empty or what its prefix says, and what a transaction has
\* inserted is nothing or all of it.
THEOREM PoolsFilledAtOnce == Spec => [](IInv /\ Pools /\ Mappings)
<1>1. Init => Pools /\ Mappings
  <2> SUFFICES ASSUME Init PROVE Pools /\ Mappings
      OBVIOUS
  <2>1. NetType
    BY ConstantsAssumption DEF Init, NetType
  <2>2. PoolInv
    BY DEF Init, PoolInv, NoSlots
  <2>3. SeedInv
    BY DEF Init, SeedInv
  <2>4. Mappings
    BY DEF Init, Mappings
  <2> QED BY <2>1, <2>2, <2>3, <2>4 DEF Pools
<1>2. IInv /\ Pools /\ Mappings /\ [Next]_vars => Pools' /\ Mappings'
  BY NextPools, NextMappings
<1> QED BY <1>1, <1>2, Invariance, PTL DEF Spec

\* The pool of a network, filled when the project is created or by the first
\* instance of an older one, is the prefix without its first and last address
\* and the gateway, for every width, prefix and gateway.
THEOREM PoolsAreExact == Spec => []PoolIsExact
<1>1. IInv /\ Pools => PoolIsExact
  <2> SUFFICES ASSUME Pools, NEW p \in Projects, NEW cfg \in net[p], DOMAIN slots[p] # {}
               PROVE  DOMAIN slots[p] = Pool(cfg)
      BY DEF PoolIsExact, Pool
  <2>1. DOMAIN slots[p] = usableIPv4Hosts(cfg) /\ cfg \in Config
    BY DEF Pools, PoolInv, NetType
  <2> QED BY <2>1, HostsAreThePool
<1> QED BY <1>1, PoolsFilledAtOnce, PTL

\* The tables and the open transactions keep their types: what is claimed,
\* inserted and recorded are addresses of the width.
THEOREM TypeCorrect == Spec => []TypeOK
<1>1. IInv /\ Pools /\ Mappings => TypeOK
  <2> SUFFICES ASSUME IInv, Pools, Mappings PROVE TypeOK
      OBVIOUS
  <2>1. net \in [Projects -> SUBSET Config] /\ DOMAIN slots = Projects
    BY DEF Pools, NetType, IInv, Tables, SlotsAreFunctions
  <2>2. ASSUME NEW p \in Projects
        PROVE  DOMAIN slots[p] \subseteq Addresses /\ slots[p] \in [DOMAIN slots[p] -> Owner]
    <3>1. /\ slots[p] = [a \in DOMAIN slots[p] |-> slots[p][a]]
          /\ \A a \in DOMAIN slots[p] : slots[p][a] \in Owner
      BY DEF IInv, Tables, SlotsAreFunctions
    <3> QED BY <3>1, FilledPools
  <2>3. row \in [Instances -> [net : Projects, addr : Addresses] \cup {NoRow}]
    <3>1. row = [i \in Instances |-> row[i]]
      BY DEF Mappings
    <3>2. ASSUME NEW i \in Instances, row[i] # NoRow
          PROVE  row[i] \in [net : Projects, addr : Addresses]
      BY <3>2, FilledPools DEF IInv, Tables, RowsHaveSlots
    <3> QED BY <3>1, <3>2
  <2>4. alloc \subseteq [net : Projects, inst : Instances, addr : Addresses]
    <3> SUFFICES ASSUME NEW r \in alloc
                 PROVE  r \in [net : Projects, inst : Instances, addr : Addresses]
        OBVIOUS
    <3>1. /\ r = [net |-> r.net, inst |-> r.inst, addr |-> r.addr]
          /\ r.net \in Projects /\ r.inst \in Instances
          /\ row[r.inst] = [net |-> r.net, addr |-> r.addr]
      BY DEF IInv, Tables, AllocationsHaveRows
    <3>2. row[r.inst] # NoRow /\ row[r.inst].net = r.net /\ row[r.inst].addr = r.addr
      BY <3>1, ConstantsAssumption DEF NoRow
    <3>3. r.addr \in DOMAIN slots[r.net]
      BY <3>1, <3>2 DEF IInv, Tables, RowsHaveSlots
    <3> QED BY <3>1, <3>3, FilledPools
  <2>5. tx \in [Clients -> Transactions \cup {NoTx}]
    <3>1. tx = [c \in Clients |-> tx[c]]
      BY DEF Mappings
    <3>2. ASSUME NEW c \in Clients, tx[c] # NoTx PROVE tx[c] \in Transactions
      BY <3>2, FilledPools DEF IInv, Transacted, TxType, Pools, SeedInv, Transactions
    <3> QED BY <3>1, <3>2
  <2> QED BY <2>1, <2>2, <2>3, <2>4, <2>5 DEF TypeOK
<1> QED BY <1>1, PoolsFilledAtOnce, PTL
==============================================================================
