-------------------------------- MODULE Ipam --------------------------------
(***************************************************************************)
(* IP address management: the addresses of a project's network, and the    *)
(* transactions that give them to new instances                            *)
(* (internal/repository/ipam.go, instance_ipam.go, repository.go,          *)
(* state_sync.go, migrations/0002_ipam.sql).                               *)
(*                                                                         *)
(* A transaction is open from Begin to Record, one statement at a time;    *)
(* others see what it wrote when Record has committed it.  Until then the  *)
(* address it claimed is locked, and skipped by the others, and addresses  *)
(* it has inserted keep others from inserting the same ones.  A network is *)
(* named by its project: the code makes one per project, the default.      *)
(***************************************************************************)
EXTENDS Integers, FiniteSets

CONSTANTS
  Projects, Instances, Clients,
  Width,       \* bits of an address: 32 in the code
  MinBits,     \* shortest prefix that is given out: 8 in the code
  Configs,     \* INSTANCE_NETWORK_CIDR and _GATEWAY an API may be started with
  Legacy,      \* projects from before migration 0002: a network without slots
  LegacyConfig,
  MaskInText,  \* inet::text of a host carries /32, as PostgreSQL writes it
  None

Addresses == 0 .. 2^Width - 1
NoAddress == -1
Config    == [addr : Addresses, bits : 0..Width, gw : Addresses]

ASSUME ConstantsAssumption ==
  /\ Width \in Nat /\ MinBits \in Nat
  /\ Configs \subseteq Config /\ LegacyConfig \in Config
  /\ Legacy \subseteq Projects
  /\ MaskInText \in BOOLEAN
  /\ None \notin Instances \cup Projects

\* What ^ is, for the provers, which take it for any function.
ASSUME PowersOfTwo == \A n \in 0..Width : 2^(n + 1) = 2 * 2^n

VARIABLES
  net,    \* net[p]: the network of a project, a set of at most one Config
  slots,  \* slots[p]: the rows of network_ip_slots, address to owner
  row,    \* row[i]: network and address of the instances row
  alloc,  \* the rows of ip_allocations
  tx      \* tx[c]: the open transaction of client c

vars == <<net, slots, row, alloc, tx>>

NoRow == [net |-> None, addr |-> NoAddress]
Tx(step, p, i, a, S) == [step |-> step, net |-> p, inst |-> i, addr |-> a, seeds |-> S]
NoTx  == Tx("idle", None, None, NoAddress, {})

Owner == Instances \cup {None}
Steps == {"seed", "claim", "record"}
Transactions ==
  [step : Steps, net : Projects, inst : Instances,
   addr : Addresses \cup {NoAddress}, seeds : SUBSET Addresses]

TypeOK ==
  /\ net \in [Projects -> SUBSET Config]
  /\ DOMAIN slots = Projects
  /\ \A p \in Projects : /\ DOMAIN slots[p] \subseteq Addresses
                          /\ slots[p] \in [DOMAIN slots[p] -> Owner]
  /\ row \in [Instances -> [net : Projects, addr : Addresses] \cup {NoRow}]
  /\ alloc \subseteq [net : Projects, inst : Instances, addr : Addresses]
  /\ tx \in [Clients -> Transactions \cup {NoTx}]

NoSlots == [a \in {} |-> None]

Init ==
  /\ net = [p \in Projects |-> IF p \in Legacy THEN {LegacyConfig} ELSE {}]
  /\ slots = [p \in Projects |-> NoSlots]
  /\ row = [i \in Instances |-> NoRow]
  /\ alloc = {}
  /\ tx = [c \in Clients |-> NoTx]

------------------------------------------------------------------------------
\* Addresses of a prefix

Size(bits)      == 2 ^ (Width - bits)
Masked(a, bits) == a - (a % Size(bits))

\* Mutant: the broadcast address is counted as a host.
MutHostCount(bits) == Size(bits) - 1

\* Mutant: the prefix is taken for one a bit shorter.
MutHostCountWide(bits) == 2 * Size(bits) - 2

HostCount(bits) == Size(bits) - 2

\* /8 to /30
Supported(cfg) == cfg.bits >= MinBits /\ cfg.bits <= Width - 2

usableIPv4Hosts(cfg) ==
  {Masked(cfg.addr, cfg.bits) + k : k \in 1..HostCount(cfg.bits)} \ {cfg.gw}

\* What a CIDR column takes: no bits set to the right of the mask.
IsCidr(cfg) == cfg.addr = Masked(cfg.addr, cfg.bits)

Seeded(known, hosts) ==
  [a \in DOMAIN known \cup hosts |-> IF a \in DOMAIN known THEN known[a] ELSE None]

CreateProject(p) ==
  /\ net[p] = {}
  /\ \E cfg \in Configs :
       /\ IsCidr(cfg) /\ Supported(cfg) /\ usableIPv4Hosts(cfg) # {}
       /\ net' = [net EXCEPT ![p] = {cfg}]
       /\ slots' = [slots EXCEPT ![p] = Seeded(NoSlots, usableIPv4Hosts(cfg))]
  /\ UNCHANGED <<row, alloc, tx>>

------------------------------------------------------------------------------
\* CreateInstanceWithIPAM

Open(c)    == tx[c].step # "idle"
Go(c, t)   == tx' = [tx EXCEPT ![c] = t]
RolledBack(c) == Go(c, NoTx)

\* Network, gateway and count are read; an id is never used twice at a time.
Begin(c, p, i) ==
  /\ ~Open(c) /\ net[p] # {}
  /\ row[i] = NoRow /\ \A d \in Clients : tx[d].inst # i
  /\ Go(c, Tx(IF DOMAIN slots[p] = {} THEN "seed" ELSE "claim", p, i, NoAddress, {}))
  /\ UNCHANGED <<net, slots, row, alloc>>

\* An insert of the same key by another open transaction is waited for.
SeedNetworkIPSlots(c) ==
  LET p == tx[c].net  i == tx[c].inst
  IN  /\ tx[c].step = "seed"
      /\ \A d \in Clients \ {c} : tx[d].net = p => tx[d].seeds = {}
      /\ \E cfg \in net[p] :
           IF MaskInText \/ ~Supported(cfg) \/ usableIPv4Hosts(cfg) = {}
           THEN RolledBack(c)
           ELSE Go(c, Tx("claim", p, i, NoAddress, usableIPv4Hosts(cfg) \ DOMAIN slots[p]))
      /\ UNCHANGED <<net, slots, row, alloc>>

\* Mutant: SELECT without FOR UPDATE SKIP LOCKED.
MutHeld(p) == {}
\* Addresses of a network that open transactions have claimed.
Held(p) == {tx[d].addr : d \in {e \in Clients : tx[e].net = p}}

Free(p) == {a \in DOMAIN slots[p] : slots[p][a] = None}
\* The rows the SELECT of c finds.
Claimable(c) == (Free(tx[c].net) \cup tx[c].seeds) \ Held(tx[c].net)

\* The first free address; its text is parsed as an address without a mask.
ClaimNextIPSlot(c) ==
  /\ tx[c].step = "claim"
  /\ IF Claimable(c) = {} \/ MaskInText
     THEN RolledBack(c)
     ELSE \E a \in Claimable(c) :
            /\ \A b \in Claimable(c) : a <= b
            /\ Go(c, Tx("record", tx[c].net, tx[c].inst, a, tx[c].seeds))
  /\ UNCHANGED <<net, slots, row, alloc>>

\* The allocation is inserted (two unique keys) and all is committed.
Record(c) ==
  LET p == tx[c].net  i == tx[c].inst  a == tx[c].addr
  IN  /\ tx[c].step = "record"
      /\ IF \E r \in alloc : (r.net = p /\ r.addr = a) \/ r.inst = i
         THEN UNCHANGED <<slots, row, alloc>>
         ELSE /\ slots' = [slots EXCEPT ![p] =
                   [Seeded(@, tx[c].seeds) EXCEPT ![a] = i]]
              /\ row' = [row EXCEPT ![i] = [net |-> p, addr |-> a]]
              /\ alloc' = alloc \cup {[net |-> p, inst |-> i, addr |-> a]}
      /\ RolledBack(c)
      /\ UNCHANGED net

\* A statement fails (the name is taken, the context is cancelled, the
\* connection is lost): the deferred rollback.
Rollback(c) ==
  /\ Open(c)
  /\ RolledBack(c)
  /\ UNCHANGED <<net, slots, row, alloc>>

------------------------------------------------------------------------------
\* FinalizeInstanceDestroy

\* Mutant: the slot keeps its owner.
MutOrphaned(i) == slots
\* ON DELETE SET NULL
Orphaned(i) == [p \in Projects |->
  [a \in DOMAIN slots[p] |-> IF slots[p][a] = i THEN None ELSE slots[p][a]]]

DeleteInstance(i) ==
  /\ row[i] # NoRow
  /\ row' = [row EXCEPT ![i] = NoRow]
  /\ slots' = Orphaned(i)
  /\ alloc' = {r \in alloc : r.inst # i}
  /\ UNCHANGED <<net, tx>>

------------------------------------------------------------------------------
Next ==
  \/ \E p \in Projects : CreateProject(p)
  \/ \E i \in Instances : DeleteInstance(i)
  \/ \E c \in Clients :
       \/ \E p \in Projects, i \in Instances : Begin(c, p, i)
       \/ SeedNetworkIPSlots(c) \/ ClaimNextIPSlot(c) \/ Record(c) \/ Rollback(c)

Spec == Init /\ [][Next]_vars

------------------------------------------------------------------------------
(***************************************************************************)
(* migrations/0002_ipam.sql: ip_allocations is the "authoritative record   *)
(* of which instance owns which IP within a network" - the pool, the       *)
(* instance and the record say the same, hence no two instances of a       *)
(* network have one address, whatever transactions interleave, roll back   *)
(* or delete.                                                              *)
(***************************************************************************)
TablesAgree ==
  \A p \in Projects, i \in Instances, a \in Addresses :
    LET owned == a \in DOMAIN slots[p] /\ slots[p][a] = i
    IN  /\ owned <=> row[i] = [net |-> p, addr |-> a]
        /\ owned <=> [net |-> p, inst |-> i, addr |-> a] \in alloc

(***************************************************************************)
(* Two transactions never hold one address, nor one that an instance has:  *)
(* SKIP LOCKED decides, not the unique keys of ip_allocations, which would *)
(* turn a collision into an error of the request.                          *)
(***************************************************************************)
NoDoubleClaim ==
  \A c \in Clients : tx[c].step = "record" =>
    /\ \A d \in Clients \ {c} :
         tx[d].step = "record" /\ tx[d].net = tx[c].net => tx[d].addr # tx[c].addr
    /\ \A r \in alloc : r.net = tx[c].net => r.addr # tx[c].addr

(***************************************************************************)
(* The pool of a network, whenever it was filled and by whom, is every     *)
(* address of its prefix but the first, the last and the gateway (which    *)
(* may lie outside, or be one of them).                                    *)
(***************************************************************************)
PoolIsExact ==
  \A p \in Projects : \A cfg \in net[p] :
    DOMAIN slots[p] # {} =>
      DOMAIN slots[p] =
        {a \in Addresses :
           /\ a \div Size(cfg.bits) = cfg.addr \div Size(cfg.bits)
           /\ a % Size(cfg.bits) \notin {0, Size(cfg.bits) - 1}
           /\ a # cfg.gw}

(***************************************************************************)
(* ipam.go:159: "ClaimNextIPSlot reserves the next free IP" - when there   *)
(* is one that is not locked.                                              *)
(***************************************************************************)
ClaimReservesTheNextFree ==
  [][\A c \in Clients :
       ClaimNextIPSlot(c) /\ Claimable(c) # {} => tx'[c].addr \in Claimable(c)]_vars
==============================================================================
