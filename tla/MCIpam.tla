-------------------------------- MODULE MCIpam -------------------------------
(* Ipam for TLC: addresses of 4 bits instead of 32, prefixes of 1 and 2 bits *)
(* (and, to be refused, of 0, 3 and 4), any gateway.                         *)
EXTENDS Ipam, TLC

CONSTANTS p1, p2, i1, i2, i3, c1, c2, c3

NoProject    == {}
OneProject   == {p1}
TwoProjects  == {p1, p2}
OneInstance  == {i1}
ThreeInstances == {i1, i2, i3}
OneClient    == {c1}
ThreeClients == {c1, c2, c3}

AllConfigs  == [addr : Addresses, bits : 0..Width, gw : Addresses]
\* Two hosts, the gateway one of them or not.
TwoConfigs  == {[addr |-> 4, bits |-> 2, gw |-> 5], [addr |-> 4, bits |-> 2, gw |-> 0]}
\* Two hosts for three instances, in a network of before the migration.
OldConfig   == [addr |-> 8, bits |-> 2, gw |-> 11]

ClientSymmetry == Permutations(Clients) \cup Permutations(Instances)
==============================================================================
