----------------------------- MODULE MCFloatingIP ----------------------------
(* FloatingIP for TLC: two instances of one project, one of which gets the  *)
(* private address of the other when it is gone.                            *)
EXTENDS FloatingIP

CONSTANTS f1, i1, i2, p1, a1

OneIp        == {f1}
OneInstance  == {i1}
TwoInstances == {i1, i2}
OneProject   == {p1}
OneAddress   == {a1}
AllInOneProject == [i \in Instances |-> p1]
SameAddress     == [i \in Instances |-> a1]
==============================================================================
