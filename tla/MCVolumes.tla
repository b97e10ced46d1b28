------------------------------ MODULE MCVolumes ------------------------------
(* Volumes for TLC: two clients that attach, one of which also detaches and  *)
(* the other creates and deletes volumes, two volumes that compete for one   *)
(* letter, and two instances, one of which is stopped and destroyed.         *)
EXTENDS Volumes

CONSTANTS v1, v2, i1, i2, c1, c2

OneVolume    == {v1}
TwoVolumes   == {v1, v2}
OneInstance  == {i1}
TwoInstances == {i1, i2}
OneClient    == {c1}
OtherClient  == {c2}
TwoClients   == {c1, c2}
==============================================================================
