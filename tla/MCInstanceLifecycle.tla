------------------------ MODULE MCInstanceLifecycle --------------------------
(* InstanceLifecycle for TLC: one instance and its snapshots, two clients. *)
EXTENDS InstanceLifecycle

CONSTANTS i1, s1, c1, c2

MCInstances == {i1}
MCSnapshots == {s1}
MCClients   == {c1, c2}
OneClient   == {c1}
NoInstance  == {}
CreateRequests   == {"create", "snapshot_create"} \cup Lifecycle
RaceRequests     == {"stop", "destroy"} \cup SnapTypes
DestroyRequests  == {"destroy"}
SnapshotRequests == {"destroy"} \cup SnapTypes
==============================================================================
