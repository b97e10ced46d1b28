------------------------------ MODULE MCMetrics ------------------------------
(* Metrics for TLC: two instances.                                           *)
EXTENDS Metrics

CONSTANTS i1, i2

TwoInstances == {i1, i2}
==============================================================================
