---------------------------- MODULE MCTaskQueue ------------------------------
(* TaskQueue for TLC: a few tasks, one of them unreadable. *)
EXTENDS TaskQueue

CONSTANTS t1, t2, bad

MCTasks     == {t1, t2, bad}
MCMalformed == {bad}
==============================================================================
