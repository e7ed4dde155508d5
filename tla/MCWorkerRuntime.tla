-------------------------- MODULE MCWorkerRuntime --------------------------
(* WorkerRuntime with strings for results: the empty one, two that fit the *)
(* exit message and one that does not.                                     *)
EXTENDS WorkerRuntime

MCValue == {"", "short", "other", "long"}
MCLong == {"long"}
=============================================================================
