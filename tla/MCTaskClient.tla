---------------------------- MODULE MCTaskClient ----------------------------
(* Instances of TaskClient for model checking. *)
EXTENDS TaskClient

CONSTANTS d1, d2, a, b, p, q
=============================================================================
