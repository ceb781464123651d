-------------------------- MODULE MCSchemaMigration --------------------------
(* Instances of SchemaMigration for model checking. *)
EXTENDS SchemaMigration, TLC

CONSTANTS t1, t2, o1, o2, r1, r2
=============================================================================
