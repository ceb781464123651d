----------------------------- MODULE MCTaskTable -----------------------------
(***************************************************************************)
(* Instances of the task table for TLC.                                    *)
(***************************************************************************)
EXTENDS TaskTable, TLC

CONSTANTS u1, u2   \* columns

TableValues == <<u1 :> Null @@ u2 :> 1, u1 :> 2 @@ u2 :> Null, u1 :> Null @@ u2 :> 1>>

TableSorts ==
  {<<[column |-> u1, descending |-> TRUE]>>,
   <<[column |-> u2, descending |-> FALSE], [column |-> u1, descending |-> FALSE]>>}
=============================================================================
