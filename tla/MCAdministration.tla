-------------------------- MODULE MCAdministration --------------------------
(***************************************************************************)
(* Instances of the administrator's components for TLC.  They share no     *)
(* table in these models, so one run checks them side by side: `part`      *)
(* names the component that runs in a behaviour, the others rest in their  *)
(* first state.                                                            *)
(***************************************************************************)
EXTENDS BulkOperations, Configuration, SortIndexes, PortableImport, Exports, MCTaskTable

\* One part runs in a behaviour, so the parts share their model values.
CONSTANTS
  m1, m2,      \* tasks of an operation, indexes and tabs
  w1,          \* the worker of an operation
  o1, o2,      \* browsers of an operation, administrators and index editors
  f1, f2, p1, q1, q2, k1, k2, v1,  \* rows and claimant of the configuration
  g1, g2, c1, c2   \* fields and field keys of the indexes

VARIABLE part

Bulk == {[kind |-> "revoke_edit", revoke |-> TRUE, scope |-> "all"]}

PortableFile == <<1, 2, 2>>

-----------------------------------------------------------------------------
AdministrationVars == <<part, bulkVars, configurationVars, indexVars, portableVars, exportVars, tableVars>>

\* A component that does not run is in a state of its own.
BulkRests ==
  /\ rows = [r \in Row |-> Nothing] /\ op = Nothing /\ items = [o \in Ordinal |-> Nothing]
  /\ contract = [revision |-> 1, enabled |-> TRUE, ready |-> TRUE]
  /\ browser = [b \in Browser |-> Idle]
  /\ shown = [o \in Ordinal |-> Nothing] /\ ended = {} /\ effects = [o \in Ordinal |-> 0] /\ changes = 0

ConfigurationRests ==
  /\ families = [f \in Family |-> Absent] /\ pools = [p \in Pool |-> Absent]
  /\ profiles = [q \in Profile |-> Absent] /\ keys = [k \in Key |-> Absent]
  /\ defaultsRevision = 1 /\ tasksOf = {} /\ attemptsOf = {} /\ requestsOf = {} /\ commits = 0
  /\ admin = [a \in Administrator |-> Quiet] /\ claimant = [w \in Claimant |-> Quiet]

IndexRests ==
  /\ registry = [x \in Index |-> Unbuilt] /\ physical = registry
  /\ pool = [revision |-> 1, there |-> TRUE]
  /\ fields = [f \in Field |-> [key |-> IF f = g1 THEN c1 ELSE c2, scalar |-> TRUE]] /\ target = Unbuilt
  /\ editor = [e \in Editor |-> Free] /\ used = {} /\ steps = 0

ExportRests ==
  /\ download = Start("tasks") /\ attempts = [t \in ExportTask |-> 0] /\ records = {}
  /\ selection = [history |-> FALSE, order |-> <<>>, left |-> {}, expired |-> TRUE]

TableRests ==
  /\ stored_tasks = Initial /\ updates = 0
  /\ screen = LoadPage(NewScreen(<<[column |-> u1, descending |-> TRUE]>>, TRUE), FALSE)

AdministrationInit ==
  /\ part \in {"bulk", "configuration", "indexes", "portable", "exports", "table"}
  /\ IF part = "bulk" THEN BulkInit ELSE BulkRests
  /\ IF part = "configuration" THEN ConfigurationInit ELSE ConfigurationRests
  /\ IF part = "indexes" THEN IndexInit ELSE IndexRests
  /\ PortableInit
  /\ IF part = "exports" THEN ExportInit ELSE ExportRests
  /\ IF part = "table" THEN TableInit ELSE TableRests

AdministrationNext ==
  /\ UNCHANGED part
  /\ \/ /\ part = "bulk" /\ BulkNext
        /\ UNCHANGED <<configurationVars, indexVars, portableVars, exportVars, tableVars>>
     \/ /\ part = "configuration" /\ ConfigurationNext
        /\ UNCHANGED <<bulkVars, indexVars, portableVars, exportVars, tableVars>>
     \/ /\ part = "indexes" /\ IndexNext
        /\ UNCHANGED <<bulkVars, configurationVars, portableVars, exportVars, tableVars>>
     \/ /\ part = "portable" /\ PortableNext
        /\ UNCHANGED <<bulkVars, configurationVars, indexVars, exportVars, tableVars>>
     \/ /\ part = "exports" /\ ExportNext
        /\ UNCHANGED <<bulkVars, configurationVars, indexVars, portableVars, tableVars>>
     \/ /\ part = "table" /\ TableNext
        /\ UNCHANGED <<bulkVars, configurationVars, indexVars, portableVars, exportVars>>

AdministrationSpec == AdministrationInit /\ [][AdministrationNext]_AdministrationVars

\* Every table and every request of the administrator's components has its type.
AdministrationTypeOK ==
  BulkTypeOK /\ ConfigurationTypeOK /\ IndexTypeOK /\ PortableTypeOK /\ TableTypeOK

\* Bounds of the model: an import of tasks meets one step of others and a
\* review two; while two chunks of a file are on their way it has one preview.
Bounded ==
  /\ op # Nothing /\ op.action.kind = "import" => changes < MaxChanges
  /\ Len(imports) + Cardinality(wire) < MaxPreviews + MaxFlight

AdministrationSymmetry ==
  Permutations({m1, m2}) \cup Permutations({o1, o2})
=============================================================================
