-------------------------- MODULE SchemaMigration --------------------------
(***************************************************************************)
(* Changes of a pool's schema: schemaPreview, schemaApply and              *)
(* schemaCorrect of schema.ts, the cancellation and the import of          *)
(* operations.ts, and what claims, reports, edits and new tasks do to the  *)
(* same pool meanwhile.                                                    *)
(*                                                                         *)
(* A request to apply reads the operation's status, then its pending       *)
(* items, then its rejected ones, each in a query of its own, and commits  *)
(* one batch at the end; a batch rechecks only what its guards say.  So a  *)
(* request is a process here, with a step for each read and one for its    *)
(* batch, and other requests run in between.  A batch is a transaction: a  *)
(* worker that dies has committed all of it or none.                       *)
(*                                                                         *)
(* Revisions only grow, so "the revision is the reviewed one" is kept as   *)
(* "untouched since the preview".  A light operation changes labels or     *)
(* adds optional columns; a heavy one makes every task's inputs follow a   *)
(* new contract, named here by its operation.                              *)
(***************************************************************************)
EXTENDS Naturals, FiniteSets

CONSTANTS
  Task, Op, Request,
  First,        \* the contract the pool began with
  Misfit,       \* tasks whose inputs do not convert as they are
  Asked,        \* what administrators ask for
  ChunkSize,    \* items of a chunk
  NULL

\* Bounds of the model, not of the program.
CONSTANTS
  MaxEdits,     \* edits of a task's inputs
  MaxDeaths     \* requests that die

Contract == Op \cup {First}

ASSUME SchemaAssumption ==
  /\ First \notin Op /\ NULL \notin Contract
  /\ Misfit \subseteq Task
  /\ Asked \subseteq {"apply", "cancel", "correct", "import"}
  /\ ChunkSize \in Nat \ {0}
  /\ MaxEdits \in Nat
  /\ MaxDeaths \in Nat

VARIABLES
  pool,      \* the row of pools: migration_status, and the active contract
  task,      \* the rows of tasks
  lease,     \* the latest attempt while it may still report, or NULL
  op,        \* the rows of admin_operations of kind schema
  item,      \* the rows of admin_operation_items
  request,   \* what a handler in progress has read and will do next
  deaths     \* how many handlers died

vars == <<pool, task, lease, op, item, request, deaths>>

-----------------------------------------------------------------------------
Row ==
  [exists : BOOLEAN,
   contract : Contract,       \* what its inputs were normalized under
   input_revision : Nat]

LeaseRow == [contract : Contract, unexpired : BOOLEAN]

OpRow ==
  [status : {"none", "preview", "applying", "complete", "cancelled"},
   heavy : BOOLEAN,           \* action.incompatible
   current : BOOLEAN]         \* pool and profiles have the reviewed revision

ItemRow ==
  [status : {"none", "pending", "applied", "rejected"},
   untouched : BOOLEAN,       \* the task has the reviewed revisions
   corrected : BOOLEAN]       \* payload_json makes the inputs convert

NoItem == [status |-> "none", untouched |-> FALSE, corrected |-> FALSE]

Stage ==
  {"idle", "pending", "rejected", "start", "light", "convert", "activate",
   "cancel", "correct", "import"}

\* The request's operation, or the contract whose fields an import has read.
RequestRow ==
  [stage : Stage, op : Contract \cup {NULL}, items : SUBSET Task, valid : SUBSET Task]

Idle == [stage |-> "idle", op |-> NULL, items |-> {}, valid |-> {}]

Tasks == {t \in Task : task[t].exists}
Effective(t) == lease[t] # NULL /\ lease[t].unexpired /\ pool.migration_status = "ready"

\* A change of a task is seen by every preview that reviewed it.
Touched(S) ==
  [o \in Op |-> [t \in Task |->
     IF t \in S THEN [item[o][t] EXCEPT !.untouched = FALSE] ELSE item[o][t]]]

\* A change of the pool or of a profile, likewise.
Outdated == [o \in Op |-> [op[o] EXCEPT !.current = FALSE]]

-----------------------------------------------------------------------------
(* The pool's other traffic.  Each of these is one guarded batch.          *)

\* claim: draining and the pool's revision are both rechecked.
Claim(t) ==
  /\ pool.migration_status = "ready"
  /\ t \in Tasks
  /\ ~Effective(t)
  /\ lease' = [lease EXCEPT ![t] = [contract |-> pool.contract, unexpired |-> TRUE]]
  /\ item' = Touched({t})
  /\ UNCHANGED <<pool, task, op, request, deaths>>

\* An expired attempt reports too, while nothing fenced it off.
Report(t) ==
  /\ pool.migration_status = "ready"
  /\ lease[t] # NULL
  /\ lease' = [lease EXCEPT ![t] = NULL]
  /\ item' = Touched({t})
  /\ UNCHANGED <<pool, task, op, request, deaths>>

Expire(t) ==
  /\ lease[t] # NULL
  /\ lease' = [lease EXCEPT ![t].unexpired = FALSE]
  /\ UNCHANGED <<pool, task, op, item, request, deaths>>

\* A new payload, normalized under the active contract; it ends the lease.
EditInputs(t) ==
  /\ pool.migration_status = "ready"
  /\ t \in Tasks
  /\ task[t].input_revision < MaxEdits
  /\ task' = [task EXCEPT ![t].contract = pool.contract, ![t].input_revision = @ + 1]
  /\ lease' = [lease EXCEPT ![t] = NULL]
  /\ item' = Touched({t})
  /\ UNCHANGED <<pool, op, request, deaths>>

\* Revocation, deletion or reset, which migrating pools allow too.
ChangeTask(t) ==
  /\ t \in Tasks
  /\ lease' = [lease EXCEPT ![t] = NULL]
  /\ item' = Touched({t})
  /\ UNCHANGED <<pool, task, op, request, deaths>>

CreateTask(t) ==
  /\ pool.migration_status = "ready"
  /\ t \notin Tasks
  /\ task' = [task EXCEPT ![t].exists = TRUE, ![t].contract = pool.contract]
  /\ UNCHANGED <<pool, lease, op, item, request, deaths>>

UpdateConfiguration ==
  /\ op' = Outdated
  /\ UNCHANGED <<pool, task, lease, item, request, deaths>>

-----------------------------------------------------------------------------
(* Preview: the revisions it reviews are read in the batch that stores     *)
(* them, which also rechecks the pool's revision.                          *)

Preview(o, heavy) ==
  /\ op[o].status = "none"
  /\ pool.migration_status = "ready"
  /\ op' = [op EXCEPT ![o] = [status |-> "preview", heavy |-> heavy, current |-> TRUE]]
  /\ item' = [item EXCEPT ![o] = [t \in Task |->
       IF heavy /\ t \in Tasks
       THEN [status |-> "pending", untouched |-> TRUE, corrected |-> FALSE]
       ELSE NoItem]]
  /\ UNCHANGED <<pool, task, lease, request, deaths>>

-----------------------------------------------------------------------------
(* schemaApply, read by read. *)

Has(o, status) == {t \in Task : item[o][t].status = status}

Goes(r, stage, o, items, valid) ==
  request' = [request EXCEPT
    ![r] = [stage |-> stage, op |-> o, items |-> items, valid |-> valid]]

Ends(r) == request' = [request EXCEPT ![r] = Idle]

\* A cancelled or a finished operation is answered at once.
Apply(r, o) ==
  /\ "apply" \in Asked
  /\ request[r] = Idle
  /\ \/ /\ op[o].status = "preview"
        /\ Goes(r, IF op[o].heavy THEN "start" ELSE "light", o, {}, {})
     \/ /\ op[o].status = "applying"
        /\ Goes(r, "pending", o, {}, {})
  /\ UNCHANGED <<pool, task, lease, op, item, deaths>>

\* Whether an item converts depends on its payload and on inputs that no
\* edit changes while the pool migrates.  Any chunk may be read: the order of
\* the ordinals is left open.
ReadPending(r) ==
  LET o == request[r].op
      pending == Has(o, "pending")
  IN /\ request[r].stage = "pending"
     /\ IF pending = {}
        THEN Goes(r, "rejected", o, {}, {})
        ELSE \E S \in SUBSET pending :
               /\ Cardinality(S) = IF Cardinality(pending) < ChunkSize
                                   THEN Cardinality(pending) ELSE ChunkSize
               /\ Goes(r, "convert", o, S,
                       {t \in S : t \notin Misfit \/ item[o][t].corrected})
     /\ UNCHANGED <<pool, task, lease, op, item, deaths>>

\* Mutation: rejected rows do not keep the pool closed.
ReadRejectedAnyhow(r) ==
  /\ request[r].stage = "rejected"
  /\ Goes(r, "activate", request[r].op, {}, {})
  /\ UNCHANGED <<pool, task, lease, op, item, deaths>>

\* Rejected rows are reported to the administrator and nothing else is done.
ReadRejected(r) ==
  /\ request[r].stage = "rejected"
  /\ IF Has(request[r].op, "rejected") = {}
     THEN Goes(r, "activate", request[r].op, {}, {})
     ELSE Ends(r)
  /\ UNCHANGED <<pool, task, lease, op, item, deaths>>

ReviewedButNewTasks(o) ==    \* mutation
  /\ op[o].current
  /\ \A t \in Tasks : item[o][t].status # "none" => item[o][t].untouched

ReviewedTasksOnly(o) == \A t \in Tasks : item[o][t].untouched    \* mutation

\* The guards on the revisions of the pool, its profiles and its tasks.
Reviewed(o) ==
  /\ op[o].current
  /\ \A t \in Tasks : item[o][t].untouched

\* The pool closes; live leases must have been given up by the request.
Start(r, revoke) ==
  LET o == request[r].op
  IN /\ request[r].stage = "start"
     /\ Reviewed(o)
     /\ revoke \/ \A t \in Task : ~Effective(t)
     /\ pool' = [pool EXCEPT !.migration_status = "migrating"]
     /\ op' = [Outdated EXCEPT ![o].status = "applying"]
     /\ Ends(r)
     /\ UNCHANGED <<task, lease, item, deaths>>

StillListed(o, S) == \A t \in S : item[o][t].status # "none"    \* mutation

StillPending(o, S) == \A t \in S : item[o][t].status = "pending"

LeaseKept(S) == lease    \* mutation

Unleased(S) == [t \in Task |-> IF t \in S THEN NULL ELSE lease[t]]

Convert(r) ==
  LET o == request[r].op
      valid == request[r].valid
  IN /\ request[r].stage = "convert"
     /\ StillPending(o, request[r].items)
     /\ task' = [t \in Task |->
          IF t \in valid
          THEN [task[t] EXCEPT !.contract = o, !.input_revision = @ + 1]
          ELSE task[t]]
     /\ lease' = Unleased(valid)
     /\ item' = [Touched(valid) EXCEPT ![o] = [t \in Task |->
          CASE t \in valid -> [@[t] EXCEPT !.status = "applied"]
            [] t \in request[r].items \ valid -> [@[t] EXCEPT !.status = "rejected"]
            [] OTHER -> @[t]]]
     /\ Ends(r)
     /\ UNCHANGED <<pool, op, deaths>>

\* Nothing is rechecked: not the items, not the operation, not the pool.
Activate(r) ==
  /\ request[r].stage = "activate"
  /\ pool' = [migration_status |-> "ready", contract |-> request[r].op]
  /\ op' = [Outdated EXCEPT ![request[r].op].status = "complete"]
  /\ Ends(r)
  /\ UNCHANGED <<task, lease, item, deaths>>

\* A light operation goes from preview to complete in one batch.
ActivateLight(r) ==
  LET o == request[r].op
  IN /\ request[r].stage = "light"
     /\ op[o].current
     /\ op' = [Outdated EXCEPT ![o].status = "complete"]
     /\ Ends(r)
     /\ pool' = [pool EXCEPT !.migration_status = "ready"]
     /\ UNCHANGED <<task, lease, item, deaths>>

\* A guard fails: CONFIG_CHANGED, and the batch is rolled back.  An import's
\* is on any change of the pool's row since it was read; or all rows are bad.
Refused(r) ==
  LET o == request[r].op
  IN /\ \/ /\ request[r].stage = "start"
           /\ ~Reviewed(o) \/ \E t \in Task : Effective(t)
        \/ /\ request[r].stage = "light"
           /\ ~op[o].current
        \/ /\ request[r].stage = "convert"
           /\ ~StillPending(o, request[r].items)
        \/ request[r].stage = "import"
     /\ Ends(r)
     /\ UNCHANGED <<pool, task, lease, op, item, deaths>>

\* The worker dies, or the request is cut off, before its batch.
Die(r) ==
  /\ request[r] # Idle
  /\ deaths < MaxDeaths
  /\ deaths' = deaths + 1
  /\ Ends(r)
  /\ UNCHANGED <<pool, task, lease, op, item>>

-----------------------------------------------------------------------------
(* Cancellation and correction: a read of the status, then a batch. *)

CancellableAny(o) == op[o].status # "none"    \* mutation

Cancellable(o) == op[o].status = "preview"

AskCancel(r, o) ==
  /\ "cancel" \in Asked
  /\ request[r] = Idle
  /\ Cancellable(o)
  /\ Goes(r, "cancel", o, {}, {})
  /\ UNCHANGED <<pool, task, lease, op, item, deaths>>

Cancel(r) ==
  /\ request[r].stage = "cancel"
  /\ op' = [op EXCEPT ![request[r].op].status = "cancelled"]
  /\ Ends(r)
  /\ UNCHANGED <<pool, task, lease, item, deaths>>

AskCorrect(r, o, t) ==
  /\ "correct" \in Asked
  /\ request[r] = Idle
  /\ op[o].status = "applying"
  /\ Goes(r, "correct", o, {t}, {})
  /\ UNCHANGED <<pool, task, lease, op, item, deaths>>

CorrectedAny(i, good) ==    \* mutation
  [i EXCEPT !.status = "pending", !.corrected = good]

StillRejected(i, good) ==    \* mutation
  IF i.status = "rejected" THEN [i EXCEPT !.corrected = good] ELSE i

Corrected(i, good) ==
  IF i.status = "rejected"
  THEN [i EXCEPT !.status = "pending", !.corrected = good]
  ELSE i

\* A correction may leave an optional field out, and so its old value in.
Correct(r, good) ==
  LET o == request[r].op
  IN /\ request[r].stage = "correct"
     /\ item' = [item EXCEPT ![o] = [t \in Task |->
                   IF t \in request[r].items THEN Corrected(@[t], good) ELSE @[t]]]
     /\ Ends(r)
     /\ UNCHANGED <<pool, task, lease, op, deaths>>

-----------------------------------------------------------------------------
(* A chunk of an import or of a bulk edit: applyOperation reads the fields  *)
(* in force, then the pool's row, and the batch guards that row, not the   *)
(* fields.                                                                 *)

ReadFields(r) ==
  /\ "import" \in Asked
  /\ request[r] = Idle
  /\ Goes(r, "import", pool.contract, {}, {})
  /\ UNCHANGED <<pool, task, lease, op, item, deaths>>

\* The rows that normalize under the fields that were read make new tasks, or
\* edits of those there are.  That a task is as it was reviewed only refuses,
\* and is left open as it is for EditInputs.
Import(r, S) ==
  /\ request[r].stage = "import"
  /\ pool.migration_status = "ready"
  /\ S # {}
  /\ \A t \in S \cap Tasks : task[t].input_revision < MaxEdits
  /\ task' = [t \in Task |->
       IF t \in S
       THEN [exists |-> TRUE, contract |-> request[r].op,
             input_revision |-> task[t].input_revision + IF t \in Tasks THEN 1 ELSE 0]
       ELSE task[t]]
  /\ lease' = Unleased(S)
  /\ item' = Touched(S)
  /\ Ends(r)
  /\ UNCHANGED <<pool, op, deaths>>

-----------------------------------------------------------------------------
Init ==
  /\ pool = [migration_status |-> "ready", contract |-> First]
  /\ \E S \in SUBSET Task :
       task = [t \in Task |->
                 [exists |-> t \in S, contract |-> First, input_revision |-> 0]]
  /\ lease = [t \in Task |-> NULL]
  /\ op = [o \in Op |-> [status |-> "none", heavy |-> FALSE, current |-> FALSE]]
  /\ item = [o \in Op |-> [t \in Task |-> NoItem]]
  /\ request = [r \in Request |-> Idle]
  /\ deaths = 0

Next ==
  \/ \E t \in Task : Claim(t)
  \/ \E t \in Task : Report(t)
  \/ \E t \in Task : Expire(t)
  \/ \E t \in Task : EditInputs(t)
  \/ \E t \in Task : ChangeTask(t)
  \/ \E t \in Task : CreateTask(t)
  \/ UpdateConfiguration
  \/ \E o \in Op, heavy \in BOOLEAN : Preview(o, heavy)
  \/ \E r \in Request, o \in Op : Apply(r, o)
  \/ \E r \in Request : ReadPending(r)
  \/ \E r \in Request : ReadRejected(r)
  \/ \E r \in Request, revoke \in BOOLEAN : Start(r, revoke)
  \/ \E r \in Request : Convert(r)
  \/ \E r \in Request : Activate(r)
  \/ \E r \in Request : ActivateLight(r)
  \/ \E r \in Request : Refused(r)
  \/ \E r \in Request : Die(r)
  \/ \E r \in Request, o \in Op : AskCancel(r, o)
  \/ \E r \in Request : Cancel(r)
  \/ \E r \in Request, o \in Op, t \in Task : AskCorrect(r, o, t)
  \/ \E r \in Request, good \in BOOLEAN : Correct(r, good)
  \/ \E r \in Request : ReadFields(r)
  \/ \E r \in Request, S \in SUBSET Task : Import(r, S)

Spec == Init /\ [][Next]_vars

\* What a request does by itself once it was asked.
Step(r) ==
  \/ ReadPending(r)
  \/ ReadRejected(r)
  \/ \E revoke \in BOOLEAN : Start(r, revoke)
  \/ Convert(r)
  \/ Activate(r)
  \/ ActivateLight(r)
  \/ Refused(r)
  \/ Cancel(r)
  \/ \E good \in BOOLEAN : Correct(r, good)
  \/ \E S \in SUBSET Task : Import(r, S)

CorrectBadly ==
  \E o \in Op, t \in Task :
    /\ item[o][t].status = "rejected"
    /\ item'[o][t].status = "pending" /\ ~item'[o][t].corrected

\* A request that does not die ends, and administrators do not give up: they
\* resume a closed pool and correct its misfits, at last to what converts.
FairSpec ==
  /\ Spec
  /\ \A r \in Request : WF_vars(Step(r))
  /\ \A o \in Op : SF_vars(\E r \in Request : Apply(r, o))
  /\ \A o \in Op, t \in Misfit : SF_vars(\E r \in Request : AskCorrect(r, o, t))
  /\ <>[][~CorrectBadly]_vars

-----------------------------------------------------------------------------
(* Properties. *)

\* The columns' types, and the foreign key of items.
TypeOK ==
  /\ pool \in [migration_status : {"ready", "migrating"}, contract : Contract]
  /\ task \in [Task -> Row]
  /\ lease \in [Task -> LeaseRow \cup {NULL}]
  /\ op \in [Op -> OpRow]
  /\ item \in [Op -> [Task -> ItemRow]]
  /\ request \in [Request -> RequestRow]
  /\ deaths \in 0..MaxDeaths
  /\ \A o \in Op, t \in Task : item[o][t] # NoItem => op[o].heavy /\ task[t].exists

\* The new contract is active only once every task's inputs follow it: an
\* open pool has no half-converted task for a claim to hand out.
NoHalfConverted ==
  pool.migration_status = "ready" => \A t \in Tasks : task[t].contract = pool.contract

\* In an open pool an attempt may report only under the contract that is
\* active: whatever was leased under an earlier one has been fenced off.
LeasesFollowContract ==
  pool.migration_status = "ready" =>
    \A t \in Task : lease[t] # NULL => lease[t].contract = pool.contract

\* A closed pool can always be resumed: one operation is applying, and every
\* task of the pool is among its items.
Resumable ==
  pool.migration_status = "migrating" =>
    \E o \in Op : op[o].status = "applying" /\ \A t \in Tasks : item[o][t].status # "none"

\* The pool stays closed until the migration in progress is over.
ClosedWhileApplying ==
  (\E o \in Op : op[o].status = "applying") => pool.migration_status = "migrating"

\* While the pool is closed a converted item stays converted and its task's
\* inputs do not change again: no task is converted twice, whichever chunks
\* of two requests read the same items and whatever is corrected meanwhile.
ConvertedOnce ==
  [][\A o \in Op, t \in Task :
       item[o][t].status = "applied" /\ pool.migration_status = "migrating"
         => /\ item'[o][t].status = "applied"
            /\ op[o].status = "applying" =>
                 task'[t].input_revision = task[t].input_revision]_vars

\* A closed pool opens again if its administrators keep at it, whatever rows
\* are rejected and whichever of their requests die.
MigrationEnds ==
  pool.migration_status = "migrating" ~> pool.migration_status = "ready"

-----------------------------------------------------------------------------
(* The promise of PoolBarrier, kept by these tables.                       *)

Applying == {o \in Op : op[o].status = "applying"}

\* The contract of the migration in progress.
Target ==
  IF pool.migration_status = "ready" THEN NULL ELSE CHOOSE o \in Applying : TRUE

InputsFollow(t) == IF task[t].exists THEN task[t].contract ELSE NULL

LeasedUnder(t) == IF lease[t] = NULL THEN NULL ELSE lease[t].contract

Barrier == INSTANCE PoolBarrier WITH
  status <- pool.migration_status, contract <- pool.contract, target <- Target,
  inputs <- [t \in Task |-> InputsFollow(t)], leased <- [t \in Task |-> LeasedUnder(t)]

\* Every step of the tables is a step of the barrier, or none: nothing enters a
\* closed pool, every task crosses once, and the pool opens behind the last.
KeepsBarrier == Barrier!Spec
=============================================================================
