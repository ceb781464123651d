--------------------------- MODULE BulkOperations ---------------------------
(***************************************************************************)
(* One reviewed operation of operations.ts on the tasks of a pool: a bulk  *)
(* action or pasted patches on frozen tasks, or an import staged in chunks *)
(* and then applied.  Several browsers stage, review, apply and cancel it, *)
(* while workers and single edits change the same tasks.                   *)
(*                                                                         *)
(* Every commit is one batch with the guards of its receipt (see Receipts),*)
(* so a browser here is a sequence of reads and one guarded step.          *)
(***************************************************************************)
EXTENDS Integers, FiniteSets

CONSTANTS
  Row,        \* public ids of tasks, present or to be imported
  Holder,     \* workers
  Browser,    \* senders of administrators' requests
  Chosen,     \* bulk actions: a kind, whether it revokes leases, a reset's scope
  Mode,       \* modes of an import
  MaxChanges, \* steps of workers, of single edits, of the pool and of time
  Limit,      \* items of one chunk, at most; a request asks for its number
  Nothing

ASSUME BulkAssumption ==
  /\ Chosen \subseteq [kind : {"disable", "edit", "duplicate", "delete", "restore", "revoke",
                              "reset", "revoke_edit", "reset_edit"},
                      revoke : BOOLEAN, scope : {"profile", "all"}]
  /\ Mode \subseteq {"add", "update", "upsert", "legacy"}
  /\ MaxChanges \in Nat /\ Limit \in Nat \ {0}
  /\ IsFiniteSet(Row)

VARIABLES
  rows,       \* tasks, each by its public id
  op,         \* the operation, of admin_operations
  items,      \* its frozen items, of admin_operation_items, by ordinal
  contract,   \* the pool: config_revision, enabled, migration_status = 'ready'
  browser,    \* what each browser's request in progress has read
  shown,      \* history: the lease a browser showed for an ordinal at review,
              \* by its generation
  ended,      \* history: leases the operation ended, with their ordinals
  effects,    \* history: how often an ordinal was written to its task
  changes     \* how many of the bounded steps were taken

bulkVars == <<rows, op, items, contract, browser, shown, ended, effects, changes>>

-----------------------------------------------------------------------------
Ordinal == 0 .. Cardinality(Row) - 1
Mark == Ordinal \cup Browser

\* A task.  `turn` is lease_generation and state_revision together, and `edit`
\* is edit_revision and input_revision: each pair only grows, and is compared
\* as one.  `data` is the edits its input has taken.
Task ==
  [edit : Nat, turn : Nat, data : SUBSET Mark, holder : Holder \cup {Nothing},
   completed : BOOLEAN, deleted : BOOLEAN, enabled : BOOLEAN]

Item ==
  [row : Row, create : BOOLEAN, edit : Nat \cup {Nothing}, turn : Nat \cup {Nothing},
   status : {"pending", "applied", "rejected"}]

Action ==
  [kind : {a.kind : a \in Chosen} \cup {"import", "patches"}, mode : Mode \cup {Nothing},
   revoke : BOOLEAN, scope : {"profile", "all"}]

Operation ==
  [action : Action, status : {"preview", "applying", "complete", "cancelled"},
   expired : BOOLEAN, total : Nat, processed : Nat]

ASSUME NothingAssumption == Nothing \notin Holder \cup Nat \cup Task \cup Item \cup Operation

Idle == [phase |-> "idle"]

BulkTypeOK ==
  /\ rows \in [Row -> Task \cup {Nothing}]
  /\ op \in Operation \cup {Nothing}
  /\ items \in [Ordinal -> Item \cup {Nothing}]
  /\ contract \in [revision : Nat, enabled : BOOLEAN, ready : BOOLEAN]
  /\ DOMAIN browser = Browser
  /\ shown \in [Ordinal -> Nat \cup {Nothing}]
  /\ ended \subseteq Ordinal \X Nat
  /\ effects \in [Ordinal -> Nat]
  /\ changes \in 0 .. MaxChanges

NewTask == [edit |-> 1, turn |-> 0, data |-> {}, holder |-> Nothing,
            completed |-> FALSE, deleted |-> FALSE, enabled |-> TRUE]

LeasedTask(h) == [NewTask EXCEPT !.turn = 1, !.holder = h]

\* The tasks that are present have been edited once.
BulkInit ==
  /\ rows \in [Row -> {Nothing} \cup {[task EXCEPT !.edit = 2] : task \in {NewTask} \cup {LeasedTask(h) : h \in Holder}}]
  /\ op = Nothing /\ items = [o \in Ordinal |-> Nothing]
  /\ contract = [revision |-> 1, enabled |-> TRUE, ready |-> TRUE]
  /\ browser = [b \in Browser |-> Idle]
  /\ shown = [o \in Ordinal |-> Nothing] /\ ended = {} /\ effects = [o \in Ordinal |-> 0] /\ changes = 0

Present == {r \in Row : rows[r] # Nothing}
Staged == {o \in Ordinal : items[o] # Nothing}
Pending == {o \in Staged : items[o].status = "pending"}

\* Bound of the model: steps of anything but the operation and its requests,
\* once there is one.
Outside == op # Nothing /\ changes < MaxChanges /\ changes' = changes + 1

-----------------------------------------------------------------------------
(* Previews.                                                               *)
Frozen(r) ==
  [row |-> r, create |-> FALSE, edit |-> rows[r].edit, turn |-> rows[r].turn, status |-> "pending"]

NewOperation(a, total, processed) ==
  [action |-> a, status |-> "preview", expired |-> FALSE, total |-> total, processed |-> processed]

\* One INSERT ... SELECT freezes the selected tasks, in one order, and their revisions.
OperationPreview(a) ==
  /\ op = Nothing
  /\ \E S \in SUBSET {r \in Present : a.kind = "restore" \/ ~rows[r].deleted} :
     \E order \in [0 .. Cardinality(S) - 1 -> S] :
       /\ {order[o] : o \in DOMAIN order} = S
       /\ items' = [o \in Ordinal |-> IF o \in DOMAIN order THEN Frozen(order[o]) ELSE Nothing]
       /\ op' = NewOperation([kind |-> a.kind, mode |-> Nothing, revoke |-> a.revoke, scope |-> a.scope], Cardinality(S), 0)
  /\ UNCHANGED <<rows, contract, browser, shown, ended, effects, changes>>

\* The rows an administrator pasted over, each once, and those of them whose
\* editor showed a revision the task has left.
Pasted ==
  {p \in [order : [Ordinal -> Row], late : SUBSET {r \in Present : rows[r].edit > 1}] :
     \A o, q \in Ordinal : p.order[o] = p.order[q] => o = q}

\* Such a row is rejected, and counted, at once.
PatchPreview ==
  /\ op = Nothing
  /\ \E p \in Pasted :
       LET used == {o \in Ordinal : p.order[o] \in Present}
           refused == {o \in used : p.order[o] \in p.late}
           patch(o) == IF o \notin refused THEN Frozen(p.order[o])
                       ELSE [Frozen(p.order[o]) EXCEPT !.edit = @ - 1, !.status = "rejected"]
       IN  /\ items' = [o \in Ordinal |-> IF o \in used THEN patch(o) ELSE Nothing]
           /\ op' = NewOperation([kind |-> "patches", mode |-> Nothing, revoke |-> FALSE, scope |-> "all"],
                                 Cardinality(used), Cardinality(refused))
  /\ UNCHANGED <<rows, contract, browser, shown, ended, effects, changes>>

\* Bound of the model: the file has a line for every ordinal.
ImportPreview(mode) ==
  /\ op = Nothing
  /\ op' = NewOperation([kind |-> "import", mode |-> mode, revoke |-> FALSE, scope |-> "all"], Cardinality(Ordinal), 0)
  /\ UNCHANGED <<rows, items, contract, browser, shown, ended, effects, changes>>

-----------------------------------------------------------------------------
(* importPreviewChunk: the tasks are read, then the chunk is inserted.     *)
Summary(r) == [present |-> r \in Present,
               edit |-> IF r \in Present THEN rows[r].edit ELSE Nothing,
               turn |-> IF r \in Present THEN rows[r].turn ELSE Nothing,
               deleted |-> r \in Present /\ rows[r].deleted]

\* The dialog sends the file in chunks from its start, of at most Limit rows.
\* Bound of the model: one browser stages at a time.
NextChunk ==
  LET start == Cardinality(Staged)
  IN  UNION {[start .. start + n - 1 -> Row] : n \in {m \in 1 .. Limit : start + m <= op.total}}

StageRead(b) ==
  /\ browser[b] = Idle /\ op # Nothing
  /\ \A other \in Browser : browser[other].phase # "staging"
  /\ op.action.kind = "import" /\ op.status = "preview" /\ ~op.expired
  /\ \E names \in NextChunk :
       browser' = [browser EXCEPT ![b] =
         [phase |-> "staging", names |-> names,
          old |-> [o \in DOMAIN names |-> Summary(names[o])]]]
  /\ UNCHANGED <<rows, op, items, contract, shown, ended, effects, changes>>

\* What the preview finds wrong with a row of the chunk.
Misplaced(names, o, old) ==
  \/ \E other \in DOMAIN names \ {o} : names[other] = names[o]
  \/ old.present /\ (op.action.mode \in {"add", "legacy"} \/ old.deleted)
  \/ ~old.present /\ op.action.mode = "update"

Prepared(q) ==
  [o \in DOMAIN q.names |->
    [row |-> q.names[o], create |-> ~q.old[o].present,
     edit |-> q.old[o].edit, turn |-> q.old[o].turn,
     status |-> IF Misplaced(q.names, o, q.old[o]) THEN "rejected" ELSE "pending"]]

\* The batch is guarded: the operation is still a preview.  An ordinal can be
\* inserted once, for it is part of the primary key.
\* Mutation: a chunk is staged whatever became of the operation since it was read.
StageableLate == ~op.expired

Stageable == op.status = "preview" /\ ~op.expired

StageCommit(b) ==
  /\ browser[b].phase = "staging"
  /\ Stageable /\ DOMAIN browser[b].names \cap Staged = {}
  /\ LET rowsOf == Prepared(browser[b])
     IN  /\ items' = [o \in Ordinal |-> IF o \in DOMAIN rowsOf THEN rowsOf[o] ELSE items[o]]
         /\ op' = [op EXCEPT !.processed =
                     @ + Cardinality({o \in DOMAIN rowsOf : rowsOf[o].status = "rejected"})]
  /\ browser' = [browser EXCEPT ![b] = Idle]
  /\ UNCHANGED <<rows, contract, shown, ended, effects, changes>>

-----------------------------------------------------------------------------
(* The control of an operation.                                            *)

\* operationStatus: the review of a bulk action shows who holds the leases now.
Review ==
  /\ op # Nothing /\ op.status = "preview" /\ op.action.kind \notin {"import", "patches"}
  /\ shown = [o \in Ordinal |-> Nothing]
  /\ shown' = [o \in Ordinal |->
       IF o \in Staged /\ items[o].row \in Present /\ rows[items[o].row].holder # Nothing
       THEN rows[items[o].row].turn ELSE Nothing]
  /\ shown' # shown
  /\ UNCHANGED <<rows, op, items, contract, browser, ended, effects, changes>>

Cancel ==
  /\ op # Nothing /\ op.status # "cancelled"
  /\ op' = [op EXCEPT !.status = "cancelled"]
  /\ UNCHANGED <<rows, items, contract, browser, shown, ended, effects, changes>>

Refresh ==
  /\ op # Nothing /\ op.expired
  /\ op' = [op EXCEPT !.expired = FALSE]
  /\ UNCHANGED <<rows, items, contract, browser, shown, ended, effects, changes>>

Expire ==
  /\ Outside
  /\ op # Nothing /\ ~op.expired
  /\ op' = [op EXCEPT !.expired = TRUE]
  /\ UNCHANGED <<rows, items, contract, browser, shown, ended, effects>>

-----------------------------------------------------------------------------
(* applyOperation: the operation, its pending items, the tasks and the     *)
(* pool are read one after the other; one batch decides and writes.        *)
\* The status read first only refuses early; the batch checks it again.
ApplyItems(b, start, limit) ==
  /\ browser[b] = Idle /\ op # Nothing
  /\ op.status \in {"preview", "applying"} /\ ~op.expired
  /\ LET ahead == {o \in Pending : o >= start}
         taken == {o \in ahead : Cardinality({p \in ahead : p < o}) < limit}
     IN  browser' = [browser EXCEPT ![b] = [phase |-> "taken", taken |-> taken]]
  /\ UNCHANGED <<rows, op, items, contract, shown, ended, effects, changes>>

ApplyRead(b) ==
  /\ browser[b].phase = "taken"
  /\ browser' = [browser EXCEPT ![b] =
       [phase |-> "applying", taken |-> @.taken, revision |-> contract.revision,
        data |-> [o \in @.taken |-> LET r == items[o].row
                                    IN  IF r \in Present THEN rows[r].data ELSE {}]]]
  /\ UNCHANGED <<rows, op, items, contract, shown, ended, effects, changes>>

Input(kind) == kind \in {"edit", "import", "patches", "revoke_edit", "reset_edit"}
Invalidates(kind) == Input(kind) \/ kind \in {"delete", "reset", "revoke"}
Creates(o) == items[o].create \/ op.action.kind = "duplicate"

\* stageTaskChanges decides an edit: the task is as it was reviewed, and fit
\* for this kind of change.
\* Mutation: generation and state revision are not compared.
UnchangedInput(r, edit, turn) == rows[r].edit = edit

\* Mutation: only generation and state revision are compared.
UnchangedLease(r, edit, turn) == turn # Nothing => rows[r].turn = turn

Unchanged(r, edit, turn) ==
  rows[r].edit = edit /\ (turn # Nothing => rows[r].turn = turn)

Fit(r, kind, revoke) ==
  /\ Input(kind) => contract.ready
  /\ rows[r].holder # Nothing /\ Invalidates(kind) => revoke
  /\ rows[r].completed /\ Input(kind) => kind = "reset_edit"

\* stageCreates decides a new task: no other one has or takes its id, and the
\* source of a duplicate is as it was reviewed.
Creatable(o, taken) ==
  IF op.action.kind = "duplicate" THEN rows[items[o].row].edit = items[o].edit
  ELSE /\ items[o].row \notin Present
       /\ \A p \in taken : items[p].create /\ items[p].row = items[o].row => p = o

Accepted(taken) ==
  {o \in taken :
     IF Creates(o) THEN Creatable(o, taken)
     ELSE /\ items[o].row \in Present
          /\ Unchanged(items[o].row, items[o].edit, items[o].turn)
          /\ Fit(items[o].row, op.action.kind, op.action.revoke)}

\* A reset of one profile ends the lease, but leaves a completed task completed.
Reopens(action) == action.kind \in {"reset", "reset_edit"} /\ action.scope = "all"

\* The row of a task after this change.
Changed(task, action, data) ==
  [edit |-> task.edit + 1, turn |-> IF Invalidates(action.kind) THEN task.turn + 1 ELSE task.turn,
   data |-> data,
   holder |-> IF Invalidates(action.kind) THEN Nothing ELSE task.holder,
   completed |-> task.completed /\ ~Reopens(action),
   deleted |-> (task.deleted \/ action.kind = "delete") /\ action.kind # "restore",
   enabled |-> task.enabled /\ action.kind # "disable"]

Imported(o) ==
  [NewTask EXCEPT !.data = {o}, !.completed = (op.action.mode = "legacy")]

\* Of several edits of one task in one batch, UPDATE ... FROM takes any.
Outcomes(q, accepted) ==
  {f \in [{items[o].row : o \in {p \in accepted : ~Creates(p) \/ items[p].create}} -> accepted] :
     \A r \in DOMAIN f : items[f[r]].row = r}

RowsAfter(q, f) ==
  LET written(o) == IF Input(op.action.kind) THEN q.data[o] \cup {o} ELSE q.data[o]
  IN  [r \in Row |-> IF r \notin DOMAIN f THEN rows[r]
                     ELSE IF items[f[r]].create THEN Imported(f[r])
                     ELSE Changed(rows[r], op.action, written(f[r]))]

\* The items that took effect: whose row was written, or whose copy was made.
\* An accepted item that gave way to another one of its task took none.
TookEffect(f, accepted) ==
  {f[r] : r \in DOMAIN f} \cup {o \in accepted : Creates(o) /\ ~items[o].create}

\* Mutation: the guard on the items' status is missing.
MayApplyAgain(q) ==
  /\ contract.revision = q.revision
  /\ op.status \in {"preview", "applying"} /\ ~op.expired

\* Mutation: the guard on the operation's status is missing.
MayApplyAnyhow(q) == contract.revision = q.revision /\ q.taken \subseteq Pending

MayApply(q) ==
  /\ contract.revision = q.revision
  /\ op.action.mode = "legacy" => ~contract.enabled /\ contract.ready
  /\ op.status \in {"preview", "applying"} /\ ~op.expired
  /\ q.taken \subseteq Pending
  /\ (\E o \in q.taken : Creates(o)) => contract.ready

ApplyCommit(b) ==
  /\ browser[b].phase = "applying" /\ MayApply(browser[b])
  /\ LET q == browser[b]
         accepted == Accepted(q.taken)
         after == [o \in Ordinal |-> IF o \notin q.taken THEN items[o]
                     ELSE [items[o] EXCEPT !.status = IF o \in accepted THEN "applied" ELSE "rejected"]]
     IN  /\ \E f \in Outcomes(q, accepted) :
              /\ rows' = RowsAfter(q, f)
              /\ effects' = [o \in Ordinal |->
                               effects[o] + IF o \in TookEffect(f, accepted) THEN 1 ELSE 0]
         /\ items' = after
         /\ op' = [op EXCEPT !.processed = @ + Cardinality(q.taken),
              !.status = IF \E o \in Staged : after[o].status = "pending" THEN "applying" ELSE "complete"]
         /\ ended' = ended \cup
              {<<o, rows[items[o].row].turn>> :
                 o \in {p \in accepted : /\ ~Creates(p) /\ Invalidates(op.action.kind)
                                         /\ rows[items[p].row].holder # Nothing}}
  /\ browser' = [browser EXCEPT ![b] = Idle]
  /\ UNCHANGED <<contract, shown, changes>>

-----------------------------------------------------------------------------
(* editTask: one cell, against the revision its editor shows.              *)
EditRead(b, r) ==
  /\ Outside
  /\ browser[b] = Idle /\ r \in Present
  /\ browser' = [browser EXCEPT ![b] =
       [phase |-> "editing", row |-> r, edit |-> rows[r].edit, data |-> rows[r].data,
        revision |-> contract.revision]]
  /\ UNCHANGED <<rows, op, items, contract, shown, ended, effects>>

CellEdit == [kind |-> "edit", scope |-> "all"]

EditCommit(b) ==
  LET q == browser[b]
  IN  /\ q.phase = "editing" /\ contract.revision = q.revision
      /\ Unchanged(q.row, q.edit, Nothing) /\ Fit(q.row, "edit", FALSE)
      /\ rows' = [rows EXCEPT ![q.row] = Changed(@, CellEdit, q.data \cup {b})]
      /\ browser' = [browser EXCEPT ![b] = Idle]
      /\ UNCHANGED <<op, items, contract, shown, ended, effects, changes>>

\* A request is refused, or never arrives.
Abandon(b) ==
  /\ browser[b] # Idle
  /\ browser' = [browser EXCEPT ![b] = Idle]
  /\ UNCHANGED <<rows, op, items, contract, shown, ended, effects, changes>>

-----------------------------------------------------------------------------
(* What else changes the tasks and their pool.                             *)
Claim(r, h) ==
  /\ Outside
  /\ rows[r] # Nothing /\ contract.enabled /\ contract.ready
  /\ rows[r].holder = Nothing /\ ~rows[r].completed /\ ~rows[r].deleted /\ rows[r].enabled
  /\ rows' = [rows EXCEPT ![r].holder = h, ![r].turn = @ + 1]
  /\ UNCHANGED <<op, items, contract, browser, shown, ended, effects>>

Complete(r) ==
  /\ Outside
  /\ rows[r] # Nothing /\ rows[r].holder # Nothing
  /\ rows' = [rows EXCEPT ![r].holder = Nothing, ![r].turn = @ + 1, ![r].completed = TRUE]
  /\ UNCHANGED <<op, items, contract, browser, shown, ended, effects>>

\* Time alone ends this lease: no revision changes.
LeaseExpires(r) ==
  /\ Outside
  /\ rows[r] # Nothing /\ rows[r].holder # Nothing
  /\ rows' = [rows EXCEPT ![r].holder = Nothing]
  /\ UNCHANGED <<op, items, contract, browser, shown, ended, effects>>

\* The pool is enabled or disabled, or a schema change begins or ends.
PoolChanges ==
  /\ Outside
  /\ \/ contract' = [contract EXCEPT !.revision = @ + 1, !.enabled = ~@]
     \/ contract' = [contract EXCEPT !.revision = @ + 1, !.ready = ~@]
  /\ UNCHANGED <<rows, op, items, browser, shown, ended, effects>>

BulkNext ==
  \/ \E a \in Chosen : OperationPreview(a)
  \/ PatchPreview
  \/ \E mode \in Mode : ImportPreview(mode)
  \/ Review \/ Cancel \/ Refresh \/ Expire
  \/ \E b \in Browser :
       \/ StageRead(b) \/ StageCommit(b)
       \/ \E start \in Ordinal, limit \in 1 .. Limit : ApplyItems(b, start, limit)
       \/ ApplyRead(b) \/ ApplyCommit(b)
       \/ \E r \in Row : EditRead(b, r)
       \/ EditCommit(b) \/ Abandon(b)
  \/ \E r \in Row : (\E h \in Holder : Claim(r, h)) \/ Complete(r) \/ LeaseExpires(r)
  \/ PoolChanges

BulkSpec == BulkInit /\ [][BulkNext]_bulkVars

-----------------------------------------------------------------------------
(* Properties.                                                             *)

\* However many browsers apply an operation, and however often a request of
\* theirs is sent anew, an item is written at most once, and only one that is
\* recorded as applied is; an item is recorded as applied without being written
\* only if it gave way to another item of the same task, which was.
\* (operations.ts:527)
AppliedOnce ==
  \A o \in Ordinal :
    LET applied == o \in Staged /\ items[o].status = "applied"
    IN  /\ effects[o] <= 1
        /\ effects[o] = 1 => applied
        /\ applied /\ effects[o] = 0 =>
             \E p \in Staged : items[p].row = items[o].row /\ effects[p] = 1

\* A lease that an operation ends is the lease its review showed, never that
\* of a worker who took the task since.  (tasks.ts:311)
OnlyReviewedLeases ==
  \A end \in ended : shown[end[1]] # Nothing => shown[end[1]] = end[2]

\* What an operation says of its progress is so: it counts the items that are
\* decided, and is complete only when none is left to apply, whatever is
\* staged, applied and cancelled at the same time.  (operations.ts:660)
ProgressIsTrue ==
  op # Nothing =>
    /\ op.processed = Cardinality(Staged \ Pending) /\ op.processed <= op.total
    /\ op.status = "complete" => Pending = {}

\* A cancelled operation decides no item any more and stays cancelled, even if
\* a chunk of it was being applied.  (operations.ts:290)
CancelStops ==
  [][op # Nothing /\ op.status = "cancelled" =>
       op'.status = "cancelled" /\ items' = items]_bulkVars

\* Two changes of the same input never overwrite each other: what a task's
\* input has taken, it keeps.  (tasks.ts:237)
NoEditLost ==
  [][\A r \in Present : rows'[r] # Nothing /\ rows[r].data \subseteq rows'[r].data]_bulkVars
=============================================================================
