# Verification of the Cloudflare Task Broker

TLA+ models of the broker in `src/`, the TLC runs that check them on small
instances, and theorems about each of them that TLAPS checks for every instance:
the lease core, the schema changes, the receipts and the Python client, the
reviewed operations, the configuration, the sort indexes, the portable import,
the exports and the browser's task table. Paths below are relative to the
repository; `spec` is `Cloudflare_Task_Manager_Implementation_Specification.md`.

To check: `tlc -workers 2 -config <Run>.cfg <Module>.tla` for the runs listed in
`PROJECT.json`, and `tlapm M.tla` for the proofs of a module M whose name ends
in `Proofs`.

## 1. The system

A Cloudflare Worker keeps pools of tasks in a D1 (SQLite) database and leases
them to workers. Every handler has the same shape: it reads some rows, each in a
query of its own, and then commits **one** `batch`, which D1 runs as a
transaction. Nothing is held between the reads and the batch. What was read is
protected only by *guards*: statements in the batch that set a `guard_*` column
of the request's receipt to 0 and thereby break a CHECK constraint
(`migrations/0001_initial.sql:109-113`), which rolls the batch back. So the
broker's concurrency is: any number of handlers, each a few atomic reads and one
atomic guarded write, in any order, any of them cut off before the write.

| Component | State | Operations | Hard behaviour |
| --- | --- | --- | --- |
| Lease core (`worker/broker.ts`) | `tasks`, `attempts`, `lease_heads`, `task_profile_state` | claim, report, renew, recover | late and reordered reports, renewals against expiry, a head table kept by hand, five capacities over shared pools and families |
| Task changes (`worker/tasks.ts`) | the same rows | create, edit, delete, restore, revoke, reset (profile/all, soft/full), reset and edit | a change commits while the report of its lease is on the way; what reopens a completed task |
| Keys and installation (`worker/configuration.ts`) | `api_keys`, `installation` | create, rotate, soft and hard revoke; maintenance, epoch, settings | keys revoked under running leases; leases of an earlier epoch after a restore |
| Schema changes (`worker/schema.ts`) | `pools`, `admin_operations`, `admin_operation_items`, `tasks` | preview, apply (start, chunks, activation), correct, cancel | several requests resume one migration; corrections and cancellations in between; crashes between chunks |
| Receipts (`worker/db.ts`) | `requests`, `request_items` | begin, commit, replay, prune | duplicated and repeated deliveries, replays by callers who lost their rights, retention |
| Bulk operations and imports (`worker/operations.ts`) | `admin_operations`, `admin_operation_items` | preview, patch preview, import chunks, apply, cancel, refresh, export pages | reviewed state against the state at commit, chunks applied twice, pages of an export while rows change |
| Configuration (`worker/configuration.ts`, `configuration-removal.ts`) | `families`, `pools`, `profiles` | create, update, archive, remove | policies read before the batch of a claim |
| Filters, sorting, pagination (`shared/filter.ts`, `shared/sort.ts`, `worker/sorting.ts`, `lists.ts`, `pagination.ts`) | none (cursors are signed values) | claim order, keyset pages | nulls, directions, equal keys at a page boundary |
| Sort indexes (`worker/sort-indexes.ts`) | index registry | build, use, invalidate | an index against a schema change |
| Portable export/import (`worker/portable.ts`) | all tables | manifest, pages, import chunks, prune | a resumed import, leases that must not travel |
| Router, auth, metrics, DTOs | none | dispatch, validation | one retry of a claim refused for a changed configuration |
| Python client (`python/task_pool.py`) | pending claim, pending completions, recovery data | claim, recover, complete, retry, poll | uncertain outcomes, retries mixed with new calls, recovery data older than what was done |
| Browser (`web/`) | view state: loaded rows, cursors, drafts, dialogs | the administrator's routes | loads of all rows that overlap sorts, edits, cancellation and newer loads; chunk loops in several tabs |

They interact through the database only. Claims and reports read what the
configuration and schema handlers write; task changes, schema chunks, key and
epoch changes all fence off leases; every handler writes a receipt in its batch.

What makes each part right:

* lease core: one attempt at a time may decide a task, authority once lost is
  never regained (spec 6.4), a completed task stays decided, capacities and
  attempt limits hold, heads agree with attempts, every lease ends;
* task changes, keys, epochs: they take authority away at once and never give
  it back;
* schema changes: no claim meets a half-converted task, a closed pool stays
  closed until its migration is over, can be resumed, and opens in the end
  (spec line 297);
* receipts: a request takes effect at most once, every repetition is answered
  with the first answer or refused, and a replay restores no right;
* bulk operations: an item is applied at most once and only to what was
  reviewed, a cancelled operation stops, its progress is what it says, and no
  edit of a task is lost to another one;
* configuration: rows that refer to others find them, an archived item is
  closed, a removal takes along what its dialog showed, and a claim follows the
  configuration it was granted under;
* sort indexes: the registry says which indexes there are;
* portable import: every record of the file once, in order;
* exports: a file that is finished holds every row once and in order, however
  its pages are cut and whatever is written between them;
* Python client: what it reports as done was done, with its own results, and an
  uncertain claim does not stay so;
* pages and the task table: "All rows loaded" shows every row once and in
  order, and no refresh takes the rows from under an editor.

## 2. Modules

| Module | Role |
| --- | --- |
| `TaskAuthority` | abstract specification: what the broker promises for each task |
| `LeaseBroker` | claim, report, renew, task changes, keys, maintenance, epochs, time, on the tables |
| `LeaseBrokerProofs` | theorems about `LeaseBroker` |
| `MCLeaseBroker` | instances of `LeaseBroker` for TLC |
| `PoolBarrier` | abstract specification: what a schema change promises for a pool |
| `SchemaMigration` | schema changes, read by read, with the pool's traffic around them |
| `SchemaMigrationProofs` | theorems about `SchemaMigration` |
| `MCSchemaMigration` | instances of `SchemaMigration` for TLC |
| `Receipts` | exactly-once execution of requests, query by query |
| `TaskClient` | the Python client, composed with `Receipts` as its service |
| `ReceiptsProofs` | theorems about `Receipts` and `TaskClient` |
| `MCTaskClient` | instances of `TaskClient` for TLC |
| `BulkOperations` | one reviewed operation or import on tasks that workers and editors change |
| `BulkProofs` | theorems about `BulkOperations` |
| `Configuration` | families, pools, profiles, keys, their removal, and the claims that follow them |
| `ConfigurationProofs` | theorems about `Configuration` |
| `SortIndexes` | the index registry and the database's indexes, against schema changes |
| `SortIndexesProofs` | theorems about `SortIndexes` |
| `PortableImport` | a portable import in several tabs |
| `PortableProofs` | theorems about `PortableImport` |
| `Exports` | exports of tasks, of the history of attempts, and the portable file, page by page |
| `TaskTable` | the browser's task table over `listTasks` |
| `PagingProofs` | theorems about `TaskTable` and `Exports` |
| `MCTaskTable` | instances of `TaskTable` for TLC |
| `MCAdministration` | instances of the six administrator's components for TLC, side by side |

`TaskClient` composes the client with `Receipts`: it EXTENDS the module and each
of its steps is one of the client or one of the service, with `Arrive` shared.
The components of administration share no table in these models and are checked
side by side, not composed; what they do share with the lease core (a task's
lease, a pool's revision) appears in each as the steps of its environment.

Definitions marked as mutations in a comment are faulty variants of the definition below
them. No action uses them: putting one in the place of its original must make a
run fail, which shows that the property checked there depends on that code.

### LeaseBroker

A variable for each table, a record for each row, reduced to the columns that
control something. A lease is identified by the sequence number of its attempt;
`latest`, `result` and the head's `attempt` are such numbers instead of ids.

* `Claim(c, S, d)` is `claim` (broker.ts:37-284): all tasks of one claim in one
  step, since they share the capacities. `Eligible` is the eligibility clause
  (147-152), `Room` the usage query and `grant_limit` (91-129). Superseding the
  latest attempt, inserting the new one, and updating `tasks`,
  `task_profile_state` and `lease_heads` are the primed variables. Which
  eligible tasks are taken is left open, which covers filters, orders, and
  responses without room. A draining profile grants nothing, which is `S = {}`.
* `Report`, `Renew` are `reportOrRenew` (323-552) for one item. Items of a batch
  are for distinct tasks (364-369), and each reads and writes rows of its own
  task, so a batch is a sequence of items. `Fenced`, `KeyMayReport`, `MayReport`
  and `MayRenew` are the CASE of lines 425-435; a refused item is no step.
* `ChangeTask` is `stageTaskChanges` (tasks.ts:237-393), for one item likewise.
  It may set the task's own attempt limit, with or without a number, or hand it
  back to the policy (376); `LimitOf` is the limit in force, which eligibility
  reads (149).
* `SoftRevoke`, `HardRevoke`, `SetMaintenance`, `ActivateEpoch` are `keyAction`
  and `installationAction` (configuration.ts:413-552).
* `Tick` is the database clock.

That a handler is one step is an abstraction with a reason: what claim, report
and renew read before the batch is either immutable (an attempt's contract),
rechecked by a guard (configuration revisions, key status, epoch, maintenance),
or read again by the batch itself (leases, usage, attempts, tasks). Policies and
capacities (but for the task's own limit) are constants because the batch of a
claim is rolled back when the revision they were read under is not the current
one (broker.ts:56-65).
`SchemaMigration`, where handlers do depend on unguarded reads, takes each read
as a step.

`TaskAuthority` is what a worker or an administrator may rely on without knowing
tables, clocks or keys: attempts are numbered, the last one granted may decide
the task until it succeeds or is fenced off, and only its success closes the
task. `LeaseBroker` maps its tables to it by `leaseBar`; the property
`KeepsPromise` says that each step of the tables is a step of the promise or
none. Losing a lease to the clock is no step there: an expired attempt keeps its
authority until another grant or a change takes it (the code accepts such late
reports on purpose, `late` in broker.ts:477).

### SchemaMigration

The rows are those of one pool, its tasks, their latest leases, the schema
operations and their items. Revisions only grow, so "the revision is the one
reviewed" is a flag that any change clears (`Touched`, `Outdated`). A contract
is named by the operation that brings it, and a row's data is abstracted to
which contract it follows and whether it converts (`Misfit`, `corrected`).

A request is a process (`request`): `Apply` reads the operation's status
(schema.ts:179-195), `ReadPending` the chunk (263-295), `ReadRejected` the
rejected rows (386-403), and `Start`, `Convert`, `Activate` or `ActivateLight`
commits, or `Refused` does not. `AskCorrect`/`Correct` and `AskCancel`/`Cancel`
are the read and the batch of `schemaCorrect` and `operationControl`.
`ReadFields`/`Import` are those of `applyOperation` (operations.ts:504-621), which
reads the fields in force before the pool's row and guards only that row: the
tasks a chunk creates or edits follow the contract whose fields were read. `Die` is a
request cut off before its batch. Around them `Claim`, `Report`, `Expire`,
`EditInputs`, `ChangeTask`, `CreateTask` and `UpdateConfiguration` are what the
other handlers do to the same rows, each with the guard it has for migrating
pools.

`PoolBarrier` is what a schema change promises to those who know nothing of
operations, items, chunks and requests: in an open pool everything happens under
the one contract in force; a pool closes to change it; every task crosses to the
new contract once, and loses its lease as it does; and the pool opens behind the
last of them. `KeepsBarrier` maps the tables to it: `Target` is the operation
that is applying, `InputsFollow` and `LeasedUnder` are the contracts of a task's
inputs and of its lease, and reads, previews, cancellations and deaths are no
steps. Which of the steps of overlapping requests break that mapping is a
theorem (`BarrierIffOnTime`, section 4).

### Receipts

A *delivery* is one arrival of an operation at the service; an operation may
arrive any number of times, early or late, and its deliveries run at the same
time. Each query is a step of its own: authenticate the key, resolve the route,
read the receipt (`beginReceipt`), compare it (`checkReplay`), ask again whether
the caller may have it (`authorizeReplay`), and the guarded batch
(`commitReceipt`), which fails on a changed configuration, a changed key or
epoch, or a receipt that is there by now. A claim that fails for a changed
configuration goes round once more (index.ts). Administrators revoke the key,
activate a new epoch, change the configuration and its retention, and prune old
receipts at any time. What the batch does besides is the matter of
`LeaseBroker`: here an operation is done, or done twice. Clocks are explicit,
because retention is about them: `created` is stamped by the sender, whose clock
may be wrong by `Skew`.

### TaskClient

`pending`, `batch` and `saved` are `pending_claim`, `pending_completions` and
recovery data that the program wrote down at some time. The client sends the
request it has pending, waits, hears an answer or times out, and goes on or
gives up. A delivery it no longer waits for goes on at the service. `Crash`
forgets everything but `saved` and the program's log of ids; `Restore` goes on
from there, behind what was done.

### BulkOperations

One operation and the tasks it was reviewed for. `rows` holds the tasks by
public id; `turn` stands for lease generation and state revision, `edit` for the
edit and input revisions, and `data` for the edits its input has taken. A
request of a browser is the reads of a handler, one step each (`StageRead`;
`ApplyItems`, `ApplyRead`; `EditRead`), and its batch (`StageCommit`,
`ApplyCommit`, `EditCommit`) under its guards. `Cancel`, `Refresh` and the
review are steps between them, as are workers (`Claim`, `Complete`,
`LeaseExpires`), time (`Expire`) and changes of the pool. `Accepted` and
`Changed` are `stageTaskChanges`, `Creatable` is `stageCreates`. Previews freeze
tasks (`OperationPreview`), pasted rows against the revisions that their editors
showed (`PatchPreview`), or nothing yet (`ImportPreview`, whose chunks come with
`StageCommit`).

### Configuration

The rows of families, pools, profiles and keys with their revisions; `admin` is
a request or an open dialog of an administrator and holds what was read or
shown. A form is opened (`...Read`) and sent later under the revisions it was
opened with; a removal is reviewed, planned anew, and committed (`ReviewRemoval`,
`PlanRemoval`, `Remove`). A claim resolves its route in one query and commits
under four revisions. The foreign keys of the tables are left out on purpose
(but for new keys, which nothing else guards), so that `ReferencesHold` says
that the guards of the code suffice.

### SortIndexes, PortableImport, Exports, TaskTable

`SortIndexes` has what the registry says (`registry`) and what the database has
(`physical`), which one batch changes together but different requests change in
turn: create, rebuild, drop, and the invalidation by a schema change.
`PortableImport` is the loop of the browser and the chunk handler behind it, in
several tabs that resume one import; the number of records done is what guards
a chunk.

`Exports` has the two loops of the browser that read hundreds of rows in as many
requests as it takes. A row is known by its place: the ordinal of its task in
the frozen selection and the number of the attempt (operations.ts:743-786), or the number
of its table and its rowid (portable.ts:46-92). So a page is a set of places,
ORDER BY and LIMIT are `Page`, and the cursor is the last place of a full page;
a page that is not full ends the loop, or the table. `ExportPage` reads the
operation and its rows in two queries (`CheckExport` is the first). Meanwhile
tasks are leased, rows are inserted and deleted, the operation expires and its
items are pruned. Two variables are history: `began`, the rows that are there
from the start of the download on, and `raced`, explained in section 5.

`TaskTable` has the state of main.ts that decides what the table shows:
rows, grid, cursors, loads in progress with the identity of the view they were
asked for, an open editor, a deferred reload; the pages come from `ListTasks`,
the keyset query of tasks.ts and sort.ts, with nulls and both directions. Rows
change on the server between pages.

## 3. Runs

| Run | Instance | Checks |
| --- | --- | --- |
| `fencing` | 1 task, 2 profiles with limits of their own, every kind of change, durations 1 and 2, 3 generations, 1 epoch | `TypeOK`, `HeadIsProjection`, `CompletedIsSettled`, `AttemptBudget`, `OldWorkerStaysOut`, `DeadLeaseStaysDead`, `KeepsPromise` |
| `revocation` | 1 task, 2 workers with a key each, soft and hard revocation, maintenance, 2 epochs | `OldWorkerStaysOut`, `DeadLeaseStaysDead`, `LeaseEnds` |
| `capacity` | 3 tasks in 2 pools, 3 profiles of 2 families that share a pool, 4 callers, batches of 2 | `CapsHold` |
| `migration` | 2 tasks, 1 misfit, 2 operations, requests one at a time, all traffic, imports, 1 death | `TypeOK`, `NoHalfConverted`, `LeasesFollowContract`, `Resumable`, `ClosedWhileApplying`, `KeepsBarrier` |
| `resuming` | 2 tasks, 1 misfit, 1 operation, 2 concurrent requests, 1 death | `ConvertedOnce`, `MigrationEnds` |
| `exactly_once` | 2 ids, 2 bodies, 2 deliveries, 1 tick, 1 kind of administration, 1 fault, batches of 2 | `ClientTypeOK`, `AtMostOnce`, `AnsweredAlike`, `NoRightRestored`, `CompletedIsDone`, `PendingClaimResolves` |
| `administration` | six instances, see Bounds | `AdministrationTypeOK`; bulk: `AppliedOnce`, `OnlyReviewedLeases`, `ProgressIsTrue`, `CancelStops`, `NoEditLost`; configuration: `ReferencesHold`, `ArchivedIsClosed`, `ClaimFollowsConfiguration`, `RemovesWhatWasShown`; indexes: `RegistryIsTrue`; portable: `ImportedInOrder`; exports: `ExportsAreWhole`; table: `AllRowsAreShown`, `EditedRowsStay` |
| `half_converted` | as `resuming`, no deaths | violates `NoHalfConverted` |
| `late_activation` | 1 task, 2 operations, 2 requests | violates `ClosedWhileApplying` |
| `cancel_race` | 1 task, 1 operation, 2 requests | violates `Resumable` |
| `forgotten` | as `exactly_once`, 2 profiles | violates `ForgottenIsDead` |
| `all_loaded` | the table of `administration`, pages of two, four loads, no changes of others | violates `LoadedIsWhole` |

What the properties mean is stated above each definition. In short:

* **OldWorkerStaysOut**: no step gives an attempt that lost its task the right
  to decide it again, or changes its outcome. It fails as soon as the report
  checks only that it is the latest attempt, or ignores the epoch.
* **DeadLeaseStaysDead**: a lease that stopped counting against the capacities
  does not count again. It fails if an expired lease can be renewed or if a soft
  revocation can soften a hard one.
* **HeadIsProjection**: the five places that write `lease_heads` keep it equal
  to what `tasks` and `attempts` say.
* **CompletedIsSettled**, **CapsHold**: no second result and no lease past its
  limit, whichever path led there.
* **AttemptBudget**: the counters of attempts agree with each other after
  every step, and no step raises a profile's counter past the limit in force. A limit
  that is lowered beneath the attempts already made leaves the counter above it;
  it must not rise there. It fails if a full reset forgets the other profiles.
* **LeaseEnds**: renewals do not keep a task for ever.
* **NoHalfConverted**, **ClosedWhileApplying**, **Resumable**,
  **LeasesFollowContract**: spec line 297, as a property of each.
* **KeepsBarrier**: the same as one promise, of which the tables are an
  implementation. It fails if rejected rows do not keep the pool closed.
* **ConvertedOnce**: concurrent chunks convert a row once.
* **MigrationEnds**: a closed pool opens if its administrators keep at it.
* **AtMostOnce**, **AnsweredAlike**, **NoRightRestored**: what a receipt is for.
  They fail if a request is accepted however old it is, if a receipt is matched
  by its id alone, or if the right to an answer is checked on arrival only.
* **CompletedIsDone**, **PendingClaimResolves**: what the client's caller relies
  on. The first fails if a response is not compared with its request; the second
  if a definite error leaves the claim pending.
* **AppliedOnce**, **OnlyReviewedLeases**, **NoEditLost**, **CancelStops**,
  **ProgressIsTrue**: several browsers apply one operation, and nothing happens
  twice, to another lease, over another edit, after the cancellation, or without
  being counted. Each fails when one guard of the batch is missing. Two lines of
  a file may name one task; of two such items in one batch only one is written,
  and `AppliedOnce` says that the other then gave way to it.
* **ReferencesHold**, **ArchivedIsClosed**, **RemovesWhatWasShown**,
  **ClaimFollowsConfiguration**: rows read before a batch are still what the
  batch assumes.
* **RegistryIsTrue**: an index exists if and only if the registry lists it as
  ready, it sorts by the field as it is or as the schema change under way will
  have it, and there are no more definitions than allowed.
* **ImportedInOrder**: repeated, resumed and concurrent chunks import a prefix of
  the file, and the import is complete only with the last record.
* **ExportsAreWhole**: a finished file has every row that was there from
  beginning to end, once and in order. It fails if the page behind a cursor
  begins with the next task instead of the next attempt.
* **AllRowsAreShown**, **EditedRowsStay**: overlapping loads, sorts and edits
  leave the table true to what it says. `AllRowsAreShown` leaves one case out,
  in which the table is not; that case is `all_loaded`.

`NoHalfConverted`, `ClosedWhileApplying` and `Resumable` appear in passing and
in violated runs. They hold when apply, correct, cancel and import requests come one
after the other (`Request = {r1}`), whatever else happens between the reads of a
request, and fail when two of these requests overlap. The passing run is thus
the part of the promise that the guards do keep. Where exactly it ends is proved in
section 4: besides the steps that the three runs show, a chunk of an import or of
a bulk edit that comes late breaks `NoHalfConverted` and `KeepsBarrier`. It reads
the fields, an activation commits, it reads the pool, and its tasks are stored
and claimable in a pool whose contract they do not follow. TLC finds this with
one task, one operation, two requests and `Asked = {"apply", "import"}`.

### What the violations show

1. `half_converted`: an apply reads no pending rows, a correction turns the only
   rejected row pending, the apply reads no rejected rows, and activates.
2. `late_activation`: two requests decide to activate the same operation. The
   second commits after the next migration has started, and opens the pool.
3. `cancel_race`: a cancellation that read `preview` commits after the start.
   The operation is cancelled, the pool stays closed, and no request can resume.
4. `forgotten`: a claim is sent, done, and its answer is lost. The client sends
   it again and is refused for good: its key was soft-revoked meanwhile, the
   epoch changed, the request grew too old, or the route leads to another profile
   since a configuration change. The client forgets the claim; its leases run on without a holder, and the next
   claim takes a new id.
5. `all_loaded`: all rows are loaded, then a page, and a cell of it is opened.
   All rows are asked for again, and a header is pressed: both are put off. The
   edit ends, the sort is done first and drops the reload, and it takes the page
   for all rows, because `allComplete` and `allIdentity` stand from before. "All
   2 rows loaded" is shown of three, and nothing is under way to repair it.

Each is a `finding` in `PROJECT.json`, with the line of the code and the
document it departs from.

### Bounds

`Horizon`, `MaxGeneration` and `MaxEpoch` stop claims, generations and epochs;
the clock runs on to the last expiry. With two time units of lifetime there are
leases before, at and past their expiry, and renewals that reach the maximum.
Three generations are what the hazards take: a lease, one that replaces it, and
a change or a third grant while the first worker still reports. Tasks share
nothing but capacities, so one task is enough wherever capacities are not the
question; three tasks in two pools and a batch of two is the least in which each
of the five capacities is the one that binds. `MaxEdits`, `MaxDeaths` and the
number of requests bound `SchemaMigration`: two requests are what every race in
its code needs, and two operations are what a stale activation needs. A chunk of
one item makes a migration of two tasks take several chunks. `SYMMETRY` is used
in `capacity`, between two tasks that no constant tells apart, and in
`administration`, between two tasks and two browsers that none does; neither run
has a liveness property.

`exactly_once` has `FreshFor = Skew = Retention = 0` and one tick, so that a
request may be too old and its receipt pruned, and no longer behaviour has
anything else: the ages, the skew and the retention only ever meet in sums.
`MaxKinds` lets a behaviour have one kind of administration, `Bounded` keeps
administration to behaviours about one id; two deliveries are what a race of two
deliveries needs, and a batch of two what recovery data in its middle needs.

`administration` chooses in its initial state which component runs (`part`); the
others rest. Since they share no table, this checks each as a run of its own
would. Deadlock is not checked there: a behaviour ends when its bounds are
reached. The instances:

* *bulk*: two tasks, chunks of one item and of two, two browsers, one worker, two steps
  of workers, pool and time (`Bounded` leaves an import one), upsert imports, and the bulk action "revoke, reset
  and edit" with revocation, which takes every branch of `Fit` and `Changed`
  that matters to leases and inputs. The other kinds, with and without
  revocation, resets of one profile, and the other modes pass alike, each within
  a minute, when `Bulk` in `MCAdministration` or `Mode` in the cfg is set to them. Two
  tasks are what an order of chunks needs and what a staged row and its double
  need, and a chunk of two what both in one batch need; two browsers are what every race of its requests needs.
* *configuration*: two families, a pool, two profiles, two keys, two
  administrators and a claimant, two committed changes, two requests at a time.
  Either a pool and a profile are there from the start, or a revoked key, so that
  the two changes are those of a race and not of its preparation.
* *indexes*: two fields, two keys, two indexes of which one may be there, two
  editors and four steps.
* *portable*: a file of three records in two tables, two tabs, two previews, two
  chunks on the way. `Bounded` does not go on from two chunks on the way of two
  previews; `FileImportedInOrder` holds without it.
* *exports*: two tasks with up to two attempts, or two tables with rowids up to
  three, pages of two: pages that end within a task, exactly at the end of one,
  or with an empty table, and rows that come and go on both sides of the cursor.
* *table*: three tasks with nulls in two columns, pages of one, two sorts, two
  loads at a time, an edit and a change on the server.

Deadlock is not checked in `exactly_once` and `forgotten` either: faults and
time are bounded, and a client with nothing left to do stops.

### Fairness

`LeaseBroker!FairSpec` assumes that time passes (`WF_vars(Tick)`), and of nobody
that they call. `SchemaMigration!FairSpec` assumes that a request that does not
die ends; that administrators resume a closed pool and ask for corrections of
its misfits again and again (strong fairness, since the chance comes and goes
with other requests); and that their corrections are at last good ones. The code
has no scheduler of its own for migrations: without somebody who resumes it, a
migration stays where it is, as the user guide says.

`TaskClient!ClientFairness` assumes that a delivery at the service goes on, that
the client's loop goes on (`Send`, `Receive`, `Exhausted`), and that a program
with a pending claim calls again (strong fairness, for the call is possible
again and again but not all the time). Faults are finite (`MaxFaults`): a
connection that always fails leaves a claim uncertain for ever. The other
components promise nothing that must happen; nobody has to finish an operation,
an import or a load.

## 4. Proofs

### The lease core

`LeaseBrokerProofs` proves for all values of the constants that satisfy `StructureAssumption`, `FiniteAssumption`, `BoundAssumption`,
`CapAssumption` and `NullAssumption`:

| Theorem | Statement |
| --- | --- |
| `TypeCorrect` | `Spec => []TypeOK` |
| `HeadsAgree` | `Spec => []HeadIsProjection` |
| `CompletedSettled` | `Spec => []CompletedIsSettled` |
| `OldWorkersStayOut` | `Spec => OldWorkerStaysOut` |
| `DeadLeasesStayDead` | `Spec => DeadLeaseStaysDead` |
| `PromiseKept` | `Spec => KeepsPromise` |
| `AttemptsBounded` | `Spec => AttemptBudget` |
| `CapacitiesHold` | `Spec => []CapsHold` |

The assumptions say what the configuration is (callers come from profiles, pools
and families, caps are natural numbers, there are finitely many tasks), and that
NULL is no row.

The invariant is `IInv == TypeOK /\ Numbering /\ HeadIsProjection /\ \A t \in Task : Settled(t)`.
None of the properties is inductive by itself:

* `Numbering` says that the attempts of a task are exactly those numbered up to
  `latest`, and that no attempt has a generation past the task's. Without it a
  grant might find a row under its own number, and "the generation is the
  task's" would not mean "nothing happened since".
* `Settled` carries `CompletedIsSettled` over every step: a completed task has
  the accepted success it shows and no live attempt. A report can only complete
  a task whose latest attempt is live, and a claim never takes a completed one.
* `HeadIsProjection` gives what `DeadLeaseStaysDead` needs, that a head's
  expiry, generation and epoch are those of the latest attempt.

Each action has lemmas for the types it keeps and for what it does to the other
conjuncts; `NextInvariant` puts them together. The action properties follow from
`Moves`, which says how a step may change the columns an attempt's authority
depends on: generations, epochs and hard revocations only go one way. The
refinement is proved task by task: a claim grants, an accepted success succeeds
from the attempt in authority, and every other step leaves the promise's state
alone or takes the authority away.

`AttemptsBounded` adds `Budget` to `IInv`: a task's attempts are at most its cap
and at most the attempts there ever were, and each profile's attempts on it are
at most the task's. Every step keeps this as it stands: a grant counts one
attempt of the task and one of the claiming profile, and is made only where both
are below their limits; a reset only lowers counters, and the task's own only
together with all of its profiles'. That a profile's counter is at most its limit
is no invariant, since the task's own limit may be lowered beneath it. What
holds is a fact about steps (`Rises`): only a grant raises a counter, by one from
below the limit, and changes no limit.
`CapacitiesHold` needs no other invariant, but an argument that is the same for
the five capacities. Each counts the leases of a set `B` of callers (a worker in
a profile, a profile, a pool, a family, a worker in a family), so `LeasedBy(B)`
is the set of tasks whose head is one of theirs, and `CapacityKept` shows for
any `B` that a step either adds no task to it, or is a claim of a caller in `B`
which found room for all of its batch.

### Schema changes

`SchemaMigrationProofs` proves, for any tasks, operations, misfits, chunks and
bounds (`SchemaAssumption`):

| Theorem | Statement |
| --- | --- |
| `TypesHold` | `Spec => []TypeOK` |
| `BarrierIffOnTime` | `Spec => (OnTime <=> KeepsBarrier /\ []Resumable)` |
| `OnTimePoolIsSafe` | `Spec /\ OnTime => [](NoHalfConverted /\ LeasesFollowContract /\ Resumable /\ ClosedWhileApplying)` |
| `OnTimeConvertsOnce` | `Spec /\ OnTime => ConvertedOnce` |
| `OrderlyIsOnTime` | `Orderly` implies `Spec => OnTime` |
| `TasksConvertOnce` | `OneOperation \/ OneAtATime` implies `Spec => ConvertedOnce` |
| `OpenPoolIsConverted` | `Orderly` implies `Spec => []NoHalfConverted` |
| `LeasesAreCurrent` | `Orderly` implies `Spec => []LeasesFollowContract` |
| `ClosedPoolResumes` | `Orderly` implies `Spec => []Resumable` |
| `StaysClosed` | `Orderly` implies `Spec => []ClosedWhileApplying` |
| `TablesKeepBarrier` | `Orderly` implies `Spec => KeepsBarrier` |

`BarrierIffOnTime` has no premise on requests: any number of them overlap, about
any operations, and ask for anything. `OnTime` says of three batches, and of no
others, that what they rely on and do not recheck is true when they commit
(`OnTimeStep`):

* an activation (schema.ts:409-442) finds its operation applying and all its
  items decided, or its contract in force already in an open pool (`Activable`);
* a cancellation (operations.ts:285-303) finds an operation that is not applying;
* a chunk of an import or a bulk edit (operations.ts:506-621) finds the contract
  in force whose fields it has read.

These three are sufficient and necessary. As long as they hold, every step of
the tables is a step of the barrier or none, every closed pool can be resumed,
and all that the runs check of a pool follows. And a behaviour that keeps the
barrier and can always be resumed has no late step: a late activation opens the
barrier before the last task has crossed, or to another contract than it was
closed for, or changes the contract of an open pool (`LateActivate`); a late
cancellation leaves a closed pool without an operation (`LateCancel`); a late
import puts tasks into an open pool that do not follow its contract
(`LateImport`). So a guard for each of the three is all that the code lacks, and
none of them can be weaker. The start, the chunks, the light activation and the
correction need none that they have not got: the violated runs break the
invariants by these three steps, whatever other requests did to bring them about.

The invariant is `TimelyInv`. It says what the rows promise (`RowsInv`) and, of
operations, what stays true while requests overlap:

* what was reviewed has not started, not even if it was cancelled and asked for
  again (`CurrentIsFresh`), so that a start or a light activation may trust the
  review it rechecks;
* an operation that a request resumes or corrects is applying, or it is over
  with all its items decided (`ReadsStand`, `Over`), so that a late chunk fails
  its guard or is empty (`ChunkIsEmpty`) and a late correction finds nothing
  rejected;
* the contract in force is that of an operation that has ended (`ActiveIsOver`),
  so that a migration brings another one, as `Close` demands;
* a task whose item waits still follows the contract in force (`WaitingIsOld`),
  so that a chunk is a `Cross`, and an activation before the last of them is
  none of the barrier's steps.

`RowsInv` is the rest. A start finds an open pool that no operation holds
(`CurrentIsOpen`), lists every task (`UntouchedIsListed`) and finds none decided
(`UndecidedBefore`); a chunk adds to the tasks that follow the new contract and
that nobody holds (`AppliedIsConverted`); and an activation finds all tasks
among them, because the operation that closed the pool is the only one applying
(`OneApplying`) and lists them all (`Resumable`). `RowsStep` proves that a step
keeps it if what its batch relies on is true (`Trusted`), and `TimelyTrusted`
that it is. The other handlers are one case, `QuietRows` and `QuietKeeps`: they
leave statuses alone, and change a task's contract or grant a lease only in an
open pool.

The other premises are about the constants, and say which requests are never
late. `OneAtATime` says that there is one request: each is asked after the one
before has ended or died, while claims, reports, edits, new tasks and
configuration changes go on between its reads; all that it has read still holds
when its batch comes (`ReadIsTrue`). `OneOperation` says that the pool has one
migration, about which any number of requests may overlap. `Orderly` is
`OneAtATime \/ Resuming`, and `Resuming` is `OneOperation` where administrators
ask only to apply: the requests of a browser that asks again, of a second tab or
of a second administrator, all of which carry one migration on at the same time.
There what was read holds, or another request has ended the migration
(`ReadHolds`, `Activated`): no item waits again that was decided, as nobody
corrects, so a second activation repeats the first (`ActivatedAgain`).
`TasksConvertOnce` needs only the types and `StillPending`, the guard on the
chunk's items, when there is one operation; otherwise it, like the other
theorems about `Orderly`, follows from `OrderlyIsOnTime`. `half_converted`,
`late_activation` and `cancel_race` violate `NoHalfConverted`,
`ClosedWhileApplying` and `Resumable` with two requests of which one corrects,
applies another operation or cancels, so each lacks one part of `Resuming`.

### Receipts

`ReceiptsProofs` proves `CommitsOnce` (`AtMostOnce`), `AnswersAlike`
(`AnsweredAlike`) and `RightsStayLost` (`NoRightRestored`) for any ids, bodies,
deliveries and bounds, and for every `Retention` whose periods are at least
`FreshFor + Skew` (`ReceiptAssumption`). In the code a receipt is kept for two
days at least (db.ts:90), and a request is accepted until it is a day old or
five minutes ahead of the clock (db.ts:124), so the inequality holds whatever
the settings are. The invariant:

* `Remembered`: an operation that was done has its receipt, or is too old to be
  accepted. This is where the inequality is used: a receipt is pruned only past
  its deadline, and `Kept` says that the deadline is not before the operation
  has gone stale.
* `GoodRunning`: a receipt that a delivery has read is still there or of a stale
  operation, has its id, and matches its operation once the replay was allowed;
  and a delivery that lost its right before it was decided will still find that
  it has, because keys and epochs never come back.
* `GoodAnswer`: an answer "ok" was for something done, and tells its result or,
  of a stale one, nothing.

### The Python client

`ReceiptsProofs` goes on to the client, for any ids, bodies, deliveries,
batches and faults, crashes and restored recovery data among them
(`ClientAssumption`):

| Theorem | Statement |
| --- | --- |
| `ClientSendsOperations` | `ClientSpec => ReceiptsSpec` |
| `ClientCommitsOnce` | `ClientSpec => []AtMostOnce` |
| `ClientTypes` | `ClientSpec => []ClientTypeOK` |
| `CompletedBatches` | `ClientSpec => CompletedIsDone` |

The first is the composition: whatever the client does, the service sees a step
of `Receipts` or none, so that its three theorems hold behind the client too.
`ClientInv` says two things of the client. What it waits for is a delivery of the operation
its call is about now (`AwaitsCurrent`), so an answer that comes is to that
operation, by `GoodAnswer` of the service. And what a batch counts as
acknowledged is done, with its own results in their places (`Acknowledged`); of
recovery data likewise, which is why a restored batch may begin behind what was
done but never ahead of it. A batch is returned only when all of it is
acknowledged.

### Reviewed operations

`BulkProofs` proves `EffectsOnce` (`AppliedOnce`: an item is written at most
once and only if it is recorded as applied, or gave way to another item of its
task that was), `LeasesAsReviewed`
(`OnlyReviewedLeases`), `EditsAreKept` (`NoEditLost`), `CancelIsFinal`
(`CancelStops`) and `ProgressHolds` (`ProgressIsTrue`) for any finite set of
rows, any browsers, workers, actions, modes, chunk sizes and numbers of outside
steps (`BulkAssumption`, `NothingAssumption`). Three facts carry them, all in
`BulkInv`:

* `ItemTrue`: an item names revisions that its task has or had, so that "the
  revision is the one reviewed" means that nothing happened since. Items of new
  tasks name none, and only an import has them.
* `ApplyingTrue` and `EditingTrue`: the input that a request has read is still
  the task's, unless the revision it was reviewed with has gone. Hence a batch
  that finds the revision writes over nothing (`NoEditLost`).
* `ShownTrue`: the lease that a review showed is not older than the item and not
  newer than the task's. An accepted item has the task's generation, so what
  was shown is squeezed between two equal numbers.

Every step *follows* (`Follows`): revisions grow, items keep all but their
status, the operation keeps its action. `ItemFollows`, `ShownFollows` and
`RequestFollows` show once that the three facts survive any such step, so each
action only has to account for what it writes anew (`Combine`). `ProgressHolds`
adds `ProgressInv`, which counts: the decided items before a batch and those it
decides are disjoint.

### Configuration

`ConfigurationProofs` proves `ReferencesAlwaysHold` (`ReferencesHold`),
`ArchivedStaysClosed` (`ArchivedIsClosed`), `ClaimsFollowConfiguration`
(`ClaimFollowsConfiguration`) and `RemovalsTakeWhatWasShown`
(`RemovesWhatWasShown`) for any sets of families, pools, profiles, keys,
administrators and claimants and any number of changes
(`ConfigurationAssumption`; `AbsentAssumption` says that a missing row is no
row). All four rest on what a revision is good for (`Moves`): a row that was
removed never comes back, and a row never changes under its revision. So the
invariant `ConfigurationInv` can say of what somebody has read that it is true
unless a revision grew:

* `RequestTrue`: a request names an item of its table, and a form that enables
  an item knows that it is not archived, unless its revision has grown. This is
  what makes `ArchivedIsClosed` inductive, for the guard of the batch compares
  revisions and never looks at `archived` again.
* `ClaimTrue`: the rows of a claim's view follow one route, and each was so
  once. Hence a batch that finds the revisions of the view finds its rows, which
  is `ClaimFollowsConfiguration`.
* `ReferencesHold` itself: a removal is planned anew and is blocked by whatever
  refers to the item from outside its scope, and what creates a reference does
  so under a guard on the row it refers to. The foreign keys of the tables are not
  used, except for new keys.

`RemovalsTakeWhatWasShown` needs one thing more, that nothing but a removal
takes profiles and keys away (`OnlyRemovalsTake`).

### Sort indexes

`SortIndexesProofs` proves `RegistryStaysTrue` (`RegistryIsTrue`) for any fields
and keys of which there are enough, any editors and any number of changes
(`IndexAssumption`, `UnbuiltAssumption`). An index is built, dropped and
invalidated on the strength of what was read before, in queries of their own, so
the invariant says of each request what is left of it (`RequestTrue`): under the
revision of the pool it read, no schema change is under way (`PoolRead`); a
definition it read is still that one under the same revision, since ids are not
given twice (`EntryRead`); and the fields a build compared are those of the pool
while its revision stands. `FrozenRegistry` names every definition with its
revision, so a start that finds it unchanged invalidates the definitions as they
are. `IndexTrue` adds to the property that an index reads the key its definition
names, for that is what decides which indexes a schema change affects.

### Portable import

`PortableProofs` proves `FileImportedInOrder` (`ImportedInOrder`) for any file,
any tabs and any number of previews and chunks on the way (`PortableAssumption`).
The invariant has three parts. A chunk on the way is a run of consecutive
records that begins at most one behind what its operation has counted
(`ChunkTrue`), since a dialog that sends knows no more than was counted
(`DialogTrue`). At most one operation has counted anything, and what is stored
is what it counted (`OneImports`). A chunk is inserted only if it meets no
stored record (`Insertable`), so it begins exactly behind the counted ones, and
the prefix grows by it.

### The task table

`PagingProofs` proves, for any finite set of tasks, any columns, values, sorts
and page size, and any number of loads, edits and changes on the server
(`TableAssumption`):

| Theorem | Statement |
| --- | --- |
| `TableIsKnown` | `TableSpec => []TableInv` |
| `AllRowsShown` | `TableSpec => []AllRowsAreShown`, which excepts a view of all rows that was left and is not loaded again |
| `RowsStayUnderEdit` | `TableSpec => EditedRowsStay` |
| `TableTypes` | `TableSpec => []TableTypeOK`, if `MaxLoads > 0` |

The proof begins below the table. `Precedes` is shown to be a strict total order
of rows, whatever the columns, their directions and their nulls, because the
task's identity ends every comparison. A finite set in such an order has one row
of each rank (`Ranks`), so that the sorted sequence that `listTasks` returns
exists, and a page of it is what lies behind the cursor up to the next one
(`PageOf`).

What is left of this while tasks change is `PageTrue`: it speaks only of tasks
that nobody has changed since the first page (`Still`), for of the others
nothing is promised. `TableInv` then says what is known of the screen:

* `LoadsTrue`: at most one load is of the present generation, and asks for the
  view on the screen. Loads of older generations may do nothing but end, and a
  generation never comes back.
* `AllTrue`: as long as the view of all rows was not left, its rows are in order
  and complete up to `allCursor` (`UpTo`), `allComplete` says that they are
  complete, and what is drawn is what is loaded.
* `LoadTrue`: a load on its way has the cursor the screen has, and its page
  continues the rows there.
* `WillLoad` and `EditTrue`: a view of all rows that was left and not loaded
  again waits for an edit, and an edit is of something shown. Without them the
  end of an edit might find nothing to load and the table stay as it was.

`RowsStayUnderEdit` needs of this only that what draws rows is of the present
generation and gives way to the editor.

`TableTypes` bounds the generations too, which `TableInv` does not. `Spent`
adds that to it: an administrator's loads and sorts end with `MaxLoads`, which
the last sort may pass by one, and an edit that ends (`Ended`) begins two at
most, if it put off a sort of a view that is not loaded. Nothing else begins a
load (`Begins`), so deferring loads never multiplies them. The opening of the
screen is a load, hence `MaxLoads > 0`.

### Exports

`PagingProofs` also proves `ExportsWhole`, `ExportSpec => []ExportsAreWhole`,
for any tasks, attempts, tables, rowids and pages (`ExportAssumption`), from
`DownloadInv`: pages are in order with the cursor behind them (`PagesOrdered`),
what was there from the beginning is there (`BeganStays`), and is on a page or
behind the cursor (`BeganIsReceived`). The lemma that carries it is
`PageIsFirst`: of any finite set of rows a page holds the first ones, a full
page has a last one, and a page that is not full is all there is. That rows
come in before the cursor, or go, does not matter then: a row that stays is
behind the cursor until it is on a page.

### Only model-checked

Liveness (`LeaseEnds`, `MigrationEnds`, `PendingClaimResolves`) is out of the
prover's reach. Of `AdministrationTypeOK` every part is proved of its own component
(`BulkTypes`, `ConfigurationTypes`, `IndexTypes`, `PortableTypes`,
`TableTypes`); that the parts hold side by side in `AdministrationSpec`, where
the components rest but one, is only checked. The five violated properties are false.

## 5. What is left out, and why

* Legacy imports create tasks with historical counters and completions that no
  attempt stands for; `Init` has fresh tasks only.
* Policies, pool caps and capacities do not change in `LeaseBroker`; a task's own
  attempt limit does. Lowering a policy or a cap is a change of configuration,
  after which a claim reads the new values (`ClaimFollowsConfiguration`); what is
  leased or counted beyond them stays so.
* The pools of `LeaseBroker` are ready: `effectiveHeads` (db.ts:16) does not count
  the leases of a closed pool. Closed pools are in `SchemaMigration`.
* Optimistic revisions of edits (`expected_edit_revision` and others) only
  refuse steps in `LeaseBroker`; they are in `BulkOperations`.
* The validity of results and inputs against fields only refuses steps.
* Preview expiry and `refresh` only restrict or permit what the model permits, and
  so does the check that a schema change is applied by the administrator who
  previewed it (schema.ts:181).
* Several deliveries of one request are the matter of `Receipts`. In
  `LeaseBroker` a worker may call with any attempt it ever had, at any later
  time, which is what repeated and late calls amount to without receipts.
* An epoch value is never used twice: the deployment documents ask for a fresh
  one, and the code does not check it.
* A guard of `claim` on `input_contract_revision` (broker.ts:147) only refuses,
  and refuses nothing where `NoHalfConverted` holds.
* `Receipts` has one key, and an administrator's requests only as far as their
  batches touch receipts. The forty statements and fifty queries of a request
  are not counted.
* `TaskClient`: `Task.complete`, `fail`, `release` and `renew` retry as
  `complete_many` does, for one task; `recover` and `poll` only read or repeat.
* `BulkOperations`: pasted patches name tasks that are there. An import's rows
  have no tags, and what a value converts to is not modelled. A row that is twice
  in a file is rejected within a chunk only (operations.ts:388-422): in two
  chunks of the file both are staged, and if one batch applies both,
  `UPDATE ... FROM` takes either and both say "applied". The model has that
  (`Outcomes`, `TookEffect`), `AppliedOnce` says what is left to promise then, and
  no document promises more.
  `applyOperation` reads the fields before the pool (operations.ts:504), so that
  tasks it creates or edits across a schema change may follow the contract before;
  contracts are not told apart here, but in `SchemaMigration` (`Import`). There, in
  turn, the revisions that a row was reviewed at are left out, which only refuse.
* The browser's `persistDraft` sends the edit revision of the row it loaded last
  (main.ts:920), and discarding a draft deletes a newer one of another tab
  (main.ts:965): drafts are not modelled.
* `Configuration`: setting a family's default to null; slugs, aliases, policies,
  filters, caps and saved views, which are values that no property here tells
  apart; the profile form's own bookkeeping (main.ts:396).
* `SortIndexes` takes each schema change to activate once; that it may activate
  twice is `late_activation`. An index sorts by one field. A field's key stands for
  its key and its type, both of which the code compares and the index's expression
  depends on; so a change of the type alone is one to another key. The theorem is
  of any set of keys. The run has two keys and two fields, which leaves their
  exchange and the loss of a field.
* `TaskTable`: filters, columns, drawing and the grid's cells. The grid takes new
  rows in one step, while `addData` and `replaceData` of its library are awaited
  (main.ts:728); what may come in between comes after it here, before
  `FinishDrawing`. `AllRowsAreShown` leaves out the view of all rows that was left
  and not loaded again (the history variable `left`): that the code is wrong there
  is what `all_loaded` shows. The message is wrong already while the edit is open;
  `LoadedIsWhole` asks for it only when none is, when nothing is put off any more.
* `Exports`: one download at a time, columns, formats and the file itself. One
  case is left out of `ExportsAreWhole` (the history variable `raced`): an
  export expires, and its items are pruned, between the query of one request
  that reads the operation and the one that reads its rows
  (operations.ts:746). Its page is short for that reason, looks like the last
  one, and the file is saved as if it were whole. This takes a prune within one request at the
  end of the operation's day, and no document promises otherwise; TLC finds it
  when `~download.raced` is taken out of the property. A request that comes
  after the expiry is refused, and nothing is saved.
* Filters are compiled to SQL and keep no state; routing,
  validation, metrics and DTOs keep none either. Deployment, build and release
  scripts run outside the service.

## 6. Plan

What is left, in this order:

1. `ClaimOrder`: the order of fresh and retried tasks in a claim against a
   sorted reference list.
2. Drafts of the browser in several tabs, with the revisions they are based on.
