------------------------------- MODULE Exports -------------------------------
(***************************************************************************)
(* The exports of the browser: tasks or the history of their attempts      *)
(* (exportPage of operations.ts), and the portable file of an installation *)
(* (portablePage of portable.ts).  Each is a loop of requests for a page   *)
(* behind the last row of the page before, while the rows change.          *)
(*                                                                         *)
(* A row is known by its place: ordinal of the task and sequence of the    *)
(* attempt, or number of the table and rowid.  A page is a set of rows, in *)
(* the order of their places.                                              *)
(***************************************************************************)
EXTENDS Integers, FiniteSets, Sequences

CONSTANTS
  ExportTask,
  MaxAttempts,  \* attempts at a task
  TableCount,   \* tables of a portable file
  MaxRowid,
  PageRows      \* rows of a page, 100

ASSUME ExportAssumption ==
  /\ IsFiniteSet(ExportTask) /\ MaxAttempts \in Nat
  /\ TableCount \in Nat \ {0} /\ MaxRowid \in Nat /\ PageRows \in Nat \ {0}

VARIABLES
  attempts,   \* how many there were at a task; they are never deleted
  records,     \* the rows of the tables
  selection,  \* the operation of kind 'export' and its items
  download    \* the loop of the browser

exportVars == <<attempts, records, selection, download>>

Table == 1 .. TableCount
Place == (Table \X (1 .. MaxRowid))

\* A sort order puts the chosen tasks in any order.
Orders ==
  {order \in UNION {[1 .. n -> ExportTask] : n \in 0 .. Cardinality(ExportTask)} :
     \A i, j \in DOMAIN order : i # j => order[i] # order[j]}

Start(kind) ==
  [phase |-> "ready", kind |-> kind, pages |-> <<>>,
   cursor |-> IF kind = "tasks" THEN <<-1, 0>> ELSE <<1, 0>>,
   began |-> {},      \* history: rows that are there from the beginning on
   raced |-> FALSE]   \* history: the operation expired while a page was read

\* Bound of the model: one download, and what it does not read is empty.
ExportInit ==
  /\ \/ /\ download = Start("tasks")
        /\ attempts \in [ExportTask -> 0 .. MaxAttempts] /\ records = {}
     \/ /\ download = Start("file")
        /\ records \in SUBSET Place /\ attempts = [t \in ExportTask |-> 0]
  /\ selection = [history |-> FALSE, order |-> <<>>, left |-> {}, expired |-> TRUE]

-----------------------------------------------------------------------------
(* Rows and their pages.                                                   *)
Before(p, q) == p[1] < q[1] \/ (p[1] = q[1] /\ p[2] < q[2])

\* The rows of an export, read live through the items that are left: of a
\* task one, or one for each of its attempts.
SelectedRows ==
  IF selection.history
  THEN {p \in selection.left \X (1 .. MaxAttempts) : p[2] <= attempts[selection.order[p[1] + 1]]}
  ELSE selection.left \X {0}

\* ORDER BY and LIMIT.
Page(found) == {p \in found : Cardinality({q \in found : Before(q, p)}) < PageRows}

LastOf(page) == CHOOSE p \in page : \A q \in page : ~Before(p, q)

\* Mutation: of a task whose attempts do not fit on a page the rest is lost.
RowsBehindTask(found) ==
  {p \in found : p[1] > download.cursor[1] \/ (download.kind = "file" /\ Before(download.cursor, p))}

RowsBehind(found) == {p \in found : Before(download.cursor, p)}

\* What the browser does with a page: a full one is not the last.
Received(page, next, cursor) ==
  download' = [download EXCEPT !.pages = Append(@, page), !.phase = next, !.cursor = cursor]

-----------------------------------------------------------------------------
(* An export of tasks.                                                     *)

\* operationPreview freezes the tasks and their order.
CreateExport(order, history) ==
  /\ download.phase = "ready" /\ download.kind = "tasks"
  /\ selection' = [history |-> history, order |-> order, left |-> 0 .. Len(order) - 1, expired |-> FALSE]
  /\ UNCHANGED <<attempts, records>>
  /\ download' = [download EXCEPT !.phase = "asking", !.began = SelectedRows']

\* The operation is read in a query of its own.
CheckExport ==
  /\ download.phase = "asking" /\ download.kind = "tasks"
  /\ ~selection.expired
  /\ download' = [download EXCEPT !.phase = "checked"]
  /\ UNCHANGED <<attempts, records, selection>>

ExportPage ==
  LET page == Page(RowsBehind(SelectedRows))
  IN  /\ download.phase = "checked"
      /\ IF Cardinality(page) = PageRows THEN Received(page, "asking", LastOf(page))
         ELSE Received(page, "done", download.cursor)
      /\ UNCHANGED <<attempts, records, selection>>

-----------------------------------------------------------------------------
(* A portable file.                                                        *)
CreateFile ==
  /\ download.phase = "ready" /\ download.kind = "file"
  /\ download' = [download EXCEPT !.phase = "asking", !.began = records]
  /\ UNCHANGED <<attempts, records, selection>>

\* One table after the other.
PortablePage ==
  LET table == download.cursor[1]
      page == Page(RowsBehind({p \in records : p[1] = table}))
  IN  /\ download.phase = "asking" /\ download.kind = "file"
      /\ IF Cardinality(page) = PageRows THEN Received(page, "asking", LastOf(page))
         ELSE IF table < TableCount THEN Received(page, "asking", <<table + 1, 0>>)
         ELSE Received(page, "done", download.cursor)
      /\ UNCHANGED <<attempts, records, selection>>

\* A request that fails or is refused ends the loop, and nothing is saved.
FailPage ==
  /\ download.phase \in {"asking", "checked"}
  /\ download' = [download EXCEPT !.phase = "failed"]
  /\ UNCHANGED <<attempts, records, selection>>

-----------------------------------------------------------------------------
(* Everybody else.                                                         *)
Lease(t) ==
  /\ download.kind = "tasks" /\ attempts[t] < MaxAttempts
  /\ attempts' = [attempts EXCEPT ![t] = @ + 1]
  /\ UNCHANGED <<records, selection, download>>

\* An operation expires after a day, its items are deleted in portions.
ExpireExport ==
  /\ ~selection.expired
  /\ selection' = [selection EXCEPT !.expired = TRUE]
  /\ download' = [download EXCEPT !.raced = @ \/ download.phase = "checked"]
  /\ UNCHANGED <<attempts, records>>

PruneItems(items) ==
  /\ selection.expired /\ items # {}
  /\ selection' = [selection EXCEPT !.left = @ \ items]
  /\ UNCHANGED <<attempts, records, download>>

\* A new row has a rowid behind all others.
InsertRow(table, rowid) ==
  /\ download.kind = "file" /\ \A p \in records : p[1] = table => p[2] < rowid
  /\ records' = records \cup {<<table, rowid>>}
  /\ UNCHANGED <<attempts, selection, download>>

DeleteRow(p) ==
  /\ download.kind = "file"
  /\ records' = records \ {p} /\ download' = [download EXCEPT !.began = @ \ {p}]
  /\ UNCHANGED <<attempts, selection>>

ExportNext ==
  \/ \E order \in Orders, history \in BOOLEAN : CreateExport(order, history)
  \/ CheckExport \/ ExportPage
  \/ CreateFile \/ PortablePage \/ FailPage
  \/ \E t \in ExportTask : Lease(t)
  \/ ExpireExport \/ \E items \in SUBSET selection.left : PruneItems(items)
  \/ \E table \in Table, rowid \in 1 .. MaxRowid : InsertRow(table, rowid)
  \/ \E p \in records : DeleteRow(p)

ExportSpec == ExportInit /\ [][ExportNext]_exportVars

-----------------------------------------------------------------------------
\* However the pages are cut, whatever is leased, inserted, deleted, expires
\* or is pruned meanwhile: a file holds its rows once and in order, and one
\* that is finished holds every row that was there from beginning to end,
\* unless its operation expired while a page of it was read.
\* (operations.ts:743, portable.ts:57)
ExportsAreWhole ==
  LET pages == download.pages
  IN  /\ \A i, j \in DOMAIN pages : i < j => \A p \in pages[i], q \in pages[j] : Before(p, q)
      /\ download.phase = "done" /\ ~download.raced =>
           \A p \in download.began : \E i \in DOMAIN pages : p \in pages[i]
=============================================================================
