------------------------------ MODULE TaskTable ------------------------------
(***************************************************************************)
(* The task table of the browser (web/main.ts): its loads, which fetch a   *)
(* page or all pages of listTasks one after the other, against a change of *)
(* view, cancellation, editing and the changes others make meanwhile.      *)
(* The pages are cut by value and uid (sort.ts), with a cursor that holds  *)
(* the last row.                                                           *)
(*                                                                         *)
(* JavaScript runs one handler at a time, up to an await: a load stops for *)
(* its answer and for the table to be drawn.  What is stored while it      *)
(* stops is in `screen.loads`.  Filter, profile and pool identify a view   *)
(* as its sort order does; only the sort order is kept here.               *)
(***************************************************************************)
EXTENDS Integers, FiniteSets, Functions, Sequences

CONSTANTS
  TaskSet,     \* uids, which are integers
  Column,
  Initial,     \* for every task the values of its columns, Null or an integer
  SortSpecs,   \* sequences of [column, descending]
  PageLimit,   \* rows of a page, 250 in a load of all rows
  MaxLoads,    \* how often the table is loaded or sorted
  MaxEdits,    \* how often a row is edited
  MaxUpdates,  \* changes of tasks by others
  Null, None

ASSUME TableAssumption ==
  /\ TaskSet \subseteq Int /\ IsFiniteSet(TaskSet)
  /\ Initial \in [TaskSet -> [Column -> Int \cup {Null}]] /\ Null \notin Int
  /\ SortSpecs \subseteq Seq([column : Column, descending : BOOLEAN])
  \* None is no value of a task, no row, list of rows, view or list of sorts.
  /\ None \notin [Column -> Int \cup {Null}]
  /\ None \notin [uid : TaskSet, values : [Column -> Int \cup {Null}]]
  /\ None \notin Seq([uid : TaskSet, values : [Column -> Int \cup {Null}]])
  /\ None \notin SortSpecs
  /\ \A sorts \in SortSpecs, all \in BOOLEAN :
       None # [sorts |-> sorts, all |-> all, cursor |-> None]
  /\ PageLimit \in Nat \ {0} /\ MaxLoads \in Nat /\ MaxEdits \in Nat /\ MaxUpdates \in Nat

VARIABLES
  stored_tasks,   \* the table tasks: the values of a task, None if it is gone
  screen,         \* the state of the browser
  updates

tableVars == <<stored_tasks, screen, updates>>

-----------------------------------------------------------------------------
(* sort.ts.                                                                *)

\* Nulls come first in either direction, and the uid decides in the end.
Precedes(spec, a, b) ==
  LET differs == {i \in 1 .. Len(spec) : a.values[spec[i].column] # b.values[spec[i].column]}
      i == CHOOSE i \in differs : \A j \in differs : i <= j
      x == a.values[spec[i].column]
      y == b.values[spec[i].column]
  IN  IF differs = {} THEN a.uid < b.uid
      ELSE IF x = Null \/ y = Null THEN x = Null
      ELSE IF spec[i].descending THEN x > y ELSE x < y

\* A set in an order, which is a set of pairs: the element with k - 1 others
\* before it is in place k.
Arranged(set, order) ==
  [k \in 1 .. Cardinality(set) |->
     CHOOSE x \in set : Cardinality({y \in set : <<y, x>> \in order}) = k - 1]

Ordered(spec, rows) == Arranged(rows, {p \in rows \X rows : Precedes(spec, p[1], p[2])})

\* sortAfter: the rows behind the one the cursor holds.  A row is if it agrees
\* with it in the first columns and is behind it in the next, or in its uid.
\* Mutation: null is not told from a value.
AfterValues(spec, row, last) ==
  \E i \in 1 .. Len(spec) + 1 :
    /\ \A j \in 1 .. i - 1 :
         row.values[spec[j].column] # Null /\ row.values[spec[j].column] = last.values[spec[j].column]
    /\ IF i > Len(spec) THEN row.uid > last.uid
       ELSE LET v == last.values[spec[i].column]
                e == row.values[spec[i].column]
            IN  e # Null /\ v # Null /\ (IF spec[i].descending THEN e < v ELSE e > v)

After(spec, row, last) ==
  \E i \in 1 .. Len(spec) + 1 :
    /\ \A j \in 1 .. i - 1 : row.values[spec[j].column] = last.values[spec[j].column]
    /\ IF i > Len(spec) THEN row.uid > last.uid
       ELSE LET v == last.values[spec[i].column]
                e == row.values[spec[i].column]
            IN  e # Null /\ (v = Null \/ IF spec[i].descending THEN e < v ELSE e > v)

\* listTasks: a page, and a cursor if there is more.
ListTasks(spec, cursor) ==
  LET rows == {[uid |-> u, values |-> stored_tasks[u]] : u \in {v \in TaskSet : stored_tasks[v] # None}}
      all == Ordered(spec, {row \in rows : cursor = None \/ After(spec, row, cursor)})
      page == IF Len(all) <= PageLimit THEN all ELSE SubSeq(all, 1, PageLimit)
  IN  [rows |-> page, cursor |-> IF Len(all) > PageLimit THEN page[PageLimit] ELSE None]

-----------------------------------------------------------------------------
(* The state of the browser.                                               *)
Identity(view) == [sorts |-> view.sorts, all |-> view.all, cursor |-> view.cursor]

TableTypeOK ==
  /\ stored_tasks \in [TaskSet -> [Column -> Int \cup {Null}] \cup {None}]
  /\ screen.view.sorts \in SortSpecs /\ screen.view.all \in BOOLEAN
  /\ screen.generation \in 1 .. 2 * (MaxLoads + MaxEdits) /\ screen.editing \in BOOLEAN
  /\ screen.touched \subseteq TaskSet
  /\ \A load \in screen.loads : load.generation <= screen.generation

\* cancelLoad: the load under way is of an earlier generation from now on.
CancelLoad(s) == [s EXCEPT !.generation = @ + 1]

\* loadPage; a load of all rows is resumed, if asked to, behind the last page.
LoadPage(s, resume) ==
  LET c == CancelLoad(s)
      \* Sorts that were put off come first.
      d == IF c.deferredSorts = None THEN [c EXCEPT !.deferredReload = FALSE]
           ELSE [c EXCEPT !.deferredReload = FALSE, !.deferredSorts = None, !.back = <<>>,
                   !.view = [@ EXCEPT !.sorts = c.deferredSorts, !.cursor = None]]
      identity == Identity(d.view)
      all == d.view.all
      cursor == IF ~all THEN d.view.cursor
                ELSE IF resume /\ d.allIdentity = identity THEN d.allCursor ELSE None
      continuing == all /\ resume /\ d.allIdentity = identity /\ d.rows # <<>> /\ cursor # None
      load == [phase |-> "asked", generation |-> d.generation, identity |-> identity, cursor |-> cursor,
               first |-> ~continuing, refreshing |-> all /\ d.grid # None /\ d.rendered = identity,
               page |-> None]
      started == [d EXCEPT !.loads = @ \cup {load}]
  IN  IF s.editing THEN [c EXCEPT !.deferredReload = TRUE]
      ELSE IF ~all THEN started
      ELSE IF continuing THEN [started EXCEPT !.allIdentity = identity]
      ELSE [started EXCEPT !.allIdentity = identity, !.allCursor = None, !.allComplete = FALSE,
              !.rows = <<>>, !.touched = {}, !.left = FALSE]

\* changeSorts: all rows, if they are loaded, are sorted in place.
ChangeSorts(s, sorts) ==
  LET local == s.view.all /\ s.allComplete /\ s.allIdentity = Identity(s.view)
      c == [CancelLoad(s) EXCEPT !.view = [@ EXCEPT !.sorts = sorts, !.cursor = None], !.back = <<>>]
      sorted == Ordered(sorts, Range(s.rows))
  IN  IF s.editing THEN [s EXCEPT !.deferredSorts = sorts]
      ELSE IF ~local THEN LoadPage(c, FALSE)
      ELSE [c EXCEPT !.allIdentity = Identity(c.view), !.rows = sorted, !.grid = sorted,
              !.loads = @ \cup {[phase |-> "sorting", generation |-> c.generation]}]

FlushDeferred(s) ==
  IF s.deferredSorts # None
  THEN ChangeSorts([s EXCEPT !.deferredSorts = None, !.deferredReload = FALSE], s.deferredSorts)
  ELSE IF s.deferredReload THEN LoadPage([s EXCEPT !.deferredReload = FALSE], FALSE) ELSE s

NewScreen(spec, all) ==
  [view |-> [sorts |-> spec, all |-> all, cursor |-> None], back |-> <<>>, next |-> None,
   rows |-> <<>>, grid |-> None, rendered |-> None,
   allIdentity |-> None, allCursor |-> None, allComplete |-> FALSE,
   generation |-> 0, loads |-> {}, editing |-> FALSE, edits |-> 0,
   deferredReload |-> FALSE, deferredSorts |-> None,
   touched |-> {},   \* history: tasks changed since a load of all rows began
   left |-> FALSE]   \* history: the view of all rows was left since

\* The screen opens with a load.
TableInit ==
  /\ stored_tasks = Initial /\ updates = 0
  /\ \E spec \in SortSpecs, all \in BOOLEAN : screen = LoadPage(NewScreen(spec, all), FALSE)

\* Every action of the browser changes the screen and nothing else.
Shows(s) == screen' = s /\ UNCHANGED <<stored_tasks, updates>>

\* Bound of the model: loads and sorts, those of flushDeferred aside.
MayLoad == screen.generation < MaxLoads

-----------------------------------------------------------------------------
(* What an administrator does.                                             *)
RefreshPage == MayLoad /\ Shows(LoadPage(screen, FALSE))

RetryLoading == MayLoad /\ screen.view.all /\ ~screen.allComplete /\ Shows(LoadPage(screen, TRUE))

CancelLoading == MayLoad /\ screen.view.all /\ Shows(CancelLoad(screen))

PressSort(sorts) == MayLoad /\ sorts # screen.view.sorts /\ Shows(ChangeSorts(screen, sorts))

SetPageSize ==
  /\ MayLoad
  /\ Shows(LoadPage([screen EXCEPT !.view = [@ EXCEPT !.all = ~@, !.cursor = None], !.back = <<>>,
                       !.left = @ \/ screen.view.all], FALSE))

NextPage ==
  /\ MayLoad /\ ~screen.view.all /\ screen.next # None
  /\ Shows(LoadPage([screen EXCEPT !.back = Append(@, screen.view.cursor), !.view.cursor = screen.next], FALSE))

PreviousPage ==
  /\ MayLoad /\ ~screen.view.all /\ screen.back # <<>>
  /\ Shows(LoadPage([screen EXCEPT !.view.cursor = screen.back[Len(screen.back)],
                       !.back = SubSeq(@, 1, Len(@) - 1)], FALSE))

\* A cell is opened and typed into; until it is saved there is a draft.
BeginEdit ==
  /\ ~screen.editing /\ screen.grid \notin {None, <<>>} /\ screen.edits < MaxEdits
  /\ Shows([screen EXCEPT !.editing = TRUE, !.edits = @ + 1])

\* It is saved: the row shown, and the one stored, take the new value where they are.
SaveEdit(u) ==
  /\ updates < MaxUpdates /\ updates' = updates + 1
  /\ screen.editing /\ stored_tasks[u] # None /\ \E i \in DOMAIN screen.grid : screen.grid[i].uid = u
  /\ \E v \in {Initial[w] : w \in TaskSet} \ {stored_tasks[u]} :
       LET saved(rows) == [i \in DOMAIN rows |-> IF rows[i].uid = u THEN [uid |-> u, values |-> v] ELSE rows[i]]
       IN  /\ stored_tasks' = [stored_tasks EXCEPT ![u] = v]
           /\ screen' = FlushDeferred([screen EXCEPT !.editing = FALSE, !.rows = saved(@), !.grid = saved(@),
                                         !.touched = @ \cup {u}])

\* It is discarded.
EndEdit == screen.editing /\ Shows(FlushDeferred([screen EXCEPT !.editing = FALSE]))

-----------------------------------------------------------------------------
(* A load, from its request to the next.                                   *)
Without(load) == [screen EXCEPT !.loads = @ \ {load}]

Serve(load) ==
  /\ load.phase = "asked"
  /\ Shows([Without(load) EXCEPT !.loads = @ \cup
       {[load EXCEPT !.phase = "answered", !.page = ListTasks(load.identity.sorts, load.cursor)]}])

\* The request fails, and the load ends with an error.
FailLoad(load) == load.phase = "asked" /\ Shows(Without(load))

\* Mutation: a load of the same view goes on beside a newer one.
CurrentView(load) == load.identity = Identity(screen.view)

Current(load) == load.generation = screen.generation /\ load.identity = Identity(screen.view)

\* Mutation: an answer is shown whatever is being edited.
ShownAtOnce == TRUE

Undisturbed == ~screen.editing

DropAnswer(load) ==
  /\ load.phase = "answered" /\ ~(Current(load) /\ Undisturbed)
  /\ Shows(IF Current(load) THEN [Without(load) EXCEPT !.deferredReload = TRUE] ELSE Without(load))

\* A load of all rows goes on behind the cursor, any other ends.
GoOn(s, load) ==
  LET more == load.page.cursor # None
      received == [s EXCEPT !.next = load.page.cursor]
  IN  IF ~load.identity.all THEN received
      ELSE [received EXCEPT !.allCursor = load.page.cursor, !.allComplete = ~more,
              !.loads = IF ~more THEN @
                        ELSE @ \cup {[load EXCEPT !.phase = "asked", !.first = FALSE, !.page = None,
                                         !.cursor = load.page.cursor]}]

\* The elements of a sequence at some indexes, in their order.
Kept(seq, indexes) ==
  LET index == Arranged(indexes, {p \in indexes \X indexes : p[1] < p[2]})
  IN  [k \in 1 .. Cardinality(indexes) |-> seq[index[k]]]

\* The rows are stored, and drawn unless they refresh a view of all rows that
\* is not whole yet.  The grid takes them in one step; the code goes on in
\* FinishDrawing, when the promise of the grid is kept (main.ts:728).
ShowAnswer(load) ==
  LET fresh == Kept(load.page.rows, {i \in DOMAIN load.page.rows :
                 \A j \in DOMAIN screen.rows : screen.rows[j].uid # load.page.rows[i].uid})
      append == ~load.first /\ load.identity.all
      stored == [Without(load) EXCEPT !.rows = IF append THEN screen.rows \o fresh ELSE load.page.rows]
      draw == ~load.refreshing \/ load.page.cursor = None
  IN  /\ load.phase = "answered" /\ Current(load) /\ Undisturbed
      /\ Shows(IF ~draw THEN GoOn(stored, load)
               ELSE [stored EXCEPT !.grid = IF append /\ ~load.refreshing THEN @ \o fresh ELSE stored.rows,
                       !.loads = @ \cup {[load EXCEPT !.phase = "drawing"]}])

FinishDrawing(load) ==
  /\ load.phase = "drawing"
  /\ Shows(IF load.generation # screen.generation THEN Without(load)
           ELSE GoOn([Without(load) EXCEPT !.rendered = load.identity], load))

FinishSorting(load) ==
  /\ load.phase = "sorting"
  /\ Shows(IF load.generation # screen.generation THEN Without(load)
           ELSE [Without(load) EXCEPT !.rendered = screen.allIdentity])

-----------------------------------------------------------------------------
\* Somebody else deletes a task, or changes its values, which may be anything
\* that another task's are.
UpdateTask(u) ==
  /\ updates < MaxUpdates /\ updates' = updates + 1
  /\ \E v \in {Initial[w] : w \in TaskSet} \cup {None} : v # stored_tasks[u] /\ stored_tasks' = [stored_tasks EXCEPT ![u] = v]
  /\ screen' = [screen EXCEPT !.touched = @ \cup {u}]

TableNext ==
  \/ RefreshPage \/ RetryLoading \/ CancelLoading \/ SetPageSize \/ NextPage \/ PreviousPage
  \/ \E sorts \in SortSpecs : PressSort(sorts)
  \/ BeginEdit \/ EndEdit
  \/ \E load \in screen.loads :
       Serve(load) \/ FailLoad(load) \/ DropAnswer(load) \/ ShowAnswer(load) \/ FinishDrawing(load) \/ FinishSorting(load)
  \/ \E u \in TaskSet : UpdateTask(u) \/ SaveEdit(u)

TableSpec == TableInit /\ [][TableNext]_tableVars

-----------------------------------------------------------------------------
(* Properties.                                                             *)

SaysAllLoaded ==
  screen.view.all /\ screen.allComplete /\ screen.allIdentity = Identity(screen.view)

\* The table shows every task that was not changed since the load began, no
\* task twice, and in the order the view asks for.
ShowsAllRows ==
  LET rows == screen.rows
      untouched(i) == rows[i].uid \notin screen.touched
  IN  /\ screen.grid = rows
      /\ \A i, j \in 1 .. Len(rows) :
           i < j => /\ rows[i].uid # rows[j].uid
                    /\ untouched(i) /\ untouched(j) => Precedes(screen.view.sorts, rows[i], rows[j])
      /\ \A u \in TaskSet \ screen.touched :
           stored_tasks[u] # None => \E i \in 1 .. Len(rows) : rows[i] = [uid |-> u, values |-> stored_tasks[u]]

\* "All rows loaded" is true, whichever loads were cancelled, resumed, overtaken
\* or put off and wherever the pages were cut, with one exception: after the
\* view of all rows was left, until the next load of all rows begins.  There the
\* code says so over one page, see LoadedIsWhole.  (main.ts:652, sort.ts:107)
AllRowsAreShown == SaysAllLoaded /\ ~screen.left => ShowsAllRows

\* The exception: "The progress indicator distinguishes complete and incomplete
\* loads" (docs/user-guide.md:49), once every edit is saved or discarded, also
\* where the view of all rows was left and taken up again.  (main.ts:583)
LoadedIsWhole == SaysAllLoaded /\ ~screen.editing => ShowsAllRows

\* No load, sort or deferred refresh takes the rows away under an editor or a
\* draft that is not saved.  (main.ts:697)
EditedRowsStay ==
  [][screen.editing /\ screen'.editing => screen'.rows = screen.rows /\ screen'.grid = screen.grid]_tableVars
=============================================================================
