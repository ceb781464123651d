----------------------------- MODULE BulkProofs -----------------------------
(***************************************************************************)
(* Proofs about BulkOperations, for any tasks, browsers, actions, modes,   *)
(* chunks and numbers of changes.                                          *)
(***************************************************************************)
EXTENDS BulkOperations, FiniteSetTheorems, TLAPS

\* An item of a task names revisions that the task has or had, one of a new
\* task none, and only an import makes new tasks of its own.
ItemTrue(o) ==
  IF items[o].create
  THEN items[o].edit = Nothing /\ items[o].turn = Nothing /\ op.action.kind = "import"
  ELSE /\ items[o].row \in Present
       /\ items[o].edit \in Nat /\ items[o].edit <= rows[items[o].row].edit
       /\ items[o].turn \in Nat /\ items[o].turn <= rows[items[o].row].turn

\* What a browser stages is what it read, or what the task was then.
StagingTrue(q) ==
  /\ op # Nothing /\ op.action.kind = "import"
  /\ IsFiniteSet(DOMAIN q.names)
  /\ \A o \in DOMAIN q.names :
       /\ q.names[o] \in Row /\ q.old[o].present \in BOOLEAN
       /\ IF q.old[o].present
          THEN /\ q.names[o] \in Present
               /\ q.old[o].edit \in Nat /\ q.old[o].edit <= rows[q.names[o]].edit
               /\ q.old[o].turn \in Nat /\ q.old[o].turn <= rows[q.names[o]].turn
          ELSE q.old[o].edit = Nothing /\ q.old[o].turn = Nothing

\* The input a browser read is still the task's, unless the revision reviewed
\* is no longer the task's either.
ApplyingTrue(q) ==
  \A o \in q.taken :
    /\ o \in Staged /\ q.data[o] \subseteq Mark
    /\ ~items[o].create /\ rows[items[o].row].edit = items[o].edit
         => q.data[o] = rows[items[o].row].data

EditingTrue(q) ==
  /\ q.row \in Present /\ q.data \subseteq Mark
  /\ q.edit \in Nat /\ q.edit <= rows[q.row].edit
  /\ rows[q.row].edit = q.edit => q.data = rows[q.row].data

RequestTrue(b) ==
  /\ browser[b].phase \in {"taken", "applying"} => op # Nothing
  /\ browser[b].phase = "staging" => StagingTrue(browser[b])
  /\ browser[b].phase = "taken" => browser[b].taken \subseteq Staged
  /\ browser[b].phase = "applying" => ApplyingTrue(browser[b])
  /\ browser[b].phase = "editing" => EditingTrue(browser[b])

\* The lease a review showed is not older than the item, nor newer than the task.
ShownTrue(o) ==
  shown[o] # Nothing =>
    /\ o \in Staged /\ ~items[o].create
    /\ items[o].turn <= shown[o] /\ shown[o] <= rows[items[o].row].turn

BulkInv ==
  /\ BulkTypeOK
  /\ op = Nothing => Staged = {}
  /\ \A o \in Staged : ItemTrue(o)
  /\ \A b \in Browser : RequestTrue(b)
  /\ \A o \in Ordinal : ShownTrue(o)
  /\ ended # {} => op # Nothing /\ op.status # "preview"
  /\ AppliedOnce
  /\ OnlyReviewedLeases

-----------------------------------------------------------------------------
(* What a step leaves as it is, and what it only lets grow.                *)

\* The revisions of a task only grow, and its input changes only with them.
Grows(r) ==
  /\ rows'[r] \in Task
  /\ rows[r].edit <= rows'[r].edit /\ rows[r].turn <= rows'[r].turn
  /\ rows'[r].edit = rows[r].edit => rows'[r].data = rows[r].data

\* Of a staged item only the status changes.
Kept(o) ==
  /\ items'[o] # Nothing
  /\ items'[o].row = items[o].row /\ items'[o].create = items[o].create
  /\ items'[o].edit = items[o].edit /\ items'[o].turn = items[o].turn

Follows ==
  /\ \A r \in Present : Grows(r)
  /\ \A o \in Staged : Kept(o)
  /\ op # Nothing => op' # Nothing /\ op'.action = op.action

\* Types of what is there.
LEMMA Types ==
  ASSUME BulkTypeOK
  PROVE  /\ \A r \in Present : /\ rows[r] \in Task /\ rows[r].edit \in Nat /\ rows[r].turn \in Nat
                               /\ rows[r].data \subseteq Mark
         /\ \A o \in Staged : /\ o \in Ordinal /\ items[o] \in Item /\ items[o].row \in Row
                              /\ items[o].create \in BOOLEAN
         /\ op # Nothing => op \in Operation
         /\ Nothing \notin Nat /\ Nothing \notin Task /\ Nothing \notin Item /\ Nothing \notin Operation
<1>1. Nothing \notin Nat /\ Nothing \notin Task /\ Nothing \notin Item /\ Nothing \notin Operation
  BY NothingAssumption
<1>2. \A r \in Present : rows[r] \in Task
  BY DEF BulkTypeOK, Present
<1>3. \A r \in Present : /\ rows[r].edit \in Nat /\ rows[r].turn \in Nat
                         /\ rows[r].data \subseteq Mark
  BY <1>2 DEF Task
<1>4. \A o \in Staged : o \in Ordinal /\ items[o] \in Item
  BY DEF BulkTypeOK, Staged
<1>5. \A o \in Staged : items[o].row \in Row /\ items[o].create \in BOOLEAN
  BY <1>4 DEF Item
<1> QED  BY <1>1, <1>2, <1>3, <1>4, <1>5 DEF BulkTypeOK

\* A task that is there stays.
LEMMA PresentStays ==
  ASSUME BulkTypeOK, Follows
  PROVE  Present \subseteq Present' /\ Staged \subseteq Staged'
<1>1. Present \subseteq Present'
  BY Types DEF Follows, Grows, Present
<1>2. Staged \subseteq Staged'
  BY DEF Follows, Kept, Staged
<1> QED  BY <1>1, <1>2

\* So what is known of an item stays true,
LEMMA ItemFollows ==
  ASSUME BulkInv, Follows, NEW o \in Staged
  PROVE  ItemTrue(o)'
<1>1. ItemTrue(o) /\ BulkTypeOK /\ op # Nothing
  BY DEF BulkInv
<1>2. Kept(o)
  BY DEF Follows
<1>3. CASE items[o].create
  BY <1>1, <1>2, <1>3 DEF ItemTrue, Kept, Follows
<1>4. CASE ~items[o].create
  <2> DEFINE r == items[o].row
  <2>1. r \in Present /\ Grows(r)
    BY <1>1, <1>4 DEF ItemTrue, Follows
  <2>2. r \in Present'
    BY <1>1, <2>1, PresentStays
  <2>3. rows'[r].edit \in Nat /\ rows'[r].turn \in Nat
    BY <2>1 DEF Grows, Task
  <2>4. /\ items[o].edit \in Nat /\ items[o].edit <= rows[r].edit
        /\ items[o].turn \in Nat /\ items[o].turn <= rows[r].turn
    BY <1>1, <1>4 DEF ItemTrue
  <2>5. items[o].edit <= rows'[r].edit /\ items[o].turn <= rows'[r].turn
    BY <1>1, <2>1, <2>3, <2>4, Types DEF Grows
  <2> QED  BY <1>2, <1>4, <2>2, <2>4, <2>5 DEF ItemTrue, Kept
<1> QED  BY <1>3, <1>4

\* and of what was shown of it,
LEMMA ShownFollows ==
  ASSUME BulkInv, Follows, NEW o \in Ordinal, shown'[o] = shown[o]
  PROVE  ShownTrue(o)'
<1> SUFFICES ASSUME shown[o] # Nothing PROVE ShownTrue(o)'
  BY DEF ShownTrue
<1>1. BulkTypeOK /\ ShownTrue(o)
  BY DEF BulkInv
<1>2. o \in Staged /\ ~items[o].create /\ items[o].turn <= shown[o] /\ shown[o] <= rows[items[o].row].turn
  BY <1>1 DEF ShownTrue
<1>3. Kept(o) /\ ItemTrue(o)
  BY <1>2 DEF Follows, BulkInv
<1>4. items[o].row \in Present /\ Grows(items[o].row)
  BY <1>2, <1>3 DEF ItemTrue, Follows
<1>5. shown[o] \in Nat
  BY <1>1 DEF BulkTypeOK
<1>6. rows[items[o].row].turn \in Nat /\ rows'[items[o].row].turn \in Nat
  BY <1>1, <1>4, Types DEF Grows, Task
<1>7. shown[o] <= rows'[items[o].row].turn
  BY <1>2, <1>4, <1>5, <1>6 DEF Grows
<1>8. o \in Staged'
  BY <1>1, <1>2, PresentStays
<1> QED  BY <1>2, <1>3, <1>7, <1>8 DEF ShownTrue, Kept

\* and of what a request has read.
LEMMA RequestFollows ==
  ASSUME BulkInv, Follows, NEW b \in Browser, browser'[b] = browser[b]
  PROVE  RequestTrue(b)'
<1> DEFINE q == browser[b]
<1>1. BulkTypeOK /\ RequestTrue(b)
  BY DEF BulkInv
<1>2. ASSUME NEW r \in Present
      PROVE  /\ r \in Present' /\ Grows(r)
             /\ rows[r].edit \in Nat /\ rows[r].turn \in Nat
             /\ rows'[r].edit \in Nat /\ rows'[r].turn \in Nat
  BY <1>1, Types, PresentStays DEF Follows, Grows, Task
<1>3. CASE q.phase = "staging"
  <2>1. StagingTrue(q)
    BY <1>1, <1>3 DEF RequestTrue
  <2>2. op' # Nothing /\ op'.action.kind = "import"
    BY <2>1 DEF StagingTrue, Follows
  <2>3. ASSUME NEW o \in DOMAIN q.names, q.old[o].present
        PROVE  /\ q.names[o] \in Present'
               /\ q.old[o].edit <= rows'[q.names[o]].edit
               /\ q.old[o].turn <= rows'[q.names[o]].turn
    <3>1. /\ q.names[o] \in Present
          /\ q.old[o].edit \in Nat /\ q.old[o].edit <= rows[q.names[o]].edit
          /\ q.old[o].turn \in Nat /\ q.old[o].turn <= rows[q.names[o]].turn
      BY <2>1, <2>3 DEF StagingTrue
    <3> QED  BY <1>2, <3>1 DEF Grows
  <2>4. StagingTrue(q)'
    BY <2>1, <2>2, <2>3 DEF StagingTrue
  <2> QED  BY <1>3, <2>4 DEF RequestTrue
<1>4. CASE q.phase = "taken"
  BY <1>1, <1>4, PresentStays DEF RequestTrue, Follows
<1>5. CASE q.phase = "applying"
  <2>1. ApplyingTrue(q)
    BY <1>1, <1>5 DEF RequestTrue
  <2>2. ASSUME NEW o \in q.taken
        PROVE  /\ o \in Staged' /\ q.data[o] \subseteq Mark
               /\ ~items'[o].create /\ rows'[items'[o].row].edit = items'[o].edit
                    => q.data[o] = rows'[items'[o].row].data
    <3>1. o \in Staged /\ q.data[o] \subseteq Mark
      BY <2>1 DEF ApplyingTrue
    <3>2. Kept(o) /\ ItemTrue(o)
      BY <3>1 DEF Follows, BulkInv
    <3>3. ASSUME ~items[o].create, rows'[items[o].row].edit = items[o].edit
          PROVE  q.data[o] = rows'[items[o].row].data
      <4>1. /\ items[o].row \in Present
            /\ items[o].edit \in Nat /\ items[o].edit <= rows[items[o].row].edit
        BY <3>2, <3>3 DEF ItemTrue
      <4>2. rows[items[o].row].edit = items[o].edit
        BY <1>2, <3>3, <4>1 DEF Grows
      <4>3. q.data[o] = rows[items[o].row].data
        BY <2>1, <3>3, <4>2 DEF ApplyingTrue
      <4> QED  BY <1>2, <3>3, <4>1, <4>2, <4>3 DEF Grows
    <3>4. o \in Staged'
      BY <1>1, <3>1, PresentStays
    <3> QED  BY <3>1, <3>2, <3>3, <3>4 DEF Kept
  <2>3. ApplyingTrue(q)'
    BY <2>2 DEF ApplyingTrue
  <2>4. op' # Nothing
    BY <1>1, <1>5 DEF RequestTrue, Follows
  <2> QED  BY <1>5, <2>3, <2>4 DEF RequestTrue
<1>6. CASE q.phase = "editing"
  <2>1. EditingTrue(q)
    BY <1>1, <1>6 DEF RequestTrue
  <2>2. /\ q.row \in Present /\ q.data \subseteq Mark
        /\ q.edit \in Nat /\ q.edit <= rows[q.row].edit
        /\ rows[q.row].edit = q.edit => q.data = rows[q.row].data
    BY <2>1 DEF EditingTrue
  <2>3. /\ q.row \in Present' /\ q.edit <= rows'[q.row].edit
        /\ rows'[q.row].edit = q.edit => q.data = rows'[q.row].data
    BY <1>2, <2>2 DEF Grows
  <2>4. EditingTrue(q)'
    BY <2>2, <2>3 DEF EditingTrue
  <2> QED  BY <1>6, <2>4 DEF RequestTrue
<1> QED  BY <1>3, <1>4, <1>5, <1>6 DEF RequestTrue

\* No task is lost, nor an edit its input has taken.
DataKept == \A r \in Present : rows'[r] # Nothing /\ rows[r].data \subseteq rows'[r].data

\* A step keeps the invariant if what it writes anew is true.
LEMMA Combine ==
  ASSUME BulkInv, Follows, BulkTypeOK',
         op' = Nothing => Staged' = {},
         \A o \in Staged' \ Staged : ItemTrue(o)',
         \A b \in Browser : browser'[b] = browser[b] \/ RequestTrue(b)',
         \A o \in Ordinal : shown'[o] = shown[o] \/ ShownTrue(o)',
         ended' # {} => op' # Nothing /\ op'.status # "preview",
         AppliedOnce', OnlyReviewedLeases'
  PROVE  BulkInv'
<1>1. \A o \in Staged' : ItemTrue(o)'
  BY ItemFollows
<1>2. \A b \in Browser : RequestTrue(b)'
  BY RequestFollows
<1>3. \A o \in Ordinal : ShownTrue(o)'
  BY ShownFollows
<1> QED  BY <1>1, <1>2, <1>3 DEF BulkInv

\* A step that changes no task, no item and no kind of operation follows.
LEMMA Rests ==
  ASSUME BulkTypeOK, rows' = rows, items' = items,
         op # Nothing => op' # Nothing /\ op'.action = op.action
  PROVE  Follows /\ DataKept /\ Staged' = Staged
<1>1. \A r \in Present : Grows(r)
  BY Types DEF Grows
<1>2. \A o \in Staged : Kept(o)
  BY DEF Kept, Staged
<1> QED  BY <1>1, <1>2 DEF Follows, DataKept, Staged, Present

-----------------------------------------------------------------------------
(* Previews.                                                               *)

\* A new operation finds nothing staged, and its items are not applied.
LEMMA NewItems ==
  ASSUME BulkInv, op = Nothing, op' \in Operation, op'.status = "preview",
         items' \in [Ordinal -> Item \cup {Nothing}],
         \A o \in Staged' : items'[o].status # "applied" /\ ItemTrue(o)',
         UNCHANGED <<rows, contract, browser, shown, ended, effects, changes>>
  PROVE  BulkInv' /\ DataKept
<1>1. BulkTypeOK /\ Staged = {} /\ ended = {}
  BY DEF BulkInv
<1>2. BulkTypeOK'
  BY <1>1 DEF BulkTypeOK
<1>3. \A r \in Present : Grows(r)
  BY <1>1, Types DEF Grows
<1>4. Follows
  BY <1>1, <1>3 DEF Follows
<1>5. \A o \in Ordinal : effects'[o] <= 1 /\ effects'[o] # 1
  BY <1>1 DEF BulkInv, AppliedOnce
<1>6. AppliedOnce' /\ OnlyReviewedLeases'
  BY <1>1, <1>5 DEF AppliedOnce, OnlyReviewedLeases
<1>7. op' # Nothing
  BY NothingAssumption
<1>8. DataKept
  BY DEF DataKept, Present
<1> QED  BY <1>1, <1>2, <1>4, <1>6, <1>7, <1>8, Combine

\* An item that waits for its review, or was refused at once.
Unapplied(item) ==
  /\ item \in Item /\ item.status # "applied" /\ ~item.create
  /\ item.row \in Present
  /\ item.edit \in Nat /\ item.edit <= rows[item.row].edit
  /\ item.turn \in Nat /\ item.turn <= rows[item.row].turn

\* A frozen item is one, with the revisions its task has.
LEMMA FrozenItem ==
  ASSUME BulkTypeOK, NEW r \in Present
  PROVE  Unapplied(Frozen(r))
<1>1. rows[r].edit \in Nat /\ rows[r].turn \in Nat /\ r \in Row
  BY Types DEF Present
<1>2. Frozen(r) \in Item
  BY <1>1 DEF Frozen, Item
<1>3. /\ Frozen(r).row = r /\ ~Frozen(r).create /\ Frozen(r).status = "pending"
      /\ Frozen(r).edit = rows[r].edit /\ Frozen(r).turn = rows[r].turn
  BY DEF Frozen
<1>4. rows[r].edit <= rows[r].edit /\ rows[r].turn <= rows[r].turn
  BY <1>1
<1> QED  BY <1>1, <1>2, <1>3, <1>4 DEF Unapplied

\* A pasted row that comes too late.
Late(r) == [Frozen(r) EXCEPT !.edit = @ - 1, !.status = "rejected"]

\* Its revision is one the task had.
LEMMA LateItem ==
  ASSUME BulkTypeOK, NEW r \in Present, rows[r].edit > 1
  PROVE  Unapplied(Late(r))
<1>1. rows[r].edit \in Nat /\ rows[r].turn \in Nat /\ r \in Row
  BY Types DEF Present
<1>2. Frozen(r) \in Item /\ Frozen(r).edit = rows[r].edit
  BY <1>1 DEF Frozen, Item
<1>3. /\ Late(r).row = r /\ ~Late(r).create /\ Late(r).status = "rejected"
      /\ Late(r).edit = rows[r].edit - 1 /\ Late(r).turn = rows[r].turn
  BY DEF Late, Frozen
<1>4. /\ rows[r].edit - 1 \in Nat /\ rows[r].edit - 1 <= rows[r].edit
      /\ rows[r].turn <= rows[r].turn
  BY <1>1
<1>5. Late(r) \in Item
  <2>1. \A e \in Nat : [Frozen(r) EXCEPT !.edit = e, !.status = "rejected"] \in Item
    BY <1>2 DEF Item
  <2> QED  BY <1>2, <1>4, <2>1 DEF Late
<1>6. Late(r).edit \in Nat /\ Late(r).edit <= rows[Late(r).row].edit
  BY <1>3, <1>4
<1>7. Late(r).turn \in Nat /\ Late(r).turn <= rows[Late(r).row].turn
  BY <1>1, <1>3, <1>4
<1> QED  BY <1>3, <1>5, <1>6, <1>7 DEF Unapplied

\* A new operation has its type and waits for its review.
LEMMA OperationType ==
  ASSUME NEW a \in Action, NEW total \in Nat, NEW processed \in Nat
  PROVE  /\ NewOperation(a, total, processed) \in Operation
         /\ NewOperation(a, total, processed).status = "preview"
         /\ NewOperation(a, total, processed).action = a
BY DEF NewOperation, Operation

\* The ordinals are the numbers below that of the rows.
LEMMA OrdinalType ==
  /\ Cardinality(Row) \in Nat /\ Ordinal \subseteq Nat
  /\ IsFiniteSet(Ordinal) /\ Cardinality(Ordinal) \in Nat
  /\ \A S \in SUBSET Row : IsFiniteSet(S) /\ Cardinality(S) \in Nat
  /\ \A S \in SUBSET Ordinal : IsFiniteSet(S) /\ Cardinality(S) \in Nat
<1>1. Cardinality(Row) \in Nat
  BY BulkAssumption, FS_CardinalityType
<1>2. IsFiniteSet(Ordinal) /\ Ordinal \subseteq Nat
  BY <1>1, FS_Interval DEF Ordinal
<1> QED  BY <1>1, <1>2, BulkAssumption, FS_CardinalityType, FS_Subset

\* A bulk action freezes its tasks with the revisions they have.
LEMMA OperationPreviewInv ==
  ASSUME BulkInv, NEW a \in Chosen, OperationPreview(a)
  PROVE  BulkInv' /\ DataKept
<1>1. BulkTypeOK
  BY DEF BulkInv
<1>2. PICK S \in SUBSET Present : \E f \in [0 .. Cardinality(S) - 1 -> S] :
        /\ items' = [o \in Ordinal |-> IF o \in DOMAIN f THEN Frozen(f[o]) ELSE Nothing]
        /\ op' = NewOperation([kind |-> a.kind, mode |-> Nothing, revoke |-> a.revoke, scope |-> a.scope], Cardinality(S), 0)
  BY DEF OperationPreview
<1>0. PICK order \in [0 .. Cardinality(S) - 1 -> S] :
        /\ items' = [o \in Ordinal |-> IF o \in DOMAIN order THEN Frozen(order[o]) ELSE Nothing]
        /\ op' = NewOperation([kind |-> a.kind, mode |-> Nothing, revoke |-> a.revoke, scope |-> a.scope], Cardinality(S), 0)
  BY <1>2
<1>3. op' \in Operation /\ op'.status = "preview"
  <2>1. [kind |-> a.kind, mode |-> Nothing, revoke |-> a.revoke, scope |-> a.scope] \in Action
    BY BulkAssumption DEF Action
  <2>2. Cardinality(S) \in Nat
    BY OrdinalType DEF Present
  <2> QED  BY <1>2, <2>1, <2>2, OperationType
<1>4. ASSUME NEW o \in Ordinal, items'[o] # Nothing
      PROVE  order[o] \in Present /\ items'[o] = Frozen(order[o])
  BY <1>0, <1>4
<1>5. items' \in [Ordinal -> Item \cup {Nothing}]
  <2>1. \A o \in Ordinal : items'[o] # Nothing => items'[o] \in Item
    BY <1>1, <1>4, FrozenItem DEF Unapplied
  <2>2. items' = [o \in Ordinal |-> items'[o]]
    BY <1>0
  <2> QED  BY <2>1, <2>2
<1>6. ASSUME NEW o \in Staged'
      PROVE  items'[o].status # "applied" /\ ItemTrue(o)'
  <2>1. /\ order[o] \in Present /\ items'[o] = Frozen(order[o])
        /\ rows' = rows /\ Present' = Present
    BY <1>4, <1>6 DEF Staged, Present, OperationPreview
  <2>2. Unapplied(items'[o])
    BY <1>1, <2>1, FrozenItem
  <2> QED  BY <2>1, <2>2 DEF ItemTrue, Unapplied
<1> QED  BY <1>3, <1>5, <1>6, NewItems DEF OperationPreview

\* So do pasted rows, but for those that come too late.
LEMMA PatchPreviewInv ==
  ASSUME BulkInv, PatchPreview
  PROVE  BulkInv' /\ DataKept
<1>1. BulkTypeOK
  BY DEF BulkInv
<1> PICK p \in Pasted :
      LET used == {o \in Ordinal : p.order[o] \in Present}
          refused == {o \in used : p.order[o] \in p.late}
          patch(o) == IF o \notin refused THEN Frozen(p.order[o])
                      ELSE [Frozen(p.order[o]) EXCEPT !.edit = @ - 1, !.status = "rejected"]
      IN  /\ items' = [o \in Ordinal |-> IF o \in used THEN patch(o) ELSE Nothing]
          /\ op' = NewOperation([kind |-> "patches", mode |-> Nothing, revoke |-> FALSE, scope |-> "all"],
                                Cardinality(used), Cardinality(refused))
  BY DEF PatchPreview
<1> DEFINE used == {o \in Ordinal : p.order[o] \in Present}
           refused == {o \in used : p.order[o] \in p.late}
<1>2. op' \in Operation /\ op'.status = "preview"
  <2>1. [kind |-> "patches", mode |-> Nothing, revoke |-> FALSE, scope |-> "all"] \in Action
    BY DEF Action
  <2>2. Cardinality(used) \in Nat /\ Cardinality(refused) \in Nat
    BY OrdinalType
  <2> QED  BY <2>1, <2>2, OperationType
<1>3. \A r \in p.late : r \in Present /\ rows[r].edit > 1
  BY DEF Pasted
<1>5. ASSUME NEW o \in Ordinal, items'[o] # Nothing
      PROVE  /\ p.order[o] \in Present
             /\ \/ items'[o] = Frozen(p.order[o])
                \/ p.order[o] \in p.late /\ items'[o] = Late(p.order[o])
  BY <1>5 DEF Late
<1>6. ASSUME NEW o \in Ordinal, items'[o] # Nothing
      PROVE  Unapplied(items'[o])
  BY <1>1, <1>3, <1>5, <1>6, FrozenItem, LateItem
<1>7. items' \in [Ordinal -> Item \cup {Nothing}]
  <2>1. items' = [o \in Ordinal |-> items'[o]]
    OBVIOUS
  <2> QED  BY <1>6, <2>1 DEF Unapplied
<1>8. rows' = rows /\ Present' = Present
  BY DEF PatchPreview, Present
<1>9. \A o \in Staged' : items'[o].status # "applied" /\ ItemTrue(o)'
  BY <1>6, <1>8 DEF ItemTrue, Staged, Unapplied
<1> QED  BY <1>2, <1>7, <1>9, NewItems DEF PatchPreview

\* An import begins with no item.
LEMMA ImportPreviewInv ==
  ASSUME BulkInv, NEW mode \in Mode, ImportPreview(mode)
  PROVE  BulkInv' /\ DataKept
<1>1. op' \in Operation /\ op'.status = "preview"
  <2>1. [kind |-> "import", mode |-> mode, revoke |-> FALSE, scope |-> "all"] \in Action
    BY DEF Action
  <2> QED  BY <2>1, OrdinalType, OperationType DEF ImportPreview
<1>2. /\ items' \in [Ordinal -> Item \cup {Nothing}] /\ Staged' = {}
      /\ op = Nothing /\ UNCHANGED <<rows, contract, browser, shown, ended, effects, changes>>
  BY DEF BulkInv, BulkTypeOK, ImportPreview, Staged
<1> QED  BY <1>1, <1>2, NewItems

-----------------------------------------------------------------------------
(* Steps that write one kind of row, or none.                              *)

\* A request reads or ends, or the operation or the pool changes.
LEMMA NoTask ==
  ASSUME BulkInv, UNCHANGED <<rows, items, shown, ended, effects>>,
         \/ op' = op
         \/ /\ op # Nothing /\ op' \in Operation /\ op'.action = op.action
            /\ op'.status = op.status \/ op'.status # "preview",
         contract' \in [revision : Nat, enabled : BOOLEAN, ready : BOOLEAN],
         changes' \in 0 .. MaxChanges,
         DOMAIN browser' = Browser,
         \A b \in Browser : browser'[b] = browser[b] \/ RequestTrue(b)'
  PROVE  BulkInv' /\ DataKept
<1>1. BulkTypeOK /\ op' \in Operation \cup {Nothing}
  BY DEF BulkInv, BulkTypeOK
<1>2. BulkTypeOK'
  BY <1>1 DEF BulkTypeOK
<1>3. op # Nothing => op' # Nothing /\ op'.action = op.action
  BY NothingAssumption
<1>4. Follows /\ DataKept /\ Staged' = Staged
  BY <1>1, <1>3, Rests
<1>5. op' = Nothing => Staged' = {}
  BY <1>3, <1>4 DEF BulkInv
<1>6. ended' # {} => op' # Nothing /\ op'.status # "preview"
  BY <1>3 DEF BulkInv
<1>7. AppliedOnce' /\ OnlyReviewedLeases'
  BY <1>4 DEF BulkInv, AppliedOnce, OnlyReviewedLeases
<1> QED  BY <1>2, <1>4, <1>5, <1>6, <1>7, Combine

\* A worker, time or an editor changes one task.
LEMMA OneTask ==
  ASSUME BulkInv, UNCHANGED <<op, items, contract, shown, ended, effects>>,
         NEW r \in Present, NEW x \in Task, rows' = [rows EXCEPT ![r] = x],
         rows[r].edit <= x.edit, rows[r].turn <= x.turn,
         x.edit = rows[r].edit => x.data = rows[r].data,
         rows[r].data \subseteq x.data,
         changes' \in 0 .. MaxChanges,
         DOMAIN browser' = Browser,
         \A b \in Browser : browser'[b] = browser[b] \/ RequestTrue(b)'
  PROVE  BulkInv' /\ DataKept
<1>1. BulkTypeOK /\ r \in Row
  BY DEF BulkInv, Present
<1>2. BulkTypeOK'
  BY <1>1 DEF BulkTypeOK
<1>3. \A s \in Present : rows'[s] = IF s = r THEN x ELSE rows[s]
  BY <1>1 DEF BulkTypeOK, Present
<1>4. (\A s \in Present : Grows(s)) /\ DataKept
  BY <1>1, <1>3, Types DEF Grows, DataKept
<1>5. \A o \in Staged : Kept(o)
  BY DEF Kept, Staged
<1>6. Follows /\ Staged' = Staged
  BY <1>4, <1>5 DEF Follows, Staged
<1>7. AppliedOnce' /\ OnlyReviewedLeases'
  BY <1>6 DEF BulkInv, AppliedOnce, OnlyReviewedLeases
<1> QED  BY <1>2, <1>4, <1>6, <1>7, Combine DEF BulkInv

\* A browser without a request has read nothing.
LEMMA IdleTrue ==
  ASSUME NEW b \in Browser, browser'[b] = Idle
  PROVE  RequestTrue(b)'
BY DEF RequestTrue, Idle

\* One browser's request moves, and no other one's.
LEMMA RequestsOf ==
  ASSUME DOMAIN browser = Browser, NEW b \in Browser, NEW q,
         browser' = [browser EXCEPT ![b] = q]
  PROVE  /\ DOMAIN browser' = Browser /\ browser'[b] = q
         /\ \A c \in Browser : c # b => browser'[c] = browser[c]
OBVIOUS

\* A chunk is read: what it knows of the tasks is so.
LEMMA StageReadInv ==
  ASSUME BulkInv, NEW b \in Browser, StageRead(b)
  PROVE  BulkInv' /\ DataKept
<1>1. BulkTypeOK /\ DOMAIN browser = Browser
  BY DEF BulkInv, BulkTypeOK
<1>2. PICK names \in NextChunk :
        browser' = [browser EXCEPT ![b] =
          [phase |-> "staging", names |-> names, old |-> [o \in DOMAIN names |-> Summary(names[o])]]]
  BY DEF StageRead
<1>0. PICK q : q = [phase |-> "staging", names |-> names, old |-> [o \in DOMAIN names |-> Summary(names[o])]]
  OBVIOUS
<1>3. \A o \in DOMAIN names : names[o] \in Row
  BY DEF NextChunk
<1>4. op # Nothing /\ op.action.kind = "import" /\ UNCHANGED <<rows, op, items, contract, shown, ended, effects, changes>>
  BY DEF StageRead
<1>5. ASSUME NEW o \in DOMAIN names
      PROVE  /\ names[o] \in Row
             /\ Summary(names[o]).present \in BOOLEAN
             /\ IF Summary(names[o]).present
                THEN /\ names[o] \in Present
                     /\ Summary(names[o]).edit \in Nat /\ Summary(names[o]).edit <= rows[names[o]].edit
                     /\ Summary(names[o]).turn \in Nat /\ Summary(names[o]).turn <= rows[names[o]].turn
                ELSE Summary(names[o]).edit = Nothing /\ Summary(names[o]).turn = Nothing
  <2>3. PICK m : m = Summary(names[o])
    OBVIOUS
  <2>4. m.present \in BOOLEAN
    <3>1. m.present = (names[o] \in Present)
      BY <2>3 DEF Summary
    <3>2. (names[o] \in Present) \in BOOLEAN
      OBVIOUS
    <3> QED  BY <3>1, <3>2
  <2>5. (names[o] \in Present => m.present) /\ (names[o] \notin Present => ~m.present)
    BY <2>3 DEF Summary
  <2>1. CASE names[o] \in Present
    <3>1. rows[names[o]].edit \in Nat /\ rows[names[o]].turn \in Nat
      BY <1>1, <2>1, Types
    <3>2. m.edit = rows[names[o]].edit /\ m.turn = rows[names[o]].turn
      BY <2>1, <2>3 DEF Summary
    <3>3. m.edit <= rows[names[o]].edit /\ m.turn <= rows[names[o]].turn
      BY <3>1, <3>2
    <3> QED  BY <1>3, <2>1, <2>3, <2>4, <2>5, <3>1, <3>2, <3>3
  <2>2. CASE names[o] \notin Present
    <3>1. m.edit = Nothing /\ m.turn = Nothing
      BY <2>2, <2>3 DEF Summary
    <3> QED  BY <1>3, <2>2, <2>3, <2>4, <2>5, <3>1
  <2> QED  BY <2>1, <2>2
<1>10. IsFiniteSet(DOMAIN names)
  <2>1. Cardinality(Staged) \in Nat
    BY OrdinalType DEF Staged
  <2>2. PICK m \in 1 .. Limit : names \in [Cardinality(Staged) .. Cardinality(Staged) + m - 1 -> Row]
    BY DEF NextChunk
  <2>3. IsFiniteSet(Cardinality(Staged) .. Cardinality(Staged) + m - 1)
    BY <2>1, BulkAssumption, FS_Interval
  <2> QED  BY <2>2, <2>3
<1>6. q.phase = "staging" /\ StagingTrue(q)
  <2>1. /\ q.names = names /\ q.phase = "staging"
        /\ \A o \in DOMAIN names : q.old[o] = Summary(names[o])
    BY <1>0
  <2> QED  BY <1>4, <1>5, <1>10, <2>1 DEF StagingTrue
<1>7. browser'[b] = q /\ DOMAIN browser' = Browser /\ \A c \in Browser : c # b => browser'[c] = browser[c]
  BY <1>0, <1>1, <1>2, RequestsOf
<1>8. RequestTrue(b)'
  <2>1. StagingTrue(q)'
    BY <1>4, <1>6 DEF StagingTrue, Present
  <2> QED  BY <1>6, <1>7, <2>1 DEF RequestTrue
<1>9. BulkInv /\ contract' \in [revision : Nat, enabled : BOOLEAN, ready : BOOLEAN] /\ changes' \in 0 .. MaxChanges
  BY <1>1, <1>4 DEF BulkTypeOK
<1> QED  BY <1>4, <1>7, <1>8, <1>9, NoTask

\* The other requests that only read, or end.
LEMMA ReadsInv ==
  ASSUME BulkInv, NEW b \in Browser, NEW start, NEW limit, NEW r,
         ApplyItems(b, start, limit) \/ ApplyRead(b) \/ EditRead(b, r) \/ Abandon(b)
  PROVE  BulkInv' /\ DataKept
<1>1. BulkTypeOK /\ DOMAIN browser = Browser /\ RequestTrue(b)
  BY DEF BulkInv, BulkTypeOK
<1>2. UNCHANGED <<rows, op, items, contract, shown, ended, effects>>
  BY DEF ApplyItems, ApplyRead, EditRead, Abandon
<1>3. changes' \in 0 .. MaxChanges
  BY <1>1, BulkAssumption DEF BulkTypeOK, ApplyItems, ApplyRead, EditRead, Abandon, Outside
<1>4. PICK q : browser' = [browser EXCEPT ![b] = q]
  BY DEF ApplyItems, ApplyRead, EditRead, Abandon
<1>5. browser'[b] = q /\ DOMAIN browser' = Browser /\ \A c \in Browser : c # b => browser'[c] = browser[c]
  BY <1>1, <1>4, RequestsOf
<1>6. RequestTrue(b)'
  <2>1. CASE ApplyItems(b, start, limit)
    <3>1. browser'[b].phase = "taken" /\ browser'[b].taken \subseteq Staged
      BY <1>1, <2>1 DEF ApplyItems, Pending
    <3>2. op # Nothing
      BY <2>1 DEF ApplyItems
    <3> QED  BY <1>2, <3>1, <3>2 DEF RequestTrue, Staged
  <2>2. CASE ApplyRead(b)
    <3> DEFINE data(o) == LET s == items[o].row IN IF s \in Present THEN rows[s].data ELSE {}
    <3>1. /\ browser'[b].phase = "applying" /\ browser'[b].taken = browser[b].taken
          /\ browser'[b].data = [o \in browser[b].taken |-> data(o)]
          /\ browser[b].taken \subseteq Staged
      BY <1>1, <2>2 DEF ApplyRead, RequestTrue
    <3>2. ASSUME NEW o \in browser[b].taken
          PROVE  /\ o \in Staged /\ data(o) \subseteq Mark
                 /\ ~items[o].create => data(o) = rows[items[o].row].data
      <4>1. o \in Staged /\ ItemTrue(o)
        BY <3>1 DEF BulkInv
      <4>2. data(o) \subseteq Mark
        BY <1>1, Types
      <4> QED  BY <4>1, <4>2 DEF ItemTrue
    <3>3. ApplyingTrue(browser[b])'
      BY <1>2, <3>1, <3>2 DEF ApplyingTrue, Staged
    <3>4. op # Nothing
      BY <1>1, <2>2 DEF ApplyRead, RequestTrue
    <3> QED  BY <1>2, <3>1, <3>3, <3>4 DEF RequestTrue
  <2>3. CASE EditRead(b, r)
    <3>1. /\ browser'[b].phase = "editing" /\ browser'[b].row = r /\ r \in Present
          /\ browser'[b].edit = rows[r].edit /\ browser'[b].data = rows[r].data
      BY <1>1, <2>3 DEF EditRead
    <3>2. rows[r].edit \in Nat /\ rows[r].data \subseteq Mark /\ rows[r].edit <= rows[r].edit
      BY <1>1, <3>1, Types
    <3>3. EditingTrue(browser[b])'
      BY <1>2, <3>1, <3>2 DEF EditingTrue, Present
    <3> QED  BY <3>1, <3>3 DEF RequestTrue
  <2>4. CASE Abandon(b)
    BY <1>1, <2>4, IdleTrue DEF Abandon
  <2> QED  BY <2>1, <2>2, <2>3, <2>4
<1>7. contract' \in [revision : Nat, enabled : BOOLEAN, ready : BOOLEAN]
  BY <1>1, <1>2 DEF BulkTypeOK
<1> QED  BY <1>2, <1>3, <1>5, <1>6, <1>7, NoTask

\* The operation or the pool moves, and no task.
LEMMA ControlInv ==
  ASSUME BulkInv, Cancel \/ Refresh \/ Expire \/ PoolChanges
  PROVE  BulkInv' /\ DataKept
<1>1. BulkTypeOK /\ (op # Nothing => op \in Operation)
  BY Types DEF BulkInv
<1>2. UNCHANGED <<rows, items, browser, shown, ended, effects>>
  BY DEF Cancel, Refresh, Expire, PoolChanges
<1>3. changes' \in 0 .. MaxChanges
  BY <1>1, BulkAssumption DEF BulkTypeOK, Cancel, Refresh, Expire, PoolChanges, Outside
<1>4. \/ op' = op
      \/ /\ op # Nothing /\ op' \in Operation /\ op'.action = op.action
         /\ op'.status = op.status \/ op'.status # "preview"
  BY <1>1 DEF Cancel, Refresh, Expire, PoolChanges, Operation
<1>5. contract' \in [revision : Nat, enabled : BOOLEAN, ready : BOOLEAN]
  <2>1. contract \in [revision : Nat, enabled : BOOLEAN, ready : BOOLEAN]
    BY <1>1 DEF BulkTypeOK
  <2>2. \A n \in Nat, e \in BOOLEAN :
          /\ [contract EXCEPT !.revision = n, !.enabled = e] \in [revision : Nat, enabled : BOOLEAN, ready : BOOLEAN]
          /\ [contract EXCEPT !.revision = n, !.ready = e] \in [revision : Nat, enabled : BOOLEAN, ready : BOOLEAN]
    BY <2>1
  <2>3. contract.revision + 1 \in Nat
    BY <2>1
  <2> QED  BY <2>1, <2>2, <2>3 DEF Cancel, Refresh, Expire, PoolChanges
<1>6. DOMAIN browser' = Browser /\ \A b \in Browser : browser'[b] = browser[b]
  BY <1>1, <1>2 DEF BulkTypeOK
<1> QED  BY <1>2, <1>3, <1>4, <1>5, <1>6, NoTask

\* What a review shows is the lease a task has, or had last.
LEMMA ReviewInv ==
  ASSUME BulkInv, Review
  PROVE  BulkInv' /\ DataKept
<1>1. BulkTypeOK /\ op # Nothing /\ op.status = "preview" /\ op.action.kind # "import"
  BY DEF BulkInv, Review
<1>2. ended = {} /\ UNCHANGED <<rows, op, items, contract, browser, ended, effects, changes>>
  BY <1>1 DEF BulkInv, Review
<1>3. Follows /\ DataKept /\ Staged' = Staged
  BY <1>1, <1>2, Rests
<1>4. ASSUME NEW o \in Ordinal, shown'[o] # Nothing
      PROVE  /\ o \in Staged /\ items[o].row \in Present
             /\ shown'[o] = rows[items[o].row].turn
  BY <1>4 DEF Review
<1>5. shown' \in [Ordinal -> Nat \cup {Nothing}]
  <2>1. \A o \in Ordinal : shown'[o] \in Nat \cup {Nothing}
    BY <1>1, <1>4, Types
  <2>2. shown' = [o \in Ordinal |-> shown'[o]]
    BY DEF Review
  <2> QED  BY <2>1, <2>2
<1>6. ASSUME NEW o \in Ordinal
      PROVE  ShownTrue(o)'
  <2> SUFFICES ASSUME shown'[o] # Nothing PROVE ShownTrue(o)'
    BY DEF ShownTrue
  <2>1. /\ o \in Staged /\ items[o].row \in Present
        /\ shown'[o] = rows[items[o].row].turn
    BY <1>4
  <2>2. ~items[o].create /\ items[o].turn <= rows[items[o].row].turn
    BY <1>1, <2>1 DEF BulkInv, ItemTrue
  <2>3. rows[items[o].row].turn \in Nat
    BY <1>1, <2>1, Types
  <2>4. shown'[o] <= rows[items[o].row].turn
    BY <2>1, <2>3
  <2> QED  BY <1>2, <1>3, <2>1, <2>2, <2>4 DEF ShownTrue
<1>7. BulkTypeOK'
  BY <1>1, <1>2, <1>5 DEF BulkTypeOK
<1>8. AppliedOnce' /\ OnlyReviewedLeases'
  BY <1>2, <1>3 DEF BulkInv, AppliedOnce, OnlyReviewedLeases
<1> QED  BY <1>1, <1>2, <1>3, <1>6, <1>7, <1>8, Combine

\* Workers and time change a task but not its input.
LEMMA TaskInv ==
  ASSUME BulkInv, NEW r \in Row, NEW h,
         (h \in Holder /\ Claim(r, h)) \/ Complete(r) \/ LeaseExpires(r)
  PROVE  BulkInv' /\ DataKept
<1>1. BulkTypeOK /\ r \in Present
  BY DEF BulkInv, Present, Claim, Complete, LeaseExpires
<1>2. /\ rows[r] \in Task /\ rows[r].edit \in Nat /\ rows[r].turn \in Nat
  BY <1>1, Types
<1>3. UNCHANGED <<op, items, contract, browser, shown, ended, effects>>
  BY DEF Claim, Complete, LeaseExpires
<1>4. changes' \in 0 .. MaxChanges
  BY <1>1, BulkAssumption DEF BulkTypeOK, Claim, Complete, LeaseExpires, Outside
<1>5. PICK x \in Task :
        /\ rows' = [rows EXCEPT ![r] = x]
        /\ x.edit = rows[r].edit /\ rows[r].turn <= x.turn /\ x.data = rows[r].data
  <2>1. CASE h \in Holder /\ Claim(r, h)
    <3> DEFINE x == [rows[r] EXCEPT !.holder = h, !.turn = @ + 1]
    <3>1. x \in Task /\ x.edit = rows[r].edit /\ rows[r].turn <= x.turn /\ x.data = rows[r].data
      <4>1. \A n \in Nat : [rows[r] EXCEPT !.holder = h, !.turn = n] \in Task
        BY <1>2, <2>1 DEF Task
      <4>2. rows[r].turn + 1 \in Nat
        BY <1>2
      <4>3. x.edit = rows[r].edit /\ x.turn = rows[r].turn + 1 /\ x.data = rows[r].data
        BY <1>2 DEF Task
      <4>4. x \in Task
        BY <4>1, <4>2
      <4>5. rows[r].turn <= rows[r].turn + 1
        BY <1>2
      <4> HIDE DEF x
      <4> QED  BY <4>3, <4>4, <4>5
    <3>2. rows' = [rows EXCEPT ![r] = x]
      BY <1>1, <2>1 DEF Claim, BulkTypeOK
    <3> QED  BY <3>1, <3>2
  <2>2. CASE Complete(r)
    <3> DEFINE x == [rows[r] EXCEPT !.holder = Nothing, !.turn = @ + 1, !.completed = TRUE]
    <3>1. x \in Task /\ x.edit = rows[r].edit /\ rows[r].turn <= x.turn /\ x.data = rows[r].data
      <4>1. \A n \in Nat : [rows[r] EXCEPT !.holder = Nothing, !.turn = n, !.completed = TRUE] \in Task
        BY <1>2 DEF Task
      <4>2. rows[r].turn + 1 \in Nat
        BY <1>2
      <4>3. x.edit = rows[r].edit /\ x.turn = rows[r].turn + 1 /\ x.data = rows[r].data
        BY <1>2 DEF Task
      <4>4. x \in Task
        BY <4>1, <4>2
      <4>5. rows[r].turn <= rows[r].turn + 1
        BY <1>2
      <4> HIDE DEF x
      <4> QED  BY <4>3, <4>4, <4>5
    <3>2. rows' = [rows EXCEPT ![r] = x]
      BY <1>1, <2>2 DEF Complete, BulkTypeOK
    <3> QED  BY <3>1, <3>2
  <2>3. CASE LeaseExpires(r)
    <3> DEFINE x == [rows[r] EXCEPT !.holder = Nothing]
    <3>1. x \in Task /\ x.edit = rows[r].edit /\ rows[r].turn <= x.turn /\ x.data = rows[r].data
      BY <1>2 DEF Task
    <3>2. rows' = [rows EXCEPT ![r] = x]
      BY <1>1, <2>3 DEF LeaseExpires, BulkTypeOK
    <3> QED  BY <3>1, <3>2
  <2> QED  BY <2>1, <2>2, <2>3
<1>6. rows[r].edit <= x.edit /\ (x.edit = rows[r].edit => x.data = rows[r].data) /\ rows[r].data \subseteq x.data
  BY <1>2, <1>5
<1>7. DOMAIN browser' = Browser /\ \A b \in Browser : browser'[b] = browser[b]
  BY <1>1, <1>3 DEF BulkTypeOK
<1> QED  BY <1>1, <1>3, <1>4, <1>5, <1>6, <1>7, OneTask

\* What a chunk makes of what was read of the tasks, as they are now.
LEMMA PreparedItem ==
  ASSUME NEW q, StagingTrue(q), NEW o \in DOMAIN Prepared(q)
  PROVE  LET new == Prepared(q)
         IN  /\ new[o] \in Item /\ new[o].status \in {"rejected", "pending"}
             /\ IF new[o].create
                THEN new[o].edit = Nothing /\ new[o].turn = Nothing
                ELSE /\ new[o].row \in Present
                     /\ new[o].edit \in Nat /\ new[o].edit <= rows[new[o].row].edit
                     /\ new[o].turn \in Nat /\ new[o].turn <= rows[new[o].row].turn
<1>1. PICK new : new = Prepared(q)
  OBVIOUS
<1>2. o \in DOMAIN q.names
  BY DEF Prepared
<1>3. /\ new[o].row = q.names[o] /\ new[o].create = ~q.old[o].present
      /\ new[o].edit = q.old[o].edit /\ new[o].turn = q.old[o].turn
      /\ new[o].status \in {"rejected", "pending"}
      /\ new[o] = [row |-> new[o].row, create |-> new[o].create, edit |-> new[o].edit,
                   turn |-> new[o].turn, status |-> new[o].status]
  BY <1>1, <1>2 DEF Prepared
<1>4. /\ q.names[o] \in Row /\ q.old[o].present \in BOOLEAN
      /\ IF q.old[o].present
         THEN /\ q.names[o] \in Present
              /\ q.old[o].edit \in Nat /\ q.old[o].edit <= rows[q.names[o]].edit
              /\ q.old[o].turn \in Nat /\ q.old[o].turn <= rows[q.names[o]].turn
         ELSE q.old[o].edit = Nothing /\ q.old[o].turn = Nothing
  BY <1>2 DEF StagingTrue
<1>5. new[o] \in Item
  <2>1. /\ new[o].row \in Row /\ new[o].create \in BOOLEAN
        /\ new[o].edit \in Nat \cup {Nothing} /\ new[o].turn \in Nat \cup {Nothing}
    BY <1>3, <1>4
  <2> QED  BY <1>3, <2>1 DEF Item
<1> QED  BY <1>1, <1>3, <1>4, <1>5

\* A staged chunk joins the items: what it read of the tasks is still true.
LEMMA StageCommitInv ==
  ASSUME BulkInv, NEW b \in Browser, StageCommit(b)
  PROVE  BulkInv' /\ DataKept
<1>1. BulkTypeOK /\ DOMAIN browser = Browser /\ RequestTrue(b)
  BY DEF BulkInv, BulkTypeOK
<1>2. PICK q : q = browser[b]
  OBVIOUS
<1>3. /\ StagingTrue(q) /\ op.status = "preview" /\ DOMAIN q.names \cap Staged = {}
      /\ UNCHANGED <<rows, contract, shown, ended, effects, changes>>
  BY <1>1, <1>2 DEF RequestTrue, StageCommit, Stageable
<1>4. op # Nothing /\ op \in Operation /\ op.action.kind = "import" /\ ended = {}
  BY <1>1, <1>3, Types DEF BulkInv, StagingTrue
<1>5. PICK new : new = Prepared(q)
  OBVIOUS
<1>6. /\ items' = [o \in Ordinal |-> IF o \in DOMAIN new THEN new[o] ELSE items[o]]
      /\ op' = [op EXCEPT !.processed = @ + Cardinality({o \in DOMAIN new : new[o].status = "rejected"})]
      /\ browser' = [browser EXCEPT ![b] = Idle]
  BY <1>2, <1>5 DEF StageCommit
<1>7. \A o \in DOMAIN new :
        /\ o \notin Staged /\ new[o] \in Item /\ new[o].status # "applied"
        /\ IF new[o].create
           THEN new[o].edit = Nothing /\ new[o].turn = Nothing
           ELSE /\ new[o].row \in Present
                /\ new[o].edit \in Nat /\ new[o].edit <= rows[new[o].row].edit
                /\ new[o].turn \in Nat /\ new[o].turn <= rows[new[o].row].turn
  <2>1. DOMAIN new = DOMAIN q.names
    BY <1>5 DEF Prepared
  <2> QED  BY <1>3, <1>5, <2>1, PreparedItem
<1>8. items' \in [Ordinal -> Item \cup {Nothing}]
  BY <1>1, <1>6, <1>7 DEF BulkTypeOK
<1>9. \A o \in Staged : items'[o] = items[o]
  BY <1>6, <1>7 DEF Staged
<1>10. \A o \in Staged' \ Staged : o \in DOMAIN new /\ items'[o] = new[o]
  BY <1>6 DEF Staged
<1>11. op' \in Operation /\ op' # Nothing /\ op'.action = op.action /\ op'.status = op.status
  <2>1. IsFiniteSet(DOMAIN new)
    BY <1>3, <1>5 DEF StagingTrue, Prepared
  <2>2. Cardinality({o \in DOMAIN new : new[o].status = "rejected"}) \in Nat
    BY <2>1, FS_Subset, FS_CardinalityType
  <2>3. \A n \in Nat : /\ [op EXCEPT !.processed = n] \in Operation
                       /\ [op EXCEPT !.processed = n].action = op.action
                       /\ [op EXCEPT !.processed = n].status = op.status
    BY <1>4 DEF Operation
  <2>4. op.processed \in Nat
    BY <1>4 DEF Operation
  <2>5. op.processed + Cardinality({o \in DOMAIN new : new[o].status = "rejected"}) \in Nat
    BY <2>2, <2>4
  <2> QED  BY <1>6, <2>3, <2>5, NothingAssumption
<1>12. Follows /\ DataKept /\ Present' = Present
  <2>1. \A r \in Present : Grows(r)
    BY <1>1, <1>3, Types DEF Grows
  <2>2. \A o \in Staged : Kept(o)
    BY <1>9 DEF Kept, Staged
  <2> QED  BY <1>3, <1>11, <2>1, <2>2 DEF Follows, DataKept, Present
<1>13. \A o \in Staged' \ Staged : ItemTrue(o)'
  BY <1>3, <1>4, <1>7, <1>10, <1>11, <1>12 DEF ItemTrue
<1>14. /\ DOMAIN browser' = Browser
       /\ \A c \in Browser : browser'[c] = browser[c] \/ RequestTrue(c)'
  BY <1>1, <1>6, RequestsOf, IdleTrue
<1>15. BulkTypeOK'
  BY <1>1, <1>3, <1>8, <1>11, <1>14 DEF BulkTypeOK
<1>16. AppliedOnce'
  <2>1. effects' = effects /\ Staged \subseteq Staged'
    BY <1>3, <1>12 DEF Follows, Kept, Staged
  <2>2. ASSUME NEW o \in Ordinal
        PROVE  /\ effects[o] <= 1 /\ (effects[o] = 1 => o \in Staged /\ items[o].status = "applied")
               /\ o \in Staged /\ items[o].status = "applied" /\ effects[o] = 0 =>
                    \E p \in Staged : items[p].row = items[o].row /\ effects[p] = 1
    BY DEF BulkInv, AppliedOnce
  <2>3. ASSUME NEW o \in Staged', items'[o].status = "applied"
        PROVE  o \in Staged /\ items'[o] = items[o]
    BY <1>7, <1>9, <1>10, <2>3
  <2>4. ASSUME NEW o \in Ordinal
        PROVE  /\ effects'[o] <= 1 /\ (effects'[o] = 1 => o \in Staged' /\ items'[o].status = "applied")
               /\ o \in Staged' /\ items'[o].status = "applied" /\ effects'[o] = 0 =>
                    \E p \in Staged' : items'[p].row = items'[o].row /\ effects'[p] = 1
    <3>1. effects'[o] <= 1 /\ (effects'[o] = 1 => o \in Staged' /\ items'[o].status = "applied")
      BY <1>9, <2>1, <2>2
    <3>2. ASSUME o \in Staged', items'[o].status = "applied", effects'[o] = 0
          PROVE  \E p \in Staged' : items'[p].row = items'[o].row /\ effects'[p] = 1
      <4>1. PICK p \in Staged : items[p].row = items[o].row /\ effects[p] = 1
        BY <2>1, <2>2, <2>3, <3>2
      <4> QED  BY <1>9, <2>1, <2>3, <3>2, <4>1
    <3> QED  BY <3>1, <3>2
  <2> QED  BY <2>4 DEF AppliedOnce
<1>17. OnlyReviewedLeases'
  BY <1>3, <1>4 DEF OnlyReviewedLeases
<1> QED  BY <1>3, <1>4, <1>11, <1>12, <1>13, <1>14, <1>15, <1>16, <1>17, Combine

\* One cell is edited: the input it writes is the task's, with the edit.
LEMMA EditCommitInv ==
  ASSUME BulkInv, NEW b \in Browser, EditCommit(b)
  PROVE  BulkInv' /\ DataKept
<1>1. BulkTypeOK /\ DOMAIN browser = Browser /\ RequestTrue(b)
  BY DEF BulkInv, BulkTypeOK
<1>2. PICK q : q = browser[b]
  OBVIOUS
<1>3. PICK r : r = q.row
  OBVIOUS
<1>4. /\ EditingTrue(q) /\ rows[r].edit = q.edit
      /\ UNCHANGED <<op, items, contract, shown, ended, effects, changes>>
  BY <1>1, <1>2, <1>3 DEF RequestTrue, EditCommit, Unchanged
<1>5. PICK x : x = Changed(rows[r], CellEdit, q.data \cup {b})
  OBVIOUS
<1>6. r \in Present /\ q.data \subseteq Mark /\ q.data = rows[r].data
  BY <1>3, <1>4 DEF EditingTrue
<1>7. rows' = [rows EXCEPT ![r] = x] /\ browser' = [browser EXCEPT ![b] = Idle]
  BY <1>2, <1>3, <1>5 DEF EditCommit
<1>8. rows[r] \in Task /\ rows[r].edit \in Nat /\ rows[r].turn \in Nat
  BY <1>1, <1>6, Types
<1>9. /\ x.edit = rows[r].edit + 1 /\ x.turn = rows[r].turn + 1 /\ x.data = q.data \cup {b}
      /\ x.holder = Nothing
      /\ x.completed \in BOOLEAN /\ x.deleted \in BOOLEAN /\ x.enabled \in BOOLEAN
      /\ x = [edit |-> x.edit, turn |-> x.turn, data |-> x.data, holder |-> x.holder,
              completed |-> x.completed, deleted |-> x.deleted, enabled |-> x.enabled]
  BY <1>5 DEF Changed, Reopens, CellEdit, Invalidates, Input
<1>10. /\ x.edit \in Nat /\ x.turn \in Nat /\ rows[r].edit <= x.edit /\ rows[r].turn <= x.turn
       /\ x.edit # rows[r].edit
  BY <1>8, <1>9
<1>11. x.data \subseteq Mark /\ rows[r].data \subseteq x.data
  BY <1>6, <1>9 DEF Mark
<1>12. x \in Task
  BY <1>9, <1>10, <1>11 DEF Task
<1>13. /\ DOMAIN browser' = Browser
       /\ \A c \in Browser : browser'[c] = browser[c] \/ RequestTrue(c)'
  BY <1>1, <1>7, RequestsOf, IdleTrue
<1>14. changes' \in 0 .. MaxChanges
  BY <1>1, <1>4 DEF BulkTypeOK
<1> QED  BY <1>4, <1>6, <1>7, <1>10, <1>11, <1>12, <1>13, <1>14, OneTask

-----------------------------------------------------------------------------
(* A chunk is applied.                                                     *)

\* What an accepted item is: of a task as it was reviewed, or of a new one.
LEMMA AcceptedItem ==
  ASSUME BulkInv, NEW q, ApplyingTrue(q), op # Nothing, NEW o \in Accepted(q.taken)
  PROVE  /\ o \in q.taken /\ o \in Staged /\ q.data[o] \subseteq Mark
         /\ IF items[o].create
            THEN op.action.kind = "import" /\ items[o].row \notin Present
            ELSE /\ items[o].row \in Present /\ rows[items[o].row].edit = items[o].edit
                 /\ q.data[o] = rows[items[o].row].data
                 /\ op.action.kind # "duplicate" =>
                      items[o].turn \in Nat /\ rows[items[o].row].turn = items[o].turn
<1>1. o \in q.taken
  BY DEF Accepted
<1>2. o \in Staged /\ q.data[o] \subseteq Mark
  BY <1>1 DEF ApplyingTrue
<1>3. ItemTrue(o) /\ items[o].create \in BOOLEAN /\ Nothing \notin Nat
  BY <1>2, Types DEF BulkInv
<1>4. CASE items[o].create
  <2>1. op.action.kind = "import"
    BY <1>3, <1>4 DEF ItemTrue
  <2>2. Creatable(o, q.taken)
    BY <1>4 DEF Accepted, Creates
  <2>3. items[o].row \notin Present
    BY <2>1, <2>2 DEF Creatable
  <2> QED  BY <1>1, <1>2, <1>4, <2>1, <2>3
<1>5. CASE ~items[o].create
  <2>1. items[o].row \in Present /\ items[o].turn \in Nat
    BY <1>3, <1>5 DEF ItemTrue
  <2>2. CASE op.action.kind = "duplicate"
    <3>1. rows[items[o].row].edit = items[o].edit
      BY <2>2 DEF Accepted, Creates, Creatable
    <3> QED  BY <1>1, <1>2, <1>5, <2>1, <2>2, <3>1 DEF ApplyingTrue
  <2>3. CASE op.action.kind # "duplicate"
    <3>1. Unchanged(items[o].row, items[o].edit, items[o].turn)
      BY <1>5, <2>3 DEF Accepted, Creates
    <3>2. rows[items[o].row].edit = items[o].edit /\ rows[items[o].row].turn = items[o].turn
      BY <1>3, <2>1, <3>1 DEF Unchanged
    <3> QED  BY <1>1, <1>2, <1>5, <2>1, <2>3, <3>2 DEF ApplyingTrue
  <2> QED  BY <2>2, <2>3
<1> QED  BY <1>3, <1>4, <1>5

\* A changed task: its edit revision is new, and what else may be.
LEMMA ChangedTask ==
  ASSUME NEW task \in Task, NEW action, NEW data \in SUBSET Mark
  PROVE  /\ Changed(task, action, data) \in Task
         /\ Changed(task, action, data).edit = task.edit + 1
         /\ task.turn <= Changed(task, action, data).turn
         /\ Changed(task, action, data).data = data
<1>1. task.edit \in Nat /\ task.turn \in Nat /\ task.holder \in Holder \cup {Nothing}
  BY DEF Task
<1>2. PICK x : x = Changed(task, action, data)
  OBVIOUS
<1>3. /\ x.edit = task.edit + 1 /\ x.turn \in {task.turn, task.turn + 1} /\ x.data = data
      /\ x.holder \in {task.holder, Nothing}
      /\ x.completed \in BOOLEAN /\ x.deleted \in BOOLEAN /\ x.enabled \in BOOLEAN
      /\ x = [edit |-> x.edit, turn |-> x.turn, data |-> x.data, holder |-> x.holder,
              completed |-> x.completed, deleted |-> x.deleted, enabled |-> x.enabled]
  BY <1>2 DEF Changed, Reopens
<1>4. x.edit \in Nat /\ x.turn \in Nat /\ task.turn <= x.turn
  BY <1>1, <1>3
<1>5. x.holder \in Holder \cup {Nothing}
  BY <1>1, <1>3
<1>6. x \in Task
  BY <1>3, <1>4, <1>5 DEF Task
<1> QED  BY <1>2, <1>3, <1>4, <1>6

\* An imported task has its type.
LEMMA ImportedTask ==
  ASSUME NEW o \in Ordinal
  PROVE  Imported(o) \in Task
<1>1. {o} \subseteq Mark
  BY DEF Mark
<1>2. NewTask \in Task
  BY DEF NewTask, Task
<1>3. \A c \in BOOLEAN : [NewTask EXCEPT !.data = {o}, !.completed = c] \in Task
  BY <1>1, <1>2 DEF Task
<1> QED  BY <1>3 DEF Imported

\* The tasks after a chunk: none is lost, and a changed one was as reviewed.
LEMMA AppliedTasks ==
  ASSUME BulkInv, NEW q, ApplyingTrue(q), op # Nothing,
         NEW f \in Outcomes(q, Accepted(q.taken)),
         rows' = RowsAfter(q, f)
  PROVE  /\ rows' \in [Row -> Task \cup {Nothing}]
         /\ \A r \in Present : Grows(r) /\ rows[r].data \subseteq rows'[r].data
<1>1. BulkTypeOK
  BY DEF BulkInv
<1>0. rows' = [r \in Row |-> IF r \notin DOMAIN f THEN rows[r]
                 ELSE IF items[f[r]].create THEN Imported(f[r])
                 ELSE Changed(rows[r], op.action,
                        IF Input(op.action.kind) THEN q.data[f[r]] \cup {f[r]} ELSE q.data[f[r]])]
  BY DEF RowsAfter
<1>2. ASSUME NEW r \in DOMAIN f
      PROVE  f[r] \in Accepted(q.taken) /\ items[f[r]].row = r /\ r \in Row
  <2>1. f[r] \in Accepted(q.taken) /\ items[f[r]].row = r
    BY DEF Outcomes
  <2> QED  BY <1>1, <2>1, AcceptedItem, Types
<1>3. ASSUME NEW r \in DOMAIN f, items[f[r]].create
      PROVE  r \notin Present /\ rows'[r] \in Task
  <2>1. f[r] \in Ordinal /\ r \notin Present
    BY <1>1, <1>2, <1>3, AcceptedItem, Types
  <2>2. rows'[r] = Imported(f[r])
    BY <1>0, <1>2, <1>3
  <2> QED  BY <2>1, <2>2, ImportedTask
<1>4. ASSUME NEW r \in DOMAIN f, ~items[f[r]].create
      PROVE  r \in Present /\ Grows(r) /\ rows[r].data \subseteq rows'[r].data
  <2>1. PICK o : o = f[r]
    OBVIOUS
  <2>2. PICK data : data = IF Input(op.action.kind) THEN q.data[o] \cup {o} ELSE q.data[o]
    OBVIOUS
  <2>3. rows'[r] = Changed(rows[r], op.action, data)
    BY <1>0, <1>2, <1>4, <2>1, <2>2
  <2>4. /\ o \in Ordinal /\ r \in Present /\ q.data[o] \subseteq Mark
        /\ q.data[o] = rows[r].data
    BY <1>1, <1>2, <1>4, <2>1, AcceptedItem, Types
  <2>5. data \subseteq Mark /\ rows[r].data \subseteq data
    BY <2>2, <2>4 DEF Mark
  <2>6. rows[r] \in Task /\ rows[r].edit \in Nat
    BY <1>1, <2>4, Types
  <2>7. /\ rows'[r] \in Task /\ rows'[r].edit = rows[r].edit + 1
        /\ rows[r].turn <= rows'[r].turn /\ rows'[r].data = data
    BY <2>3, <2>5, <2>6, ChangedTask
  <2>8. rows[r].edit <= rows'[r].edit /\ rows'[r].edit # rows[r].edit
    BY <2>6, <2>7
  <2> QED  BY <2>4, <2>5, <2>7, <2>8 DEF Grows
<1>5. ASSUME NEW r \in Row, r \notin DOMAIN f
      PROVE  /\ rows'[r] = rows[r] /\ rows'[r] \in Task \cup {Nothing}
             /\ r \in Present => Grows(r)
  <2>1. rows'[r] = rows[r]
    BY <1>0, <1>5
  <2> QED  BY <1>1, <2>1, Types DEF Grows, BulkTypeOK
<1>6. ASSUME NEW r \in Row PROVE rows'[r] \in Task \cup {Nothing}
  <2>1. CASE r \notin DOMAIN f
    BY <1>5, <2>1
  <2>2. CASE r \in DOMAIN f /\ items[f[r]].create
    BY <1>3, <2>2
  <2>3. CASE r \in DOMAIN f /\ ~items[f[r]].create
    BY <1>4, <2>3 DEF Grows
  <2> QED  BY <2>1, <2>2, <2>3
<1>7. ASSUME NEW r \in Present PROVE Grows(r) /\ rows[r].data \subseteq rows'[r].data
  <2>1. r \in Row
    BY DEF Present
  <2>2. CASE r \notin DOMAIN f
    BY <1>5, <2>1, <2>2
  <2>3. CASE r \in DOMAIN f
    BY <1>3, <1>4, <2>3
  <2> QED  BY <2>2, <2>3
<1>8. rows' = [r \in Row |-> rows'[r]]
  BY <1>0
<1> QED  BY <1>6, <1>7, <1>8

\* A chunk is applied: it is decided once, and ends only leases as reviewed.
LEMMA ApplyCommitInv ==
  ASSUME BulkInv, NEW b \in Browser, ApplyCommit(b)
  PROVE  BulkInv' /\ DataKept
<1>1. BulkTypeOK /\ DOMAIN browser = Browser /\ RequestTrue(b)
  BY DEF BulkInv, BulkTypeOK
<1>2. PICK q : q = browser[b]
  OBVIOUS
<1>3. ApplyingTrue(q) /\ op # Nothing /\ q.taken \subseteq Pending
  BY <1>1, <1>2 DEF RequestTrue, ApplyCommit, MayApply
<1>4. PICK accepted : accepted = Accepted(q.taken)
  OBVIOUS
<1>5. q.taken \subseteq Staged /\ accepted \subseteq q.taken /\ q.taken \subseteq Ordinal
  BY <1>3, <1>4 DEF Accepted, Pending, Staged
<1>6. PICK f \in Outcomes(q, accepted) :
        /\ rows' = RowsAfter(q, f)
        /\ effects' = [o \in Ordinal |->
                         effects[o] + IF o \in TookEffect(f, accepted) THEN 1 ELSE 0]
  BY <1>2, <1>4 DEF ApplyCommit
<1>7. rows' \in [Row -> Task \cup {Nothing}] /\ (\A r \in Present : Grows(r)) /\ DataKept
  <2>1. /\ rows' \in [Row -> Task \cup {Nothing}]
        /\ \A r \in Present : Grows(r) /\ rows[r].data \subseteq rows'[r].data
    BY <1>3, <1>4, <1>6, AppliedTasks
  <2> QED  BY <2>1, NothingAssumption DEF DataKept, Grows
<1>8. items' = [o \in Ordinal |-> IF o \notin q.taken THEN items[o]
                  ELSE [items[o] EXCEPT !.status = IF o \in accepted THEN "applied" ELSE "rejected"]]
  BY <1>2, <1>4 DEF ApplyCommit
<1>9. ASSUME NEW o \in q.taken
      PROVE  /\ items'[o] \in Item /\ items'[o].row = items[o].row /\ items'[o].create = items[o].create
             /\ items'[o].edit = items[o].edit /\ items'[o].turn = items[o].turn
             /\ items'[o].status = IF o \in accepted THEN "applied" ELSE "rejected"
  <2>1. items[o] \in Item
    BY <1>1, <1>5, Types
  <2>2. \A s \in {"applied", "rejected"} :
          LET new == [items[o] EXCEPT !.status = s]
          IN  /\ new \in Item /\ new.row = items[o].row /\ new.create = items[o].create
              /\ new.edit = items[o].edit /\ new.turn = items[o].turn /\ new.status = s
    BY <2>1 DEF Item
  <2> QED  BY <1>5, <1>8, <2>2
<1>10. \A o \in Ordinal : o \notin q.taken => items'[o] = items[o]
  BY <1>8
<1>11. items' \in [Ordinal -> Item \cup {Nothing}]
  <2>1. \A o \in Ordinal : items'[o] \in Item \cup {Nothing}
    BY <1>1, <1>9, <1>10 DEF BulkTypeOK
  <2>2. items' = [o \in Ordinal |-> items'[o]]
    BY <1>8
  <2> QED  BY <2>1, <2>2
<1>12. Staged' = Staged /\ \A o \in Staged : Kept(o)
  <2>1. \A o \in Staged : Kept(o)
    BY <1>1, <1>9, <1>10, Types DEF Kept, Staged
  <2>2. \A o \in Ordinal : o \in Staged' => o \in Staged
    BY <1>5, <1>10 DEF Staged
  <2> QED  BY <2>1, <2>2 DEF Kept, Staged
<1>13. op' \in Operation /\ op' # Nothing /\ op'.action = op.action /\ op'.status # "preview"
  <2>1. op \in Operation /\ op.processed \in Nat
    BY <1>1, <1>3, Types DEF Operation
  <2>2. Cardinality(q.taken) \in Nat
    BY <1>5, OrdinalType
  <2>3. \A n \in Nat, s \in {"applying", "complete"} :
          LET new == [op EXCEPT !.processed = n, !.status = s]
          IN  new \in Operation /\ new.action = op.action /\ new.status = s
    BY <2>1 DEF Operation
  <2>4. op.processed + Cardinality(q.taken) \in Nat
    BY <2>1, <2>2
  <2>5. PICK s \in {"applying", "complete"} :
          op' = [op EXCEPT !.processed = @ + Cardinality(q.taken), !.status = s]
    BY <1>2 DEF ApplyCommit
  <2> QED  BY <2>3, <2>4, <2>5, NothingAssumption
<1>14. Follows
  BY <1>7, <1>12, <1>13 DEF Follows
<1>15. /\ TookEffect(f, accepted) \subseteq accepted
       /\ \A o \in accepted : \E p \in TookEffect(f, accepted) : items[p].row = items[o].row
  <2>1. \A r \in DOMAIN f : f[r] \in accepted /\ items[f[r]].row = r
    BY DEF Outcomes
  <2>2. ASSUME NEW o \in accepted, ~Creates(o) \/ items[o].create
        PROVE  items[o].row \in DOMAIN f
    BY <2>2 DEF Outcomes
  <2> QED  BY <2>1, <2>2 DEF TookEffect
<1>16. \A o \in Ordinal : effects[o] \in Nat
  BY <1>1 DEF BulkTypeOK
<1>17. AppliedOnce'
  <2>1. ASSUME NEW o \in Ordinal
        PROVE  /\ effects[o] <= 1 /\ (effects[o] = 1 => o \in Staged /\ items[o].status = "applied")
               /\ o \in Staged /\ items[o].status = "applied" /\ effects[o] = 0 =>
                    \E p \in Staged : items[p].row = items[o].row /\ effects[p] = 1
    BY DEF BulkInv, AppliedOnce
  <2>2. ASSUME NEW o \in q.taken
        PROVE  /\ o \in Ordinal /\ o \in Staged /\ effects[o] = 0
               /\ effects'[o] = IF o \in TookEffect(f, accepted) THEN 1 ELSE 0
    <3>1. o \in Ordinal /\ o \in Staged /\ items[o].status = "pending"
      BY <1>3, <1>5, <2>2 DEF Pending
    <3>2. effects[o] = 0
      BY <1>16, <2>1, <3>1
    <3> QED  BY <1>6, <3>1, <3>2
  <2>3. ASSUME NEW o \in Ordinal, o \notin q.taken
        PROVE  effects'[o] = effects[o] /\ items'[o] = items[o]
    BY <1>5, <1>6, <1>10, <1>15, <1>16, <2>3
  <2>4. ASSUME NEW p \in Staged, effects[p] = 1
        PROVE  effects'[p] = 1
    BY <2>2, <2>3, <2>4 DEF Staged
  <2>5. \A o \in Staged : items'[o].row = items[o].row
    BY <1>9, <1>10 DEF Staged
  <2>6. ASSUME NEW o \in Ordinal
        PROVE  /\ effects'[o] <= 1 /\ (effects'[o] = 1 => o \in Staged /\ items'[o].status = "applied")
               /\ o \in Staged /\ items'[o].status = "applied" /\ effects'[o] = 0 =>
                    \E p \in Staged : items'[p].row = items'[o].row /\ effects'[p] = 1
    <3>1. CASE o \in q.taken
      <4>1. /\ effects'[o] <= 1 /\ o \in Staged
            /\ effects'[o] = 1 => items'[o].status = "applied"
        BY <1>9, <1>15, <2>2, <3>1
      <4>2. ASSUME o \in accepted
            PROVE  \E p \in Staged : items'[p].row = items'[o].row /\ effects'[p] = 1
        <5>1. PICK p \in TookEffect(f, accepted) : items[p].row = items[o].row
          BY <1>15, <4>2
        <5>2. p \in q.taken
          BY <1>5, <1>15
        <5>3. p \in Staged /\ effects'[p] = 1
          BY <2>2, <5>2
        <5> QED  BY <2>5, <4>1, <5>1, <5>3
      <4> QED  BY <1>9, <3>1, <4>1, <4>2
    <3>2. CASE o \notin q.taken
      <4>1. /\ effects'[o] <= 1 /\ (effects'[o] = 1 => o \in Staged /\ items'[o].status = "applied")
        BY <2>1, <2>3, <3>2
      <4>2. ASSUME o \in Staged, items'[o].status = "applied", effects'[o] = 0
            PROVE  \E p \in Staged : items'[p].row = items'[o].row /\ effects'[p] = 1
        <5>1. PICK p \in Staged : items[p].row = items[o].row /\ effects[p] = 1
          BY <2>1, <2>3, <3>2, <4>2
        <5> QED  BY <2>4, <2>5, <4>2, <5>1
      <4> QED  BY <4>1, <4>2
    <3> QED  BY <3>1, <3>2
  <2> QED  BY <1>12, <2>6 DEF AppliedOnce
<1>18. /\ shown' = shown
       /\ \A end \in ended' : end \in ended \/
            \E o \in accepted : ~Creates(o) /\ end = <<o, rows[items[o].row].turn>>
  BY <1>2, <1>4 DEF ApplyCommit
<1>19. ASSUME NEW o \in accepted, ~Creates(o)
       PROVE  /\ o \in Ordinal /\ rows[items[o].row].turn \in Nat
              /\ shown[o] # Nothing => shown[o] = rows[items[o].row].turn
  <2>1. /\ o \in Ordinal /\ items[o].row \in Present
        /\ items[o].turn \in Nat /\ rows[items[o].row].turn = items[o].turn
    BY <1>3, <1>4, <1>5, <1>19, AcceptedItem DEF Creates
  <2>2. ASSUME shown[o] # Nothing PROVE shown[o] = rows[items[o].row].turn
    <3>1. ShownTrue(o) /\ shown[o] \in Nat
      BY <1>1, <2>1, <2>2 DEF BulkInv, BulkTypeOK
    <3>2. items[o].turn <= shown[o] /\ shown[o] <= rows[items[o].row].turn
      BY <2>2, <3>1 DEF ShownTrue
    <3> QED  BY <2>1, <3>1, <3>2
  <2> QED  BY <2>1, <2>2
<1>20. OnlyReviewedLeases'
  <2> SUFFICES ASSUME NEW end \in ended', shown[end[1]] # Nothing
               PROVE  shown[end[1]] = end[2]
    BY <1>18 DEF OnlyReviewedLeases
  <2>1. CASE end \in ended
    BY <2>1 DEF BulkInv, OnlyReviewedLeases
  <2>2. CASE \E o \in accepted : ~Creates(o) /\ end = <<o, rows[items[o].row].turn>>
    BY <1>19, <2>2
  <2> QED  BY <1>18, <2>1, <2>2
<1>21. /\ DOMAIN browser' = Browser
       /\ \A c \in Browser : browser'[c] = browser[c] \/ RequestTrue(c)'
  <2>1. browser' = [browser EXCEPT ![b] = Idle]
    BY DEF ApplyCommit
  <2> QED  BY <1>1, <2>1, RequestsOf, IdleTrue
<1>22. BulkTypeOK'
  <2>1. ended' \subseteq Ordinal \X Nat
    BY <1>1, <1>18, <1>19 DEF BulkTypeOK
  <2>2. effects' \in [Ordinal -> Nat]
    BY <1>6, <1>16
  <2>3. UNCHANGED <<contract, shown, changes>>
    BY DEF ApplyCommit
  <2> QED  BY <1>1, <1>7, <1>11, <1>13, <1>21, <2>1, <2>2, <2>3 DEF BulkTypeOK
<1> QED  BY <1>7, <1>12, <1>13, <1>14, <1>17, <1>18, <1>20, <1>21, <1>22, Combine

-----------------------------------------------------------------------------
(* The theorems.                                                           *)

\* Nothing is known at first, and so nothing wrong.
LEMMA InitInv == BulkInit => BulkInv
<1> SUFFICES ASSUME BulkInit PROVE BulkInv
  OBVIOUS
<1>1. rows \in [Row -> Task \cup {Nothing}]
  <2>1. NewTask \in Task /\ \A h \in Holder : LeasedTask(h) \in Task
    BY DEF NewTask, LeasedTask, Task
  <2>2. \A task \in Task : [task EXCEPT !.edit = 2] \in Task
    BY DEF Task
  <2> QED  BY <2>1, <2>2 DEF BulkInit
<1>2. Staged = {}
  BY DEF BulkInit, Staged
<1>3. BulkTypeOK
  BY <1>1, BulkAssumption DEF BulkInit, BulkTypeOK
<1>4. \A b \in Browser : RequestTrue(b)
  BY DEF BulkInit, RequestTrue, Idle
<1>5. AppliedOnce /\ OnlyReviewedLeases /\ \A o \in Ordinal : ShownTrue(o)
  BY <1>2 DEF BulkInit, AppliedOnce, OnlyReviewedLeases, ShownTrue
<1> QED  BY <1>2, <1>3, <1>4, <1>5 DEF BulkInit, BulkInv

\* Every step keeps the invariant, and every edit.
LEMMA StepInv ==
  ASSUME BulkInv, [BulkNext]_bulkVars
  PROVE  BulkInv' /\ DataKept
<1>1. CASE UNCHANGED bulkVars
  BY <1>1, NoTask DEF bulkVars, BulkInv, BulkTypeOK
<1>2. CASE BulkNext
  <2>1. ASSUME NEW a \in Chosen, OperationPreview(a) PROVE BulkInv' /\ DataKept
    BY <2>1, OperationPreviewInv
  <2>2. CASE PatchPreview
    BY <2>2, PatchPreviewInv
  <2>3. ASSUME NEW mode \in Mode, ImportPreview(mode) PROVE BulkInv' /\ DataKept
    BY <2>3, ImportPreviewInv
  <2>4. CASE Review
    BY <2>4, ReviewInv
  <2>5. CASE Cancel \/ Refresh \/ Expire \/ PoolChanges
    BY <2>5, ControlInv
  <2>6. ASSUME NEW b \in Browser, StageRead(b) PROVE BulkInv' /\ DataKept
    BY <2>6, StageReadInv
  <2>7. ASSUME NEW b \in Browser, StageCommit(b) PROVE BulkInv' /\ DataKept
    BY <2>7, StageCommitInv
  <2>8. ASSUME NEW b \in Browser, NEW start, NEW limit, NEW r,
               ApplyItems(b, start, limit) \/ ApplyRead(b) \/ EditRead(b, r) \/ Abandon(b)
        PROVE  BulkInv' /\ DataKept
    BY <2>8, ReadsInv
  <2>9. ASSUME NEW b \in Browser, ApplyCommit(b) PROVE BulkInv' /\ DataKept
    BY <2>9, ApplyCommitInv
  <2>10. ASSUME NEW b \in Browser, EditCommit(b) PROVE BulkInv' /\ DataKept
    BY <2>10, EditCommitInv
  <2>11. ASSUME NEW r \in Row, NEW h,
                (h \in Holder /\ Claim(r, h)) \/ Complete(r) \/ LeaseExpires(r)
         PROVE  BulkInv' /\ DataKept
    BY <2>11, TaskInv
  <2> QED  BY <1>2, <2>1, <2>2, <2>3, <2>4, <2>5, <2>6, <2>7, <2>8, <2>9, <2>10, <2>11 DEF BulkNext
<1> QED  BY <1>1, <1>2

\* The inductive invariant holds always.
LEMMA BulkInvariant == BulkSpec => []BulkInv
<1>1. BulkInv /\ [BulkNext]_bulkVars => BulkInv'
  BY StepInv
<1> QED  BY <1>1, InitInv, PTL DEF BulkSpec

\* The tables of an operation and every request's reads have their types
\* (operations.ts).
THEOREM BulkTypes == BulkSpec => []BulkTypeOK
<1>1. BulkInv => BulkTypeOK
  BY DEF BulkInv
<1> QED  BY <1>1, BulkInvariant, PTL

\* Whatever the tasks, browsers, actions and chunks are, an item of an
\* operation is written at most once, and only one recorded as applied is; one
\* that is so recorded and was not written gave way to another item of its
\* task, which was (applyOperation, operations.ts).
THEOREM EffectsOnce == BulkSpec => []AppliedOnce
<1>1. BulkInv => AppliedOnce
  BY DEF BulkInv
<1> QED  BY <1>1, BulkInvariant, PTL

\* An operation ends no lease but the one its review showed
\* (stageTaskChanges, tasks.ts).
THEOREM LeasesAsReviewed == BulkSpec => []OnlyReviewedLeases
<1>1. BulkInv => OnlyReviewedLeases
  BY DEF BulkInv
<1> QED  BY <1>1, BulkInvariant, PTL

\* An edit of a task's input is never overwritten by another one, of whatever
\* operation or single edit (stageTaskChanges, tasks.ts).
THEOREM EditsAreKept == BulkSpec => NoEditLost
<1>1. BulkInv /\ [BulkNext]_bulkVars
        => [\A r \in Present : rows'[r] # Nothing /\ rows[r].data \subseteq rows'[r].data]_bulkVars
  <2> SUFFICES ASSUME BulkInv, BulkNext
               PROVE  \A r \in Present : rows'[r] # Nothing /\ rows[r].data \subseteq rows'[r].data
    OBVIOUS
  <2> QED  BY StepInv DEF DataKept
<1> QED  BY <1>1, BulkInvariant, PTL DEF BulkSpec, NoEditLost

\* A cancelled operation stays cancelled and decides no item any more
\* (cancelOperation, operations.ts).
THEOREM CancelIsFinal == BulkSpec => CancelStops
<1>1. BulkInv /\ [BulkNext]_bulkVars
        => [op # Nothing /\ op.status = "cancelled" =>
              op'.status = "cancelled" /\ items' = items]_bulkVars
  <2> SUFFICES ASSUME BulkInv, BulkNext, op # Nothing, op.status = "cancelled"
               PROVE  op'.status = "cancelled" /\ items' = items
    OBVIOUS
  <2>1. op \in Operation
    BY Types DEF BulkInv
  <2>2. CASE op' = op /\ items' = items
    BY <2>2
  <2>3. CASE Refresh \/ Expire
    BY <2>1, <2>3 DEF Refresh, Expire, Operation
  <2>4. ASSUME NEW b \in Browser, StageCommit(b) PROVE FALSE
    BY <2>4 DEF StageCommit, Stageable
  <2>5. ASSUME NEW b \in Browser, ApplyCommit(b) PROVE FALSE
    BY <2>5 DEF ApplyCommit, MayApply
  <2>6. ASSUME ~(Refresh \/ Expire), \A b \in Browser : ~StageCommit(b) /\ ~ApplyCommit(b)
        PROVE  op' = op /\ items' = items
    BY <2>6 DEF BulkNext, OperationPreview, PatchPreview, ImportPreview, Review, Cancel, StageRead,
         ApplyItems, ApplyRead, EditRead, EditCommit, Abandon, Claim, Complete, LeaseExpires, PoolChanges
  <2> QED  BY <2>2, <2>3, <2>4, <2>5, <2>6
<1> QED  BY <1>1, BulkInvariant, PTL DEF BulkSpec, CancelStops

-----------------------------------------------------------------------------
(* The progress an operation reports.                                      *)

Decided == Staged \ Pending

\* A chunk that is being staged is of the file.
ProgressInv ==
  /\ ProgressIsTrue
  /\ op # Nothing =>
       /\ Cardinality(Staged) <= op.total
       /\ op.action.kind = "import" => op.total = Cardinality(Ordinal)
  /\ \A b \in Browser : browser[b].phase = "staging" => DOMAIN browser[b].names \subseteq Ordinal

\* What is decided is some of what is staged.
LEMMA DecidedSome ==
  /\ Decided \subseteq Staged /\ Staged \subseteq Ordinal /\ Pending \subseteq Ordinal
  /\ IsFiniteSet(Decided) /\ IsFiniteSet(Staged)
  /\ Cardinality(Decided) \in Nat /\ Cardinality(Staged) \in Nat
  /\ Cardinality(Decided) <= Cardinality(Staged)
<1>1. Decided \subseteq Staged /\ Staged \subseteq Ordinal /\ Pending \subseteq Ordinal
  BY DEF Decided, Staged, Pending
<1> QED  BY <1>1, OrdinalType, FS_Subset

\* An operation counts more items, and may change its status.
LEMMA OperationMoves ==
  ASSUME op \in Operation, NEW n \in Nat, NEW s \in {"preview", "applying", "complete", "cancelled"},
         op' = [op EXCEPT !.processed = @ + n, !.status = s]
  PROVE  /\ op' # Nothing /\ op'.processed = op.processed + n /\ op'.status = s
         /\ op'.total = op.total /\ op'.action = op.action
<1>1. op.processed + n \in Nat
  BY DEF Operation
<1>2. \A m \in Nat : LET new == [op EXCEPT !.processed = m, !.status = s]
                     IN  /\ new \in Operation /\ new.processed = m /\ new.status = s
                         /\ new.total = op.total /\ new.action = op.action
  BY DEF Operation
<1> QED  BY <1>1, <1>2, NothingAssumption

\* A step that decides nothing and stages nothing keeps the progress.
LEMMA ProgressRests ==
  ASSUME ProgressInv, items' = items,
         \/ op' = op
         \/ /\ op # Nothing /\ op'.action = op.action /\ op'.total = op.total
            /\ op'.processed = op.processed
            /\ op'.status = op.status \/ op'.status # "complete",
         \A b \in Browser : \/ browser'[b] = browser[b]
                            \/ browser'[b].phase # "staging"
                            \/ DOMAIN browser'[b].names \subseteq Ordinal
  PROVE  ProgressInv'
<1>1. Staged' = Staged /\ Pending' = Pending
  BY DEF Staged, Pending
<1>2. ProgressIsTrue'
  BY <1>1 DEF ProgressInv, ProgressIsTrue
<1> QED  BY <1>1, <1>2 DEF ProgressInv

\* A preview begins with the items it has refused.
LEMMA PreviewProgress ==
  ASSUME BulkInv, ProgressInv,
         (\E a \in Chosen : OperationPreview(a)) \/ PatchPreview \/ \E mode \in Mode : ImportPreview(mode)
  PROVE  ProgressInv'
<1>1. op = Nothing /\ browser' = browser
  BY DEF OperationPreview, PatchPreview, ImportPreview
<1>2. \A b \in Browser : browser'[b].phase = "staging" => DOMAIN browser'[b].names \subseteq Ordinal
  BY <1>1 DEF ProgressInv
<1>3. CASE \E a \in Chosen : OperationPreview(a)
  <2>1. PICK a \in Chosen, S \in SUBSET Row :
          \E order \in [0 .. Cardinality(S) - 1 -> S] :
            /\ items' = [o \in Ordinal |-> IF o \in DOMAIN order THEN Frozen(order[o]) ELSE Nothing]
            /\ op' = NewOperation([kind |-> a.kind, mode |-> Nothing, revoke |-> a.revoke, scope |-> a.scope], Cardinality(S), 0)
    BY <1>3 DEF OperationPreview, Present
  <2>2. PICK order \in [0 .. Cardinality(S) - 1 -> S] :
          items' = [o \in Ordinal |-> IF o \in DOMAIN order THEN Frozen(order[o]) ELSE Nothing]
    BY <2>1
  <2>3. Cardinality(S) \in Nat
    BY OrdinalType
  <2>4. Staged' \subseteq 0 .. Cardinality(S) - 1
    BY <2>2 DEF Staged
  <2>5. /\ IsFiniteSet(0 .. Cardinality(S) - 1)
        /\ Cardinality(0 .. Cardinality(S) - 1) = Cardinality(S)
    BY <2>3, FS_Interval
  <2>6. Cardinality(Staged') <= Cardinality(S)
    BY <2>4, <2>5, FS_Subset
  <2>7. \A o \in Staged' : items'[o].status = "pending"
    BY <2>2 DEF Staged, Frozen
  <2>8. (Staged \ Pending)' = {}
    BY <2>7 DEF Pending
  <2>9. /\ op'.total = Cardinality(S) /\ op'.processed = 0 /\ op'.status = "preview"
        /\ op'.action.kind # "import"
    BY <2>1, BulkAssumption DEF NewOperation
  <2>10. Cardinality({}) = 0
    BY FS_EmptySet
  <2>11. ProgressIsTrue'
    <3>1. op'.processed = Cardinality((Staged \ Pending)')
      BY <2>8, <2>9, <2>10
    <3>2. op'.processed <= op'.total
      BY <2>3, <2>9
    <3> QED  BY <2>9, <3>1, <3>2 DEF ProgressIsTrue
  <2>12. Cardinality(Staged') <= op'.total
    BY <2>6, <2>9
  <2> QED  BY <1>2, <2>9, <2>11, <2>12 DEF ProgressInv
<1>4. CASE PatchPreview
  <2>1. PICK p \in Pasted :
          LET used == {o \in Ordinal : p.order[o] \in Present}
              refused == {o \in used : p.order[o] \in p.late}
              patch(o) == IF o \notin refused THEN Frozen(p.order[o])
                          ELSE [Frozen(p.order[o]) EXCEPT !.edit = @ - 1, !.status = "rejected"]
          IN  /\ items' = [o \in Ordinal |-> IF o \in used THEN patch(o) ELSE Nothing]
              /\ op' = NewOperation([kind |-> "patches", mode |-> Nothing, revoke |-> FALSE, scope |-> "all"],
                                    Cardinality(used), Cardinality(refused))
    BY <1>4 DEF PatchPreview
  <2>2. PICK used, refused :
          /\ used = {o \in Ordinal : p.order[o] \in Present}
          /\ refused = {o \in used : p.order[o] \in p.late}
    OBVIOUS
  <2>3. /\ op' = NewOperation([kind |-> "patches", mode |-> Nothing, revoke |-> FALSE, scope |-> "all"],
                              Cardinality(used), Cardinality(refused))
        /\ items' = [o \in Ordinal |-> IF o \notin used THEN Nothing
                                       ELSE IF o \notin refused THEN Frozen(p.order[o]) ELSE Late(p.order[o])]
    BY <2>1, <2>2 DEF Late
  <2>4. \A r : /\ Frozen(r) # Nothing => Frozen(r).status = "pending"
               /\ Late(r).status = "rejected"
    BY DEF Frozen, Late
  <2>5. BulkTypeOK
    BY DEF BulkInv
  <2>6. \A o \in used : Frozen(p.order[o]) # Nothing
    BY <2>2, <2>5, FrozenItem, NothingAssumption DEF Unapplied
  <2>7. \A o \in refused : Late(p.order[o]) # Nothing
    BY <2>2, <2>5, LateItem, NothingAssumption DEF Unapplied, Pasted
  <2>8. Staged' = used
    BY <2>2, <2>3, <2>6, <2>7 DEF Staged
  <2>9. (Staged \ Pending)' = refused
    BY <2>2, <2>3, <2>4, <2>6, <2>8 DEF Pending
  <2>10. /\ op'.total = Cardinality(used) /\ op'.processed = Cardinality(refused)
         /\ op'.status = "preview" /\ op'.action.kind # "import"
    BY <2>3 DEF NewOperation
  <2>11. /\ Cardinality(used) \in Nat /\ Cardinality(refused) <= Cardinality(used)
    BY <2>2, OrdinalType, FS_Subset
  <2> QED  BY <1>2, <2>8, <2>9, <2>10, <2>11 DEF ProgressInv, ProgressIsTrue
<1>5. CASE \E mode \in Mode : ImportPreview(mode)
  <2>1. Staged' = {} /\ op'.total = Cardinality(Ordinal) /\ op'.processed = 0 /\ op'.status = "preview"
    BY <1>1, <1>5 DEF BulkInv, ImportPreview, NewOperation, Staged
  <2>2. Cardinality({}) = 0 /\ Cardinality(Ordinal) \in Nat /\ (Staged \ Pending)' = {} /\ Pending' = {}
    BY <2>1, FS_EmptySet, OrdinalType DEF Pending
  <2> QED  BY <1>2, <2>1, <2>2 DEF ProgressInv, ProgressIsTrue
<1> QED  BY <1>3, <1>4, <1>5

\* A chunk is read from the file, after what is staged.
LEMMA StageReadProgress ==
  ASSUME BulkInv, ProgressInv, NEW b \in Browser, StageRead(b)
  PROVE  ProgressInv'
<1>1. DOMAIN browser = Browser /\ op # Nothing /\ op.total = Cardinality(Ordinal)
  BY DEF BulkInv, BulkTypeOK, StageRead, ProgressInv
<1>2. PICK names \in NextChunk :
        browser' = [browser EXCEPT ![b] =
          [phase |-> "staging", names |-> names, old |-> [o \in DOMAIN names |-> Summary(names[o])]]]
  BY DEF StageRead
<1>3. DOMAIN names \subseteq Ordinal
  <2>1. Cardinality(Staged) \in Nat /\ Cardinality(Row) \in Nat
    BY DecidedSome, OrdinalType
  <2>2. Cardinality(Ordinal) = Cardinality(Row)
    BY <2>1, FS_Interval DEF Ordinal
  <2>3. PICK m \in {n \in 1 .. Limit : Cardinality(Staged) + n <= Cardinality(Row)} :
          names \in [Cardinality(Staged) .. Cardinality(Staged) + m - 1 -> Row]
    BY <1>1, <2>2 DEF NextChunk
  <2>4. m \in Nat /\ Cardinality(Staged) + m <= Cardinality(Row)
    BY <2>3, BulkAssumption
  <2>5. Cardinality(Staged) .. Cardinality(Staged) + m - 1 \subseteq 0 .. Cardinality(Row) - 1
    BY <2>1, <2>4
  <2> QED  BY <2>3, <2>5 DEF Ordinal
<1>4. browser'[b].names = names /\ \A c \in Browser : c # b => browser'[c] = browser[c]
  BY <1>1, <1>2
<1> QED  BY <1>3, <1>4, ProgressRests DEF StageRead

\* A chunk adds the items it refuses to the decided ones,
LEMMA StageCommitProgress ==
  ASSUME BulkInv, ProgressInv, NEW b \in Browser, StageCommit(b)
  PROVE  ProgressInv'
<1>1. /\ DOMAIN browser = Browser /\ op # Nothing /\ op \in Operation /\ op.action.kind = "import"
      /\ op.status = "preview" /\ DOMAIN browser[b].names \cap Staged = {}
      /\ DOMAIN browser[b].names \subseteq Ordinal
  BY Types DEF BulkInv, BulkTypeOK, RequestTrue, StagingTrue, ProgressInv, StageCommit, Stageable
<1>2. PICK new, refused :
        /\ new = Prepared(browser[b])
        /\ refused = {o \in DOMAIN new : new[o].status = "rejected"}
  OBVIOUS
<1>3. /\ items' = [o \in Ordinal |-> IF o \in DOMAIN new THEN new[o] ELSE items[o]]
      /\ op' = [op EXCEPT !.processed = @ + Cardinality(refused)]
      /\ browser' = [browser EXCEPT ![b] = Idle]
  BY <1>2 DEF StageCommit
<1>4. /\ DOMAIN new = DOMAIN browser[b].names
      /\ \A o \in DOMAIN new : new[o].status \in {"rejected", "pending"}
  BY <1>2 DEF Prepared
<1>5. \A o \in DOMAIN new : new[o] # Nothing
  <2>1. StagingTrue(browser[b])
    BY DEF BulkInv, RequestTrue, StageCommit
  <2> QED  BY <1>2, <2>1, PreparedItem, NothingAssumption
<1>6. Decided' = Decided \cup refused /\ Decided \cap refused = {}
  BY <1>1, <1>2, <1>3, <1>4, <1>5 DEF Decided, Staged, Pending
<1>7. /\ IsFiniteSet(refused) /\ Cardinality(refused) \in Nat
  BY <1>1, <1>2, <1>4, OrdinalType
<1>8. Cardinality(Decided') = Cardinality(Decided) + Cardinality(refused)
  <2>1. Cardinality({}) = 0
    BY FS_EmptySet
  <2>2. Cardinality(Decided \cup refused)
          = Cardinality(Decided) + Cardinality(refused) - Cardinality(Decided \cap refused)
    BY <1>7, DecidedSome, FS_Union
  <2>3. Cardinality(Decided \cap refused) = 0
    BY <1>6, <2>1
  <2>4. Cardinality(Decided) \in Nat
    BY DecidedSome
  <2> QED  BY <1>6, <1>7, <2>2, <2>3, <2>4
<1>9. /\ op' # Nothing /\ op'.processed = op.processed + Cardinality(refused)
      /\ op'.total = op.total /\ op'.status = op.status /\ op'.action = op.action
  <2>1. op' = [op EXCEPT !.processed = @ + Cardinality(refused), !.status = op.status]
    BY <1>1, <1>3 DEF Operation
  <2>2. op.status \in {"preview", "applying", "complete", "cancelled"}
    BY <1>1
  <2> QED  BY <1>1, <1>7, <2>1, <2>2, OperationMoves
<1>10. Cardinality(Staged') <= op.total /\ Cardinality(Decided') <= Cardinality(Staged')
  <2>1. Staged' \subseteq Ordinal
    BY DEF Staged
  <2>2. Decided' \subseteq Staged'
    BY DEF Decided
  <2>3. IsFiniteSet(Staged')
    BY <2>1, OrdinalType
  <2>4. op.total = Cardinality(Ordinal)
    BY <1>1 DEF ProgressInv
  <2> QED  BY <2>1, <2>2, <2>3, <2>4, OrdinalType, FS_Subset
<1>11. ProgressIsTrue'
  <2>1. op.processed = Cardinality(Decided) /\ op.total \in Nat
    BY <1>1 DEF ProgressInv, ProgressIsTrue, Decided, Operation
  <2>2. /\ IsFiniteSet(Staged') /\ Cardinality(Staged') \in Nat /\ Cardinality(Decided') \in Nat
    <3>1. Staged' \in SUBSET Ordinal /\ Decided' \in SUBSET Ordinal
      BY DEF Staged, Decided
    <3> QED  BY <3>1, OrdinalType
  <2>3. Cardinality(Decided') <= op.total
    BY <1>10, <2>1, <2>2
  <2> QED  BY <1>1, <1>8, <1>9, <2>1, <2>3 DEF ProgressIsTrue, Decided
<1>12. \A c \in Browser : browser'[c].phase = "staging" => DOMAIN browser'[c].names \subseteq Ordinal
  BY <1>1, <1>3 DEF Idle, ProgressInv
<1> QED  BY <1>1, <1>9, <1>10, <1>11, <1>12 DEF ProgressInv

\* and a commit the items it applies or rejects.
LEMMA ApplyCommitProgress ==
  ASSUME BulkInv, ProgressInv, NEW b \in Browser, ApplyCommit(b)
  PROVE  ProgressInv'
<1>1. PICK taken : taken = browser[b].taken
  OBVIOUS
<1>2. DOMAIN browser = Browser /\ op # Nothing /\ op \in Operation /\ taken \subseteq Pending
  BY <1>1, Types DEF BulkInv, BulkTypeOK, RequestTrue, ApplyCommit, MayApply
<1>3. PICK accepted : accepted = Accepted(taken)
  OBVIOUS
<1>4. /\ items' = [o \in Ordinal |-> IF o \notin taken THEN items[o]
                  ELSE [items[o] EXCEPT !.status = IF o \in accepted THEN "applied" ELSE "rejected"]]
      /\ op' = [op EXCEPT !.processed = @ + Cardinality(taken),
              !.status = IF \E o \in Staged : items'[o].status = "pending" THEN "applying" ELSE "complete"]
      /\ browser' = [browser EXCEPT ![b] = Idle]
  BY <1>1, <1>3 DEF ApplyCommit, Staged
<1>5. Staged' = Staged
  <2>1. Staged \subseteq Staged'
    <3>1. ASSUME NEW o \in Staged, NEW s \in {"applied", "rejected"}
          PROVE  [items[o] EXCEPT !.status = s] # Nothing
      <4>1. [items[o] EXCEPT !.status = s] \in Item
        BY Types DEF BulkInv, Item
      <4> QED  BY <4>1, NothingAssumption
    <3> QED  BY <1>4, <3>1 DEF Staged
  <2>2. Staged' \subseteq Staged
    BY <1>2, <1>4 DEF Pending, Staged
  <2> QED  BY <2>1, <2>2
<1>6. Pending' = Pending \ taken
  <2>1. \A o \in taken : items'[o].status # "pending"
    BY <1>2, <1>4, Types DEF BulkInv, Item, Pending, Staged
  <2> QED  BY <1>2, <1>4, <1>5, <2>1 DEF Pending, Staged
<1>7. Decided' = Decided \cup taken /\ Decided \cap taken = {}
  BY <1>2, <1>5, <1>6 DEF Decided, Pending
<1>8. Cardinality(Decided') = Cardinality(Decided) + Cardinality(taken)
  <2>1. Cardinality({}) = 0
    BY FS_EmptySet
  <2>2. taken \in SUBSET Ordinal
    BY <1>2, DecidedSome
  <2>3. IsFiniteSet(taken) /\ Cardinality(taken) \in Nat
    BY <2>2, OrdinalType
  <2> QED  BY <1>7, <2>1, <2>3, DecidedSome, FS_Union
<1>9. /\ op' # Nothing /\ op'.processed = op.processed + Cardinality(taken)
      /\ op'.total = op.total /\ op'.action = op.action
      /\ op'.status = "complete" => \A o \in Staged : items'[o].status # "pending"
  <2>1. PICK status : status = IF \E o \in Staged : items'[o].status = "pending" THEN "applying" ELSE "complete"
    OBVIOUS
  <2>2. op' = [op EXCEPT !.processed = @ + Cardinality(taken), !.status = status]
    BY <1>4, <2>1
  <2>3. Cardinality(taken) \in Nat
    BY <1>2, DecidedSome, OrdinalType
  <2> QED  BY <1>2, <2>1, <2>2, <2>3, OperationMoves
<1>10. op'.status = "complete" => Pending' = {}
  BY <1>5, <1>9 DEF Pending
<1>11. ProgressIsTrue'
  <2>1. op.processed = Cardinality(Decided) /\ op.total \in Nat /\ Cardinality(Staged) <= op.total
    BY <1>2 DEF ProgressInv, ProgressIsTrue, Decided, Operation
  <2>2. Cardinality(Decided') <= Cardinality(Staged) /\ Cardinality(Decided') \in Nat
    <3>1. Decided' \in SUBSET Staged
      BY <1>5 DEF Decided
    <3> QED  BY <3>1, DecidedSome, FS_Subset, FS_CardinalityType
  <2>3. Cardinality(Decided') <= op.total
    BY <2>1, <2>2, DecidedSome
  <2> QED  BY <1>8, <1>9, <1>10, <2>1, <2>3 DEF ProgressIsTrue, Decided
<1>12. \A c \in Browser : browser'[c].phase = "staging" => DOMAIN browser'[c].names \subseteq Ordinal
  BY <1>2, <1>4 DEF Idle, ProgressInv
<1> QED  BY <1>2, <1>5, <1>9, <1>11, <1>12 DEF ProgressInv

\* What an operation says of its progress is so, whatever is staged, applied
\* and cancelled at the same time (applyOperation, operations.ts).
THEOREM ProgressHolds == BulkSpec => []ProgressIsTrue
<1>1. BulkInit => ProgressInv
  BY DEF BulkInit, ProgressInv, ProgressIsTrue, Idle
<1>2. BulkInv /\ ProgressInv /\ [BulkNext]_bulkVars => ProgressInv'
  <2> SUFFICES ASSUME BulkInv, ProgressInv, [BulkNext]_bulkVars
               PROVE  ProgressInv'
    OBVIOUS
  <2>1. CASE items' = items /\ op' = op /\ browser' = browser
    BY <2>1, ProgressRests
  <2>2. CASE (\E a \in Chosen : OperationPreview(a)) \/ PatchPreview \/ \E mode \in Mode : ImportPreview(mode)
    BY <2>2, PreviewProgress
  <2>3. CASE Cancel \/ Refresh \/ Expire
    <3>1. op # Nothing /\ op \in Operation /\ items' = items /\ browser' = browser
      BY <2>3, Types DEF BulkInv, Cancel, Refresh, Expire
    <3>2. /\ op'.action = op.action /\ op'.total = op.total /\ op'.processed = op.processed
          /\ op'.status = op.status \/ op'.status # "complete"
      BY <2>3, <3>1 DEF Cancel, Refresh, Expire, Operation
    <3> QED  BY <3>1, <3>2, ProgressRests
  <2>4. ASSUME NEW b \in Browser, StageRead(b) PROVE ProgressInv'
    BY <2>4, StageReadProgress
  <2>5. ASSUME NEW b \in Browser, StageCommit(b) PROVE ProgressInv'
    BY <2>5, StageCommitProgress
  <2>6. ASSUME NEW b \in Browser, ApplyCommit(b) PROVE ProgressInv'
    BY <2>6, ApplyCommitProgress
  <2>7. ASSUME NEW b \in Browser, NEW start, NEW limit, NEW r,
               ApplyItems(b, start, limit) \/ ApplyRead(b) \/ EditRead(b, r) \/ EditCommit(b) \/ Abandon(b)
        PROVE  ProgressInv'
    <3>1. DOMAIN browser = Browser /\ items' = items /\ op' = op
      BY <2>7 DEF BulkInv, BulkTypeOK, ApplyItems, ApplyRead, EditRead, EditCommit, Abandon
    <3>2. \A c \in Browser : c # b => browser'[c] = browser[c]
      BY <2>7, <3>1 DEF ApplyItems, ApplyRead, EditRead, EditCommit, Abandon
    <3>3. browser'[b].phase # "staging"
      <4>1. CASE ApplyItems(b, start, limit)
        BY <3>1, <4>1 DEF ApplyItems
      <4>2. CASE ApplyRead(b)
        BY <3>1, <4>2 DEF ApplyRead
      <4>3. CASE EditRead(b, r)
        BY <3>1, <4>3 DEF EditRead
      <4>4. CASE EditCommit(b) \/ Abandon(b)
        <5>1. browser' = [browser EXCEPT ![b] = Idle]
          BY <4>4 DEF EditCommit, Abandon
        <5>2. browser'[b] = Idle
          BY <3>1, <5>1
        <5> QED  BY <5>2 DEF Idle
      <4> QED  BY <2>7, <4>1, <4>2, <4>3, <4>4
    <3> QED  BY <3>1, <3>2, <3>3, ProgressRests
  <2> QED  BY <2>1, <2>2, <2>3, <2>4, <2>5, <2>6, <2>7 DEF bulkVars, BulkNext, Review, Claim, Complete, LeaseExpires, PoolChanges
<1>3. ProgressInv => ProgressIsTrue
  BY DEF ProgressInv
<1> QED  BY <1>1, <1>2, <1>3, BulkInvariant, PTL DEF BulkSpec
=============================================================================
