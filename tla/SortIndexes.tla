----------------------------- MODULE SortIndexes -----------------------------
(***************************************************************************)
(* The registry of a pool's claim sort indexes and the physical indexes    *)
(* of the database (sort-indexes.ts), against the schema changes that      *)
(* rename, retype and remove the fields they sort by, and the removal of   *)
(* the pool.                                                               *)
(*                                                                         *)
(* An index sorts by one input field here.  The code compares id, key,     *)
(* type, kind and active of it (sort-indexes.ts:34).  A FieldKey stands    *)
(* for key and type, which the expression of the index is made of: a       *)
(* change of the type alone is a change to another FieldKey.  `scalar`     *)
(* says that the field is an active input and its type not json.           *)
(* Bound of the model: a schema change is activated once.  What a second   *)
(* activation does is the subject of SchemaMigration.                      *)
(***************************************************************************)
EXTENDS Integers, FiniteSets

CONSTANTS
  Index,         \* ids of definitions, which are never given twice
  Field, FieldKey,
  Editor,        \* senders of requests
  MaxIndexes,    \* definitions of one pool, 4 in the code
  MaxSteps,      \* committed changes
  Unbuilt        \* no definition, no index, no schema to be activated

VARIABLES
  registry,   \* claim_sort_indexes
  physical,   \* for an index, the key its expression reads
  pool,       \* the pool: config_revision, and whether it is there
  fields,     \* pool_fields
  target,     \* the fields of the schema change under way
  editor,     \* what each request has read
  used, steps

indexVars == <<registry, physical, pool, fields, target, editor, used, steps>>

Definition == [key : FieldKey, scalar : BOOLEAN]
Schema == {s \in [Field -> Definition] : \A f, g \in Field : s[f].key = s[g].key => f = g}
Entry == [field : Field, key : FieldKey, status : {"unbuilt", "ready", "invalid"}, revision : Nat \ {0}]
Free == [phase |-> "idle"]

\* There are keys enough for the fields.
ASSUME IndexAssumption ==
  /\ MaxIndexes \in Nat /\ MaxSteps \in Nat
  /\ \E s \in Schema : \A f \in Field : s[f].scalar

\* What is not built is none of these.
ASSUME UnbuiltAssumption ==
  Unbuilt \notin Entry /\ Unbuilt \notin FieldKey /\ Unbuilt \notin Schema

IndexTypeOK ==
  /\ registry \in [Index -> Entry \cup {Unbuilt}]
  /\ physical \in [Index -> FieldKey \cup {Unbuilt}]
  /\ pool \in [revision : Nat \ {0}, there : BOOLEAN]
  /\ fields \in Schema /\ target \in Schema \cup {Unbuilt}
  /\ DOMAIN editor = Editor /\ used \subseteq Index /\ steps \in 0 .. MaxSteps

\* Which keys the fields have at first makes no difference.
IndexInit ==
  /\ registry = [x \in Index |-> Unbuilt] /\ physical = registry
  /\ pool = [revision |-> 1, there |-> TRUE]
  /\ fields = CHOOSE s \in Schema : \A f \in Field : s[f].scalar
  /\ target = Unbuilt
  /\ editor = [e \in Editor |-> Free] /\ used = {} /\ steps = 0

Registered == {x \in Index : registry[x] # Unbuilt}
Ready == pool.there /\ target = Unbuilt
FrozenRegistry == {<<x, registry[x].revision>> : x \in Registered}

Remember(e, request) ==
  /\ editor' = [editor EXCEPT ![e] = request]
  /\ UNCHANGED <<registry, physical, pool, fields, target, used, steps>>

Forget(e) == editor[e] # Free /\ Remember(e, Free)

Step(e) == steps < MaxSteps /\ steps' = steps + 1 /\ editor' = [editor EXCEPT ![e] = Free]

\* configGuard on the pool.
PoolUnchanged(revision) == pool.there /\ pool.revision = revision

-----------------------------------------------------------------------------
(* createSortIndex: the pool and the count are read, then the fields.      *)
CreateIndexRead(e) ==
  /\ editor[e] = Free /\ Ready /\ Cardinality(Registered) < MaxIndexes
  /\ Remember(e, [phase |-> "create", revision |-> pool.revision])

CreateIndexFields(e, f) ==
  /\ editor[e].phase = "create" /\ fields[f].scalar
  /\ Remember(e, [phase |-> "insert", revision |-> editor[e].revision, field |-> f, key |-> fields[f].key])

CreateIndex(e, x) ==
  /\ Step(e)
  /\ editor[e].phase = "insert" /\ x \notin used
  /\ PoolUnchanged(editor[e].revision) /\ Cardinality(Registered) < MaxIndexes
  /\ registry' = [registry EXCEPT ![x] =
       [field |-> editor[e].field, key |-> editor[e].key, status |-> "unbuilt", revision |-> 1]]
  /\ used' = used \cup {x}
  /\ UNCHANGED <<physical, pool, fields, target>>

-----------------------------------------------------------------------------
(* changeSortIndex: the row is read, then the pool, then the fields.       *)
ChangeIndexRead(e, x) ==
  /\ editor[e] = Free /\ x \in Registered
  /\ Remember(e, [phase |-> "row", index |-> x, entry |-> registry[x]])

ChangeIndexPool(e, remove) ==
  /\ editor[e].phase = "row" /\ Ready /\ (~remove => editor[e].entry.status # "invalid")
  /\ Remember(e, [phase |-> IF remove THEN "drop" ELSE "fields", index |-> editor[e].index,
                  entry |-> editor[e].entry, revision |-> pool.revision])

\* The dependencies are still what the definition says.
BuildFields(e) ==
  LET entry == editor[e].entry
  IN  /\ editor[e].phase = "fields"
      /\ fields[entry.field] = [key |-> entry.key, scalar |-> TRUE]
      /\ Remember(e, [editor[e] EXCEPT !.phase = "build"])

\* Mutation: a build is not guarded by the definition's revision.
ChangeableLate(q) == PoolUnchanged(q.revision)

Changeable(q) ==
  /\ PoolUnchanged(q.revision)
  /\ q.index \in Registered /\ registry[q.index].revision = q.entry.revision

BuildIndex(e) ==
  LET x == editor[e].index
  IN  /\ Step(e)
      /\ editor[e].phase = "build" /\ Changeable(editor[e])
      /\ physical' = [physical EXCEPT ![x] = editor[e].entry.key]
      /\ registry' = IF x \in Registered
                     THEN [registry EXCEPT ![x].status = "ready", ![x].revision = @ + 1] ELSE registry
      /\ UNCHANGED <<pool, fields, target, used>>

DropIndex(e) ==
  LET x == editor[e].index
  IN  /\ Step(e)
      /\ editor[e].phase = "drop" /\ Changeable(editor[e])
      /\ physical' = [physical EXCEPT ![x] = Unbuilt]
      /\ registry' = [registry EXCEPT ![x] = Unbuilt]
      /\ UNCHANGED <<pool, fields, target, used>>

-----------------------------------------------------------------------------
(* The start of an incompatible schema change: the preview is of one       *)
(* revision of the pool; the registry is read later, and frozen.           *)
PreviewSchema(e, next) ==
  /\ editor[e] = Free /\ Ready /\ next # fields
  /\ Remember(e, [phase |-> "previewed", revision |-> pool.revision, next |-> next])

ReadRegistry(e) ==
  /\ editor[e].phase = "previewed"
  /\ Remember(e, [phase |-> "start", revision |-> editor[e].revision, next |-> editor[e].next,
                  rows |-> registry, frozen |-> FrozenRegistry])

\* invalidateSortIndexes: a definition follows its field, or becomes invalid.
Invalidated(entry, next) ==
  LET kept == next[entry.field].scalar
  IN  [entry EXCEPT !.key = IF kept THEN next[entry.field].key ELSE @,
        !.status = IF kept /\ @ # "invalid" THEN "unbuilt" ELSE "invalid",
        !.revision = @ + 1]

AffectedIndex(entry, next) == next[entry.field] # [key |-> entry.key, scalar |-> TRUE]

\* Mutation: the registry is not frozen.
StartableLate(q) == PoolUnchanged(q.revision)

Startable(q) == PoolUnchanged(q.revision) /\ FrozenRegistry = q.frozen

StartSchema(e) ==
  LET q == editor[e]
      affected == {x \in Index : q.rows[x] # Unbuilt /\ AffectedIndex(q.rows[x], q.next)}
  IN  /\ Step(e)
      /\ q.phase = "start" /\ Startable(q)
      /\ target' = q.next /\ pool' = [pool EXCEPT !.revision = @ + 1]
      /\ physical' = [x \in Index |-> IF x \in affected THEN Unbuilt ELSE physical[x]]
      /\ registry' = [x \in Index |->
           IF x \in affected \cap Registered THEN Invalidated(q.rows[x], q.next) ELSE registry[x]]
      /\ UNCHANGED <<fields, used>>

\* Mutation: an activation does not ask whether a change is under way.
AnyState == TRUE

UnderWay == target # Unbuilt

ActivateSchema(e) ==
  /\ Step(e)
  /\ editor[e] = Free /\ UnderWay
  /\ fields' = target /\ target' = Unbuilt /\ pool' = [pool EXCEPT !.revision = @ + 1]
  /\ UNCHANGED <<registry, physical, used>>

\* A compatible schema change, or any other change of the pool.
ChangePool(e) ==
  /\ Step(e)
  /\ editor[e] = Free /\ Ready
  /\ pool' = [pool EXCEPT !.revision = @ + 1]
  /\ UNCHANGED <<registry, physical, fields, target, used>>

-----------------------------------------------------------------------------
(* deleteConfiguration of the pool: its indexes are listed, then dropped.  *)
ListForRemoval(e) ==
  /\ editor[e] = Free /\ Ready
  /\ Remember(e, [phase |-> "remove", revision |-> pool.revision, frozen |-> FrozenRegistry])

RemovePool(e) ==
  LET listed == {entry[1] : entry \in editor[e].frozen}
  IN  /\ Step(e)
      /\ editor[e].phase = "remove" /\ PoolUnchanged(editor[e].revision) /\ FrozenRegistry = editor[e].frozen
      /\ physical' = [x \in Index |-> IF x \in listed THEN Unbuilt ELSE physical[x]]
      /\ registry' = [x \in Index |-> Unbuilt] /\ pool' = [pool EXCEPT !.there = FALSE]
      /\ UNCHANGED <<fields, target, used>>

IndexNext ==
  \E e \in Editor :
    \/ CreateIndexRead(e) \/ \E f \in Field : CreateIndexFields(e, f)
    \/ \E x \in Index : CreateIndex(e, x) \/ ChangeIndexRead(e, x)
    \/ \E remove \in BOOLEAN : ChangeIndexPool(e, remove)
    \/ BuildFields(e) \/ BuildIndex(e) \/ DropIndex(e)
    \/ \E next \in Schema : PreviewSchema(e, next)
    \/ ReadRegistry(e) \/ StartSchema(e) \/ ActivateSchema(e) \/ ChangePool(e)
    \/ ListForRemoval(e) \/ RemovePool(e) \/ Forget(e)

IndexSpec == IndexInit /\ [][IndexNext]_indexVars

-----------------------------------------------------------------------------
\* The registry tells the truth about the database: an index exists if and only
\* if its definition says ready, it sorts by the field as the pool defines it,
\* or will once the schema change under way is done, and there are no more of
\* them than allowed.  (sort-indexes.ts:193)
RegistryIsTrue ==
  LET current == IF target = Unbuilt THEN fields ELSE target
  IN  /\ Cardinality(Registered) <= MaxIndexes
      /\ \A x \in Index :
           /\ physical[x] # Unbuilt <=> x \in Registered /\ registry[x].status = "ready"
           /\ physical[x] # Unbuilt =>
                current[registry[x].field] = [key |-> physical[x], scalar |-> TRUE]
=============================================================================
