-------------------------- MODULE SortIndexesProofs --------------------------
(***************************************************************************)
(* Proofs about SortIndexes, for any fields and keys, any number of        *)
(* definitions and any editors.                                            *)
(***************************************************************************)
EXTENDS SortIndexes, FiniteSetTheorems, TLAPS

\* What was read of a definition is still so, unless its revision has grown or
\* it is gone.
EntryRead(x, entry) ==
  /\ x \in Index /\ x \in used /\ entry \in Entry
  /\ registry[x] # Unbuilt =>
       /\ entry.revision <= registry[x].revision
       /\ entry.revision = registry[x].revision => registry[x] = entry

\* The pool was ready when its revision was read, and nothing under the
\* revision has changed.
PoolRead(revision) ==
  /\ revision \in Nat /\ revision <= pool.revision
  /\ revision = pool.revision => target = Unbuilt

\* What a request has read.
PoolPhases == {"create", "insert", "fields", "build", "drop", "previewed", "start", "remove"}
EntryPhases == {"row", "fields", "build", "drop"}

RequestTrue(q) ==
  /\ q.phase \in PoolPhases => PoolRead(q.revision)
  /\ q.phase \in EntryPhases => EntryRead(q.index, q.entry)
  /\ q.phase = "insert" => q.field \in Field /\ q.key \in FieldKey
  /\ q.phase = "fields" =>
       q = [phase |-> "fields", index |-> q.index, entry |-> q.entry, revision |-> q.revision]
  /\ q.phase = "build" /\ q.revision = pool.revision =>
       fields[q.entry.field] = [key |-> q.entry.key, scalar |-> TRUE]
  /\ q.phase \in {"previewed", "start"} => q.next \in Schema
  /\ q.phase = "start" =>
       /\ q.frozen = {<<x, q.rows[x].revision>> : x \in {y \in Index : q.rows[y] # Unbuilt}}
       /\ \A x \in Index : q.rows[x] # Unbuilt => EntryRead(x, q.rows[x])

\* RegistryIsTrue of one index, and that it reads the key its definition names.
Following == IF target = Unbuilt THEN fields ELSE target
IndexTrue(x) ==
  /\ physical[x] # Unbuilt <=> registry[x] # Unbuilt /\ registry[x].status = "ready"
  /\ physical[x] # Unbuilt =>
       /\ physical[x] = registry[x].key
       /\ Following[registry[x].field] = [key |-> physical[x], scalar |-> TRUE]

Counted ==
  Registered \subseteq used /\ IsFiniteSet(Registered) /\ Cardinality(Registered) <= MaxIndexes

IndexInv ==
  /\ IndexTypeOK
  /\ Counted
  /\ \A x \in Index : IndexTrue(x)
  /\ \A e \in Editor : RequestTrue(editor[e])

\* What a step does to revisions: they grow with what they guard, and a
\* definition that is gone does not come back.
Follows ==
  /\ pool'.revision \in Nat
  /\ \/ pool'.revision = pool.revision /\ fields' = fields /\ target' = target
     \/ pool.revision < pool'.revision
  /\ used \subseteq used'
  /\ \A x \in Index :
       \/ registry'[x] = registry[x] \/ registry'[x] = Unbuilt
       \/ registry[x] = Unbuilt /\ x \notin used
       \/ /\ registry[x] # Unbuilt /\ registry'[x].revision \in Nat
          /\ registry[x].revision < registry'[x].revision

-----------------------------------------------------------------------------
\* The invariant says what is wanted.
LEMMA TrueRegistry ==
  IndexInv => RegistryIsTrue
BY DEF IndexInv, Counted, IndexTrue, Following, RegistryIsTrue, Registered

\* What was read stays true.
LEMMA EntryStays ==
  ASSUME IndexTypeOK, Follows, NEW x, NEW entry, EntryRead(x, entry)
  PROVE  /\ x \in Index /\ x \in used' /\ entry \in Entry
         /\ registry'[x] # Unbuilt =>
              /\ entry.revision <= registry'[x].revision
              /\ entry.revision = registry'[x].revision => registry'[x] = entry
<1>1. x \in Index /\ entry.revision \in Nat /\ (registry[x] # Unbuilt => registry[x].revision \in Nat)
  BY DEF EntryRead, IndexTypeOK, Entry
<1>. QED BY <1>1 DEF EntryRead, Follows

\* So is the pool,
LEMMA PoolStays ==
  ASSUME IndexTypeOK, Follows, NEW revision, PoolRead(revision)
  PROVE  /\ revision \in Nat /\ revision <= pool'.revision
         /\ revision = pool'.revision => revision = pool.revision /\ target' = Unbuilt /\ fields' = fields
<1>1. pool.revision \in Nat
  BY DEF IndexTypeOK
<1>. QED BY <1>1 DEF PoolRead, Follows

\* and all that a request has read.
LEMMA RequestStays ==
  ASSUME IndexTypeOK, Follows, NEW q, RequestTrue(q), NEW e \in Editor, editor'[e] = q
  PROVE  RequestTrue(editor[e])'
<1>1. q.phase \in PoolPhases =>
        /\ q.revision \in Nat /\ q.revision <= pool'.revision
        /\ q.revision = pool'.revision => q.revision = pool.revision /\ target' = Unbuilt /\ fields' = fields
  BY PoolStays DEF RequestTrue
<1>2. q.phase \in EntryPhases =>
        /\ q.index \in Index /\ q.index \in used' /\ q.entry \in Entry
        /\ registry'[q.index] # Unbuilt =>
             /\ q.entry.revision <= registry'[q.index].revision
             /\ q.entry.revision = registry'[q.index].revision => registry'[q.index] = q.entry
  BY EntryStays DEF RequestTrue
<1>3. q.phase = "build" /\ q.revision = pool'.revision =>
        fields'[q.entry.field] = [key |-> q.entry.key, scalar |-> TRUE]
  BY <1>1 DEF RequestTrue, PoolPhases
<1>4. q.phase = "start" => \A x \in Index : q.rows[x] # Unbuilt =>
        /\ x \in used' /\ q.rows[x] \in Entry
        /\ registry'[x] # Unbuilt =>
             /\ q.rows[x].revision <= registry'[x].revision
             /\ q.rows[x].revision = registry'[x].revision => registry'[x] = q.rows[x]
  BY EntryStays DEF RequestTrue
<1>. QED BY <1>1, <1>2, <1>3, <1>4 DEF RequestTrue, EntryRead, PoolRead

\* A step that follows keeps the invariant if it keeps the registry true and
\* the request it answers for.
LEMMA Combine ==
  ASSUME IndexInv, IndexTypeOK', Follows, Counted', \A x \in Index : IndexTrue(x)',
         \A e \in Editor : editor'[e] = editor[e] \/ RequestTrue(editor[e])'
  PROVE  IndexInv'
<1>1. \A e \in Editor : RequestTrue(editor[e])'
  BY RequestStays DEF IndexInv
<1>. QED BY <1>1 DEF IndexInv

\* At first nothing is registered and nobody asks.
LEMMA InitInvariant ==
  IndexInit => IndexInv
<1>1. SUFFICES ASSUME IndexInit PROVE IndexInv
  OBVIOUS
<1>2. fields \in Schema
  BY <1>1, IndexAssumption DEF IndexInit
<1>3. \A x \in Index : registry[x] = Unbuilt /\ physical[x] = Unbuilt
  BY <1>1 DEF IndexInit
<1>4. IndexTypeOK
  BY <1>1, <1>2, <1>3, IndexAssumption DEF IndexInit, IndexTypeOK
<1>5. Counted
  <2>1. Registered = {}
    BY <1>3 DEF Registered
  <2>. QED BY <2>1, FS_EmptySet, IndexAssumption DEF Counted
<1>6. \A e \in Editor : editor[e].phase = "idle"
  BY <1>1 DEF IndexInit, Free
<1>7. \A e \in Editor : RequestTrue(editor[e])
  BY <1>6 DEF RequestTrue, PoolPhases, EntryPhases
<1>. QED BY <1>3, <1>4, <1>5, <1>7 DEF IndexInv, IndexTrue

-----------------------------------------------------------------------------
(* Steps that only read.                                                   *)
\* A request that has read what is true keeps the invariant.
LEMMA ReadInvariant ==
  ASSUME IndexInv, NEW e \in Editor, NEW request, Remember(e, request), RequestTrue(request)
  PROVE  IndexInv'
<1>1. UNCHANGED <<registry, physical, pool, fields, target, used, steps>>
      /\ editor' = [editor EXCEPT ![e] = request]
  BY DEF Remember
<1>2. IndexTypeOK' /\ DOMAIN editor = Editor
  BY <1>1 DEF IndexInv, IndexTypeOK
<1>3. Follows
  BY <1>1 DEF Follows, IndexInv, IndexTypeOK
<1>4. ASSUME NEW d \in Editor PROVE RequestTrue(editor[d])'
  <2>1. editor'[d] = editor[d] \/ editor'[d] = request
    BY <1>1, <1>2
  <2>2. RequestTrue(editor[d])
    BY DEF IndexInv
  <2>. QED BY <1>3, <2>1, <2>2, RequestStays DEF IndexInv
<1>5. Counted' /\ \A x \in Index : IndexTrue(x)'
  BY <1>1 DEF IndexInv, Counted, Registered, IndexTrue, Following
<1>. QED BY <1>2, <1>4, <1>5 DEF IndexInv

\* A registered definition as it is,
LEMMA RegisteredRead ==
  ASSUME IndexInv, NEW x \in Index, registry[x] # Unbuilt
  PROVE  EntryRead(x, registry[x])
<1>1. registry[x] \in Entry /\ x \in used /\ registry[x].revision \in Nat
  BY DEF IndexInv, IndexTypeOK, Counted, Registered, Entry
<1>. QED BY <1>1 DEF EntryRead

\* and a pool that is ready.
LEMMA ReadyRead ==
  ASSUME IndexInv, Ready
  PROVE  PoolRead(pool.revision)
<1>1. pool.revision \in Nat
  BY DEF IndexInv, IndexTypeOK
<1>. QED BY <1>1 DEF PoolRead, Ready

\* To create,
LEMMA CreateReads ==
  ASSUME IndexInv, NEW e \in Editor,
         CreateIndexRead(e) \/ \E f \in Field : CreateIndexFields(e, f)
  PROVE  IndexInv'
<1>1. CASE CreateIndexRead(e)
  <2>. DEFINE request == [phase |-> "create", revision |-> pool.revision]
  <2>1. RequestTrue(request)
    BY <1>1, ReadyRead DEF CreateIndexRead, RequestTrue, PoolPhases, EntryPhases
  <2>. QED BY <1>1, <2>1, ReadInvariant DEF CreateIndexRead
<1>2. ASSUME NEW f \in Field, CreateIndexFields(e, f) PROVE IndexInv'
  <2>. DEFINE request == [phase |-> "insert", revision |-> editor[e].revision, field |-> f, key |-> fields[f].key]
  <2>1. fields[f].key \in FieldKey
    BY DEF IndexInv, IndexTypeOK, Schema, Definition
  <2>2. PoolRead(editor[e].revision)
    BY <1>2 DEF CreateIndexFields, IndexInv, RequestTrue, PoolPhases
  <2>3. RequestTrue(request)
    BY <2>1, <2>2 DEF RequestTrue, PoolPhases, EntryPhases
  <2>. QED BY <1>2, <2>3, ReadInvariant DEF CreateIndexFields
<1>. QED BY <1>1, <1>2

\* to build or drop,
LEMMA ChangeReads ==
  ASSUME IndexInv, NEW e \in Editor,
         \/ \E x \in Index : ChangeIndexRead(e, x)
         \/ \E remove \in BOOLEAN : ChangeIndexPool(e, remove)
         \/ BuildFields(e)
  PROVE  IndexInv'
<1>1. ASSUME NEW x \in Index, ChangeIndexRead(e, x) PROVE IndexInv'
  <2>. DEFINE request == [phase |-> "row", index |-> x, entry |-> registry[x]]
  <2>1. RequestTrue(request)
    BY <1>1, RegisteredRead DEF ChangeIndexRead, Registered, RequestTrue, PoolPhases, EntryPhases
  <2>. QED BY <1>1, <2>1, ReadInvariant DEF ChangeIndexRead
<1>. DEFINE q == editor[e]
<1>2. ASSUME NEW remove \in BOOLEAN, ChangeIndexPool(e, remove) PROVE IndexInv'
  <2>. DEFINE request == [phase |-> IF remove THEN "drop" ELSE "fields", index |-> q.index,
                          entry |-> q.entry, revision |-> pool.revision]
  <2>1. EntryRead(q.index, q.entry) /\ PoolRead(pool.revision)
    BY <1>2, ReadyRead DEF ChangeIndexPool, IndexInv, RequestTrue, EntryPhases
  <2>2. request.phase \in {"drop", "fields"} /\ request.index = q.index /\ request.entry = q.entry
        /\ request.revision = pool.revision
    OBVIOUS
  <2>3. request.phase = "fields" =>
          request = [phase |-> "fields", index |-> request.index, entry |-> request.entry,
                     revision |-> request.revision]
    OBVIOUS
  <2>4. RequestTrue(request)
    <3>. HIDE DEF request
    <3>. QED BY <2>1, <2>2, <2>3 DEF RequestTrue, PoolPhases, EntryPhases
  <2>. QED BY <1>2, <2>4, ReadInvariant DEF ChangeIndexPool
<1>3. CASE BuildFields(e)
  <2>. DEFINE request == [phase |-> "build", index |-> q.index, entry |-> q.entry, revision |-> q.revision]
  <2>1. /\ EntryRead(q.index, q.entry) /\ PoolRead(q.revision)
        /\ q = [phase |-> "fields", index |-> q.index, entry |-> q.entry, revision |-> q.revision]
    BY <1>3 DEF BuildFields, IndexInv, RequestTrue, EntryPhases, PoolPhases
  <2>2. [q EXCEPT !.phase = "build"] = request
    BY <2>1
  <2>3. fields[q.entry.field] = [key |-> q.entry.key, scalar |-> TRUE]
    BY <1>3 DEF BuildFields
  <2>4. RequestTrue(request)
    BY <2>1, <2>3 DEF RequestTrue, PoolPhases, EntryPhases
  <2>5. Remember(e, request)
    BY <1>3, <2>2 DEF BuildFields
  <2>. QED BY <2>4, <2>5, ReadInvariant
<1>. QED BY <1>1, <1>2, <1>3

\* and to change the schema or remove the pool.
LEMMA SchemaReads ==
  ASSUME IndexInv, NEW e \in Editor,
         \/ \E next \in Schema : PreviewSchema(e, next)
         \/ ReadRegistry(e) \/ ListForRemoval(e) \/ Forget(e)
  PROVE  IndexInv'
<1>. DEFINE q == editor[e]
<1>1. ASSUME NEW next \in Schema, PreviewSchema(e, next) PROVE IndexInv'
  <2>. DEFINE request == [phase |-> "previewed", revision |-> pool.revision, next |-> next]
  <2>1. RequestTrue(request)
    BY <1>1, ReadyRead DEF PreviewSchema, RequestTrue, PoolPhases, EntryPhases
  <2>. QED BY <1>1, <2>1, ReadInvariant DEF PreviewSchema
<1>2. CASE ReadRegistry(e)
  <2>. DEFINE request == [phase |-> "start", revision |-> q.revision, next |-> q.next,
                          rows |-> registry, frozen |-> FrozenRegistry]
  <2>1. PoolRead(q.revision) /\ q.next \in Schema
    BY <1>2 DEF ReadRegistry, IndexInv, RequestTrue, PoolPhases
  <2>2. \A x \in Index : registry[x] # Unbuilt => EntryRead(x, registry[x])
    BY RegisteredRead
  <2>3. RequestTrue(request)
    BY <2>1, <2>2 DEF RequestTrue, PoolPhases, EntryPhases, FrozenRegistry, Registered
  <2>. QED BY <1>2, <2>3, ReadInvariant DEF ReadRegistry
<1>3. CASE ListForRemoval(e)
  <2>. DEFINE request == [phase |-> "remove", revision |-> pool.revision, frozen |-> FrozenRegistry]
  <2>1. RequestTrue(request)
    BY <1>3, ReadyRead DEF ListForRemoval, RequestTrue, PoolPhases, EntryPhases
  <2>. QED BY <1>3, <2>1, ReadInvariant DEF ListForRemoval
<1>4. CASE Forget(e)
  <2>1. RequestTrue(Free)
    BY DEF RequestTrue, Free, PoolPhases, EntryPhases
  <2>. QED BY <1>4, <2>1, ReadInvariant DEF Forget
<1>. QED BY <1>1, <1>2, <1>3, <1>4

-----------------------------------------------------------------------------
(* Steps that commit.                                                      *)
\* A batch answers for the tables; its request is over.
LEMMA Commit ==
  ASSUME IndexInv, NEW e \in Editor, Step(e), Follows,
         registry' \in [Index -> Entry \cup {Unbuilt}], physical' \in [Index -> FieldKey \cup {Unbuilt}],
         pool' \in [revision : Nat \ {0}, there : BOOLEAN],
         fields' \in Schema, target' \in Schema \cup {Unbuilt}, used' \subseteq Index,
         Counted', \A x \in Index : IndexTrue(x)'
  PROVE  IndexInv'
<1>1. editor' = [editor EXCEPT ![e] = Free] /\ steps' = steps + 1 /\ steps < MaxSteps
  BY DEF Step
<1>2. DOMAIN editor = Editor /\ steps \in 0 .. MaxSteps
  BY DEF IndexInv, IndexTypeOK
<1>3. IndexTypeOK'
  BY <1>1, <1>2, IndexAssumption DEF IndexTypeOK
<1>4. \A d \in Editor : editor'[d] = editor[d] \/ editor'[d] = Free
  BY <1>1, <1>2
<1>5. RequestTrue(Free)
  BY DEF RequestTrue, Free, PoolPhases, EntryPhases
<1>6. \A d \in Editor : editor'[d] = editor[d] \/ RequestTrue(editor[d])'
  BY <1>4, <1>5, RequestStays DEF IndexInv
<1>. QED BY <1>3, <1>6, Combine

\* What an editor may rely on when its batch finds the pool unchanged.
LEMMA Unchanged ==
  ASSUME IndexInv, NEW e \in Editor, editor[e].phase \in PoolPhases, PoolUnchanged(editor[e].revision)
  PROVE  target = Unbuilt /\ Following = fields
BY DEF IndexInv, RequestTrue, PoolRead, PoolUnchanged, Following

\* The definition that a batch finds under the revision it read is the one read.
LEMMA SameEntry ==
  ASSUME IndexInv, NEW e \in Editor, editor[e].phase \in {"build", "drop"}, Changeable(editor[e])
  PROVE  /\ editor[e].index \in Index /\ editor[e].entry \in Entry
         /\ registry[editor[e].index] = editor[e].entry
         /\ registry[editor[e].index] # Unbuilt
BY DEF IndexInv, RequestTrue, EntryPhases, EntryRead, Changeable, Registered

\* A definition that is marked ready is a definition with the same field and key,
LEMMA EntryBuilt ==
  ASSUME NEW entry \in Entry
  PROVE  /\ [entry EXCEPT !.status = "ready", !.revision = entry.revision + 1]
              = [field |-> entry.field, key |-> entry.key, status |-> "ready", revision |-> entry.revision + 1]
         /\ entry.revision \in Nat /\ entry.field \in Field /\ entry.key \in FieldKey
<1>1. PICK next : next = [entry EXCEPT !.status = "ready", !.revision = entry.revision + 1]
  OBVIOUS
<1>2. next = [field |-> entry.field, key |-> entry.key, status |-> "ready", revision |-> entry.revision + 1]
  BY <1>1 DEF Entry
<1>3. entry.revision \in Nat /\ entry.field \in Field /\ entry.key \in FieldKey
  BY DEF Entry
<1>. QED BY <1>1, <1>2, <1>3, Zenon

\* and so is one that follows its field or is invalid.
LEMMA InvalidatedEntry ==
  ASSUME NEW entry \in Entry, NEW next \in Schema
  PROVE  /\ Invalidated(entry, next) \in Entry /\ Invalidated(entry, next).status # "ready"
         /\ Invalidated(entry, next).revision = entry.revision + 1 /\ entry.revision \in Nat
<1>1. entry.field \in Field /\ entry.key \in FieldKey /\ entry.revision \in Nat
  BY DEF Entry
<1>2. next[entry.field].key \in FieldKey
  BY <1>1 DEF Schema, Definition
<1>3. PICK key \in FieldKey, status \in {"unbuilt", "invalid"} :
        Invalidated(entry, next) =
          [field |-> entry.field, key |-> key, status |-> status, revision |-> entry.revision + 1]
  <2>. DEFINE kept == next[entry.field].scalar
              key == IF kept THEN next[entry.field].key ELSE entry.key
              status == IF kept /\ entry.status # "invalid" THEN "unbuilt" ELSE "invalid"
  <2>1. Invalidated(entry, next) =
          [entry EXCEPT !.key = key, !.status = status, !.revision = entry.revision + 1]
    BY DEF Invalidated
  <2>2. key \in FieldKey /\ status \in {"unbuilt", "invalid"}
    BY <1>1, <1>2
  <2>3. ASSUME NEW k \in FieldKey, NEW s \in {"unbuilt", "invalid"}, NEW n,
               n = [entry EXCEPT !.key = k, !.status = s, !.revision = entry.revision + 1]
        PROVE  n = [field |-> entry.field, key |-> k, status |-> s, revision |-> entry.revision + 1]
    BY <2>3 DEF Entry
  <2>. HIDE DEF key, status
  <2>. QED BY <2>1, <2>2, <2>3
<1>. QED BY <1>1, <1>3 DEF Entry

\* A definition comes,
LEMMA CreateInvariant ==
  ASSUME IndexInv, NEW e \in Editor, NEW x \in Index, CreateIndex(e, x)
  PROVE  IndexInv'
<1>. DEFINE q == editor[e]
            entry == [field |-> q.field, key |-> q.key, status |-> "unbuilt", revision |-> 1]
<1>1. /\ q.phase = "insert" /\ x \notin used /\ PoolUnchanged(q.revision) /\ Cardinality(Registered) < MaxIndexes
      /\ registry' = [registry EXCEPT ![x] = entry] /\ used' = used \cup {x}
      /\ UNCHANGED <<physical, pool, fields, target>> /\ Step(e)
  BY DEF CreateIndex
<1>2. IndexTypeOK /\ Counted
  BY DEF IndexInv
<1>3. entry \in Entry /\ entry.status = "unbuilt"
  <2>1. q.field \in Field /\ q.key \in FieldKey
    BY <1>1 DEF IndexInv, RequestTrue
  <2>. QED BY <2>1 DEF Entry
<1>4. registry[x] = Unbuilt /\ physical[x] = Unbuilt
  BY <1>1, <1>2 DEF Counted, Registered, IndexInv, IndexTrue
<1>. HIDE DEF entry
<1>5. registry' \in [Index -> Entry \cup {Unbuilt}] /\ registry'[x] = entry
      /\ \A y \in Index \ {x} : registry'[y] = registry[y]
  BY <1>1, <1>2, <1>3 DEF IndexTypeOK
<1>6. Follows
  BY <1>1, <1>2, <1>4, <1>5 DEF Follows, IndexTypeOK
<1>7. Counted'
  <2>1. Registered' = Registered \cup {x}
    BY <1>3, <1>5, UnbuiltAssumption DEF Registered
  <2>2. IsFiniteSet(Registered) /\ Cardinality(Registered) \in Nat /\ x \notin Registered
    BY <1>2, <1>4, FS_CardinalityType DEF Counted, Registered
  <2>3. IsFiniteSet(Registered \cup {x}) /\ Cardinality(Registered \cup {x}) = Cardinality(Registered) + 1
    BY <2>2, FS_AddElement
  <2>4. Registered' \subseteq used'
    BY <1>1, <1>2, <2>1 DEF Counted
  <2>5. IsFiniteSet(Registered') /\ Cardinality(Registered') <= MaxIndexes
    BY <1>1, <2>1, <2>2, <2>3, IndexAssumption
  <2>. QED BY <2>4, <2>5 DEF Counted
<1>8. \A y \in Index : IndexTrue(y)'
  BY <1>1, <1>3, <1>4, <1>5 DEF IndexInv, IndexTrue, Following
<1>. QED BY <1>1, <1>2, <1>5, <1>6, <1>7, <1>8, Commit DEF IndexTypeOK

\* is built,
LEMMA BuildInvariant ==
  ASSUME IndexInv, NEW e \in Editor, BuildIndex(e)
  PROVE  IndexInv'
<1>. DEFINE q == editor[e]
            x == q.index
            built == [q.entry EXCEPT !.status = "ready", !.revision = q.entry.revision + 1]
<1>1. q.phase = "build" /\ Changeable(q) /\ PoolUnchanged(q.revision)
  BY DEF BuildIndex, Changeable
<1>2. x \in Index /\ q.entry \in Entry /\ registry[x] = q.entry /\ registry[x] # Unbuilt
  BY <1>1, SameEntry
<1>3. IndexTypeOK /\ Counted
  BY DEF IndexInv
<1>4. target = Unbuilt /\ fields[q.entry.field] = [key |-> q.entry.key, scalar |-> TRUE]
  BY <1>1, Unchanged DEF IndexInv, RequestTrue, PoolPhases, PoolUnchanged
<1>5. /\ built \in Entry /\ built.status = "ready" /\ built.key = q.entry.key
      /\ built.field = q.entry.field /\ q.entry.revision \in Nat /\ built.revision \in Nat
      /\ q.entry.revision < built.revision /\ q.entry.key \in FieldKey
  <2>1. /\ built \in Entry /\ built.field = q.entry.field /\ built.key = q.entry.key
        /\ built.status = "ready" /\ built.revision = q.entry.revision + 1 /\ q.entry.revision \in Nat
    <3>1. /\ built = [field |-> q.entry.field, key |-> q.entry.key, status |-> "ready",
                      revision |-> q.entry.revision + 1]
          /\ q.entry.revision \in Nat /\ q.entry.field \in Field /\ q.entry.key \in FieldKey
      BY <1>2, EntryBuilt, Zenon
    <3>. HIDE DEF q, built
    <3>. QED BY <3>1 DEF Entry
  <2>2. q.entry.key \in FieldKey
    BY <1>2 DEF Entry
  <2>. HIDE DEF built
  <2>. QED BY <2>1, <2>2
<1>6. /\ registry' = [registry EXCEPT ![x] = built]
      /\ physical' = [physical EXCEPT ![x] = q.entry.key]
      /\ UNCHANGED <<pool, fields, target, used>> /\ Step(e)
  <2>1. registry' = [registry EXCEPT ![x].status = "ready", ![x].revision = @ + 1]
    BY <1>2 DEF BuildIndex, Registered
  <2>2. [registry EXCEPT ![x].status = "ready", ![x].revision = @ + 1] = [registry EXCEPT ![x] = built]
    BY <1>2, <1>3 DEF IndexTypeOK, Entry
  <2>. QED BY <2>1, <2>2 DEF BuildIndex
<1>. HIDE DEF built
<1>7. /\ registry' \in [Index -> Entry \cup {Unbuilt}] /\ registry'[x] = built
      /\ physical' \in [Index -> FieldKey \cup {Unbuilt}] /\ physical'[x] = q.entry.key
      /\ \A y \in Index \ {x} : registry'[y] = registry[y] /\ physical'[y] = physical[y]
  BY <1>2, <1>3, <1>5, <1>6 DEF IndexTypeOK
<1>8. Follows
  BY <1>2, <1>3, <1>5, <1>6, <1>7 DEF Follows, IndexTypeOK
<1>9. Counted'
  <2>1. Registered' = Registered
    BY <1>2, <1>5, <1>7, UnbuiltAssumption DEF Registered
  <2>. QED BY <1>3, <1>6, <2>1 DEF Counted
<1>10. ASSUME NEW y \in Index PROVE IndexTrue(y)'
  <2>1. CASE y = x
    BY <1>4, <1>5, <1>6, <1>7, <2>1, UnbuiltAssumption DEF IndexTrue, Following
  <2>2. CASE y # x
    BY <1>6, <1>7, <2>2 DEF IndexInv, IndexTrue, Following
  <2>. QED BY <2>1, <2>2
<1>. QED BY <1>3, <1>6, <1>7, <1>8, <1>9, <1>10, Commit DEF IndexTypeOK

\* and goes.
LEMMA DropInvariant ==
  ASSUME IndexInv, NEW e \in Editor, DropIndex(e)
  PROVE  IndexInv'
<1>. DEFINE x == editor[e].index
<1>1. x \in Index
  BY SameEntry DEF DropIndex
<1>2. IndexTypeOK /\ Counted
  BY DEF IndexInv
<1>3. /\ registry' = [registry EXCEPT ![x] = Unbuilt] /\ physical' = [physical EXCEPT ![x] = Unbuilt]
      /\ UNCHANGED <<pool, fields, target, used>> /\ Step(e)
  BY DEF DropIndex
<1>4. /\ registry' \in [Index -> Entry \cup {Unbuilt}] /\ registry'[x] = Unbuilt
      /\ physical' \in [Index -> FieldKey \cup {Unbuilt}] /\ physical'[x] = Unbuilt
      /\ \A y \in Index \ {x} : registry'[y] = registry[y] /\ physical'[y] = physical[y]
  BY <1>1, <1>2, <1>3 DEF IndexTypeOK
<1>5. Follows
  BY <1>2, <1>3, <1>4 DEF Follows, IndexTypeOK
<1>6. Counted'
  <2>1. Registered' \subseteq Registered
    BY <1>4 DEF Registered
  <2>2. IsFiniteSet(Registered') /\ Cardinality(Registered') <= Cardinality(Registered)
        /\ Cardinality(Registered) \in Nat /\ Cardinality(Registered') \in Nat
    BY <1>2, <2>1, FS_Subset, FS_CardinalityType DEF Counted
  <2>. QED BY <1>2, <1>3, <2>1, <2>2, IndexAssumption DEF Counted
<1>7. \A y \in Index : IndexTrue(y)'
  BY <1>3, <1>4 DEF IndexInv, IndexTrue, Following
<1>. QED BY <1>2, <1>3, <1>4, <1>5, <1>6, <1>7, Commit DEF IndexTypeOK

\* A schema change begins: the definitions are those that were read, and each
\* follows its field or is invalid.
LEMMA StartInvariant ==
  ASSUME IndexInv, NEW e \in Editor, StartSchema(e)
  PROVE  IndexInv'
<1>. DEFINE q == editor[e]
            affected == {x \in Index : q.rows[x] # Unbuilt /\ AffectedIndex(q.rows[x], q.next)}
            next(x) == Invalidated(registry[x], q.next)
<1>1. /\ q.phase = "start" /\ PoolUnchanged(q.revision) /\ FrozenRegistry = q.frozen
      /\ target' = q.next /\ pool' = [pool EXCEPT !.revision = @ + 1]
      /\ physical' = [x \in Index |-> IF x \in affected THEN Unbuilt ELSE physical[x]]
      /\ registry' = [x \in Index |->
           IF x \in affected \cap Registered THEN Invalidated(q.rows[x], q.next) ELSE registry[x]]
      /\ UNCHANGED <<fields, used>> /\ Step(e)
  BY DEF StartSchema, Startable
<1>2. IndexTypeOK /\ Counted /\ RequestTrue(q)
  BY DEF IndexInv
<1>3. q.next \in Schema /\ target' # Unbuilt
  BY <1>1, <1>2, UnbuiltAssumption DEF RequestTrue
<1>4. ASSUME NEW x \in Index PROVE q.rows[x] # Unbuilt <=> registry[x] # Unbuilt
  <2>1. q.frozen = {<<y, q.rows[y].revision>> : y \in {z \in Index : q.rows[z] # Unbuilt}}
        /\ q.frozen = {<<y, registry[y].revision>> : y \in {z \in Index : registry[z] # Unbuilt}}
    BY <1>1, <1>2 DEF RequestTrue, FrozenRegistry, Registered
  <2>2. ASSUME NEW rows, q.frozen = {<<y, rows[y].revision>> : y \in {z \in Index : rows[z] # Unbuilt}}
        PROVE  rows[x] # Unbuilt <=> \E pair \in q.frozen : pair[1] = x
    <3>1. ASSUME rows[x] # Unbuilt PROVE \E pair \in q.frozen : pair[1] = x
      <4>1. <<x, rows[x].revision>> \in q.frozen
        BY <2>2, <3>1
      <4>. QED BY <4>1
    <3>2. ASSUME NEW pair \in q.frozen, pair[1] = x PROVE rows[x] # Unbuilt
      <4>1. PICK y \in Index : rows[y] # Unbuilt /\ pair = <<y, rows[y].revision>>
        BY <2>2, <3>2
      <4>. QED BY <3>2, <4>1
    <3>. QED BY <3>1, <3>2
  <2>. QED BY <2>1, <2>2
<1>5. ASSUME NEW x \in Index, registry[x] # Unbuilt PROVE q.rows[x] = registry[x]
  <2>1. <<x, registry[x].revision>> \in q.frozen
    BY <1>1, <1>5 DEF FrozenRegistry, Registered
  <2>2. q.rows[x] # Unbuilt /\ q.rows[x].revision = registry[x].revision
    BY <1>1, <1>2, <2>1 DEF RequestTrue
  <2>. QED BY <1>1, <1>2, <1>5, <2>2 DEF RequestTrue, EntryRead
<1>6. \A x \in Index : x \in affected <=> registry[x] # Unbuilt /\ AffectedIndex(registry[x], q.next)
  BY <1>4, <1>5
<1>7. \A x \in Index : registry[x] # Unbuilt =>
        /\ registry[x] \in Entry /\ registry[x].revision \in Nat
        /\ next(x) \in Entry /\ next(x).revision = registry[x].revision + 1 /\ next(x).status # "ready"
  BY <1>2, <1>3, InvalidatedEntry DEF IndexTypeOK
<1>. HIDE DEF affected, next
<1>8. ASSUME NEW x \in Index
      PROVE  \/ x \in affected /\ registry[x] # Unbuilt /\ registry'[x] = next(x) /\ physical'[x] = Unbuilt
             \/ x \notin affected /\ registry'[x] = registry[x] /\ physical'[x] = physical[x]
  BY <1>1, <1>5, <1>6 DEF Registered, next
<1>9. registry' \in [Index -> Entry \cup {Unbuilt}] /\ physical' \in [Index -> FieldKey \cup {Unbuilt}]
  <2>1. \A x \in Index : registry'[x] \in Entry \cup {Unbuilt} /\ physical'[x] \in FieldKey \cup {Unbuilt}
    BY <1>2, <1>7, <1>8 DEF IndexTypeOK
  <2>. QED BY <1>1, <2>1
<1>10. pool' \in [revision : Nat \ {0}, there : BOOLEAN] /\ pool'.revision \in Nat
       /\ pool.revision < pool'.revision
  BY <1>1, <1>2 DEF IndexTypeOK
<1>11. Follows
  <2>1. ASSUME NEW x \in Index, x \in affected
        PROVE  /\ registry[x] # Unbuilt /\ registry'[x].revision \in Nat
               /\ registry[x].revision < registry'[x].revision
    <3>1. registry[x] # Unbuilt /\ registry'[x] = next(x)
      BY <1>8, <2>1
    <3>2. registry[x].revision \in Nat /\ next(x).revision = registry[x].revision + 1
      BY <1>7, <3>1
    <3>. QED BY <3>1, <3>2
  <2>2. \A x \in Index : x \notin affected => registry'[x] = registry[x]
    BY <1>8
  <2>. QED BY <1>1, <1>10, <2>1, <2>2 DEF Follows
<1>12. Counted'
  <2>1. Registered' = Registered
    BY <1>7, <1>8, UnbuiltAssumption DEF Registered
  <2>. QED BY <1>1, <1>2, <2>1 DEF Counted
<1>13. ASSUME NEW x \in Index PROVE IndexTrue(x)'
  <2>1. IndexTrue(x)
    BY DEF IndexInv
  <2>2. CASE x \in affected
    BY <1>7, <1>8, <2>2 DEF IndexTrue
  <2>3. CASE x \notin affected
    <3>1. registry'[x] = registry[x] /\ physical'[x] = physical[x]
      BY <1>8, <2>3
    <3>2. registry[x] # Unbuilt => q.next[registry[x].field] = [key |-> registry[x].key, scalar |-> TRUE]
      BY <1>6, <2>3 DEF AffectedIndex
    <3>. QED BY <1>1, <1>3, <2>1, <3>1, <3>2 DEF IndexTrue, Following
  <2>. QED BY <2>2, <2>3
<1>. QED BY <1>1, <1>2, <1>3, <1>9, <1>10, <1>11, <1>12, <1>13, Commit DEF IndexTypeOK

\* It is done, and the pool's fields are what the definitions follow already;
\* or the pool changes otherwise.
LEMMA PoolInvariant ==
  ASSUME IndexInv, NEW e \in Editor, ActivateSchema(e) \/ ChangePool(e)
  PROVE  IndexInv'
<1>1. /\ UNCHANGED <<registry, physical, used>> /\ Step(e) /\ pool' = [pool EXCEPT !.revision = @ + 1]
      /\ \/ target # Unbuilt /\ fields' = target /\ target' = Unbuilt
         \/ UNCHANGED <<fields, target>>
  BY DEF ActivateSchema, ChangePool, UnderWay
<1>2. IndexTypeOK /\ Counted
  BY DEF IndexInv
<1>3. /\ pool' \in [revision : Nat \ {0}, there : BOOLEAN] /\ pool'.revision \in Nat
      /\ pool.revision < pool'.revision
  BY <1>1, <1>2 DEF IndexTypeOK
<1>4. fields' \in Schema /\ target' \in Schema \cup {Unbuilt} /\ Following' = Following
  BY <1>1, <1>2 DEF IndexTypeOK, Following
<1>5. Follows
  BY <1>1, <1>3 DEF Follows
<1>6. Counted' /\ \A x \in Index : IndexTrue(x)'
  BY <1>1, <1>4 DEF IndexInv, Counted, Registered, IndexTrue
<1>. QED BY <1>1, <1>2, <1>3, <1>4, <1>5, <1>6, Commit DEF IndexTypeOK

\* The pool goes, with all its definitions and indexes.
LEMMA RemoveInvariant ==
  ASSUME IndexInv, NEW e \in Editor, RemovePool(e)
  PROVE  IndexInv'
<1>. DEFINE listed == {entry[1] : entry \in editor[e].frozen}
<1>1. /\ FrozenRegistry = editor[e].frozen /\ Step(e) /\ UNCHANGED <<fields, target, used>>
      /\ physical' = [x \in Index |-> IF x \in listed THEN Unbuilt ELSE physical[x]]
      /\ registry' = [x \in Index |-> Unbuilt] /\ pool' = [pool EXCEPT !.there = FALSE]
  BY DEF RemovePool
<1>2. IndexTypeOK /\ Counted
  BY DEF IndexInv
<1>3. Registered \subseteq listed
  <2>1. ASSUME NEW x \in Registered PROVE x \in listed
    <3>1. <<x, registry[x].revision>> \in editor[e].frozen
      BY <1>1 DEF FrozenRegistry
    <3>. QED BY <3>1
  <2>. QED BY <2>1
<1>. HIDE DEF listed
<1>4. \A x \in Index : registry'[x] = Unbuilt /\ physical'[x] = Unbuilt
  BY <1>1, <1>3 DEF IndexInv, IndexTrue, Registered
<1>5. registry' \in [Index -> Entry \cup {Unbuilt}] /\ physical' \in [Index -> FieldKey \cup {Unbuilt}]
  BY <1>1, <1>2, <1>4 DEF IndexTypeOK
<1>6. pool' \in [revision : Nat \ {0}, there : BOOLEAN] /\ pool'.revision = pool.revision
  BY <1>1, <1>2 DEF IndexTypeOK
<1>7. Follows
  BY <1>1, <1>2, <1>4, <1>6 DEF Follows, IndexTypeOK
<1>8. Counted'
  <2>1. Registered' = {}
    BY <1>4 DEF Registered
  <2>. QED BY <1>1, <2>1, FS_EmptySet, IndexAssumption DEF Counted
<1>9. \A x \in Index : IndexTrue(x)'
  BY <1>4 DEF IndexTrue
<1>. QED BY <1>1, <1>2, <1>5, <1>6, <1>7, <1>8, <1>9, Commit DEF IndexTypeOK

-----------------------------------------------------------------------------
\* Every step keeps the invariant,
LEMMA NextInvariant ==
  IndexInv /\ [IndexNext]_indexVars => IndexInv'
<1>1. SUFFICES ASSUME IndexInv, [IndexNext]_indexVars PROVE IndexInv'
  OBVIOUS
<1>2. CASE UNCHANGED indexVars
  BY <1>1, <1>2 DEF indexVars, IndexInv, IndexTypeOK, Counted, Registered, IndexTrue, Following,
    RequestTrue, PoolRead, EntryRead
<1>3. ASSUME NEW e \in Editor,
             \/ CreateIndexRead(e) \/ \E f \in Field : CreateIndexFields(e, f)
             \/ \E x \in Index : CreateIndex(e, x) \/ ChangeIndexRead(e, x)
             \/ \E remove \in BOOLEAN : ChangeIndexPool(e, remove)
             \/ BuildFields(e) \/ BuildIndex(e) \/ DropIndex(e)
             \/ \E next \in Schema : PreviewSchema(e, next)
             \/ ReadRegistry(e) \/ StartSchema(e) \/ ActivateSchema(e) \/ ChangePool(e)
             \/ ListForRemoval(e) \/ RemovePool(e) \/ Forget(e)
      PROVE  IndexInv'
  BY <1>1, <1>3, CreateReads, ChangeReads, SchemaReads, CreateInvariant, BuildInvariant, DropInvariant,
    StartInvariant, PoolInvariant, RemoveInvariant
<1>. QED BY <1>1, <1>2, <1>3 DEF IndexNext

\* so it always holds.
LEMMA Indexing ==
  IndexSpec => []IndexInv
BY InitInvariant, NextInvariant, PTL DEF IndexSpec

\* An index is registered and built for a field key, and revisions are positive.
\* (sort-indexes.ts:193)
THEOREM IndexTypes ==
  IndexSpec => []IndexTypeOK
<1>1. IndexInv => IndexTypeOK
  BY DEF IndexInv
<1>. QED BY <1>1, Indexing, PTL

\* An index of the database exists if and only if the registry lists it as
\* ready, and sorts by its field as the pool or the schema change under way
\* defines it, whatever is created, built, dropped and migrated at the same
\* time.  (sort-indexes.ts:193)
THEOREM RegistryStaysTrue ==
  IndexSpec => []RegistryIsTrue
BY Indexing, TrueRegistry, PTL
=============================================================================
