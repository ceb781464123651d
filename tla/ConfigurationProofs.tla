------------------------- MODULE ConfigurationProofs -------------------------
(***************************************************************************)
(* Proofs about Configuration, for any families, pools, profiles and keys, *)
(* any administrators and workers, and any number of changes.              *)
(***************************************************************************)
EXTENDS Configuration, TLAPS

\* What became of a row that was there once: it is gone for good, or as it was,
\* or its revision has grown.
Follows(old, row) ==
  \/ row = Deleted
  \/ There(row) /\ (row = old \/ old.revision < row.revision)

\* What a form that enables an item knows of it: it is not archived, unless its
\* revision has grown.
NotArchived(row, revision) ==
  \/ row = Deleted
  \/ There(row) /\ revision <= row.revision /\ (revision = row.revision => ~row.archived)

\* The items that forms and dialogs name.
Named(q) ==
  \/ q.table = "families" /\ q.id \in Family
  \/ q.table = "pools" /\ q.id \in Pool
  \/ q.table = "profiles" /\ q.id \in Profile

RequestTrue(q) ==
  /\ q.phase = "pool" => q.family \in Family
  /\ q.phase = "profile" => q.family \in Family /\ q.pool \in Pool
  /\ q.phase = "default" => q.id \in Family /\ q.default \in Profile
  /\ q.phase = "update" =>
       /\ Named(q) /\ q.patch \in Patch /\ q.revision \in Nat
       /\ q.patch = [set |-> "enabled", to |-> TRUE] => NotArchived(RowOf(q.table, q.id), q.revision)
  /\ q.phase \in {"shown", "delete"} =>
       /\ Named(q)
       /\ q = [phase |-> q.phase, table |-> q.table, id |-> q.id, revision |-> q.revision,
               shown |-> q.shown]

\* What a claim has read follows one route, and its rows were so once.
ClaimTrue(c) ==
  c.phase = "resolved" =>
    /\ c.profile \in Profile
    /\ c.view = [profile |-> c.view.profile, pool |-> c.view.pool, family |-> c.view.family,
                 defaults |-> c.view.defaults]
    /\ c.view.profile \in ProfileRow /\ c.view.pool \in PoolRow /\ c.view.family \in FamilyRow
    /\ Follows(c.view.profile, profiles[c.profile])
    /\ Follows(c.view.pool, pools[c.view.profile.pool])
    /\ Follows(c.view.family, families[c.view.profile.family])
    /\ c.named = Absent => c.view.family.default = c.profile

ConfigurationInv ==
  /\ ConfigurationTypeOK
  /\ ReferencesHold
  /\ ArchivedIsClosed
  /\ \A a \in Administrator : RequestTrue(admin[a])
  /\ \A w \in Claimant : ClaimTrue(claimant[w])

\* How rows change: none comes back, and none changes under its revision.
Moved(row, next) ==
  /\ row = Deleted => next = Deleted
  /\ There(row) => Follows(row, next)

Moves ==
  /\ \A f \in Family : Moved(families[f], families'[f])
  /\ \A p \in Pool : Moved(pools[p], pools'[p])
  /\ \A q \in Profile : Moved(profiles[q], profiles'[q])

-----------------------------------------------------------------------------
\* A row that is there is a row of its table.
LEMMA Rows ==
  ASSUME ConfigurationTypeOK
  PROVE  /\ \A f \in Family : There(families[f]) <=> families[f] \in FamilyRow
         /\ \A p \in Pool : There(pools[p]) <=> pools[p] \in PoolRow
         /\ \A q \in Profile : There(profiles[q]) <=> profiles[q] \in ProfileRow
         /\ \A k \in Key : There(keys[k]) <=> keys[k] \in KeyRow
BY AbsentAssumption DEF ConfigurationTypeOK, There

\* Rows that differ from none that is missing.
LEMMA RowsAreThere ==
  ASSUME NEW row, row \in FamilyRow \/ row \in PoolRow \/ row \in ProfileRow \/ row \in KeyRow
  PROVE  There(row)
BY AbsentAssumption DEF There

\* New rows have the types of their tables.
LEMMA NewRows ==
  /\ NewFamily \in FamilyRow
  /\ \A f \in Family : NewPool(f) \in PoolRow
  /\ \A f \in Family, p \in Pool : NewProfile(f, p) \in ProfileRow
BY DEF NewFamily, NewPool, NewProfile, FamilyRow, PoolRow, ProfileRow

\* A patch keeps what a row refers to, and closes what it archives.
LEMMA PatchFacts ==
  ASSUME NEW patch \in Patch
  PROVE  /\ patch.to \in BOOLEAN /\ patch = [set |-> patch.set, to |-> patch.to]
         /\ \/ patch.set = "enabled"
               /\ \A row : Patched(row, patch) = [Bump(row) EXCEPT !.enabled = patch.to]
            \/ patch.set = "archived"
               /\ \A row : Patched(row, patch) =
                     [Bump(row) EXCEPT !.archived = patch.to, !.enabled = @ /\ ~patch.to]
<1>1. patch.to \in BOOLEAN /\ patch = [set |-> patch.set, to |-> patch.to]
      /\ patch.set \in {"enabled", "archived"}
  <2>1. PICK set \in {"enabled", "archived"}, to \in BOOLEAN : patch = [set |-> set, to |-> to]
    BY DEF Patch
  <2>2. patch.set = set /\ patch.to = to
    BY <2>1
  <2>. QED BY <2>1, <2>2
<1>2. CASE patch.set = "enabled"
  BY <1>1, <1>2 DEF Patched
<1>3. CASE patch.set = "archived"
  BY <1>1, <1>3 DEF Patched
<1>. QED BY <1>1, <1>2, <1>3

\* A patched row is a row, refers to what it referred to, and has a revision more.
LEMMA PatchedFamily ==
  ASSUME NEW patch \in Patch, NEW row \in FamilyRow
  PROVE  /\ Patched(row, patch) \in FamilyRow /\ Patched(row, patch).default = row.default
         /\ Patched(row, patch).revision = row.revision + 1
<1>1. Bump(row) \in FamilyRow /\ Bump(row).revision = row.revision + 1
      /\ Bump(row).default = row.default
  BY DEF Bump, FamilyRow
<1>. HIDE DEF Bump
<1>2. ASSUME NEW b \in BOOLEAN, NEW c \in BOOLEAN, NEW next,
             next = [Bump(row) EXCEPT !.enabled = b] \/
             next = [Bump(row) EXCEPT !.archived = b, !.enabled = c]
      PROVE  next \in FamilyRow /\ next.revision = row.revision + 1 /\ next.default = row.default
  BY <1>1, <1>2 DEF FamilyRow
<1>3. \/ Patched(row, patch) = [Bump(row) EXCEPT !.enabled = patch.to]
      \/ Patched(row, patch) = [Bump(row) EXCEPT !.archived = patch.to, !.enabled = Bump(row).enabled /\ ~patch.to]
  BY PatchFacts
<1>4. patch.to \in BOOLEAN /\ (Bump(row).enabled /\ ~patch.to) \in BOOLEAN
  BY PatchFacts
<1>. QED BY <1>2, <1>3, <1>4

\* So of a pool.
LEMMA PatchedPool ==
  ASSUME NEW patch \in Patch, NEW row \in PoolRow
  PROVE  /\ Patched(row, patch) \in PoolRow /\ Patched(row, patch).owner = row.owner
         /\ Patched(row, patch).revision = row.revision + 1
<1>1. Bump(row) \in PoolRow /\ Bump(row).revision = row.revision + 1
      /\ Bump(row).owner = row.owner
  BY DEF Bump, PoolRow
<1>. HIDE DEF Bump
<1>2. ASSUME NEW b \in BOOLEAN, NEW c \in BOOLEAN, NEW next,
             next = [Bump(row) EXCEPT !.enabled = b] \/
             next = [Bump(row) EXCEPT !.archived = b, !.enabled = c]
      PROVE  next \in PoolRow /\ next.revision = row.revision + 1 /\ next.owner = row.owner
  BY <1>1, <1>2 DEF PoolRow
<1>3. \/ Patched(row, patch) = [Bump(row) EXCEPT !.enabled = patch.to]
      \/ Patched(row, patch) = [Bump(row) EXCEPT !.archived = patch.to, !.enabled = Bump(row).enabled /\ ~patch.to]
  BY PatchFacts
<1>4. patch.to \in BOOLEAN /\ (Bump(row).enabled /\ ~patch.to) \in BOOLEAN
  BY PatchFacts
<1>. QED BY <1>2, <1>3, <1>4

\* So of a profile.
LEMMA PatchedProfile ==
  ASSUME NEW patch \in Patch, NEW row \in ProfileRow
  PROVE  /\ Patched(row, patch) \in ProfileRow
         /\ Patched(row, patch).family = row.family /\ Patched(row, patch).pool = row.pool
         /\ Patched(row, patch).revision = row.revision + 1
<1>1. Bump(row) \in ProfileRow /\ Bump(row).revision = row.revision + 1
      /\ Bump(row).family = row.family /\ Bump(row).pool = row.pool
  BY DEF Bump, ProfileRow
<1>. HIDE DEF Bump
<1>2. ASSUME NEW b \in BOOLEAN, NEW c \in BOOLEAN, NEW next,
             next = [Bump(row) EXCEPT !.enabled = b] \/
             next = [Bump(row) EXCEPT !.archived = b, !.enabled = c]
      PROVE  next \in ProfileRow /\ next.revision = row.revision + 1 /\ next.family = row.family /\ next.pool = row.pool
  BY <1>1, <1>2 DEF ProfileRow
<1>3. \/ Patched(row, patch) = [Bump(row) EXCEPT !.enabled = patch.to]
      \/ Patched(row, patch) = [Bump(row) EXCEPT !.archived = patch.to, !.enabled = Bump(row).enabled /\ ~patch.to]
  BY PatchFacts
<1>4. patch.to \in BOOLEAN /\ (Bump(row).enabled /\ ~patch.to) \in BOOLEAN
  BY PatchFacts
<1>. QED BY <1>2, <1>3, <1>4

\* A patch enables only a row that is not archived.
LEMMA PatchedCloses ==
  ASSUME NEW patch \in Patch, NEW row,
         row \in FamilyRow \/ row \in PoolRow \/ row \in ProfileRow,
         ~(row.archived /\ row.enabled),
         patch = [set |-> "enabled", to |-> TRUE] => ~row.archived
  PROVE  ~(Patched(row, patch).archived /\ Patched(row, patch).enabled)
<1>1. "archived" \in DOMAIN row /\ "enabled" \in DOMAIN row
  BY DEF FamilyRow, PoolRow, ProfileRow
<1>2. Bump(row).archived = row.archived /\ Bump(row).enabled = row.enabled
      /\ "archived" \in DOMAIN Bump(row) /\ "enabled" \in DOMAIN Bump(row)
  BY <1>1 DEF Bump
<1>. HIDE DEF Bump
<1>3. CASE patch.set = "enabled"
  <2>1. Patched(row, patch) = [Bump(row) EXCEPT !.enabled = patch.to]
    BY <1>3, PatchFacts
  <2>2. Patched(row, patch).archived = row.archived /\ Patched(row, patch).enabled = patch.to
    BY <1>2, <2>1
  <2>3. patch.to = TRUE => ~row.archived
    BY <1>3, PatchFacts
  <2>. QED BY <2>2, <2>3, PatchFacts
<1>4. CASE patch.set = "archived"
  <2>1. Patched(row, patch) = [Bump(row) EXCEPT !.archived = patch.to, !.enabled = @ /\ ~patch.to]
    BY <1>4, PatchFacts
  <2>2. Patched(row, patch).archived = patch.to
        /\ Patched(row, patch).enabled = (row.enabled /\ ~patch.to)
    BY <1>2, <2>1
  <2>. QED BY <2>2
<1>. QED BY <1>3, <1>4, PatchFacts

\* What followed once follows for ever.
LEMMA FollowsOn ==
  ASSUME NEW old, NEW row, NEW next, Follows(old, row), Moved(row, next),
         old.revision \in Nat, There(row) => row.revision \in Nat,
         There(next) => next.revision \in Nat
  PROVE  Follows(old, next)
BY DEF Follows, Moved

\* A row stays unarchived as long as its revision is the one that was read.
LEMMA NotArchivedOn ==
  ASSUME NEW revision \in Nat, NEW row, NEW next, NotArchived(row, revision), Moved(row, next),
         There(row) => row.revision \in Nat, There(next) => next.revision \in Nat
  PROVE  NotArchived(next, revision)
BY DEF Follows, Moved, NotArchived

\* What may happen to a row: nothing,
LEMMA RowStays == \A row : Moved(row, row)
BY DEF Moved, Follows

\* a revision more,
LEMMA RowGrows ==
  ASSUME NEW row, NEW next, There(row), There(next), row.revision < next.revision
  PROVE  Moved(row, next)
BY DEF Moved, Follows, There

\* it is new,
LEMMA RowComes ==
  ASSUME NEW next PROVE Moved(Absent, next)
BY ConfigurationAssumption DEF Moved, There

\* or it is removed.
LEMMA RowGoes ==
  ASSUME NEW row PROVE Moved(row, Deleted)
BY DEF Moved, Follows

-----------------------------------------------------------------------------
\* ArchivedIsClosed, table by table.
RowsClosed ==
  /\ \A f \in Families : ~(families[f].archived /\ families[f].enabled)
  /\ \A p \in Pools : ~(pools[p].archived /\ pools[p].enabled)
  /\ \A q \in Profiles : ~(profiles[q].archived /\ profiles[q].enabled)

\* It says the same,
LEMMA ItemsByTable ==
  ArchivedIsClosed <=> RowsClosed
<1>1. /\ \A f : RowOf("families", f) = families[f]
      /\ \A p : RowOf("pools", p) = pools[p]
      /\ \A q : RowOf("profiles", q) = profiles[q]
  BY DEF RowOf
<1>2. ASSUME ArchivedIsClosed PROVE RowsClosed
  <2>1. ASSUME NEW f \in Families PROVE ~(families[f].archived /\ families[f].enabled)
    <3>1. <<"families", f>> \in Items
      BY DEF Items
    <3>. QED BY <1>1, <1>2, <3>1 DEF ArchivedIsClosed
  <2>2. ASSUME NEW p \in Pools PROVE ~(pools[p].archived /\ pools[p].enabled)
    <3>1. <<"pools", p>> \in Items
      BY DEF Items
    <3>. QED BY <1>1, <1>2, <3>1 DEF ArchivedIsClosed
  <2>3. ASSUME NEW q \in Profiles PROVE ~(profiles[q].archived /\ profiles[q].enabled)
    <3>1. <<"profiles", q>> \in Items
      BY DEF Items
    <3>. QED BY <1>1, <1>2, <3>1 DEF ArchivedIsClosed
  <2>. QED BY <2>1, <2>2, <2>3 DEF RowsClosed
<1>3. ASSUME RowsClosed PROVE ArchivedIsClosed
  <2>1. SUFFICES ASSUME NEW i \in Items PROVE ~(RowOf(i[1], i[2]).archived /\ RowOf(i[1], i[2]).enabled)
    BY DEF ArchivedIsClosed
  <2>2. \/ i[1] = "families" /\ i[2] \in Families
        \/ i[1] = "pools" /\ i[2] \in Pools
        \/ i[1] = "profiles" /\ i[2] \in Profiles
    BY DEF Items
  <2>. QED BY <1>1, <1>3, <2>2 DEF RowsClosed
<1>. QED BY <1>2, <1>3

\* and does so after a step.
LEMMA ItemsByTableThen ==
  RowsClosed' => ArchivedIsClosed'
BY ItemsByTable, PTL

\* References hold when rows come, and rows that are there refer as before.
LEMMA ReferencesGrow ==
  ASSUME ReferencesHold,
         Families \subseteq Families', Pools \subseteq Pools', Profiles \subseteq Profiles',
         \A q \in Profiles : profiles'[q].pool = profiles[q].pool /\ profiles'[q].family = profiles[q].family,
         \A q \in Profiles' \ Profiles : profiles'[q].pool \in Pools' /\ profiles'[q].family \in Families',
         \A p \in Pools : pools'[p].owner = pools[p].owner,
         \A p \in Pools' \ Pools : pools'[p].owner \in Families',
         \A f \in Families' :
           \/ f \in Families /\ families'[f].default = families[f].default
           \/ families'[f].default = Absent
           \/ families'[f].default \in Profiles' /\ profiles'[families'[f].default].family = f,
         \A attempt \in attemptsOf' \ attemptsOf :
           attempt[1] \in Profiles' /\ attempt[2] \in Pools' /\ attempt[3] \in Families',
         \A k \in Keys' :
           (k \in Keys /\ keys'[k].family = keys[k].family) \/ keys'[k].family \in Families'
  PROVE  ReferencesHold'
<1>1. \A q \in Profiles' : profiles'[q].pool \in Pools' /\ profiles'[q].family \in Families'
  BY DEF ReferencesHold
<1>2. \A p \in Pools' : pools'[p].owner \in Families'
  BY DEF ReferencesHold
<1>3. ASSUME NEW f \in Families', families'[f].default # Absent
      PROVE  families'[f].default \in Profiles' /\ profiles'[families'[f].default].family = f
  <2>1. CASE f \in Families /\ families'[f].default = families[f].default
    BY <1>3, <2>1 DEF ReferencesHold
  <2>. QED BY <1>3, <2>1
<1>4. \A attempt \in attemptsOf' :
        attempt[1] \in Profiles' /\ attempt[2] \in Pools' /\ attempt[3] \in Families'
  BY DEF ReferencesHold
<1>5. \A k \in Keys' : keys'[k].family \in Families'
  BY DEF ReferencesHold
<1>. QED BY <1>1, <1>2, <1>3, <1>4, <1>5 DEF ReferencesHold

-----------------------------------------------------------------------------
\* What requests and claims know stays true when rows only move.
LEMMA RequestStays ==
  ASSUME ConfigurationInv, ConfigurationTypeOK', Moves,
         NEW a \in Administrator, admin'[a] = admin[a]
  PROVE  RequestTrue(admin[a])'
<1>. DEFINE q == admin[a]
<1>1. RequestTrue(q) /\ ConfigurationTypeOK
  BY DEF ConfigurationInv
<1>2. ASSUME q.phase = "update", q.patch = [set |-> "enabled", to |-> TRUE]
      PROVE  NotArchived(RowOf(q.table, q.id)', q.revision)
  <2>1. Named(q) /\ q.revision \in Nat /\ NotArchived(RowOf(q.table, q.id), q.revision)
    BY <1>1, <1>2 DEF RequestTrue
  <2>2. CASE q.table = "families" /\ q.id \in Family
    <3>1. RowOf(q.table, q.id) = families[q.id] /\ RowOf(q.table, q.id)' = families'[q.id]
      BY <2>2 DEF RowOf
    <3>2. /\ There(families[q.id]) => families[q.id].revision \in Nat
          /\ There(families'[q.id]) => families'[q.id].revision \in Nat
      BY <1>1, <2>2 DEF ConfigurationTypeOK, FamilyRow, There
    <3>. QED BY <2>1, <2>2, <3>1, <3>2, NotArchivedOn DEF Moves
  <2>3. CASE q.table = "pools" /\ q.id \in Pool
    <3>1. RowOf(q.table, q.id) = pools[q.id] /\ RowOf(q.table, q.id)' = pools'[q.id]
      BY <2>3 DEF RowOf
    <3>2. /\ There(pools[q.id]) => pools[q.id].revision \in Nat
          /\ There(pools'[q.id]) => pools'[q.id].revision \in Nat
      BY <1>1, <2>3 DEF ConfigurationTypeOK, PoolRow, There
    <3>. QED BY <2>1, <2>3, <3>1, <3>2, NotArchivedOn DEF Moves
  <2>4. CASE q.table = "profiles" /\ q.id \in Profile
    <3>1. RowOf(q.table, q.id) = profiles[q.id] /\ RowOf(q.table, q.id)' = profiles'[q.id]
      BY <2>4 DEF RowOf
    <3>2. /\ There(profiles[q.id]) => profiles[q.id].revision \in Nat
          /\ There(profiles'[q.id]) => profiles'[q.id].revision \in Nat
      BY <1>1, <2>4 DEF ConfigurationTypeOK, ProfileRow, There
    <3>. QED BY <2>1, <2>4, <3>1, <3>2, NotArchivedOn DEF Moves
  <2>. QED BY <2>1, <2>2, <2>3, <2>4 DEF Named
<1>. QED BY <1>1, <1>2 DEF RequestTrue, Named

\* A claim that a step leaves alone stays true of rows that only move.
LEMMA ClaimStays ==
  ASSUME ConfigurationInv, ConfigurationTypeOK', Moves,
         NEW w \in Claimant, claimant'[w] = claimant[w]
  PROVE  ClaimTrue(claimant[w])'
<1>. DEFINE c == claimant[w]
<1>1. ClaimTrue(c) /\ ConfigurationTypeOK
  BY DEF ConfigurationInv
<1>2. ASSUME c.phase = "resolved"
      PROVE  /\ Follows(c.view.profile, profiles'[c.profile])
             /\ Follows(c.view.pool, pools'[c.view.profile.pool])
             /\ Follows(c.view.family, families'[c.view.profile.family])
  <2>1. /\ c.profile \in Profile /\ c.view.profile.pool \in Pool /\ c.view.profile.family \in Family
        /\ c.view.profile.revision \in Nat /\ c.view.pool.revision \in Nat /\ c.view.family.revision \in Nat
    BY <1>1, <1>2 DEF ClaimTrue, ProfileRow, PoolRow, FamilyRow
  <2>2. /\ Follows(c.view.profile, profiles[c.profile])
        /\ Follows(c.view.pool, pools[c.view.profile.pool])
        /\ Follows(c.view.family, families[c.view.profile.family])
    BY <1>1, <1>2 DEF ClaimTrue
  <2>3. /\ \A f \in Family : /\ There(families[f]) => families[f].revision \in Nat
                             /\ There(families'[f]) => families'[f].revision \in Nat
        /\ \A p \in Pool : /\ There(pools[p]) => pools[p].revision \in Nat
                           /\ There(pools'[p]) => pools'[p].revision \in Nat
        /\ \A q \in Profile : /\ There(profiles[q]) => profiles[q].revision \in Nat
                              /\ There(profiles'[q]) => profiles'[q].revision \in Nat
    <3>1. \A f \in Family : /\ There(families[f]) => families[f].revision \in Nat
                            /\ There(families'[f]) => families'[f].revision \in Nat
      BY <1>1 DEF ConfigurationTypeOK, There, FamilyRow
    <3>2. \A p \in Pool : /\ There(pools[p]) => pools[p].revision \in Nat
                          /\ There(pools'[p]) => pools'[p].revision \in Nat
      BY <1>1 DEF ConfigurationTypeOK, There, PoolRow
    <3>3. \A q \in Profile : /\ There(profiles[q]) => profiles[q].revision \in Nat
                             /\ There(profiles'[q]) => profiles'[q].revision \in Nat
      BY <1>1 DEF ConfigurationTypeOK, There, ProfileRow
    <3>. QED BY <3>1, <3>2, <3>3
  <2>4. Follows(c.view.profile, profiles'[c.profile])
    BY <2>1, <2>2, <2>3, FollowsOn DEF Moves
  <2>5. Follows(c.view.pool, pools'[c.view.profile.pool])
    BY <2>1, <2>2, <2>3, FollowsOn DEF Moves
  <2>6. Follows(c.view.family, families'[c.view.profile.family])
    BY <2>1, <2>2, <2>3, FollowsOn DEF Moves
  <2>. QED BY <2>4, <2>5, <2>6
<1>. QED BY <1>1, <1>2 DEF ClaimTrue

\* A step keeps the invariant if it keeps its parts.
LEMMA Combine ==
  ASSUME ConfigurationInv, ConfigurationTypeOK', Moves, ReferencesHold', ArchivedIsClosed',
         \A a \in Administrator : admin'[a] = admin[a] \/ RequestTrue(admin[a])',
         \A w \in Claimant : claimant'[w] = claimant[w] \/ ClaimTrue(claimant[w])'
  PROVE  ConfigurationInv'
BY RequestStays, ClaimStays DEF ConfigurationInv

\* A step that leaves the tables alone answers for what it adds elsewhere.
LEMMA TablesStay ==
  ASSUME ConfigurationInv, UNCHANGED tables,
         tasksOf' \subseteq Pool, requestsOf' \subseteq Profile,
         attemptsOf' \subseteq Profile \X Pool \X Family,
         \A attempt \in attemptsOf' \ attemptsOf :
           attempt[1] \in Profiles /\ attempt[2] \in Pools /\ attempt[3] \in Families,
         DOMAIN admin' = Administrator, DOMAIN claimant' = Claimant,
         \A a \in Administrator : admin'[a] = admin[a] \/ RequestTrue(admin'[a]),
         \A w \in Claimant : claimant'[w] = claimant[w] \/ ClaimTrue(claimant'[w])
  PROVE  ConfigurationInv'
<1>1. UNCHANGED <<families, pools, profiles, keys, defaultsRevision, commits>>
  BY DEF tables
<1>2. ConfigurationTypeOK'
  BY <1>1 DEF ConfigurationInv, ConfigurationTypeOK
<1>3. Moves
  BY <1>1, RowStays DEF Moves
<1>4. ArchivedIsClosed'
  <2>1. RowsClosed
    BY ItemsByTable DEF ConfigurationInv
  <2>2. RowsClosed'
    BY <1>1, <2>1 DEF RowsClosed, Families, Pools, Profiles
  <2>. QED BY <2>2, ItemsByTableThen
<1>5. Families' = Families /\ Pools' = Pools /\ Profiles' = Profiles /\ Keys' = Keys
  BY <1>1 DEF Families, Pools, Profiles, Keys
<1>6. ReferencesHold'
  BY <1>1, <1>5 DEF ConfigurationInv, ReferencesHold
<1>7. \A a \in Administrator : admin'[a] = admin[a] \/ RequestTrue(admin[a])'
  BY <1>1 DEF RequestTrue, Named, NotArchived, RowOf
<1>8. \A w \in Claimant : claimant'[w] = claimant[w] \/ ClaimTrue(claimant[w])'
  BY <1>1 DEF ClaimTrue
<1>. QED BY <1>2, <1>3, <1>4, <1>6, <1>7, <1>8, Combine

\* A step that commits answers for the tables.
LEMMA CommitStep ==
  ASSUME ConfigurationInv, Commits, UNCHANGED work,
         admin' = admin \/ \E a \in Administrator : Done(a),
         families' \in [Family -> FamilyRow \cup {Absent, Deleted}],
         pools' \in [Pool -> PoolRow \cup {Absent, Deleted}],
         profiles' \in [Profile -> ProfileRow \cup {Absent, Deleted}],
         keys' \in [Key -> KeyRow \cup {Absent, Deleted}],
         defaultsRevision' \in Nat \ {0},
         Moves, ReferencesHold', RowsClosed'
  PROVE  ConfigurationInv'
<1>1. commits' \in 0 .. MaxCommits
  BY ConfigurationAssumption DEF Commits, ConfigurationInv, ConfigurationTypeOK
<1>2. DOMAIN admin' = Administrator
      /\ \A a \in Administrator : admin'[a] = admin[a] \/ admin'[a] = Quiet
  BY DEF ConfigurationInv, ConfigurationTypeOK, Done
<1>3. UNCHANGED <<tasksOf, attemptsOf, requestsOf, claimant>>
  BY DEF work
<1>4. ConfigurationTypeOK'
  BY <1>1, <1>2, <1>3 DEF ConfigurationInv, ConfigurationTypeOK
<1>5. \A a \in Administrator : admin'[a] = admin[a] \/ RequestTrue(admin[a])'
  BY <1>2 DEF RequestTrue, Quiet
<1>. QED BY <1>3, <1>4, <1>5, ItemsByTableThen, Combine

-----------------------------------------------------------------------------
\* A new installation satisfies the invariant.
LEMMA InitInvariant ==
  ConfigurationInit => ConfigurationInv
<1>1. SUFFICES ASSUME ConfigurationInit PROVE ConfigurationInv
  OBVIOUS
<1>. DEFINE f == First(Family)
            p == First(Pool)
            q == First(Profile)
<1>2. f \in Family /\ p \in Pool /\ q \in Profile
  BY ConfigurationAssumption DEF First
<1>. HIDE DEF f, p, q
<1>3. NewFamily \in FamilyRow /\ NewPool(f) \in PoolRow /\ NewProfile(f, p) \in ProfileRow
  BY <1>2, NewRows
<1>4. [NewFamily EXCEPT !.revision = 2, !.default = q] \in FamilyRow
  <2>1. PICK next : next = [NewFamily EXCEPT !.revision = 2]
    OBVIOUS
  <2>2. next \in FamilyRow
    BY <1>3, <2>1 DEF FamilyRow
  <2>3. [next EXCEPT !.default = q] \in FamilyRow
    BY <1>2, <2>2 DEF FamilyRow
  <2>. QED BY <2>1, <2>3
<1>5. [family |-> f, status |-> "hard_revoked"] \in KeyRow
  BY <1>2 DEF KeyRow
<1>6. /\ defaultsRevision = 1 /\ tasksOf = {} /\ attemptsOf = {} /\ requestsOf = {} /\ commits = 0
      /\ admin = [a \in Administrator |-> Quiet] /\ claimant = [w \in Claimant |-> Quiet]
  BY <1>1 DEF ConfigurationInit
<1>7. /\ \A a \in Administrator : RequestTrue(admin[a])
      /\ \A w \in Claimant : ClaimTrue(claimant[w])
  BY <1>6 DEF RequestTrue, ClaimTrue, Quiet
<1>8. ASSUME families = [g \in Family |-> IF g = f THEN NewFamily ELSE Absent],
             pools = [x \in Pool |-> Absent], profiles = [r \in Profile |-> Absent],
             keys = [k \in Key |->
               IF k = First(Key) THEN [family |-> f, status |-> "hard_revoked"] ELSE Absent]
      PROVE  ConfigurationTypeOK /\ ReferencesHold /\ RowsClosed
  <2>1. ConfigurationTypeOK
    BY <1>2, <1>3, <1>5, <1>6, <1>8, ConfigurationAssumption DEF ConfigurationTypeOK
  <2>2. Families = {f} /\ families[f] = NewFamily /\ Pools = {} /\ Profiles = {}
    BY <1>2, <1>3, <1>8, RowsAreThere DEF Families, Pools, Profiles, There
  <2>3. NewFamily.default = Absent /\ NewFamily.archived = FALSE
    BY DEF NewFamily
  <2>4. \A k \in Keys : keys[k].family = f
    BY <1>8 DEF Keys, There
  <2>. QED BY <1>6, <2>1, <2>2, <2>3, <2>4 DEF ReferencesHold, RowsClosed
<1>9. ASSUME families = [g \in Family |->
               IF g = f THEN [NewFamily EXCEPT !.revision = 2, !.default = q] ELSE Absent],
             pools = [x \in Pool |-> IF x = p THEN NewPool(f) ELSE Absent],
             profiles = [r \in Profile |-> IF r = q THEN NewProfile(f, p) ELSE Absent],
             keys = [k \in Key |-> Absent]
      PROVE  ConfigurationTypeOK /\ ReferencesHold /\ RowsClosed
  <2>1. ConfigurationTypeOK
    BY <1>2, <1>3, <1>4, <1>6, <1>9, ConfigurationAssumption DEF ConfigurationTypeOK
  <2>2. /\ Families = {f} /\ families[f] = [NewFamily EXCEPT !.revision = 2, !.default = q]
        /\ Pools = {p} /\ pools[p] = NewPool(f)
        /\ Profiles = {q} /\ profiles[q] = NewProfile(f, p) /\ Keys = {}
    <3>1. Families = {f} /\ families[f] = [NewFamily EXCEPT !.revision = 2, !.default = q]
      BY <1>2, <1>4, <1>9, RowsAreThere DEF Families, There
    <3>2. Pools = {p} /\ pools[p] = NewPool(f)
      BY <1>2, <1>3, <1>9, RowsAreThere DEF Pools, There
    <3>3. Profiles = {q} /\ profiles[q] = NewProfile(f, p) /\ Keys = {}
      BY <1>2, <1>3, <1>9, RowsAreThere DEF Profiles, Keys, There
    <3>. QED BY <3>1, <3>2, <3>3
  <2>3. /\ families[f].default = q /\ families[f].archived = FALSE
        /\ pools[p].owner = f /\ pools[p].archived = FALSE
        /\ profiles[q].family = f /\ profiles[q].pool = p /\ profiles[q].archived = FALSE
    BY <2>2 DEF NewFamily, NewPool, NewProfile
  <2>. QED BY <1>6, <2>1, <2>2, <2>3 DEF ReferencesHold, RowsClosed
<1>10. ConfigurationTypeOK /\ ReferencesHold /\ RowsClosed
  BY <1>1, <1>8, <1>9 DEF ConfigurationInit, f, p, q
<1>. QED BY <1>7, <1>10, ItemsByTable DEF ConfigurationInv

-----------------------------------------------------------------------------
(* What only reads.                                                        *)
LEMMA ReadInvariant ==
  ASSUME ConfigurationInv, NEW a \in Administrator, NEW request, RequestTrue(request), Read(a, request)
  PROVE  ConfigurationInv'
<1>1. admin' = [admin EXCEPT ![a] = request] /\ UNCHANGED <<tables, work>>
  BY DEF Read
<1>2. DOMAIN admin' = Administrator
      /\ \A b \in Administrator : admin'[b] = admin[b] \/ RequestTrue(admin'[b])
  BY <1>1 DEF ConfigurationInv, ConfigurationTypeOK
<1>. QED BY <1>1, <1>2, TablesStay DEF work, ConfigurationInv, ConfigurationTypeOK

\* Reading rows,
LEMMA ReadsInvariant ==
  ASSUME ConfigurationInv, NEW a \in Administrator,
         \/ \E f \in Family : CreatePoolRead(a, f) \/ \E p \in Pool : CreateProfileRead(a, f, p)
         \/ \E f \in Family, q \in Profile : DefaultRead(a, f, q)
  PROVE  ConfigurationInv'
<1>1. ASSUME NEW f \in Family, CreatePoolRead(a, f) PROVE ConfigurationInv'
  <2>. DEFINE request == [phase |-> "pool", family |-> f, revision |-> families[f].revision]
  <2>1. RequestTrue(request)
    BY DEF RequestTrue
  <2>. QED BY <1>1, <2>1, ReadInvariant DEF CreatePoolRead
<1>2. ASSUME NEW f \in Family, NEW p \in Pool, CreateProfileRead(a, f, p) PROVE ConfigurationInv'
  <2>. DEFINE request == [phase |-> "profile", family |-> f, revision |-> families[f].revision,
                          pool |-> p, poolRevision |-> pools[p].revision]
  <2>1. RequestTrue(request)
    BY DEF RequestTrue
  <2>. QED BY <1>2, <2>1, ReadInvariant DEF CreateProfileRead
<1>3. ASSUME NEW f \in Family, NEW q \in Profile, DefaultRead(a, f, q) PROVE ConfigurationInv'
  <2>. DEFINE request == [phase |-> "default", id |-> f, default |-> q, revision |-> families[f].revision]
  <2>1. RequestTrue(request)
    BY DEF RequestTrue
  <2>. QED BY <1>3, <2>1, ReadInvariant DEF DefaultRead
<1>. QED BY <1>1, <1>2, <1>3

\* An item that a form shows is a row with its revision.
LEMMA ItemRow ==
  ASSUME ConfigurationTypeOK, NEW i \in Items
  PROVE  LET row == RowOf(i[1], i[2])
         IN  /\ There(row) /\ row.revision \in Nat
             /\ \/ i[1] = "families" /\ i[2] \in Family
                \/ i[1] = "pools" /\ i[2] \in Pool
                \/ i[1] = "profiles" /\ i[2] \in Profile
<1>1. CASE i[1] = "families" /\ i[2] \in Families
  BY <1>1, Rows DEF RowOf, Families, FamilyRow
<1>2. CASE i[1] = "pools" /\ i[2] \in Pools
  BY <1>2, Rows DEF RowOf, Pools, PoolRow
<1>3. CASE i[1] = "profiles" /\ i[2] \in Profiles
  BY <1>3, Rows DEF RowOf, Profiles, ProfileRow
<1>. QED BY <1>1, <1>2, <1>3 DEF Items

\* opening a form,
LEMMA FormsInvariant ==
  ASSUME ConfigurationInv, NEW a \in Administrator, NEW i \in Items,
         ReviewRemoval(a, i[1], i[2]) \/ \E patch \in Patch : UpdateRead(a, i[1], i[2], patch)
  PROVE  ConfigurationInv'
<1>. DEFINE row == RowOf(i[1], i[2])
<1>1. /\ There(row) /\ row.revision \in Nat
      /\ \/ i[1] = "families" /\ i[2] \in Family
         \/ i[1] = "pools" /\ i[2] \in Pool
         \/ i[1] = "profiles" /\ i[2] \in Profile
  BY ItemRow DEF ConfigurationInv
<1>2. CASE ReviewRemoval(a, i[1], i[2])
  <2>. DEFINE request == [phase |-> "shown", table |-> i[1], id |-> i[2], revision |-> row.revision,
                          shown |-> Dependencies(i[1], i[2])]
  <2>1. RequestTrue(request)
    BY <1>1 DEF RequestTrue, Named
  <2>. QED BY <1>2, <2>1, ReadInvariant DEF ReviewRemoval
<1>3. ASSUME NEW patch \in Patch, UpdateRead(a, i[1], i[2], patch) PROVE ConfigurationInv'
  <2>. DEFINE request == [phase |-> "update", table |-> i[1], id |-> i[2], patch |-> patch,
                          revision |-> row.revision]
  <2>1. patch = [set |-> "enabled", to |-> TRUE] => NotArchived(row, row.revision)
    BY <1>1, <1>3 DEF UpdateRead, NotArchived
  <2>2. RequestTrue(request)
    BY <1>1, <2>1 DEF RequestTrue, Named
  <2>. QED BY <1>3, <2>2, ReadInvariant DEF UpdateRead
<1>. QED BY <1>2, <1>3

\* planning a removal,
LEMMA PlanInvariant ==
  ASSUME ConfigurationInv, NEW a \in Administrator, PlanRemoval(a) \/ Refuse(a)
  PROVE  ConfigurationInv'
<1>1. RequestTrue(admin[a])
  BY DEF ConfigurationInv
<1>2. CASE PlanRemoval(a)
  <2>. DEFINE q == admin[a]
              next == [phase |-> "delete", table |-> q.table, id |-> q.id, revision |-> q.revision,
                       shown |-> q.shown]
  <2>1. q = [phase |-> "shown", table |-> q.table, id |-> q.id, revision |-> q.revision, shown |-> q.shown]
        /\ Named(q)
    BY <1>1, <1>2 DEF PlanRemoval, RequestTrue
  <2>2. [q EXCEPT !.phase = "delete"] = next
    BY <2>1
  <2>3. RequestTrue(next)
    BY <2>1 DEF RequestTrue, Named
  <2>4. Read(a, next)
    BY <1>2, <2>2 DEF PlanRemoval, Read
  <2>. QED BY <2>3, <2>4, ReadInvariant
<1>3. CASE Refuse(a)
  <2>1. RequestTrue(Quiet)
    BY DEF RequestTrue, Quiet
  <2>2. Read(a, Quiet)
    BY <1>3 DEF Refuse, Done, Read
  <2>. QED BY <2>1, <2>2, ReadInvariant
<1>. QED BY <1>2, <1>3

-----------------------------------------------------------------------------
(* Claims and the tasks they are about.                                    *)
LEMMA ResolveInvariant ==
  ASSUME ConfigurationInv, NEW w \in Claimant, NEW f \in Family, NEW named \in Profile \cup {Absent},
         ResolveRoute(w, f, named)
  PROVE  ConfigurationInv'
<1>. DEFINE q == IF named = Absent THEN families[f].default ELSE named
            c == [phase |-> "resolved", profile |-> q, named |-> named, view |-> View(q)]
<1>1. f \in Families /\ q \in Profiles /\ claimant' = [claimant EXCEPT ![w] = c]
      /\ UNCHANGED <<tables, tasksOf, attemptsOf, requestsOf, admin>>
      /\ (named # Absent => profiles[q].family = f)
  BY DEF ResolveRoute
<1>2. ConfigurationTypeOK /\ ReferencesHold
  BY DEF ConfigurationInv
<1>3. q \in Profile /\ profiles[q] \in ProfileRow
  BY <1>1, <1>2, Rows DEF Profiles
<1>4. profiles[q].pool \in Pools /\ profiles[q].family \in Families
  BY <1>1, <1>2 DEF ReferencesHold
<1>5. pools[profiles[q].pool] \in PoolRow /\ families[profiles[q].family] \in FamilyRow
  BY <1>2, <1>4, Rows DEF Pools, Families
<1>6. named = Absent => families[profiles[q].family].default = q
  <2>1. SUFFICES ASSUME named = Absent PROVE families[profiles[q].family].default = q
    OBVIOUS
  <2>2. q = families[f].default
    BY <2>1
  <2>3. CASE families[f].default # Absent
    <3>1. profiles[families[f].default].family = f
      BY <1>1, <1>2, <2>3 DEF ReferencesHold
    <3>. QED BY <2>2, <3>1
  <2>4. CASE families[f].default = Absent
    BY <1>1, <2>2, <2>4, ConfigurationAssumption DEF Profiles
  <2>. QED BY <2>3, <2>4
<1>. HIDE DEF q
<1>7. /\ c.phase = "resolved" /\ c.profile = q /\ c.named = named
      /\ c.view = [profile |-> profiles[q], pool |-> pools[profiles[q].pool],
                   family |-> families[profiles[q].family], defaults |-> defaultsRevision]
  BY DEF View
<1>8. ClaimTrue(c)
  <2>1. There(profiles[q]) /\ There(pools[profiles[q].pool]) /\ There(families[profiles[q].family])
    BY <1>1, <1>4 DEF Profiles, Pools, Families
  <2>. HIDE DEF c
  <2>. QED BY <1>3, <1>5, <1>6, <1>7, <2>1 DEF ClaimTrue, Follows
<1>9. DOMAIN claimant' = Claimant
      /\ \A v \in Claimant : claimant'[v] = claimant[v] \/ ClaimTrue(claimant'[v])
  BY <1>1, <1>2, <1>8 DEF ConfigurationTypeOK
<1>. QED BY <1>1, <1>2, <1>9, TablesStay DEF ConfigurationTypeOK

\* A claim that commits has read the rows as they are.
LEMMA ClaimUpToDate ==
  ASSUME ConfigurationInv, NEW w \in Claimant, claimant[w].phase = "resolved",
         UpToDate(claimant[w].profile, claimant[w].view)
  PROVE  LET q == claimant[w].profile
             view == claimant[w].view
         IN  /\ q \in Profiles /\ profiles[q] = view.profile
             /\ view.profile.pool \in Pools /\ pools[view.profile.pool] = view.pool
             /\ view.profile.family \in Families /\ families[view.profile.family] = view.family
             /\ view = View(q)
<1>. DEFINE q == claimant[w].profile
            view == claimant[w].view
<1>1. ClaimTrue(claimant[w])
  BY DEF ConfigurationInv
<1>2. /\ q \in Profile /\ view.profile.pool \in Pool /\ view.profile.family \in Family
      /\ view = [profile |-> view.profile, pool |-> view.pool, family |-> view.family,
                 defaults |-> view.defaults]
      /\ view.profile.revision \in Nat /\ view.pool.revision \in Nat /\ view.family.revision \in Nat
  BY <1>1 DEF ClaimTrue, ProfileRow, PoolRow, FamilyRow
<1>3. /\ Follows(view.profile, profiles[q])
      /\ Follows(view.pool, pools[view.profile.pool])
      /\ Follows(view.family, families[view.profile.family])
  BY <1>1 DEF ClaimTrue
<1>4. /\ There(profiles[q]) /\ profiles[q].revision = view.profile.revision
      /\ There(pools[view.profile.pool]) /\ pools[view.profile.pool].revision = view.pool.revision
      /\ There(families[view.profile.family])
      /\ families[view.profile.family].revision = view.family.revision
      /\ view.defaults = defaultsRevision
  BY DEF UpToDate, Same
<1>5. ASSUME NEW old, NEW row, Follows(old, row), There(row), row.revision = old.revision,
             old.revision \in Nat
      PROVE  row = old
  BY <1>5 DEF Follows, There
<1>6. profiles[q] = view.profile
  BY <1>2, <1>3, <1>4, <1>5
<1>7. pools[view.profile.pool] = view.pool
  BY <1>2, <1>3, <1>4, <1>5
<1>8. families[view.profile.family] = view.family
  BY <1>2, <1>3, <1>4, <1>5
<1>9. view = View(q)
  BY <1>2, <1>4, <1>6, <1>7, <1>8 DEF View
<1>. QED BY <1>2, <1>4, <1>6, <1>7, <1>8, <1>9 DEF Profiles, Pools, Families

\* claiming,
LEMMA ClaimInvariant ==
  ASSUME ConfigurationInv, NEW w \in Claimant, ClaimUnder(w) \/ Leave(w)
  PROVE  ConfigurationInv'
<1>1. CASE ClaimUnder(w)
  <2>. DEFINE q == claimant[w].profile
              view == claimant[w].view
              attempt == <<q, view.profile.pool, view.profile.family>>
  <2>1. /\ q \in Profiles /\ view.profile.pool \in Pools /\ view.profile.family \in Families
    BY <1>1, ClaimUpToDate DEF ClaimUnder
  <2>2. /\ requestsOf' = requestsOf \cup {q} /\ attemptsOf' \subseteq attemptsOf \cup {attempt}
        /\ claimant' = [claimant EXCEPT ![w] = [phase |-> "answered"]]
        /\ UNCHANGED <<tables, tasksOf, admin>>
    BY <1>1 DEF ClaimUnder
  <2>3. q \in Profile /\ attempt \in Profile \X Pool \X Family
    BY <2>1 DEF Profiles, Pools, Families
  <2>4. ClaimTrue([phase |-> "answered"])
    BY DEF ClaimTrue
  <2>5. DOMAIN claimant' = Claimant
        /\ \A v \in Claimant : claimant'[v] = claimant[v] \/ ClaimTrue(claimant'[v])
    BY <2>2, <2>4 DEF ConfigurationInv, ConfigurationTypeOK
  <2>6. attempt[1] = q /\ attempt[2] = view.profile.pool /\ attempt[3] = view.profile.family
    OBVIOUS
  <2>7. \A new \in attemptsOf' \ attemptsOf :
          new[1] \in Profiles /\ new[2] \in Pools /\ new[3] \in Families
    BY <2>1, <2>2, <2>6
  <2>8. /\ requestsOf' \subseteq Profile /\ attemptsOf' \subseteq Profile \X Pool \X Family
        /\ tasksOf' \subseteq Pool /\ DOMAIN admin' = Administrator
    BY <2>2, <2>3 DEF ConfigurationInv, ConfigurationTypeOK
  <2>. HIDE DEF attempt, q, view
  <2>. QED BY <2>2, <2>5, <2>7, <2>8, TablesStay
<1>2. CASE Leave(w)
  <2>1. ClaimTrue(Quiet)
    BY DEF ClaimTrue, Quiet
  <2>2. DOMAIN claimant' = Claimant
        /\ \A v \in Claimant : claimant'[v] = claimant[v] \/ ClaimTrue(claimant'[v])
    BY <1>2, <2>1 DEF ConfigurationInv, ConfigurationTypeOK, Leave
  <2>. QED BY <1>2, <2>2, TablesStay DEF ConfigurationInv, ConfigurationTypeOK, Leave
<1>. QED BY <1>1, <1>2

\* and what workers and tasks do change no row of the configuration.
LEMMA WorkInvariant ==
  ASSUME ConfigurationInv,
         (\E p \in Pool : AddTasks(p)) \/ (\E q \in Profile : PruneRequests(q))
  PROVE  ConfigurationInv'
<1>1. CASE \E p \in Pool : AddTasks(p)
  BY <1>1, TablesStay DEF ConfigurationInv, ConfigurationTypeOK, AddTasks
<1>2. CASE \E q \in Profile : PruneRequests(q)
  BY <1>2, TablesStay DEF ConfigurationInv, ConfigurationTypeOK, PruneRequests
<1>. QED BY <1>1, <1>2

-----------------------------------------------------------------------------
(* What creates rows.                                                      *)
LEMMA CreateFamilyInvariant ==
  ASSUME ConfigurationInv, NEW f \in Family, CreateFamily(f)
  PROVE  ConfigurationInv'
<1>1. /\ Commits /\ families[f] = Absent /\ families' = [families EXCEPT ![f] = NewFamily]
      /\ UNCHANGED <<pools, profiles, keys, defaultsRevision, work, admin>>
  BY DEF CreateFamily, NewId
<1>2. ConfigurationTypeOK /\ ReferencesHold /\ RowsClosed
  BY ItemsByTable DEF ConfigurationInv
<1>3. NewFamily \in FamilyRow /\ There(NewFamily) /\ NewFamily.default = Absent
      /\ NewFamily.archived = FALSE
  BY NewRows, RowsAreThere DEF NewFamily
<1>4. families' \in [Family -> FamilyRow \cup {Absent, Deleted}]
  BY <1>1, <1>2, <1>3 DEF ConfigurationTypeOK
<1>5. Moves
  BY <1>1, <1>2, RowStays, RowComes DEF Moves, ConfigurationTypeOK
<1>6. /\ Families' = Families \cup {f} /\ f \notin Families /\ families'[f] = NewFamily
      /\ \A g \in Families : families'[g] = families[g]
      /\ Pools' = Pools /\ Profiles' = Profiles /\ Keys' = Keys /\ attemptsOf' = attemptsOf
  BY <1>1, <1>2, <1>3 DEF Families, Pools, Profiles, Keys, There, ConfigurationTypeOK, work
<1>7. ReferencesHold'
  BY <1>1, <1>2, <1>3, <1>6, ReferencesGrow
<1>8. RowsClosed'
  BY <1>1, <1>2, <1>3, <1>6 DEF RowsClosed
<1>. QED BY <1>1, <1>2, <1>4, <1>5, <1>7, <1>8, CommitStep DEF ConfigurationTypeOK

\* A new profile of a pool and a family that are there.
LEMMA CreateProfileInvariant ==
  ASSUME ConfigurationInv, NEW a \in Administrator, NEW q \in Profile, CreateProfile(a, q)
  PROVE  ConfigurationInv'
<1>. DEFINE f == admin[a].family
            p == admin[a].pool
<1>1. /\ Commits /\ profiles[q] = Absent /\ profiles' = [profiles EXCEPT ![q] = NewProfile(f, p)]
      /\ There(families[f]) /\ There(pools[p]) /\ Done(a)
      /\ UNCHANGED <<families, pools, keys, defaultsRevision, work>>
  BY DEF CreateProfile, NewId, Same
<1>2. ConfigurationTypeOK /\ ReferencesHold /\ RowsClosed
  BY ItemsByTable DEF ConfigurationInv
<1>3. f \in Family /\ p \in Pool
  BY DEF ConfigurationInv, RequestTrue, CreateProfile
<1>. HIDE DEF f, p
<1>4. /\ NewProfile(f, p) \in ProfileRow /\ There(NewProfile(f, p))
      /\ NewProfile(f, p).family = f /\ NewProfile(f, p).pool = p /\ NewProfile(f, p).archived = FALSE
  BY <1>3, NewRows, RowsAreThere DEF NewProfile
<1>5. profiles' \in [Profile -> ProfileRow \cup {Absent, Deleted}]
  BY <1>1, <1>2, <1>4 DEF ConfigurationTypeOK
<1>6. Moves
  BY <1>1, <1>2, RowStays, RowComes DEF Moves, ConfigurationTypeOK
<1>7. /\ Profiles' = Profiles \cup {q} /\ q \notin Profiles /\ profiles'[q] = NewProfile(f, p)
      /\ \A r \in Profiles : profiles'[r] = profiles[r]
      /\ Families' = Families /\ Pools' = Pools /\ Keys' = Keys /\ attemptsOf' = attemptsOf
  BY <1>1, <1>2, <1>4 DEF Families, Pools, Profiles, Keys, There, ConfigurationTypeOK, work
<1>8. f \in Families /\ p \in Pools
  BY <1>1, <1>3 DEF Families, Pools
<1>9. ReferencesHold'
  BY <1>1, <1>2, <1>4, <1>7, <1>8, ReferencesGrow
<1>10. RowsClosed'
  BY <1>1, <1>2, <1>4, <1>7 DEF RowsClosed
<1>. QED BY <1>1, <1>2, <1>5, <1>6, <1>9, <1>10, CommitStep DEF ConfigurationTypeOK

\* A new pool comes with a profile, and its family may get a default.
LEMMA CreatePoolInvariant ==
  ASSUME ConfigurationInv, NEW a \in Administrator, NEW p \in Pool, NEW q \in Profile,
         CreatePool(a, p, q)
  PROVE  ConfigurationInv'
<1>. DEFINE f == admin[a].family
            default == IF families[f].default = Absent THEN q ELSE families[f].default
            family == [Bump(families[f]) EXCEPT !.default = default]
<1>1. /\ Commits /\ pools[p] = Absent /\ profiles[q] = Absent /\ There(families[f]) /\ Done(a)
      /\ families' = [families EXCEPT ![f] = family]
      /\ pools' = [pools EXCEPT ![p] = NewPool(f)]
      /\ profiles' = [profiles EXCEPT ![q] = NewProfile(f, p)]
      /\ UNCHANGED <<keys, defaultsRevision, work>>
  <2>1. families' = [families EXCEPT ![f] = family]
    BY Zenon DEF CreatePool
  <2>. HIDE DEF family
  <2>2. /\ Commits /\ pools[p] = Absent /\ profiles[q] = Absent /\ There(families[f]) /\ Done(a)
        /\ UNCHANGED <<keys, defaultsRevision, work>>
    BY Zenon DEF CreatePool, NewId, Same
  <2>3. /\ pools' = [pools EXCEPT ![p] = NewPool(f)]
        /\ profiles' = [profiles EXCEPT ![q] = NewProfile(f, p)]
    BY Zenon DEF CreatePool
  <2>. QED BY <2>1, <2>2, <2>3
<1>2. ConfigurationTypeOK /\ ReferencesHold /\ RowsClosed
  BY ItemsByTable DEF ConfigurationInv
<1>3. f \in Family
  BY DEF ConfigurationInv, RequestTrue, CreatePool
<1>4. families[f] \in FamilyRow /\ f \in Families
  BY <1>1, <1>2, <1>3, Rows DEF Families
<1>5. /\ Bump(families[f]) \in FamilyRow /\ Bump(families[f]).revision = families[f].revision + 1
      /\ Bump(families[f]).default = families[f].default
      /\ Bump(families[f]).archived = families[f].archived
      /\ Bump(families[f]).enabled = families[f].enabled
  BY <1>4 DEF Bump, FamilyRow
<1>6. /\ family \in FamilyRow /\ family.revision = families[f].revision + 1
      /\ family.default = default
      /\ family.archived = families[f].archived /\ family.enabled = families[f].enabled
  <2>1. default \in Profile \cup {Absent}
    BY <1>4 DEF FamilyRow
  <2>. HIDE DEF default, Bump
  <2>. QED BY <1>5, <2>1 DEF FamilyRow
<1>. HIDE DEF family, f
<1>7. There(family) /\ families[f].revision < family.revision
  BY <1>4, <1>6, RowsAreThere DEF FamilyRow
<1>8. /\ NewPool(f) \in PoolRow /\ There(NewPool(f)) /\ NewPool(f).owner = f /\ NewPool(f).archived = FALSE
  BY <1>3, NewRows, RowsAreThere DEF NewPool
<1>9. /\ NewProfile(f, p) \in ProfileRow /\ There(NewProfile(f, p)) /\ NewProfile(f, p).family = f
      /\ NewProfile(f, p).pool = p /\ NewProfile(f, p).archived = FALSE
  BY <1>3, NewRows, RowsAreThere DEF NewProfile
<1>10. /\ families' \in [Family -> FamilyRow \cup {Absent, Deleted}]
       /\ pools' \in [Pool -> PoolRow \cup {Absent, Deleted}]
       /\ profiles' \in [Profile -> ProfileRow \cup {Absent, Deleted}]
  BY <1>1, <1>2, <1>6, <1>8, <1>9 DEF ConfigurationTypeOK
<1>11. Moves
  <2>1. Moved(families[f], family)
    BY <1>1, <1>7, RowGrows
  <2>. QED BY <1>1, <1>2, <2>1, RowStays, RowComes DEF Moves, ConfigurationTypeOK
<1>12. /\ Families' = Families /\ families'[f] = family
       /\ \A g \in Families : g # f => families'[g] = families[g]
  BY <1>1, <1>2, <1>3, <1>4, <1>7 DEF Families, There, ConfigurationTypeOK
<1>13. /\ Pools' = Pools \cup {p} /\ p \notin Pools /\ pools'[p] = NewPool(f)
       /\ \A x \in Pools : pools'[x] = pools[x]
  BY <1>1, <1>2, <1>8 DEF Pools, There, ConfigurationTypeOK
<1>14. /\ Profiles' = Profiles \cup {q} /\ q \notin Profiles /\ profiles'[q] = NewProfile(f, p)
       /\ \A r \in Profiles : profiles'[r] = profiles[r]
  BY <1>1, <1>2, <1>9 DEF Profiles, There, ConfigurationTypeOK
<1>15. Keys' = Keys /\ attemptsOf' = attemptsOf
  BY <1>1 DEF Keys, work
<1>16. ReferencesHold'
  <2>1. \A g \in Families' :
          \/ g \in Families /\ families'[g].default = families[g].default
          \/ families'[g].default = Absent
          \/ families'[g].default \in Profiles' /\ profiles'[families'[g].default].family = g
    BY <1>6, <1>9, <1>12, <1>14
  <2>. QED BY <1>1, <1>2, <1>4, <1>8, <1>9, <1>12, <1>13, <1>14, <1>15, <2>1, ReferencesGrow
<1>17. RowsClosed'
  BY <1>2, <1>4, <1>6, <1>8, <1>9, <1>12, <1>13, <1>14 DEF RowsClosed
<1>. QED BY <1>1, <1>2, <1>10, <1>11, <1>16, <1>17, CommitStep DEF ConfigurationTypeOK

-----------------------------------------------------------------------------
(* What changes one row of a table.                                        *)
LEMMA FamilyChanges ==
  ASSUME ConfigurationInv, Commits, UNCHANGED <<pools, profiles, keys, defaultsRevision, work>>,
         NEW f \in Families, NEW row \in FamilyRow, families' = [families EXCEPT ![f] = row],
         row.revision = families[f].revision + 1, ~(row.archived /\ row.enabled),
         \/ row.default = families[f].default
         \/ row.default \in Profiles /\ profiles[row.default].family = f,
         NEW a \in Administrator, Done(a)
  PROVE  ConfigurationInv'
<1>1. ConfigurationTypeOK /\ ReferencesHold /\ RowsClosed /\ f \in Family
  BY ItemsByTable DEF ConfigurationInv, Families
<1>2. There(row) /\ families[f] \in FamilyRow /\ There(families[f])
  BY <1>1, Rows, RowsAreThere DEF Families
<1>3. families' \in [Family -> FamilyRow \cup {Absent, Deleted}]
  BY <1>1 DEF ConfigurationTypeOK
<1>4. Moves
  <2>1. Moved(families[f], row)
    BY <1>2, RowGrows DEF FamilyRow
  <2>. QED BY <1>1, <2>1, RowStays DEF Moves, ConfigurationTypeOK
<1>5. /\ Families' = Families /\ families'[f] = row
      /\ \A g \in Families : g # f => families'[g] = families[g]
      /\ Pools' = Pools /\ Profiles' = Profiles /\ Keys' = Keys /\ attemptsOf' = attemptsOf
  BY <1>1, <1>2 DEF Families, Pools, Profiles, Keys, There, ConfigurationTypeOK, work
<1>6. ReferencesHold'
  <2>1. \A g \in Families' :
          \/ g \in Families /\ families'[g].default = families[g].default
          \/ families'[g].default = Absent
          \/ families'[g].default \in Profiles' /\ profiles'[families'[g].default].family = g
    BY <1>5
  <2>. QED BY <1>1, <1>5, <2>1, ReferencesGrow
<1>7. RowsClosed'
  BY <1>1, <1>5 DEF RowsClosed
<1>. QED BY <1>1, <1>3, <1>4, <1>6, <1>7, CommitStep DEF ConfigurationTypeOK

\* A change of one pool.
LEMMA PoolChanges ==
  ASSUME ConfigurationInv, Commits, UNCHANGED <<families, profiles, keys, defaultsRevision, work>>,
         NEW p \in Pools, NEW row \in PoolRow, pools' = [pools EXCEPT ![p] = row],
         row.revision = pools[p].revision + 1, ~(row.archived /\ row.enabled),
         row.owner = pools[p].owner,
         admin' = admin \/ \E a \in Administrator : Done(a)
  PROVE  ConfigurationInv'
<1>1. ConfigurationTypeOK /\ ReferencesHold /\ RowsClosed /\ p \in Pool
  BY ItemsByTable DEF ConfigurationInv, Pools
<1>2. There(row) /\ pools[p] \in PoolRow /\ There(pools[p])
  BY <1>1, Rows, RowsAreThere DEF Pools
<1>3. pools' \in [Pool -> PoolRow \cup {Absent, Deleted}]
  BY <1>1 DEF ConfigurationTypeOK
<1>4. Moves
  <2>1. Moved(pools[p], row)
    BY <1>2, RowGrows DEF PoolRow
  <2>. QED BY <1>1, <2>1, RowStays DEF Moves, ConfigurationTypeOK
<1>5. /\ Pools' = Pools /\ pools'[p] = row
      /\ \A x \in Pools : x # p => pools'[x] = pools[x]
      /\ Families' = Families /\ Profiles' = Profiles /\ Keys' = Keys /\ attemptsOf' = attemptsOf
  BY <1>1, <1>2 DEF Families, Pools, Profiles, Keys, There, ConfigurationTypeOK, work
<1>6. ReferencesHold'
  BY <1>1, <1>5, ReferencesGrow
<1>7. RowsClosed'
  BY <1>1, <1>5 DEF RowsClosed
<1>. QED BY <1>1, <1>3, <1>4, <1>6, <1>7, CommitStep DEF ConfigurationTypeOK

\* A change of one profile.
LEMMA ProfileChanges ==
  ASSUME ConfigurationInv, Commits, UNCHANGED <<families, pools, keys, defaultsRevision, work>>,
         NEW q \in Profiles, NEW row \in ProfileRow, profiles' = [profiles EXCEPT ![q] = row],
         row.revision = profiles[q].revision + 1, ~(row.archived /\ row.enabled),
         row.family = profiles[q].family, row.pool = profiles[q].pool,
         NEW a \in Administrator, Done(a)
  PROVE  ConfigurationInv'
<1>1. ConfigurationTypeOK /\ ReferencesHold /\ RowsClosed /\ q \in Profile
  BY ItemsByTable DEF ConfigurationInv, Profiles
<1>2. There(row) /\ profiles[q] \in ProfileRow /\ There(profiles[q])
  BY <1>1, Rows, RowsAreThere DEF Profiles
<1>3. profiles' \in [Profile -> ProfileRow \cup {Absent, Deleted}]
  BY <1>1 DEF ConfigurationTypeOK
<1>4. Moves
  <2>1. Moved(profiles[q], row)
    BY <1>2, RowGrows DEF ProfileRow
  <2>. QED BY <1>1, <2>1, RowStays DEF Moves, ConfigurationTypeOK
<1>5. /\ Profiles' = Profiles /\ profiles'[q] = row
      /\ \A r \in Profiles : r # q => profiles'[r] = profiles[r]
      /\ Families' = Families /\ Pools' = Pools /\ Keys' = Keys /\ attemptsOf' = attemptsOf
  BY <1>1, <1>2 DEF Families, Pools, Profiles, Keys, There, ConfigurationTypeOK, work
<1>6. ReferencesHold'
  BY <1>1, <1>5, ReferencesGrow
<1>7. RowsClosed'
  BY <1>1, <1>5 DEF RowsClosed
<1>. QED BY <1>1, <1>3, <1>4, <1>6, <1>7, CommitStep DEF ConfigurationTypeOK

\* Updates of rows.
LEMMA UpdateInvariant ==
  ASSUME ConfigurationInv, NEW a \in Administrator, Update(a)
  PROVE  ConfigurationInv'
<1>. DEFINE q == admin[a]
            row == RowOf(q.table, q.id)
            next == Patched(row, q.patch)
<1>1. /\ Named(q) /\ q.patch \in Patch
      /\ q.patch = [set |-> "enabled", to |-> TRUE] => NotArchived(row, q.revision)
  BY DEF ConfigurationInv, RequestTrue, Update
<1>2. There(row) /\ row.revision = q.revision /\ Commits /\ Done(a) /\ UNCHANGED <<keys, defaultsRevision, work>>
  BY DEF Update, Same
<1>3. q.patch = [set |-> "enabled", to |-> TRUE] => ~row.archived
  BY <1>1, <1>2 DEF NotArchived, There
<1>4. ConfigurationTypeOK /\ RowsClosed
  BY ItemsByTable DEF ConfigurationInv
<1>5. CASE q.table = "families" /\ families' = [families EXCEPT ![q.id] = Patched(@, q.patch)]
           /\ UNCHANGED <<pools, profiles>>
  <2>1. row = families[q.id] /\ q.id \in Family
    BY <1>1, <1>5 DEF RowOf, Named
  <2>2. q.id \in Families /\ row \in FamilyRow
    BY <1>2, <1>4, <2>1, Rows DEF Families
  <2>3. ~(row.archived /\ row.enabled)
    BY <1>4, <2>1, <2>2 DEF RowsClosed
  <2>4. ~(next.archived /\ next.enabled)
    BY <1>1, <1>3, <2>2, <2>3, PatchedCloses
  <2>5. next \in FamilyRow /\ next.default = row.default /\ next.revision = row.revision + 1
    BY <1>1, <2>2, PatchedFamily
  <2>6. families' = [families EXCEPT ![q.id] = next]
    BY <1>5, <2>1
  <2>. QED BY <1>2, <1>5, <2>1, <2>2, <2>4, <2>5, <2>6, FamilyChanges
<1>6. CASE q.table = "pools" /\ pools' = [pools EXCEPT ![q.id] = Patched(@, q.patch)]
           /\ UNCHANGED <<families, profiles>>
  <2>1. row = pools[q.id] /\ q.id \in Pool
    BY <1>1, <1>6 DEF RowOf, Named
  <2>2. q.id \in Pools /\ row \in PoolRow
    BY <1>2, <1>4, <2>1, Rows DEF Pools
  <2>3. ~(row.archived /\ row.enabled)
    BY <1>4, <2>1, <2>2 DEF RowsClosed
  <2>4. ~(next.archived /\ next.enabled)
    BY <1>1, <1>3, <2>2, <2>3, PatchedCloses
  <2>5. next \in PoolRow /\ next.owner = row.owner /\ next.revision = row.revision + 1
    BY <1>1, <2>2, PatchedPool
  <2>6. pools' = [pools EXCEPT ![q.id] = next]
    BY <1>6, <2>1
  <2>. QED BY <1>2, <1>6, <2>1, <2>2, <2>4, <2>5, <2>6, PoolChanges
<1>7. CASE q.table = "profiles" /\ profiles' = [profiles EXCEPT ![q.id] = Patched(@, q.patch)]
           /\ UNCHANGED <<families, pools>>
  <2>1. row = profiles[q.id] /\ q.id \in Profile
    BY <1>1, <1>7 DEF RowOf, Named
  <2>2. q.id \in Profiles /\ row \in ProfileRow
    BY <1>2, <1>4, <2>1, Rows DEF Profiles
  <2>3. ~(row.archived /\ row.enabled)
    BY <1>4, <2>1, <2>2 DEF RowsClosed
  <2>4. ~(next.archived /\ next.enabled)
    BY <1>1, <1>3, <2>2, <2>3, PatchedCloses
  <2>5. /\ next \in ProfileRow /\ next.family = row.family /\ next.pool = row.pool
        /\ next.revision = row.revision + 1
    BY <1>1, <2>2, PatchedProfile
  <2>6. profiles' = [profiles EXCEPT ![q.id] = next]
    BY <1>7, <2>1
  <2>. QED BY <1>2, <1>7, <2>1, <2>2, <2>4, <2>5, <2>6, ProfileChanges
<1>. QED BY <1>5, <1>6, <1>7 DEF Update

\* A family's default profile is set.
LEMMA SetDefaultInvariant ==
  ASSUME ConfigurationInv, NEW a \in Administrator, SetDefault(a)
  PROVE  ConfigurationInv'
<1>. DEFINE f == admin[a].id
            q == admin[a].default
            row == [Bump(families[f]) EXCEPT !.default = q]
<1>1. f \in Family /\ q \in Profile
  BY DEF ConfigurationInv, RequestTrue, SetDefault
<1>2. /\ Commits /\ There(families[f]) /\ q \in Profiles /\ profiles[q].family = f
      /\ families' = [families EXCEPT ![f] = row] /\ Done(a)
      /\ UNCHANGED <<pools, profiles, keys, defaultsRevision, work>>
  BY DEF SetDefault, Same, MayBeDefault
<1>3. ConfigurationTypeOK /\ RowsClosed
  BY ItemsByTable DEF ConfigurationInv
<1>4. f \in Families /\ families[f] \in FamilyRow
  BY <1>1, <1>2, <1>3, Rows DEF Families
<1>5. /\ Bump(families[f]) \in FamilyRow /\ Bump(families[f]).revision = families[f].revision + 1
      /\ Bump(families[f]).archived = families[f].archived
      /\ Bump(families[f]).enabled = families[f].enabled
  BY <1>4 DEF Bump, FamilyRow
<1>. HIDE DEF Bump
<1>6. /\ row \in FamilyRow /\ row.revision = families[f].revision + 1 /\ row.default = q
      /\ row.archived = families[f].archived /\ row.enabled = families[f].enabled
  BY <1>1, <1>5 DEF FamilyRow
<1>7. ~(row.archived /\ row.enabled)
  BY <1>3, <1>4, <1>6 DEF RowsClosed
<1>. HIDE DEF row, f, q
<1>. QED BY <1>2, <1>4, <1>6, <1>7, FamilyChanges

\* A schema change grows the revision of its pool.
LEMMA SchemaChangeInvariant ==
  ASSUME ConfigurationInv, NEW p \in Pool, SchemaChange(p)
  PROVE  ConfigurationInv'
<1>. DEFINE row == [Bump(pools[p]) EXCEPT !.ready = ~pools[p].ready]
<1>1. /\ Commits /\ p \in Pools /\ pools' = [pools EXCEPT ![p] = row]
      /\ UNCHANGED <<families, profiles, keys, defaultsRevision, work, admin>>
  BY DEF SchemaChange
<1>2. ConfigurationTypeOK /\ RowsClosed
  BY ItemsByTable DEF ConfigurationInv
<1>3. pools[p] \in PoolRow
  BY <1>1, <1>2, Rows DEF Pools
<1>4. /\ Bump(pools[p]) \in PoolRow /\ Bump(pools[p]).revision = pools[p].revision + 1
      /\ Bump(pools[p]).archived = pools[p].archived /\ Bump(pools[p]).enabled = pools[p].enabled
      /\ Bump(pools[p]).owner = pools[p].owner
  BY <1>3 DEF Bump, PoolRow
<1>. HIDE DEF Bump
<1>5. /\ row \in PoolRow /\ row.revision = pools[p].revision + 1 /\ row.owner = pools[p].owner
      /\ row.archived = pools[p].archived /\ row.enabled = pools[p].enabled
  BY <1>4 DEF PoolRow
<1>6. ~(row.archived /\ row.enabled)
  BY <1>1, <1>2, <1>5 DEF RowsClosed
<1>. HIDE DEF row
<1>. QED BY <1>1, <1>5, <1>6, PoolChanges

-----------------------------------------------------------------------------
(* What changes the other tables.                                          *)
LEMMA OtherTables ==
  ASSUME ConfigurationInv, Commits, UNCHANGED <<families, pools, profiles, work, admin>>,
         defaultsRevision' \in Nat \ {0}, keys' \in [Key -> KeyRow \cup {Absent, Deleted}],
         \A k \in Keys' :
           (k \in Keys /\ keys'[k].family = keys[k].family) \/ keys'[k].family \in Families
  PROVE  ConfigurationInv'
<1>1. ConfigurationTypeOK /\ ReferencesHold /\ RowsClosed
  BY ItemsByTable DEF ConfigurationInv
<1>2. Families' = Families /\ Pools' = Pools /\ Profiles' = Profiles /\ attemptsOf' = attemptsOf
  BY DEF Families, Pools, Profiles, work
<1>3. Moves
  BY RowStays DEF Moves
<1>4. ReferencesHold'
  BY <1>1, <1>2, ReferencesGrow
<1>5. RowsClosed'
  BY <1>1, <1>2 DEF RowsClosed
<1>. QED BY <1>1, <1>3, <1>4, <1>5, CommitStep DEF ConfigurationTypeOK

\* The defaults of the installation change.
LEMMA SetDefaultsInvariant ==
  ASSUME ConfigurationInv, SetDefaults
  PROVE  ConfigurationInv'
<1>1. ConfigurationTypeOK
  BY DEF ConfigurationInv
<1>2. /\ defaultsRevision' \in Nat \ {0} /\ keys' \in [Key -> KeyRow \cup {Absent, Deleted}]
      /\ Keys' = Keys /\ keys' = keys
  BY <1>1 DEF SetDefaults, ConfigurationTypeOK, Keys
<1>. QED BY <1>2, OtherTables DEF SetDefaults

\* Keys are created, revoked and rotated.
LEMMA KeysInvariant ==
  ASSUME ConfigurationInv,
         \/ \E k \in Key, f \in Family : CreateKey(k, f)
         \/ \E k \in Key, status \in {"soft_revoked", "hard_revoked"} : Revoke(k, status)
         \/ \E k, new \in Key : Rotate(k, new)
  PROVE  ConfigurationInv'
<1>1. ConfigurationTypeOK /\ ReferencesHold
  BY DEF ConfigurationInv
<1>2. keys \in [Key -> KeyRow \cup {Absent, Deleted}] /\ defaultsRevision \in Nat \ {0}
  BY <1>1 DEF ConfigurationTypeOK
<1>3. ASSUME NEW k \in Key, NEW f \in Family, CreateKey(k, f) PROVE ConfigurationInv'
  <2>1. /\ keys' = [keys EXCEPT ![k] = [family |-> f, status |-> "active"]] /\ f \in Families
    BY <1>3 DEF CreateKey
  <2>2. [family |-> f, status |-> "active"] \in KeyRow
    BY DEF KeyRow
  <2>3. keys' \in [Key -> KeyRow \cup {Absent, Deleted}]
    BY <1>2, <2>1, <2>2
  <2>4. \A l \in Keys' :
          (l \in Keys /\ keys'[l].family = keys[l].family) \/ keys'[l].family \in Families
    BY <1>2, <2>1 DEF Keys, There
  <2>. QED BY <1>2, <1>3, <2>3, <2>4, OtherTables DEF CreateKey
<1>4. ASSUME NEW k \in Key, NEW status \in {"soft_revoked", "hard_revoked"}, Revoke(k, status)
      PROVE  ConfigurationInv'
  <2>1. k \in Keys /\ keys' = [keys EXCEPT ![k].status = status]
    BY <1>4 DEF Revoke
  <2>2. keys[k] \in KeyRow
    BY <1>1, <2>1, Rows DEF Keys
  <2>3. [keys[k] EXCEPT !.status = status] \in KeyRow
        /\ [keys[k] EXCEPT !.status = status].family = keys[k].family
    BY <2>2 DEF KeyRow
  <2>4. keys' = [keys EXCEPT ![k] = [keys[k] EXCEPT !.status = status]]
    BY <2>1
  <2>5. keys' \in [Key -> KeyRow \cup {Absent, Deleted}]
    BY <1>2, <2>3, <2>4
  <2>6. \A l \in Keys' :
          (l \in Keys /\ keys'[l].family = keys[l].family) \/ keys'[l].family \in Families
    BY <1>2, <2>1, <2>3, <2>4 DEF Keys, There
  <2>. QED BY <1>2, <1>4, <2>5, <2>6, OtherTables DEF Revoke
<1>5. ASSUME NEW k \in Key, NEW new \in Key, Rotate(k, new) PROVE ConfigurationInv'
  <2>. DEFINE status == IF keys[k].status = "hard_revoked" THEN keys[k].status ELSE "soft_revoked"
              old == [keys[k] EXCEPT !.status = status]
              fresh == [family |-> keys[k].family, status |-> "active"]
  <2>1. k \in Keys /\ keys[new] = Absent /\ keys[k].family \in Families /\ k # new
    BY <1>5 DEF Rotate, NewId, Keys, There
  <2>2. keys[k] \in KeyRow
    BY <1>1, <2>1, Rows DEF Keys
  <2>3. old \in KeyRow /\ old.family = keys[k].family /\ fresh \in KeyRow /\ fresh.family = keys[k].family
    BY <2>2 DEF KeyRow
  <2>4. keys' = [keys EXCEPT ![new] = fresh, ![k] = old]
    BY <1>5, <2>1 DEF Rotate
  <2>. HIDE DEF old, fresh
  <2>5. keys' \in [Key -> KeyRow \cup {Absent, Deleted}]
    BY <1>2, <2>3, <2>4
  <2>6. keys'[k] = old /\ keys'[new] = fresh /\ \A l \in Key \ {k, new} : keys'[l] = keys[l]
    BY <1>2, <2>1, <2>4
  <2>7. \A l \in Keys' :
          (l \in Keys /\ keys'[l].family = keys[l].family) \/ keys'[l].family \in Families
    BY <1>2, <2>1, <2>3, <2>6 DEF Keys, There
  <2>. QED BY <1>2, <1>5, <2>5, <2>7, OtherTables DEF Rotate
<1>. QED BY <1>3, <1>4, <1>5

-----------------------------------------------------------------------------
(* Removal.                                                                *)

\* What a removal leaves behind refers to nothing that it takes along.
LEMMA RemoveInvariant ==
  ASSUME ConfigurationInv, NEW a \in Administrator, Remove(a)
  PROVE  ConfigurationInv'
<1>. DEFINE q == admin[a]
            gone == Scope(q.table, q.id)
            losing == {f \in Families : families[f].default \in gone}
            left(f) == [Bump(families[f]) EXCEPT !.default = Absent]
<1>1. ConfigurationTypeOK /\ ReferencesHold /\ RowsClosed /\ Named(q)
  BY ItemsByTable DEF ConfigurationInv, RequestTrue, Remove
<1>2. /\ Commits /\ ~Blocked(q.table, q.id) /\ Done(a) /\ UNCHANGED <<defaultsRevision, work>>
      /\ families' = [f \in Family |->
           IF q.table = "families" /\ f = q.id THEN Deleted
           ELSE IF f \in losing THEN left(f) ELSE families[f]]
      /\ profiles' = [r \in Profile |-> IF r \in gone THEN Deleted ELSE profiles[r]]
      /\ pools' = [p \in Pool |-> IF q.table = "pools" /\ p = q.id THEN Deleted ELSE pools[p]]
      /\ keys' = [k \in Key |->
           IF k \in Keys /\ q.table = "families" /\ keys[k].family = q.id THEN Deleted ELSE keys[k]]
  BY Zenon DEF Remove, Confirmed
<1>3. gone \subseteq Profiles
  BY <1>1 DEF Scope, Named
<1>4. ASSUME NEW f \in losing
      PROVE  /\ left(f) \in FamilyRow /\ left(f).revision = families[f].revision + 1
             /\ left(f).default = Absent /\ left(f).archived = families[f].archived
             /\ left(f).enabled = families[f].enabled /\ There(left(f))
             /\ families[f].revision \in Nat /\ There(families[f])
  <2>1. families[f] \in FamilyRow /\ There(families[f])
    BY <1>1, Rows DEF Families
  <2>2. /\ Bump(families[f]) \in FamilyRow /\ Bump(families[f]).revision = families[f].revision + 1
        /\ Bump(families[f]).archived = families[f].archived
        /\ Bump(families[f]).enabled = families[f].enabled
    BY <2>1 DEF Bump, FamilyRow
  <2>. HIDE DEF Bump
  <2>3. /\ left(f) \in FamilyRow /\ left(f).revision = families[f].revision + 1
        /\ left(f).default = Absent /\ left(f).archived = families[f].archived
        /\ left(f).enabled = families[f].enabled
    BY <2>2 DEF FamilyRow
  <2>. QED BY <2>1, <2>3, RowsAreThere DEF FamilyRow
<1>. HIDE DEF gone, left
<1>5. /\ families' \in [Family -> FamilyRow \cup {Absent, Deleted}]
      /\ pools' \in [Pool -> PoolRow \cup {Absent, Deleted}]
      /\ profiles' \in [Profile -> ProfileRow \cup {Absent, Deleted}]
      /\ keys' \in [Key -> KeyRow \cup {Absent, Deleted}]
  BY <1>1, <1>2, <1>4 DEF ConfigurationTypeOK
<1>6. Moves
  <2>1. \A f \in Family : Moved(families[f], families'[f])
    BY <1>2, <1>4, RowStays, RowGrows, RowGoes
  <2>2. \A p \in Pool : Moved(pools[p], pools'[p])
    BY <1>2, RowStays, RowGoes
  <2>3. \A r \in Profile : Moved(profiles[r], profiles'[r])
    BY <1>2, RowStays, RowGoes
  <2>. QED BY <2>1, <2>2, <2>3 DEF Moves
<1>7. Families' = {f \in Families : ~(q.table = "families" /\ f = q.id)}
      /\ \A f \in Families' : families'[f] = IF f \in losing THEN left(f) ELSE families[f]
  <2>1. ASSUME NEW f \in Family PROVE f \in Families' <=> f \in Families /\ ~(q.table = "families" /\ f = q.id)
    BY <1>2, <1>4 DEF Families, There
  <2>2. ASSUME NEW f \in Families' PROVE families'[f] = IF f \in losing THEN left(f) ELSE families[f]
    BY <1>2 DEF Families, There
  <2>. QED BY <2>1, <2>2 DEF Families
<1>8. Pools' = {p \in Pools : ~(q.table = "pools" /\ p = q.id)} /\ \A p \in Pools' : pools'[p] = pools[p]
  BY <1>2 DEF Pools, There
<1>9. Profiles' = Profiles \ gone /\ \A r \in Profiles' : profiles'[r] = profiles[r]
  BY <1>2 DEF Profiles, There
<1>10. Keys' = {k \in Keys : ~(q.table = "families" /\ keys[k].family = q.id)}
       /\ \A k \in Keys' : keys'[k] = keys[k]
  BY <1>2 DEF Keys, There
<1>11. attemptsOf' = attemptsOf
  BY <1>2 DEF work
<1>12. ReferencesHold'
  <2>1. ASSUME NEW r \in Profiles' PROVE profiles'[r].pool \in Pools' /\ profiles'[r].family \in Families'
    <3>1. profiles[r].pool \in Pools /\ profiles[r].family \in Families /\ r \in Profiles /\ r \notin gone
      BY <1>1, <1>9 DEF ReferencesHold
    <3>2. q.table = "pools" => profiles[r].pool # q.id
      BY <3>1 DEF Scope, gone
    <3>3. q.table = "families" => profiles[r].family # q.id
      BY <1>2, <3>1 DEF Blocked
    <3>. QED BY <1>7, <1>8, <1>9, <3>1, <3>2, <3>3
  <2>2. ASSUME NEW p \in Pools' PROVE pools'[p].owner \in Families'
    <3>1. p \in Pools /\ pools[p].owner \in Families
      BY <1>1, <1>8 DEF ReferencesHold
    <3>2. q.table = "families" => pools[p].owner # q.id
      BY <1>2, <3>1 DEF Blocked
    <3>. QED BY <1>7, <1>8, <3>1, <3>2
  <2>3. ASSUME NEW f \in Families', families'[f].default # Absent
        PROVE  families'[f].default \in Profiles' /\ profiles'[families'[f].default].family = f
    <3>1. f \in Families /\ f \notin losing /\ families'[f] = families[f]
      BY <1>4, <1>7, <2>3
    <3>2. families[f].default \in Profiles /\ profiles[families[f].default].family = f
      BY <1>1, <2>3, <3>1 DEF ReferencesHold
    <3>. QED BY <1>9, <3>1, <3>2
  <2>4. ASSUME NEW attempt \in attemptsOf'
        PROVE  attempt[1] \in Profiles' /\ attempt[2] \in Pools' /\ attempt[3] \in Families'
    <3>1. attempt \in attemptsOf /\ attempt[1] \in Profiles /\ attempt[2] \in Pools /\ attempt[3] \in Families
      BY <1>1, <1>11 DEF ReferencesHold
    <3>2. /\ attempt[1] \notin gone
          /\ q.table = "pools" => attempt[2] # q.id
          /\ q.table = "families" => attempt[3] # q.id
      BY <1>2, <3>1 DEF Blocked, gone
    <3>. QED BY <1>7, <1>8, <1>9, <3>1, <3>2
  <2>5. ASSUME NEW k \in Keys' PROVE keys'[k].family \in Families'
    <3>1. k \in Keys /\ keys[k].family \in Families /\ ~(q.table = "families" /\ keys[k].family = q.id)
          /\ keys'[k] = keys[k]
      BY <1>1, <1>10 DEF ReferencesHold
    <3>. QED BY <1>7, <3>1
  <2>. QED BY <2>1, <2>2, <2>3, <2>4, <2>5 DEF ReferencesHold
<1>13. RowsClosed'
  <2>1. \A f \in Families' : ~(families'[f].archived /\ families'[f].enabled)
    BY <1>1, <1>4, <1>7 DEF RowsClosed
  <2>2. \A p \in Pools' : ~(pools'[p].archived /\ pools'[p].enabled)
    BY <1>1, <1>8 DEF RowsClosed
  <2>3. \A r \in Profiles' : ~(profiles'[r].archived /\ profiles'[r].enabled)
    BY <1>1, <1>9 DEF RowsClosed
  <2>. QED BY <2>1, <2>2, <2>3 DEF RowsClosed
<1>14. defaultsRevision' \in Nat \ {0}
  BY <1>1, <1>2 DEF ConfigurationTypeOK
<1>. QED BY <1>2, <1>5, <1>6, <1>12, <1>13, <1>14, CommitStep

-----------------------------------------------------------------------------
\* Every step keeps the invariant,
LEMMA NextInvariant ==
  ConfigurationInv /\ [ConfigurationNext]_configurationVars => ConfigurationInv'
<1>1. SUFFICES ASSUME ConfigurationInv, [ConfigurationNext]_configurationVars PROVE ConfigurationInv'
  OBVIOUS
<1>2. CASE UNCHANGED configurationVars
  <2>1. UNCHANGED tables /\ UNCHANGED <<tasksOf, attemptsOf, requestsOf, admin, claimant>>
    BY <1>2 DEF configurationVars, tables
  <2>2. ConfigurationTypeOK
    BY <1>1 DEF ConfigurationInv
  <2>. QED BY <1>1, <2>1, <2>2, TablesStay DEF ConfigurationTypeOK
<1>3. CASE \/ \E f \in Family : CreateFamily(f)
           \/ SetDefaults
           \/ \E p \in Pool : SchemaChange(p) \/ AddTasks(p)
           \/ \E q \in Profile : PruneRequests(q)
  BY <1>1, <1>3, CreateFamilyInvariant, SetDefaultsInvariant, SchemaChangeInvariant, WorkInvariant
<1>4. CASE \/ \E k \in Key, f \in Family : CreateKey(k, f)
           \/ \E k \in Key, status \in {"soft_revoked", "hard_revoked"} : Revoke(k, status)
           \/ \E k, new \in Key : Rotate(k, new)
  BY <1>1, <1>4, KeysInvariant
<1>5. ASSUME NEW w \in Claimant,
             \/ \E f \in Family, named \in Profile \cup {Absent} : ResolveRoute(w, f, named)
             \/ ClaimUnder(w) \/ Leave(w)
      PROVE  ConfigurationInv'
  BY <1>1, <1>5, ResolveInvariant, ClaimInvariant
<1>6. ASSUME NEW a \in Administrator,
             \/ \E f \in Family : CreatePoolRead(a, f) \/ \E p \in Pool : CreateProfileRead(a, f, p)
             \/ \E f \in Family, q \in Profile : DefaultRead(a, f, q)
      PROVE  ConfigurationInv'
  BY <1>1, <1>6, ReadsInvariant
<1>7. ASSUME NEW a \in Administrator,
             \E i \in Items : ReviewRemoval(a, i[1], i[2]) \/ \E patch \in Patch : UpdateRead(a, i[1], i[2], patch)
      PROVE  ConfigurationInv'
  BY <1>1, <1>7, FormsInvariant
<1>8. ASSUME NEW a \in Administrator,
             \/ \E p \in Pool, q \in Profile : CreatePool(a, p, q)
             \/ \E q \in Profile : CreateProfile(a, q)
      PROVE  ConfigurationInv'
  BY <1>1, <1>8, CreatePoolInvariant, CreateProfileInvariant
<1>9. ASSUME NEW a \in Administrator,
             Update(a) \/ SetDefault(a) \/ PlanRemoval(a) \/ Remove(a) \/ Refuse(a)
      PROVE  ConfigurationInv'
  BY <1>1, <1>9, UpdateInvariant, SetDefaultInvariant, PlanInvariant, RemoveInvariant
<1>. QED BY <1>1, <1>2, <1>3, <1>4, <1>5, <1>6, <1>7, <1>8, <1>9 DEF ConfigurationNext

\* so it always holds.
LEMMA Configured ==
  ConfigurationSpec => []ConfigurationInv
BY InitInvariant, NextInvariant, PTL DEF ConfigurationSpec

\* A row of the configuration has every field of its table, whoever creates,
\* changes and removes rows at the same time.  (configuration.ts:317)
THEOREM ConfigurationTypes ==
  ConfigurationSpec => []ConfigurationTypeOK
<1>1. ConfigurationInv => ConfigurationTypeOK
  BY DEF ConfigurationInv
<1>. QED BY <1>1, Configured, PTL

\* Nothing refers to a row that is not there, whatever is created and removed at
\* the same time.  (configuration-removal.ts:124)
THEOREM ReferencesAlwaysHold ==
  ConfigurationSpec => []ReferencesHold
<1>1. ConfigurationInv => ReferencesHold
  BY DEF ConfigurationInv
<1>. QED BY <1>1, Configured, PTL

\* An archived item stays disabled, though a form that enables it may have been
\* opened before.  (configuration.ts:317)
THEOREM ArchivedStaysClosed ==
  ConfigurationSpec => []ArchivedIsClosed
<1>1. ConfigurationInv => ArchivedIsClosed
  BY DEF ConfigurationInv
<1>. QED BY <1>1, Configured, PTL

-----------------------------------------------------------------------------
\* A claim is answered by its own commit.
LEMMA AnsweredByCommit ==
  ASSUME ConfigurationInv, [ConfigurationNext]_configurationVars, NEW w \in Claimant,
         claimant[w].phase = "resolved", claimant'[w].phase = "answered"
  PROVE  ClaimUnder(w)
<1>1. claimant' # claimant /\ DOMAIN claimant = Claimant
  BY DEF ConfigurationInv, ConfigurationTypeOK
<1>2. CASE UNCHANGED configurationVars
  BY <1>1, <1>2 DEF configurationVars
<1>3. CASE \E f \in Family : CreateFamily(f)
  BY <1>1, <1>3 DEF CreateFamily, work
<1>4. CASE SetDefaults \/ \E p \in Pool : SchemaChange(p) \/ AddTasks(p)
  BY <1>1, <1>4 DEF SetDefaults, SchemaChange, AddTasks, work
<1>5. CASE \/ \E k \in Key, f \in Family : CreateKey(k, f)
           \/ \E k \in Key, status \in {"soft_revoked", "hard_revoked"} : Revoke(k, status)
           \/ \E k, new \in Key : Rotate(k, new)
           \/ \E q \in Profile : PruneRequests(q)
  BY <1>1, <1>5 DEF CreateKey, Revoke, Rotate, PruneRequests, work
<1>6. ASSUME NEW a \in Administrator,
             \/ \E f \in Family : CreatePoolRead(a, f) \/ \E p \in Pool : CreateProfileRead(a, f, p)
             \/ \E f \in Family, q \in Profile : DefaultRead(a, f, q)
             \/ \E i \in Items : ReviewRemoval(a, i[1], i[2]) \/ \E patch \in Patch : UpdateRead(a, i[1], i[2], patch)
      PROVE  FALSE
  BY <1>1, <1>6 DEF CreatePoolRead, CreateProfileRead, DefaultRead, ReviewRemoval, UpdateRead, Read, work
<1>7. ASSUME NEW a \in Administrator,
             \/ \E p \in Pool, q \in Profile : CreatePool(a, p, q)
             \/ \E q \in Profile : CreateProfile(a, q)
             \/ Update(a) \/ SetDefault(a) \/ PlanRemoval(a) \/ Remove(a) \/ Refuse(a)
      PROVE  FALSE
  BY Zenon, <1>1, <1>7 DEF CreatePool, CreateProfile, Update, SetDefault, PlanRemoval, Remove, Refuse, work
<1>8. ASSUME NEW v \in Claimant, NEW f \in Family, NEW named \in Profile \cup {Absent},
             ResolveRoute(v, f, named)
      PROVE  FALSE
  <2>1. PICK q, view : claimant' = [claimant EXCEPT ![v] =
          [phase |-> "resolved", profile |-> q, named |-> named, view |-> view]]
    BY <1>8 DEF ResolveRoute
  <2>2. CASE v = w
    <3>1. claimant'[w] = [phase |-> "resolved", profile |-> q, named |-> named, view |-> view]
      BY <1>1, <2>1, <2>2
    <3>. QED BY <3>1
  <2>3. CASE v # w
    BY <1>1, <2>1, <2>3
  <2>. QED BY <2>2, <2>3
<1>9. ASSUME NEW v \in Claimant, Leave(v) PROVE FALSE
  <2>1. claimant' = [claimant EXCEPT ![v] = Quiet]
    BY <1>9 DEF Leave
  <2>. QED BY <1>1, <2>1 DEF Quiet
<1>10. ASSUME NEW v \in Claimant, ClaimUnder(v) PROVE ClaimUnder(w)
  <2>1. claimant' = [claimant EXCEPT ![v] = [phase |-> "answered"]]
    BY <1>10 DEF ClaimUnder
  <2>2. v = w
    BY <1>1, <2>1
  <2>. QED BY <1>10, <2>2
<1>. QED BY <1>2, <1>3, <1>4, <1>5, <1>6, <1>7, <1>8, <1>9, <1>10 DEF ConfigurationNext

\* A claim is granted under the configuration of the moment it commits.
\* (broker.ts:56)
THEOREM ClaimsFollowConfiguration ==
  ConfigurationSpec => ClaimFollowsConfiguration
<1>. DEFINE Followed ==
       \A w \in Claimant :
         claimant[w].phase = "resolved" /\ claimant'[w].phase = "answered" =>
           LET q == claimant[w].profile
           IN  /\ q \in Profiles /\ claimant[w].view = View(q)
               /\ claimant[w].named = Absent => families[profiles[q].family].default = q
<1>1. ConfigurationInv /\ [ConfigurationNext]_configurationVars => [Followed]_configurationVars
  <2>1. SUFFICES ASSUME ConfigurationInv, [ConfigurationNext]_configurationVars, NEW w \in Claimant,
                        claimant[w].phase = "resolved", claimant'[w].phase = "answered"
                 PROVE  LET q == claimant[w].profile
                        IN  /\ q \in Profiles /\ claimant[w].view = View(q)
                            /\ claimant[w].named = Absent => families[profiles[q].family].default = q
    OBVIOUS
  <2>. DEFINE q == claimant[w].profile
              view == claimant[w].view
  <2>2. UpToDate(q, view)
    BY <2>1, AnsweredByCommit DEF ClaimUnder
  <2>3. /\ q \in Profiles /\ profiles[q] = view.profile /\ view = View(q)
        /\ families[view.profile.family] = view.family
    BY <2>1, <2>2, ClaimUpToDate
  <2>4. claimant[w].named = Absent => view.family.default = q
    BY <2>1 DEF ConfigurationInv, ClaimTrue
  <2>. QED BY <2>3, <2>4
<1>. QED BY <1>1, Configured, PTL DEF ConfigurationSpec, ClaimFollowsConfiguration

-----------------------------------------------------------------------------
\* Only a removal takes profiles or keys away.
LEMMA OnlyRemovalsTake ==
  ASSUME ConfigurationInv, [ConfigurationNext]_configurationVars,
         \A a \in Administrator : ~Remove(a)
  PROVE  Profiles \subseteq Profiles' /\ Keys \subseteq Keys'
<1>1. ConfigurationTypeOK
  BY DEF ConfigurationInv
<1>2. ASSUME UNCHANGED <<profiles, keys>> PROVE Profiles \subseteq Profiles' /\ Keys \subseteq Keys'
  BY <1>2 DEF Profiles, Keys
<1>3. ASSUME NEW q \in Profile, NEW row \in ProfileRow, profiles' = [profiles EXCEPT ![q] = row],
             UNCHANGED keys
      PROVE  Profiles \subseteq Profiles' /\ Keys \subseteq Keys'
  BY <1>1, <1>3, RowsAreThere DEF Profiles, Keys, ConfigurationTypeOK
<1>4. ASSUME NEW k \in Key, NEW row \in KeyRow, keys' = [keys EXCEPT ![k] = row], UNCHANGED profiles
      PROVE  Profiles \subseteq Profiles' /\ Keys \subseteq Keys'
  BY <1>1, <1>4, RowsAreThere DEF Profiles, Keys, ConfigurationTypeOK
<1>5. CASE UNCHANGED configurationVars
  BY <1>2, <1>5 DEF configurationVars
<1>6. CASE \/ \E f \in Family : CreateFamily(f)
           \/ SetDefaults
           \/ \E p \in Pool : SchemaChange(p) \/ AddTasks(p)
           \/ \E q \in Profile : PruneRequests(q)
  BY <1>2, <1>6 DEF CreateFamily, SetDefaults, SchemaChange, AddTasks, PruneRequests, tables
<1>7. ASSUME NEW k \in Key, NEW f \in Family, CreateKey(k, f)
      PROVE  Profiles \subseteq Profiles' /\ Keys \subseteq Keys'
  <2>1. [family |-> f, status |-> "active"] \in KeyRow
    BY DEF KeyRow
  <2>. QED BY <1>4, <1>7, <2>1 DEF CreateKey
<1>8. ASSUME NEW k \in Key, NEW status \in {"soft_revoked", "hard_revoked"}, Revoke(k, status)
      PROVE  Profiles \subseteq Profiles' /\ Keys \subseteq Keys'
  <2>1. keys[k] \in KeyRow
    BY <1>1, <1>8, Rows DEF Revoke, Keys
  <2>2. [keys[k] EXCEPT !.status = status] \in KeyRow
    BY <2>1 DEF KeyRow
  <2>3. keys' = [keys EXCEPT ![k] = [keys[k] EXCEPT !.status = status]] /\ UNCHANGED profiles
    BY <1>8 DEF Revoke
  <2>. QED BY <1>4, <2>2, <2>3
<1>9. ASSUME NEW k \in Key, NEW new \in Key, Rotate(k, new)
      PROVE  Profiles \subseteq Profiles' /\ Keys \subseteq Keys'
  <2>. DEFINE status == IF keys[k].status = "hard_revoked" THEN keys[k].status ELSE "soft_revoked"
              old == [keys[k] EXCEPT !.status = status]
              fresh == [family |-> keys[k].family, status |-> "active"]
  <2>1. k \in Keys /\ keys[new] = Absent /\ k # new /\ UNCHANGED profiles
    BY <1>9 DEF Rotate, NewId, Keys, There
  <2>2. keys[k] \in KeyRow
    BY <1>1, <2>1, Rows DEF Keys
  <2>3. old \in KeyRow /\ fresh \in KeyRow
    BY <2>2 DEF KeyRow
  <2>4. keys' = [keys EXCEPT ![new] = fresh, ![k] = old]
    BY <1>9, <2>1 DEF Rotate
  <2>. HIDE DEF old, fresh
  <2>5. There(old) /\ There(fresh)
    BY <2>3, RowsAreThere
  <2>6. \A l \in Key : keys'[l] = IF l = k THEN old ELSE IF l = new THEN fresh ELSE keys[l]
    BY <1>1, <2>1, <2>4 DEF ConfigurationTypeOK
  <2>. QED BY <2>1, <2>5, <2>6 DEF Profiles, Keys
<1>10. ASSUME NEW w \in Claimant,
              \/ \E f \in Family, named \in Profile \cup {Absent} : ResolveRoute(w, f, named)
              \/ ClaimUnder(w) \/ Leave(w)
       PROVE  Profiles \subseteq Profiles' /\ Keys \subseteq Keys'
  <2>1. UNCHANGED tables
    BY <1>10 DEF ResolveRoute, ClaimUnder, Leave
  <2>. QED BY <1>2, <2>1 DEF tables
<1>11. ASSUME NEW a \in Administrator,
              \/ \E f \in Family : CreatePoolRead(a, f) \/ \E p \in Pool : CreateProfileRead(a, f, p)
              \/ \E f \in Family, q \in Profile : DefaultRead(a, f, q)
              \/ \E i \in Items : ReviewRemoval(a, i[1], i[2]) \/ \E patch \in Patch : UpdateRead(a, i[1], i[2], patch)
              \/ PlanRemoval(a) \/ Refuse(a)
       PROVE  Profiles \subseteq Profiles' /\ Keys \subseteq Keys'
  <2>1. UNCHANGED tables
    BY Zenon, <1>11 DEF CreatePoolRead, CreateProfileRead, DefaultRead, ReviewRemoval, UpdateRead, Read,
      PlanRemoval, Refuse
  <2>. QED BY <1>2, <2>1 DEF tables
<1>12. ASSUME NEW a \in Administrator, NEW p \in Pool, NEW q \in Profile,
              CreatePool(a, p, q) \/ CreateProfile(a, q)
       PROVE  Profiles \subseteq Profiles' /\ Keys \subseteq Keys'
  <2>1. CASE CreatePool(a, p, q)
    <3>1. admin[a].family \in Family
      BY <2>1 DEF CreatePool, ConfigurationInv, RequestTrue
    <3>2. NewProfile(admin[a].family, p) \in ProfileRow
      BY <3>1, NewRows
    <3>3. profiles' = [profiles EXCEPT ![q] = NewProfile(admin[a].family, p)] /\ UNCHANGED keys
      BY Zenon, <2>1 DEF CreatePool
    <3>. QED BY <1>3, <3>2, <3>3
  <2>2. CASE CreateProfile(a, q)
    <3>1. admin[a].family \in Family /\ admin[a].pool \in Pool
      BY <2>2 DEF CreateProfile, ConfigurationInv, RequestTrue
    <3>2. NewProfile(admin[a].family, admin[a].pool) \in ProfileRow
      BY <3>1, NewRows
    <3>3. profiles' = [profiles EXCEPT ![q] = NewProfile(admin[a].family, admin[a].pool)] /\ UNCHANGED keys
      BY Zenon, <2>2 DEF CreateProfile
    <3>. QED BY <1>3, <3>2, <3>3
  <2>. QED BY <1>12, <2>1, <2>2
<1>13. ASSUME NEW a \in Administrator, SetDefault(a)
       PROVE  Profiles \subseteq Profiles' /\ Keys \subseteq Keys'
  BY <1>2, <1>13 DEF SetDefault
<1>14. ASSUME NEW a \in Administrator, Update(a)
       PROVE  Profiles \subseteq Profiles' /\ Keys \subseteq Keys'
  <2>. DEFINE q == admin[a]
  <2>1. UNCHANGED keys /\ (UNCHANGED profiles \/
          (q.table = "profiles" /\ profiles' = [profiles EXCEPT ![q.id] = Patched(@, q.patch)]))
    BY Zenon, <1>14 DEF Update
  <2>2. CASE q.table = "profiles" /\ profiles' = [profiles EXCEPT ![q.id] = Patched(@, q.patch)]
    <3>1. q.id \in Profile /\ q.patch \in Patch
      BY <1>14, <2>2 DEF Update, ConfigurationInv, RequestTrue, Named
    <3>2. There(profiles[q.id])
      BY <1>14, <2>2 DEF Update, Same, RowOf
    <3>3. Patched(profiles[q.id], q.patch) \in ProfileRow
      BY <1>1, <3>1, <3>2, Rows, PatchedProfile
    <3>. QED BY <1>3, <2>1, <2>2, <3>1, <3>3
  <2>. QED BY <1>2, <2>1, <2>2
<1>. QED
  BY <1>5, <1>6, <1>7, <1>8, <1>9, <1>10, <1>11, <1>12, <1>13, <1>14, ConfigurationAssumption
  DEF ConfigurationNext

\* A removal takes along the profiles and keys that its dialog showed, as they
\* were shown.  (configuration-removal.ts:141)
THEOREM RemovalsTakeWhatWasShown ==
  ConfigurationSpec => RemovesWhatWasShown
<1>. DEFINE Shown ==
       \A a \in Administrator :
         admin[a].phase = "delete" /\ admin'[a] = Quiet =>
           /\ {<<q, profiles[q].revision>> : q \in Profiles \ Profiles'} \subseteq admin[a].shown.profiles
           /\ {<<k, keys[k].status>> : k \in Keys \ Keys'} \subseteq admin[a].shown.keys
<1>1. ConfigurationInv /\ [ConfigurationNext]_configurationVars => [Shown]_configurationVars
  <2>1. SUFFICES ASSUME ConfigurationInv, [ConfigurationNext]_configurationVars,
                        NEW a \in Administrator, admin[a].phase = "delete", admin'[a] = Quiet
                 PROVE  /\ {<<q, profiles[q].revision>> : q \in Profiles \ Profiles'} \subseteq admin[a].shown.profiles
                        /\ {<<k, keys[k].status>> : k \in Keys \ Keys'} \subseteq admin[a].shown.keys
    OBVIOUS
  <2>2. CASE \A b \in Administrator : ~Remove(b)
    <3>1. Profiles \ Profiles' = {} /\ Keys \ Keys' = {}
      BY <2>1, <2>2, OnlyRemovalsTake
    <3>. QED BY <3>1
  <2>3. ASSUME NEW b \in Administrator, Remove(b), b # a PROVE FALSE
    <3>1. admin' = [admin EXCEPT ![b] = Quiet] /\ DOMAIN admin = Administrator
      BY Zenon, <2>1, <2>3 DEF Remove, Done, ConfigurationInv, ConfigurationTypeOK
    <3>2. admin'[a] = admin[a]
      BY <2>3, <3>1
    <3>. QED BY <2>1, <3>2 DEF Quiet
  <2>4. CASE Remove(a)
    <3>. DEFINE d == admin[a]
                gone == Scope(d.table, d.id)
    <3>1. /\ Dependencies(d.table, d.id) = d.shown
          /\ profiles' = [r \in Profile |-> IF r \in gone THEN Deleted ELSE profiles[r]]
          /\ keys' = [k \in Key |->
               IF k \in Keys /\ d.table = "families" /\ keys[k].family = d.id THEN Deleted ELSE keys[k]]
      BY Zenon, <2>4 DEF Remove, Confirmed
    <3>2. Profiles \ Profiles' \subseteq gone
      BY <3>1 DEF Profiles
    <3>3. Keys \ Keys' \subseteq {l \in Keys : d.table = "families" /\ keys[l].family = d.id}
      BY <3>1 DEF Keys
    <3>4. /\ d.shown.profiles = {<<q, profiles[q].revision>> : q \in gone}
          /\ d.shown.keys = {<<k, keys[k].status>> :
               k \in {l \in Keys : d.table = "families" /\ keys[l].family = d.id}}
      BY <3>1 DEF Dependencies
    <3>. QED BY <3>2, <3>3, <3>4
  <2>. QED BY <2>2, <2>3, <2>4
<1>. QED BY <1>1, Configured, PTL DEF ConfigurationSpec, RemovesWhatWasShown
=============================================================================
