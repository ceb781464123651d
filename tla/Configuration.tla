---------------------------- MODULE Configuration ----------------------------
(***************************************************************************)
(* Families, pools, profiles and keys (configuration.ts), their reviewed   *)
(* removal (configuration-removal.ts), and the claims that follow them.    *)
(*                                                                         *)
(* Administrators and workers read the tables first and write in a batch   *)
(* later, which is guarded by the revisions they read.  What else a patch  *)
(* may change, names, policies, filters and caps, changes as `enabled`     *)
(* does.  The tables' foreign keys are left out but for new keys, which    *)
(* nothing else guards: the references hold by the code's own guards.      *)
(***************************************************************************)
EXTENDS Integers, FiniteSets

CONSTANTS
  Family, Pool, Profile, Key,
  Administrator, Claimant,
  MaxCommits,    \* committed changes of the configuration
  MaxOpen,       \* requests and dialogs in progress
  Absent, Deleted

ASSUME ConfigurationAssumption ==
  /\ Family # {} /\ Pool # {} /\ Profile # {}
  /\ MaxCommits \in Nat /\ Absent # Deleted /\ Absent \notin Profile

VARIABLES
  families, pools, profiles, keys,   \* the tables
  defaultsRevision,   \* config_revision of the installation's row
  tasksOf,            \* pools that have tasks
  attemptsOf,         \* history of claims: <<profile, pool, family>>
  requestsOf,         \* profiles with a claim's receipt not pruned yet
  admin,              \* what each administrator's request has read, or dialog shows
  claimant,           \* what each worker's claim has resolved
  commits             \* how many changes of the configuration there were

configurationVars ==
  <<families, pools, profiles, keys, defaultsRevision, tasksOf, attemptsOf, requestsOf, admin, claimant, commits>>
tables == <<families, pools, profiles, keys, defaultsRevision, commits>>
work == <<tasksOf, attemptsOf, requestsOf, claimant>>

-----------------------------------------------------------------------------
FamilyRow ==
  [revision : Nat \ {0}, enabled : BOOLEAN, archived : BOOLEAN,
   default : Profile \cup {Absent}]
PoolRow ==
  [revision : Nat \ {0}, enabled : BOOLEAN, archived : BOOLEAN,
   owner : Family, ready : BOOLEAN]
ProfileRow ==
  [revision : Nat \ {0}, enabled : BOOLEAN, archived : BOOLEAN,
   family : Family, pool : Pool]
KeyRow == [family : Family, status : {"active", "soft_revoked", "hard_revoked"}]

ASSUME AbsentAssumption ==
  {Absent, Deleted} \cap (FamilyRow \cup PoolRow \cup ProfileRow \cup KeyRow) = {}

Quiet == [phase |-> "idle"]

ConfigurationTypeOK ==
  /\ families \in [Family -> FamilyRow \cup {Absent, Deleted}]
  /\ pools \in [Pool -> PoolRow \cup {Absent, Deleted}]
  /\ profiles \in [Profile -> ProfileRow \cup {Absent, Deleted}]
  /\ keys \in [Key -> KeyRow \cup {Absent, Deleted}]
  /\ defaultsRevision \in Nat \ {0}
  /\ tasksOf \subseteq Pool /\ attemptsOf \subseteq Profile \X Pool \X Family /\ requestsOf \subseteq Profile
  /\ commits \in 0 .. MaxCommits
  /\ DOMAIN admin = Administrator /\ DOMAIN claimant = Claimant

There(row) == row \notin {Absent, Deleted}
Families == {f \in Family : There(families[f])}
Pools == {p \in Pool : There(pools[p])}
Profiles == {q \in Profile : There(profiles[q])}
Keys == {k \in Key : There(keys[k])}

NewFamily == [revision |-> 1, enabled |-> TRUE, archived |-> FALSE, default |-> Absent]
NewPool(f) == [revision |-> 1, enabled |-> TRUE, archived |-> FALSE, owner |-> f, ready |-> TRUE]
NewProfile(f, p) == [revision |-> 1, enabled |-> TRUE, archived |-> FALSE, family |-> f, pool |-> p]

\* Bound of the model: new rows take their ids in one order.
First(ids) == CHOOSE id \in ids : TRUE
NewId(table, id) == table[id] = Absent /\ id = First({other \in DOMAIN table : table[other] = Absent})

\* A new installation with its first family, and with a key it had or a pool.
ConfigurationInit ==
  /\ LET f == First(Family)  p == First(Pool)  q == First(Profile)
     IN
       \/ /\ families = [g \in Family |-> IF g = f THEN NewFamily ELSE Absent]
          /\ pools = [x \in Pool |-> Absent] /\ profiles = [r \in Profile |-> Absent]
          /\ keys = [k \in Key |->
               IF k = First(Key) THEN [family |-> f, status |-> "hard_revoked"] ELSE Absent]
       \/ /\ families = [g \in Family |->
               IF g = f THEN [NewFamily EXCEPT !.revision = 2, !.default = q] ELSE Absent]
          /\ pools = [x \in Pool |-> IF x = p THEN NewPool(f) ELSE Absent]
          /\ profiles = [r \in Profile |-> IF r = q THEN NewProfile(f, p) ELSE Absent]
          /\ keys = [k \in Key |-> Absent]
  /\ defaultsRevision = 1
  /\ tasksOf = {} /\ attemptsOf = {} /\ requestsOf = {} /\ commits = 0
  /\ admin = [a \in Administrator |-> Quiet]
  /\ claimant = [w \in Claimant |-> Quiet]

-----------------------------------------------------------------------------
(* Requests of administrators: Read remembers what a handler found, and    *)
(* its batch commits under the guards.                                     *)

\* Bound of the model: requests and dialogs in progress.
Room == Cardinality({a \in Administrator : admin[a] # Quiet} \cup {w \in Claimant : claimant[w] # Quiet}) < MaxOpen

Vacant(a) == admin[a] = Quiet /\ Room

Read(a, request) ==
  /\ admin' = [admin EXCEPT ![a] = request]
  /\ UNCHANGED <<tables, work>>

Done(a) == admin' = [admin EXCEPT ![a] = Quiet]

\* A handler refuses, or its batch does.
Refuse(a) ==
  /\ admin[a] # Quiet /\ Done(a)
  /\ UNCHANGED <<tables, work>>

\* Bound of the model: committed changes.
Commits == commits < MaxCommits /\ commits' = commits + 1

\* configGuard: the row is there with the revision read.
Same(row, revision) == There(row) /\ row.revision = revision
Bump(row) == [row EXCEPT !.revision = @ + 1]

CreateFamily(f) ==
  /\ Commits
  /\ NewId(families, f)
  /\ families' = [families EXCEPT ![f] = NewFamily]
  /\ UNCHANGED <<pools, profiles, keys, defaultsRevision, work, admin>>

CreatePoolRead(a, f) ==
  /\ Vacant(a)
  /\ f \in Families /\ ~families[f].archived
  /\ Read(a, [phase |-> "pool", family |-> f, revision |-> families[f].revision])

\* The pool comes with a profile, which is the family's default if it has none.
CreatePool(a, p, q) ==
  /\ Commits
  /\ admin[a].phase = "pool" /\ NewId(pools, p) /\ NewId(profiles, q)
  /\ LET f == admin[a].family
     IN  /\ Same(families[f], admin[a].revision)
         /\ families' = [families EXCEPT ![f] =
              [Bump(@) EXCEPT !.default = IF families[f].default = Absent THEN q ELSE families[f].default]]
         /\ pools' = [pools EXCEPT ![p] = NewPool(f)]
         /\ profiles' = [profiles EXCEPT ![q] = NewProfile(f, p)]
  /\ Done(a) /\ UNCHANGED <<keys, defaultsRevision, work>>

CreateProfileRead(a, f, p) ==
  /\ Vacant(a)
  /\ f \in Families /\ p \in Pools /\ ~families[f].archived /\ ~pools[p].archived
  /\ Read(a, [phase |-> "profile", family |-> f, revision |-> families[f].revision,
              pool |-> p, poolRevision |-> pools[p].revision])

CreateProfile(a, q) ==
  /\ Commits
  /\ admin[a].phase = "profile" /\ NewId(profiles, q)
  /\ Same(families[admin[a].family], admin[a].revision)
  /\ Same(pools[admin[a].pool], admin[a].poolRevision) /\ pools[admin[a].pool].ready
  /\ profiles' = [profiles EXCEPT ![q] = NewProfile(admin[a].family, admin[a].pool)]
  /\ Done(a) /\ UNCHANGED <<families, pools, keys, defaultsRevision, work>>

-----------------------------------------------------------------------------
(* updateConfiguration: one item of a patch, against the revision that the *)
(* form was opened with.                                                   *)
Patch == {[set |-> "enabled", to |-> TRUE], [set |-> "enabled", to |-> FALSE],
          [set |-> "archived", to |-> TRUE], [set |-> "archived", to |-> FALSE]}

RowOf(table, id) ==
  CASE table = "families" -> families[id] [] table = "pools" -> pools[id] [] table = "profiles" -> profiles[id]

\* Bound of the model: a patch changes the item that the form shows.
UpdateRead(a, table, id, patch) ==
  /\ Vacant(a)
  /\ There(RowOf(table, id)) /\ RowOf(table, id)[patch.set] # patch.to
  /\ patch = [set |-> "enabled", to |-> TRUE] => ~RowOf(table, id).archived
  /\ Read(a, [phase |-> "update", table |-> table, id |-> id, patch |-> patch,
              revision |-> RowOf(table, id).revision])

\* Mutation: archiving an item leaves it enabled.
PatchedAlone(row, patch) ==
  CASE patch.set = "enabled" -> [Bump(row) EXCEPT !.enabled = patch.to]
    [] patch.set = "archived" -> [Bump(row) EXCEPT !.archived = patch.to]

Patched(row, patch) ==
  CASE patch.set = "enabled" -> [Bump(row) EXCEPT !.enabled = patch.to]
    [] patch.set = "archived" -> [Bump(row) EXCEPT !.archived = patch.to, !.enabled = @ /\ ~patch.to]

\* A profile changes only while its pool's contract stands.
Update(a) ==
  LET q == admin[a]
  IN  /\ Commits /\ q.phase = "update"
      /\ Same(RowOf(q.table, q.id), q.revision)
      /\ \/ q.table = "families" /\ families' = [families EXCEPT ![q.id] = Patched(@, q.patch)]
            /\ UNCHANGED <<pools, profiles>>
         \/ q.table = "pools" /\ pools' = [pools EXCEPT ![q.id] = Patched(@, q.patch)]
            /\ UNCHANGED <<families, profiles>>
         \/ q.table = "profiles" /\ pools[profiles[q.id].pool].ready
            /\ profiles' = [profiles EXCEPT ![q.id] = Patched(@, q.patch)]
            /\ UNCHANGED <<families, pools>>
      /\ Done(a) /\ UNCHANGED <<keys, defaultsRevision, work>>

DefaultRead(a, f, q) ==
  /\ Vacant(a)
  /\ f \in Families /\ q \in Profiles \ {families[f].default} /\ profiles[q].family = f
  /\ Read(a, [phase |-> "default", id |-> f, default |-> q, revision |-> families[f].revision])

\* The batch looks again whether the profile is there, and of this family.
MayBeDefault(f, q) == q \in Profiles /\ profiles[q].family = f

SetDefault(a) ==
  LET q == admin[a]
  IN  /\ Commits /\ q.phase = "default"
      /\ Same(families[q.id], q.revision) /\ MayBeDefault(q.id, q.default)
      /\ families' = [families EXCEPT ![q.id] = [Bump(@) EXCEPT !.default = q.default]]
      /\ Done(a) /\ UNCHANGED <<pools, profiles, keys, defaultsRevision, work>>

\* installationAction with settings.
SetDefaults ==
  /\ Commits
  /\ defaultsRevision' = defaultsRevision + 1
  /\ UNCHANGED <<families, pools, profiles, keys, work, admin>>

\* A schema change of the pool begins or is activated (see SchemaMigration).
SchemaChange(p) ==
  /\ Commits
  /\ p \in Pools
  /\ pools' = [pools EXCEPT ![p] = [Bump(@) EXCEPT !.ready = ~pools[p].ready]]
  /\ UNCHANGED <<families, profiles, keys, defaultsRevision, work, admin>>

-----------------------------------------------------------------------------
(* keyAction.  The foreign key is the only guard of a new key.             *)
CreateKey(k, f) ==
  /\ Commits
  /\ NewId(keys, k) /\ f \in Families
  /\ keys' = [keys EXCEPT ![k] = [family |-> f, status |-> "active"]]
  /\ UNCHANGED <<families, pools, profiles, defaultsRevision, work, admin>>

Revoke(k, status) ==
  /\ Commits
  /\ k \in Keys /\ keys[k].status \notin {"hard_revoked", status}
  /\ keys' = [keys EXCEPT ![k].status = status]
  /\ UNCHANGED <<families, pools, profiles, defaultsRevision, work, admin>>

\* Rotation issues a key and soft-revokes the old one.
Rotate(k, new) ==
  /\ Commits
  /\ k \in Keys /\ NewId(keys, new) /\ keys[k].family \in Families
  /\ keys' = [keys EXCEPT ![new] = [family |-> keys[k].family, status |-> "active"],
       ![k].status = IF @ = "hard_revoked" THEN @ ELSE "soft_revoked"]
  /\ UNCHANGED <<families, pools, profiles, defaultsRevision, work, admin>>

-----------------------------------------------------------------------------
(* Removal: a dialog shows what a removal takes along; the removal plans   *)
(* it anew and goes ahead if that is what was shown; its batch asks once   *)
(* more.  Saved views, reviewed operations and imported history block a    *)
(* removal as attempts do.                                                 *)
Scope(table, id) ==
  CASE table = "families" -> {}
    [] table = "pools" -> {q \in Profiles : profiles[q].pool = id}
    [] table = "profiles" -> {id} \cap Profiles

Blocked(table, id) ==
  \/ \E attempt \in attemptsOf :
       \/ attempt[1] \in Scope(table, id)
       \/ table = "pools" /\ attempt[2] = id
       \/ table = "families" /\ attempt[3] = id
  \/ requestsOf \cap Scope(table, id) # {}
  \/ table = "pools" /\ (id \in tasksOf \/ ~pools[id].ready)
  \/ table = "families" /\ \/ \E p \in Pools : pools[p].owner = id
                           \/ \E q \in Profiles : profiles[q].family = id
                           \/ \E k \in Keys : keys[k].family = id /\ keys[k].status # "hard_revoked"

\* What the dependency token is the digest of.
Dependencies(table, id) ==
  [profiles |-> {<<q, profiles[q].revision>> : q \in Scope(table, id)},
   defaults |-> {<<f, families[f].revision>> : f \in {g \in Families : families[g].default \in Scope(table, id)}},
   keys |-> {<<k, keys[k].status>> : k \in {l \in Keys : table = "families" /\ keys[l].family = id}}]

ReviewRemoval(a, table, id) ==
  /\ Vacant(a)
  /\ There(RowOf(table, id)) /\ ~Blocked(table, id)
  /\ Read(a, [phase |-> "shown", table |-> table, id |-> id,
              revision |-> RowOf(table, id).revision, shown |-> Dependencies(table, id)])

\* Mutation: what blocks the removal was looked up for the dialog only.
ConfirmedDependencies(q) == Dependencies(q.table, q.id) = q.shown

\* Mutation: what the removal takes along is not compared with what was shown.
ConfirmedFree(q) == ~Blocked(q.table, q.id)

\* The plan of the removal, and then its batch, find what was shown.
Confirmed(q) == ~Blocked(q.table, q.id) /\ Dependencies(q.table, q.id) = q.shown

PlanRemoval(a) ==
  LET q == admin[a]
  IN  /\ q.phase = "shown" /\ There(RowOf(q.table, q.id)) /\ Confirmed(q)
      /\ admin' = [admin EXCEPT ![a].phase = "delete"]
      /\ UNCHANGED <<tables, work>>

Remove(a) ==
  LET q == admin[a]
      gone == Scope(q.table, q.id)
      losing == {f \in Families : families[f].default \in gone}
  IN  /\ Commits /\ q.phase = "delete" /\ Same(RowOf(q.table, q.id), q.revision) /\ Confirmed(q)
      /\ families' = [f \in Family |->
           IF q.table = "families" /\ f = q.id THEN Deleted
           ELSE IF f \in losing THEN [Bump(families[f]) EXCEPT !.default = Absent] ELSE families[f]]
      /\ profiles' = [r \in Profile |-> IF r \in gone THEN Deleted ELSE profiles[r]]
      /\ pools' = [p \in Pool |-> IF q.table = "pools" /\ p = q.id THEN Deleted ELSE pools[p]]
      /\ keys' = [k \in Key |->
           IF k \in Keys /\ q.table = "families" /\ keys[k].family = q.id THEN Deleted ELSE keys[k]]
      /\ Done(a) /\ UNCHANGED <<defaultsRevision, work>>

-----------------------------------------------------------------------------
(* Claims.  resolveProfile reads the rows of a route at once; the batch of *)
(* the claim is guarded by their four revisions.                           *)
View(q) ==
  [profile |-> profiles[q], pool |-> pools[profiles[q].pool],
   family |-> families[profiles[q].family], defaults |-> defaultsRevision]

\* The route of a family is the route of its default profile.
ResolveRoute(w, f, named) ==
  /\ claimant[w] = Quiet /\ Room /\ f \in Families
  /\ LET q == IF named = Absent THEN families[f].default ELSE named
     IN  /\ q \in Profiles /\ (named # Absent => profiles[q].family = f)
         /\ claimant' = [claimant EXCEPT ![w] = [phase |-> "resolved", profile |-> q, named |-> named, view |-> View(q)]]
  /\ UNCHANGED <<tables, tasksOf, attemptsOf, requestsOf, admin>>

Draining(view) ==
  \/ ~view.profile.enabled \/ ~view.pool.enabled \/ ~view.family.enabled
  \/ view.profile.archived \/ view.family.archived \/ view.pool.archived \/ ~view.pool.ready

\* Mutation: the claim is not guarded by the pool's revision.
CurrentWithoutPool(q, view) ==
  /\ Same(profiles[q], view.profile.revision)
  /\ Same(families[view.profile.family], view.family.revision)
  /\ defaultsRevision = view.defaults

UpToDate(q, view) ==
  /\ Same(profiles[q], view.profile.revision)
  /\ Same(pools[view.profile.pool], view.pool.revision)
  /\ Same(families[view.profile.family], view.family.revision)
  /\ defaultsRevision = view.defaults

ClaimUnder(w) ==
  LET q == claimant[w].profile
      view == claimant[w].view
  IN  /\ claimant[w].phase = "resolved" /\ UpToDate(q, view)
      /\ requestsOf' = requestsOf \cup {q}
      /\ attemptsOf' = IF Draining(view) \/ view.profile.pool \notin tasksOf THEN attemptsOf
                       ELSE attemptsOf \cup {<<q, view.profile.pool, view.profile.family>>}
      /\ claimant' = [claimant EXCEPT ![w] = [phase |-> "answered"]]
      /\ UNCHANGED <<tables, tasksOf, admin>>

\* The answer is read, or the claim is refused.
Leave(w) ==
  /\ claimant[w] # Quiet
  /\ claimant' = [claimant EXCEPT ![w] = Quiet]
  /\ UNCHANGED <<tables, tasksOf, attemptsOf, requestsOf, admin>>

AddTasks(p) ==
  /\ p \in Pools \ tasksOf
  /\ tasksOf' = tasksOf \cup {p}
  /\ UNCHANGED <<tables, attemptsOf, requestsOf, claimant, admin>>

PruneRequests(q) ==
  /\ q \in requestsOf
  /\ requestsOf' = requestsOf \ {q}
  /\ UNCHANGED <<tables, tasksOf, attemptsOf, claimant, admin>>

Items == {<<"families", f>> : f \in Families} \cup {<<"pools", p>> : p \in Pools}
           \cup {<<"profiles", q>> : q \in Profiles}

ConfigurationNext ==
  \/ \E f \in Family : CreateFamily(f)
  \/ \E a \in Administrator :
       \/ \E f \in Family : CreatePoolRead(a, f) \/ \E p \in Pool : CreateProfileRead(a, f, p)
       \/ \E p \in Pool, q \in Profile : CreatePool(a, p, q)
       \/ \E q \in Profile : CreateProfile(a, q)
       \/ \E i \in Items : ReviewRemoval(a, i[1], i[2]) \/ \E patch \in Patch : UpdateRead(a, i[1], i[2], patch)
       \/ Update(a) \/ SetDefault(a) \/ PlanRemoval(a) \/ Remove(a) \/ Refuse(a)
       \/ \E f \in Family, q \in Profile : DefaultRead(a, f, q)
  \/ SetDefaults
  \/ \E p \in Pool : SchemaChange(p) \/ AddTasks(p)
  \/ \E k \in Key, f \in Family : CreateKey(k, f)
  \/ \E k \in Key, status \in {"soft_revoked", "hard_revoked"} : Revoke(k, status)
  \/ \E k, new \in Key : Rotate(k, new)
  \/ \E w \in Claimant :
       \/ \E f \in Family, named \in Profile \cup {Absent} : ResolveRoute(w, f, named)
       \/ ClaimUnder(w) \/ Leave(w)
  \/ \E q \in Profile : PruneRequests(q)

ConfigurationSpec == ConfigurationInit /\ [][ConfigurationNext]_configurationVars

-----------------------------------------------------------------------------
(* Properties.                                                             *)

\* Nothing refers to a row that is not there: profiles to their pool and
\* family, a family to a default profile of its own, attempts, keys and pools
\* to their owners, whatever is created and removed at the same time.
\* (configuration-removal.ts:124)
ReferencesHold ==
  /\ \A q \in Profiles : profiles[q].pool \in Pools /\ profiles[q].family \in Families
  /\ \A p \in Pools : pools[p].owner \in Families
  /\ \A f \in Families : families[f].default # Absent =>
       families[f].default \in Profiles /\ profiles[families[f].default].family = f
  /\ \A attempt \in attemptsOf : attempt[1] \in Profiles /\ attempt[2] \in Pools /\ attempt[3] \in Families
  /\ \A k \in Keys : keys[k].family \in Families

\* What is archived is closed, though the row is read before it is enabled.
\* (configuration.ts:317)
ArchivedIsClosed ==
  \A i \in Items : ~(RowOf(i[1], i[2]).archived /\ RowOf(i[1], i[2]).enabled)

\* A claim decides by the configuration of the moment it commits, not by one
\* that changed since it was read.  (broker.ts:56)
ClaimFollowsConfiguration ==
  [][\A w \in Claimant :
       claimant[w].phase = "resolved" /\ claimant'[w].phase = "answered" =>
         LET q == claimant[w].profile
         IN  /\ q \in Profiles /\ claimant[w].view = View(q)
             /\ claimant[w].named = Absent => families[profiles[q].family].default = q]_configurationVars

\* A removal takes along what its dialog showed, and nothing else: no profile
\* created or changed and no key issued since.  (configuration-removal.ts:141)
RemovesWhatWasShown ==
  [][\A a \in Administrator :
       admin[a].phase = "delete" /\ admin'[a] = Quiet =>
         /\ {<<q, profiles[q].revision>> : q \in Profiles \ Profiles'} \subseteq admin[a].shown.profiles
         /\ {<<k, keys[k].status>> : k \in Keys \ Keys'} \subseteq admin[a].shown.keys]_configurationVars
=============================================================================
