---------------------------- MODULE LeaseBroker ----------------------------
(***************************************************************************)
(* The lease core of the broker: what claim, report, renew, the task       *)
(* changes of an administrator, key revocation, maintenance and epoch      *)
(* activation do to the tables tasks, attempts, lease_heads,               *)
(* task_profile_state, api_keys and installation.                          *)
(*                                                                         *)
(* Every handler ends in one D1 batch, which is a transaction, and every   *)
(* value it read before the batch is rechecked by a guard inside it: a     *)
(* handler that commits is therefore one step, and one that is refused is  *)
(* no step.  Request identities and their receipts are module Receipts;    *)
(* here a worker may call with any attempt it was ever given, at any later *)
(* time, which covers late, reordered and repeated calls.                  *)
(*                                                                         *)
(* A batch of reports, renewals or changes is taken one item at a time:    *)
(* its items are for distinct tasks (broker.ts rejects the others) and an  *)
(* item reads and writes the rows of its own task only.  The tasks of one  *)
(* claim share the capacities, and are taken together.                     *)
(***************************************************************************)
EXTENDS Integers, FiniteSets

CONSTANTS
  Task, Profile, Pool, Family, Worker, Key,
  Caller,           \* who may call: records [profile, worker, key]
  PoolOf,           \* tasks.pool_id
  ProfilePool,      \* profiles.pool_id
  ProfileFamily,    \* profiles.family_id
  Payload,          \* what a report carries beside its outcome
  Change,           \* the administrator's changes, a subset of ChangeType
  NULL

CONSTANTS
  Duration,                       \* lease_seconds a caller may ask for
  MaxLifetime,                    \* policy.max_lifetime_seconds
  ClaimCap,                       \* most tasks of one claim
  WorkerProfileCap, ProfileCap,   \* [Profile -> Nat]
  PoolCap,                        \* [Pool -> Nat]
  WorkerFamilyCap, FamilyCap,     \* [Family -> Nat]
  MaxAttempts,        \* policy.max_attempts: [Profile -> Nat], or NULL for no limit
  TotalAttemptCap     \* pools.total_attempt_cap: [Pool -> Nat], or NULL

\* Bounds of the model, not of the program.
CONSTANTS
  Horizon,          \* no claim after this time
  MaxGeneration,    \* no grant or revocation past this lease_generation
  MaxEpoch          \* no instance epoch after this one

ChangeType ==
  [kind : {"edit", "enable", "disable", "delete", "restore", "revoke",
           "reset", "revoke_edit", "reset_edit"},
   input : BOOLEAN,             \* the patch has data, unset or tags
   limit : {"kept", "inherit", "own"},  \* the patch has max_attempts, and how
   max_attempts : Nat \cup {NULL},
   scope : {"profile", "all"}, profile : Profile,
   mode : {"soft", "full"}, revoke : BOOLEAN]

ASSUME StructureAssumption ==
  /\ Caller \subseteq [profile : Profile, worker : Worker, key : Key]
  /\ PoolOf \in [Task -> Pool]
  /\ ProfilePool \in [Profile -> Pool]
  /\ ProfileFamily \in [Profile -> Family]
  /\ Change \subseteq ChangeType

\* The database holds finitely many tasks.
ASSUME FiniteAssumption == IsFiniteSet(Task)

ASSUME BoundAssumption ==
  /\ Duration \subseteq Nat \ {0}
  /\ MaxLifetime \in Nat \ {0}
  /\ Horizon \in Nat
  /\ MaxGeneration \in Nat
  /\ MaxEpoch \in Nat \ {0}

ASSUME CapAssumption ==
  /\ ClaimCap \in Nat
  /\ WorkerProfileCap \in [Profile -> Nat]
  /\ ProfileCap \in [Profile -> Nat]
  /\ PoolCap \in [Pool -> Nat]
  /\ WorkerFamilyCap \in [Family -> Nat]
  /\ FamilyCap \in [Family -> Nat]
  /\ MaxAttempts \in [Profile -> Nat \cup {NULL}]
  /\ TotalAttemptCap \in [Pool -> Nat \cup {NULL}]

VARIABLES
  now,           \* the database clock
  epoch,         \* installation.active_epoch: every activation brings a new one
  maintenance,   \* installation.maintenance
  keyStatus,     \* api_keys.status
  task,          \* the row of tasks
  attempts,      \* the rows of attempts, by task and attempt_sequence
  head,          \* the row of lease_heads, or NULL
  profileState   \* the rows of task_profile_state

vars == <<now, epoch, maintenance, keyStatus, task, attempts, head, profileState>>

-----------------------------------------------------------------------------
(* The tables. *)

MaxNow == Horizon + MaxLifetime
AttemptNo == 1..MaxGeneration

Outcome == [outcome : {"success", "release", "permanent_failure"},
            payload : Payload]

TaskRow ==
  [enabled : BOOLEAN, deleted : BOOLEAN, completed : BOOLEAN,
   lease_generation : 0..MaxGeneration, input_revision : Nat,
   max_attempts_set : BOOLEAN,  \* the task has a limit of its own
   max_attempts : Nat \cup {NULL},
   latest : 0..MaxGeneration,   \* latest_attempt_id, as its sequence; 0 is null
   attempts_total : Nat,
   result : 0..MaxGeneration]   \* result_attempt_id, likewise

AttemptRow ==
  [by : Caller, epoch : 1..MaxEpoch, lease_generation : 1..MaxGeneration,
   input_revision : Nat, expires_at : 0..MaxNow, maximum_expires_at : 0..MaxNow,
   revoked : BOOLEAN, outcome : Outcome \cup {NULL}]

HeadRow ==
  [attempt : AttemptNo, by : Caller, epoch : 1..MaxEpoch,
   lease_generation : 1..MaxGeneration, expires_at : 0..MaxNow]

ProfileRow == [attempts : Nat, permanent_failure : BOOLEAN]

ASSUME NullAssumption == NULL \notin Nat \cup Outcome \cup AttemptRow \cup HeadRow

-----------------------------------------------------------------------------
(* Leases that count: effectiveHeads of db.ts, and what they use up.  Its   *)
(* join on pools.migration_status holds for every pool of this module; what *)
(* a closed pool does to its leases is module SchemaMigration.              *)

Leased(t) ==
  /\ head[t] # NULL
  /\ head[t].attempt = task[t].latest
  /\ head[t].lease_generation = task[t].lease_generation
  /\ head[t].expires_at > now
  /\ head[t].epoch = epoch
  /\ keyStatus[head[t].by.key] # "hard_revoked"

LeasedByProfile(p) == {t \in Task : Leased(t) /\ head[t].by.profile = p}
LeasedInPool(q) ==
  {t \in Task : Leased(t) /\ ProfilePool[head[t].by.profile] = q}
LeasedByFamily(f) ==
  {t \in Task : Leased(t) /\ ProfileFamily[head[t].by.profile] = f}
HeldByWorker(w) == {t \in Task : Leased(t) /\ head[t].by.worker = w}

-----------------------------------------------------------------------------
(* Claim. *)

AtMost(n, limit) == limit # NULL => n <= limit    \* mutation

Below(n, limit) == limit # NULL => n < limit

\* The limit in force for a profile's attempts: the task's own, or the policy's.
LimitOf(t, p) ==
  IF task[t].max_attempts_set THEN task[t].max_attempts ELSE MaxAttempts[p]

EligibleAgain(c, t) ==    \* mutation
  /\ PoolOf[t] = ProfilePool[c.profile]
  /\ task[t].enabled
  /\ ~profileState[t][c.profile].permanent_failure
  /\ Below(profileState[t][c.profile].attempts, LimitOf(t, c.profile))
  /\ Below(task[t].attempts_total, TotalAttemptCap[PoolOf[t]])
  /\ ~Leased(t)

Eligible(c, t) ==
  /\ PoolOf[t] = ProfilePool[c.profile]
  /\ task[t].enabled
  /\ ~task[t].deleted
  /\ ~task[t].completed
  /\ ~profileState[t][c.profile].permanent_failure
  /\ Below(profileState[t][c.profile].attempts, LimitOf(t, c.profile))
  /\ Below(task[t].attempts_total, TotalAttemptCap[PoolOf[t]])
  /\ ~Leased(t)

RoomForOne(c, n) == /\ n <= ClaimCap    \* mutation
                    /\ Cardinality(LeasedByFamily(ProfileFamily[c.profile])
                                     \cap HeldByWorker(c.worker))
                         < WorkerFamilyCap[ProfileFamily[c.profile]]

\* n more leases for caller c stay within every capacity.
Room(c, n) ==
  LET p == c.profile
      f == ProfileFamily[p]
  IN /\ n <= ClaimCap
     /\ n + Cardinality(LeasedByProfile(p) \cap HeldByWorker(c.worker))
          <= WorkerProfileCap[p]
     /\ n + Cardinality(LeasedByProfile(p)) <= ProfileCap[p]
     /\ n + Cardinality(LeasedInPool(ProfilePool[p])) <= PoolCap[ProfilePool[p]]
     /\ n + Cardinality(LeasedByFamily(f) \cap HeldByWorker(c.worker))
          <= WorkerFamilyCap[f]
     /\ n + Cardinality(LeasedByFamily(f)) <= FamilyCap[f]

\* An attempt without an outcome can no longer have one.
Revoked(a) == IF a.outcome = NULL THEN [a EXCEPT !.revoked = TRUE] ELSE a

RevokeLatest(t) ==
  [n \in AttemptNo |->
     IF n = task[t].latest THEN Revoked(attempts[t][n]) ELSE attempts[t][n]]

Expiry(d) == now + (IF d < MaxLifetime THEN d ELSE MaxLifetime)

NewAttempt(c, t, d) ==
  [by |-> c, epoch |-> epoch,
   lease_generation |-> task[t].lease_generation + 1,
   input_revision |-> task[t].input_revision,
   expires_at |-> Expiry(d), maximum_expires_at |-> now + MaxLifetime,
   revoked |-> FALSE, outcome |-> NULL]

NewHead(c, t, d) ==
  [attempt |-> task[t].latest + 1, by |-> c, epoch |-> epoch,
   lease_generation |-> task[t].lease_generation + 1,
   expires_at |-> Expiry(d)]

GrantedTask(t) ==
  [task[t] EXCEPT !.latest = @ + 1, !.lease_generation = @ + 1,
                  !.attempts_total = @ + 1]

\* Which of the eligible tasks are taken is left open: a claim has filters
\* and an order, and the response may have no room for all of them.
Claim(c, S, d) ==
  /\ ~maintenance
  /\ keyStatus[c.key] = "active"
  /\ now <= Horizon
  /\ \A t \in S : Eligible(c, t) /\ task[t].lease_generation < MaxGeneration
  /\ Room(c, Cardinality(S))
  /\ attempts' = [t \in Task |->
                    IF t \in S
                    THEN [RevokeLatest(t) EXCEPT
                            ![task[t].latest + 1] = NewAttempt(c, t, d)]
                    ELSE attempts[t]]
  /\ task' = [t \in Task |-> IF t \in S THEN GrantedTask(t) ELSE task[t]]
  /\ profileState' = [t \in Task |->
                        IF t \in S
                        THEN [profileState[t] EXCEPT ![c.profile].attempts = @ + 1]
                        ELSE profileState[t]]
  /\ head' = [t \in Task |-> IF t \in S THEN NewHead(c, t, d) ELSE head[t]]
  /\ UNCHANGED <<now, epoch, maintenance, keyStatus>>

-----------------------------------------------------------------------------
(* Report and renew, by the worker that was given attempt n of task t.     *)

FencedOnlyByGrant(t, n) == n # task[t].latest    \* mutation

\* The task has moved on from the attempt.
Fenced(t, n) ==
  \/ attempts[t][n].input_revision # task[t].input_revision
  \/ attempts[t][n].revoked
  \/ n # task[t].latest
  \/ attempts[t][n].lease_generation # task[t].lease_generation

KeyMayReport(a) ==
  \/ keyStatus[a.by.key] = "active"
  \/ keyStatus[a.by.key] = "soft_revoked" /\ a.expires_at > now

MayReportAcrossEpochs(t, n) ==    \* mutation
  /\ KeyMayReport(attempts[t][n])
  /\ attempts[t][n].outcome = NULL
  /\ ~Fenced(t, n)

\* An expired attempt still reports while nothing has superseded it.
MayReport(t, n) ==
  /\ attempts[t][n].epoch = epoch
  /\ KeyMayReport(attempts[t][n])
  /\ attempts[t][n].outcome = NULL
  /\ ~Fenced(t, n)

ReportedTask(t, n, o) ==
  IF o.outcome = "success"
  THEN [task[t] EXCEPT !.completed = TRUE, !.result = n]
  ELSE task[t]

Report(t, n, o) ==
  /\ ~maintenance
  /\ attempts[t][n] # NULL
  /\ MayReport(t, n)
  /\ attempts' = [attempts EXCEPT ![t][n].outcome = o]
  /\ task' = [task EXCEPT ![t] = ReportedTask(t, n, o)]
  /\ profileState' =
       IF o.outcome = "permanent_failure"
       THEN [profileState EXCEPT
               ![t][attempts[t][n].by.profile].permanent_failure = TRUE]
       ELSE profileState
  /\ head' = IF head[t] # NULL /\ head[t].attempt = n
             THEN [head EXCEPT ![t] = NULL]
             ELSE head
  /\ UNCHANGED <<now, epoch, maintenance, keyStatus>>

RenewedPastMaximum(a, d) == now + d    \* mutation

RenewedExpiry(a, d) ==
  LET asked == IF now + d < a.maximum_expires_at
               THEN now + d ELSE a.maximum_expires_at
  IN IF a.expires_at > asked THEN a.expires_at ELSE asked

MayRenewExpired(t, n) ==    \* mutation
  /\ attempts[t][n].epoch = epoch
  /\ keyStatus[attempts[t][n].by.key] = "active"
  /\ ~Fenced(t, n)
  /\ attempts[t][n].outcome = NULL

MayRenew(t, n) ==
  /\ attempts[t][n].epoch = epoch
  /\ keyStatus[attempts[t][n].by.key] = "active"
  /\ ~Fenced(t, n)
  /\ attempts[t][n].outcome = NULL
  /\ attempts[t][n].expires_at > now

RenewedHeadForgotten(t, n, d) == head    \* mutation

RenewedHead(t, n, d) ==
  IF head[t] # NULL /\ head[t].attempt = n
  THEN [head EXCEPT ![t].expires_at = RenewedExpiry(attempts[t][n], d)]
  ELSE head

Renew(t, n, d) ==
  /\ ~maintenance
  /\ attempts[t][n] # NULL
  /\ MayRenew(t, n)
  /\ attempts' = [attempts EXCEPT
                    ![t][n].expires_at = RenewedExpiry(attempts[t][n], d)]
  /\ head' = RenewedHead(t, n, d)
  /\ UNCHANGED <<now, epoch, maintenance, keyStatus, task, profileState>>

-----------------------------------------------------------------------------
(* stageTaskChanges: a change of one task by an administrator, reviewed    *)
(* against the revisions it commits on.                                    *)

Invalidates(ch) ==
  ch.input \/ ch.kind \in {"delete", "reset", "revoke", "revoke_edit", "reset_edit"}

Resets(ch) == ch.kind \in {"reset", "reset_edit"}
ResetsAll(ch) == Resets(ch) /\ ch.scope = "all"

MayChange(t, ch) ==
  /\ Leased(t) /\ Invalidates(ch) => ch.revoke
  /\ task[t].completed /\ ch.input => ch.kind = "reset_edit"

ChangedTask(t, ch) ==
  [task[t] EXCEPT
     !.enabled = CASE ch.kind = "enable" -> TRUE
                   [] ch.kind = "disable" -> FALSE
                   [] OTHER -> @,
     !.deleted = CASE ch.kind = "delete" -> TRUE
                   [] ch.kind = "restore" -> FALSE
                   [] OTHER -> @,
     !.max_attempts_set = IF ch.limit = "kept" THEN @ ELSE ch.limit = "own",
     !.max_attempts = CASE ch.limit = "own" -> ch.max_attempts
                        [] ch.limit = "inherit" -> NULL
                        [] OTHER -> @,
     !.input_revision = IF ch.input THEN @ + 1 ELSE @,
     !.lease_generation = IF Invalidates(ch) THEN @ + 1 ELSE @,
     !.completed = @ /\ ~ResetsAll(ch),
     !.attempts_total = IF ResetsAll(ch) /\ ch.mode = "full" THEN 0 ELSE @,
     !.result = IF ResetsAll(ch) /\ ch.mode = "full" THEN 0 ELSE @]

ResetStateOfOne(t, ch) ==    \* mutation
  [profileState[t] EXCEPT
     ![ch.profile] = IF Resets(ch)
                     THEN [attempts |-> IF ch.mode = "full" THEN 0 ELSE @.attempts,
                           permanent_failure |-> FALSE]
                     ELSE @]

ResetState(t, ch) ==
  [p \in Profile |->
     IF Resets(ch) /\ (ch.scope = "all" \/ p = ch.profile)
     THEN [attempts |-> IF ch.mode = "full" THEN 0 ELSE profileState[t][p].attempts,
           permanent_failure |-> FALSE]
     ELSE profileState[t][p]]

ChangeTask(t, ch) ==
  /\ ~maintenance
  /\ MayChange(t, ch)
  /\ Invalidates(ch) => task[t].lease_generation < MaxGeneration
  /\ task' = [task EXCEPT ![t] = ChangedTask(t, ch)]
  /\ attempts' = IF Invalidates(ch)
                 THEN [attempts EXCEPT ![t] = RevokeLatest(t)]
                 ELSE attempts
  /\ head' = IF Invalidates(ch) THEN [head EXCEPT ![t] = NULL] ELSE head
  /\ profileState' = [profileState EXCEPT ![t] = ResetState(t, ch)]
  /\ UNCHANGED <<now, epoch, maintenance, keyStatus>>

-----------------------------------------------------------------------------
(* Keys and the installation. *)

SoftRevokeAny(k) ==    \* mutation
  /\ ~maintenance
  /\ keyStatus' = [keyStatus EXCEPT ![k] = "soft_revoked"]
  /\ UNCHANGED <<now, epoch, maintenance, task, attempts, head, profileState>>

\* Also the old key's part of a rotation; a hard-revoked key stays so.
SoftRevoke(k) ==
  /\ ~maintenance
  /\ keyStatus[k] # "hard_revoked"
  /\ keyStatus' = [keyStatus EXCEPT ![k] = "soft_revoked"]
  /\ UNCHANGED <<now, epoch, maintenance, task, attempts, head, profileState>>

\* Allowed to the owner in maintenance too.
HardRevoke(k) ==
  /\ keyStatus' = [keyStatus EXCEPT ![k] = "hard_revoked"]
  /\ UNCHANGED <<now, epoch, maintenance, task, attempts, head, profileState>>

SetMaintenance(b) ==
  /\ maintenance' = b
  /\ UNCHANGED <<now, epoch, keyStatus, task, attempts, head, profileState>>

\* A deployment with a new epoch takes over, after a restore for instance.
ActivateEpoch ==
  /\ maintenance
  /\ epoch < MaxEpoch
  /\ epoch' = epoch + 1
  /\ UNCHANGED <<now, maintenance, keyStatus, task, attempts, head, profileState>>

Tick ==
  /\ now < MaxNow
  /\ now' = now + 1
  /\ UNCHANGED <<epoch, maintenance, keyStatus, task, attempts, head, profileState>>

-----------------------------------------------------------------------------
NewTask ==
  [enabled |-> TRUE, deleted |-> FALSE, completed |-> FALSE,
   lease_generation |-> 0, input_revision |-> 1,
   max_attempts_set |-> FALSE, max_attempts |-> NULL, latest |-> 0,
   attempts_total |-> 0, result |-> 0]

Init ==
  /\ now = 0
  /\ epoch = 1
  /\ maintenance = FALSE
  /\ keyStatus = [k \in Key |-> "active"]
  /\ task = [t \in Task |-> NewTask]
  /\ attempts = [t \in Task |-> [n \in AttemptNo |-> NULL]]
  /\ head = [t \in Task |-> NULL]
  /\ profileState = [t \in Task |->
                       [p \in Profile |-> [attempts |-> 0, permanent_failure |-> FALSE]]]

Next ==
  \/ \E c \in Caller, S \in SUBSET Task, d \in Duration : Claim(c, S, d)
  \/ \E t \in Task, n \in AttemptNo, o \in Outcome : Report(t, n, o)
  \/ \E t \in Task, n \in AttemptNo, d \in Duration : Renew(t, n, d)
  \/ \E t \in Task, ch \in Change : ChangeTask(t, ch)
  \/ \E k \in Key : SoftRevoke(k)
  \/ \E k \in Key : HardRevoke(k)
  \/ \E b \in BOOLEAN : SetMaintenance(b)
  \/ ActivateEpoch
  \/ Tick

Spec == Init /\ [][Next]_vars

\* Time passes whatever anyone does; nobody is obliged to call.
FairSpec == Spec /\ WF_vars(Tick)

-----------------------------------------------------------------------------
(* Properties. *)

TypeOK ==
  /\ now \in 0..MaxNow
  /\ epoch \in 1..MaxEpoch
  /\ maintenance \in BOOLEAN
  /\ keyStatus \in [Key -> {"active", "soft_revoked", "hard_revoked"}]
  /\ task \in [Task -> TaskRow]
  /\ attempts \in [Task -> [AttemptNo -> AttemptRow \cup {NULL}]]
  /\ head \in [Task -> HeadRow \cup {NULL}]
  /\ profileState \in [Task -> [Profile -> ProfileRow]]

\* Attempt n may still decide task t: its holder's next report is accepted,
\* if its key has not lost that right by then.
Authority(t, n) ==
  /\ attempts[t][n] # NULL
  /\ attempts[t][n].epoch = epoch
  /\ keyStatus[attempts[t][n].by.key] # "hard_revoked"
  /\ attempts[t][n].outcome = NULL
  /\ n = task[t].latest
  /\ attempts[t][n].lease_generation = task[t].lease_generation

\* The latest attempt has no outcome yet and nothing has fenced it off.
Live(t) ==
  LET n == task[t].latest
  IN /\ n # 0
     /\ attempts[t][n].outcome = NULL
     /\ attempts[t][n].lease_generation = task[t].lease_generation

HeadMatches(t) ==
  LET n == task[t].latest
  IN /\ head[t] # NULL <=> Live(t)
     /\ Live(t) => head[t] =
          [attempt |-> n, by |-> attempts[t][n].by,
           epoch |-> attempts[t][n].epoch,
           lease_generation |-> attempts[t][n].lease_generation,
           expires_at |-> attempts[t][n].expires_at]

\* lease_heads, which claim, recover and every capacity read, says exactly
\* what tasks and attempts say: a task has a head when its latest attempt is
\* live, and the head's columns are that attempt's.  (broker.ts and tasks.ts
\* maintain it in five separate statements.)
HeadIsProjection == \A t \in Task : HeadMatches(t)

ShowsSuccess(t) ==
  /\ task[t].result # 0
  /\ attempts[t][task[t].result].outcome # NULL
  /\ attempts[t][task[t].result].outcome.outcome = "success"

\* A completed task has no attempt that could still decide it, and the result
\* it shows is an accepted success.
CompletedIsSettled ==
  \A t \in Task :
    task[t].completed => /\ \A n \in AttemptNo : ~Authority(t, n)
                         /\ ShowsSuccess(t)

\* An old worker never regains authority: once an attempt was superseded,
\* revoked, finalized, or its key or epoch is gone, no later step gives it the
\* right to decide the task or changes its outcome.
OldWorkerStaysOut ==
  [][\A t \in Task, n \in AttemptNo :
       attempts[t][n] # NULL /\ ~Authority(t, n)
         => /\ ~Authority(t, n)'
            /\ attempts'[t][n].outcome = attempts[t][n].outcome]_vars

\* A lease that stopped counting against the capacities (expired, fenced off,
\* key or epoch gone) never counts again: a renewal cannot bring it back.
DeadLeaseStaysDead ==
  [][\A t \in Task :
       head[t] # NULL /\ ~Leased(t)
         => ~(Leased(t)' /\ task'[t].latest = task[t].latest)]_vars

\* No claim takes a worker, a profile, a pool or a family past its capacity,
\* whichever of the profiles that share a pool or a family the leases came
\* through, and with leases ending by themselves in between.
CapsHold ==
  /\ \A p \in Profile :
       /\ Cardinality(LeasedByProfile(p)) <= ProfileCap[p]
       /\ \A w \in Worker :
            Cardinality(LeasedByProfile(p) \cap HeldByWorker(w)) <= WorkerProfileCap[p]
  /\ \A q \in Pool : Cardinality(LeasedInPool(q)) <= PoolCap[q]
  /\ \A f \in Family :
       /\ Cardinality(LeasedByFamily(f)) <= FamilyCap[f]
       /\ \A w \in Worker :
            Cardinality(LeasedByFamily(f) \cap HeldByWorker(w)) <= WorkerFamilyCap[f]

Within(n, limit) == limit # NULL => n <= limit

\* The counters of the attempts agree through grants and resets of either
\* scope: what a profile counts since its reset is no more than what the task
\* counts, and that no more than was ever granted, nor than the pool's cap.
CountersAgree ==
  \A t \in Task :
    /\ Within(task[t].attempts_total, TotalAttemptCap[PoolOf[t]])
    /\ task[t].attempts_total <= task[t].latest
    /\ \A p \in Profile : profileState[t][p].attempts <= task[t].attempts_total

\* A profile's counter rises only to what the limit then in force allows; past
\* it the counter can only be left by a limit lowered beneath the attempts
\* already made, and it then stays where it is until it is reset or the limit
\* is raised.
RisesWithinLimit ==
  \A t \in Task, p \in Profile :
    \/ profileState'[t][p].attempts <= profileState[t][p].attempts
    \/ Within(profileState[t][p].attempts, LimitOf(t, p))'

\* No task is attempted more often than its limits allow, while the counters
\* are reset in either scope and its own limit is lowered, raised, switched
\* off and handed back to the policy between its attempts: after every step the
\* counters agree, and the step raised none beyond its limit.
AttemptBudget == [][CountersAgree' /\ RisesWithinLimit]_vars

\* Every lease ends, however often its worker renews it and even if its
\* worker is never heard of again.
LeaseEnds ==
  \A t \in Task, n \in AttemptNo :
    Leased(t) /\ task[t].latest = n ~> ~(Leased(t) /\ task[t].latest = n)

-----------------------------------------------------------------------------
(* The promise of TaskAuthority, kept by these tables.                     *)

AuthorityOf(t) ==
  LET n == task[t].latest
  IN IF n # 0 /\ Authority(t, n) THEN n ELSE 0

Accepted(t) ==
  {n \in AttemptNo : /\ attempts[t][n] # NULL
                     /\ attempts[t][n].outcome # NULL
                     /\ attempts[t][n].outcome.outcome = "success"}

leaseBar(t) ==
  [issued |-> task[t].latest, authority |-> AuthorityOf(t),
   accepted |-> Accepted(t), open |-> ~task[t].completed]

Promise == INSTANCE TaskAuthority WITH lease <- [t \in Task |-> leaseBar(t)]

\* Every step of the tables is a step of the promise, or none.
KeepsPromise == Promise!Spec
=============================================================================
