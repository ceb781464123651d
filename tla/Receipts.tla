------------------------------ MODULE Receipts ------------------------------
(***************************************************************************)
(* Exactly-once execution of requests: beginReceipt, checkReplay,          *)
(* authorizeReplay and commitReceipt of db.ts, as claim and reportOrRenew  *)
(* use them, with the authentication before them, the one retry of a claim *)
(* in index.ts, and the pruning of old receipts.                           *)
(*                                                                         *)
(* A delivery is one arrival of an operation at the service.  An operation *)
(* may arrive any number of times, early or late, and its deliveries run   *)
(* at the same time: each reads the key, the configuration and the receipt *)
(* in queries of their own, and only its batch is atomic.  What a batch    *)
(* does besides is the matter of LeaseBroker; here an operation is done,   *)
(* or is done twice.                                                       *)
(*                                                                         *)
(* Clocks: now is the database's clock; the age of an operation is stamped *)
(* by its sender, whose clock may be wrong.                                *)
(***************************************************************************)
EXTENDS Integers, FiniteSets

CONSTANTS
  Id,          \* request ids
  Body,        \* what an operation asks for
  Scope,       \* profiles a route may resolve to
  Delivery,    \* deliveries under way at one time
  FreshFor,    \* oldest age at which an operation is accepted
  Skew,        \* how far ahead of the database a sender's clock may be
  Retention,   \* the retention periods that settings and policies allow
  NULL

\* Bounds of the model, not of the program.
CONSTANTS
  MaxTime,     \* clock ticks
  MaxEpoch,    \* restores of the installation
  MaxConfig,   \* configuration changes
  MaxKinds,    \* kinds of administration in one behaviour: key, epoch, settings
  MaxFaults    \* failed queries; in TaskClient also lost connections and crashes

(* created is the sender's request_created_at; lease is when the leases    *)
(* that a report is about end, 0 when it is about none of the key's.       *)
Operation ==
  [id : Id, action : {"claim", "report"}, body : Body, created : Int, lease : Nat]

Receipt ==
  [op : Operation, scope : Scope, epoch : Nat, deadline : Nat]

ASSUME ReceiptAssumption ==
  /\ FreshFor \in Nat /\ Skew \in Nat
  /\ Retention \subseteq Nat
  /\ \A r \in Retention : FreshFor + Skew <= r
  /\ Scope # {} /\ NULL \notin Receipt \cup Operation

VARIABLES
  now,         \* the database's clock
  key,         \* the key's status in api_keys
  activeEpoch, \* installation.active_epoch
  deployed,    \* INSTANCE_EPOCH of the deployed worker
  closed,      \* installation.maintenance
  config,      \* revision of the configuration, and what the route resolves to
  receipts,    \* the rows of requests, NULL where there is none
  delivery,    \* deliveries under way
  faults,      \* faults so far
  done,        \* history: operations whose batch committed
  twice        \* history: operations whose batch committed again

settings == <<activeEpoch, deployed, closed, config>>
history == <<done, twice>>
vars == <<now, key, settings, receipts, delivery, faults, history>>

-----------------------------------------------------------------------------
Phase == {"idle", "arrived", "authenticated", "resolved", "begun",
          "failed", "allowed", "answered"}

\* What a delivery answers: its result, a refusal, or "try again".
Answer == {"ok", "refused", "later"}

(* status, scope, config and existing are what a delivery has read; barred *)
(* is history: the key lost the right to the operation before the delivery *)
(* came to its decisive step.                                              *)
Running ==
  [phase : Phase \ {"idle", "answered"}, op : Operation, epoch : Nat,
   status : {"active", "soft", "hard"}, scope : Scope, config : Nat,
   existing : Receipt \cup {NULL}, again : BOOLEAN,
   failure : {"none", "config", "resource", "other"}, barred : BOOLEAN]

Answered ==
  [phase : {"answered"}, op : Operation, answer : Answer, told : Operation \cup {NULL},
   barred : BOOLEAN]

Idle == [phase |-> "idle"]

TypeOK ==
  /\ now \in Nat
  /\ key \in {"active", "soft", "hard"}
  /\ activeEpoch \in Nat /\ deployed \in Nat /\ closed \in BOOLEAN
  /\ config \in [revision : Nat, home : Scope]
  /\ receipts \in [Id -> Receipt \cup {NULL}]
  /\ delivery \in [Delivery -> Running \cup Answered \cup {Idle}]
  /\ faults \in Nat
  /\ done \subseteq Operation /\ twice \subseteq Operation

Init ==
  /\ now = 0 /\ key = "active"
  /\ activeEpoch = 0 /\ deployed = 0 /\ closed = FALSE
  /\ config \in [revision : {0}, home : Scope]
  /\ receipts = [i \in Id |-> NULL]
  /\ delivery = [d \in Delivery |-> Idle]
  /\ faults = 0
  /\ done = {} /\ twice = {}

-----------------------------------------------------------------------------
At(d, phase) == delivery[d].phase = phase

Set(d, row) == delivery' = [delivery EXCEPT ![d] = row]

Move(d, phase) == Set(d, [delivery[d] EXCEPT !.phase = phase])

\* What the delivery has read is of no use any more.
Reply(d, answer, told) ==
  Set(d, [phase |-> "answered", op |-> delivery[d].op, answer |-> answer, told |-> told,
          barred |-> delivery[d].barred])

Refuse(d) == Reply(d, "refused", NULL)

\* A soft-revoked key may still report; only an active one may claim.
Entitles(status, op) ==
  status = "active" \/ (status = "soft" /\ op.action = "report")

\* Mutation: however old.
FreshOrOld(op) == op.created <= now + Skew

Fresh(op) == op.created + FreshFor >= now /\ op.created <= now + Skew

\* Neither the id nor the route is part of it: the scope stands for the route.
Fingerprint(op, scope) == <<op.action, scope, op.body, op.created, op.lease>>

\* Mutation: the id alone identifies the operation.
CheckReplayById(row, old, status) ==
  old.epoch = row.epoch /\ old.op.action = row.op.action /\ Entitles(status, row.op)

\* checkReplay: the stored receipt is of this epoch, this action and this body.
CheckReplay(row, old, status) ==
  /\ old.epoch = row.epoch
  /\ Fingerprint(old.op, old.scope) = Fingerprint(row.op, row.scope)
  /\ Entitles(status, row.op)

-----------------------------------------------------------------------------
(* An operation arrives and is routed to the deployed worker. *)
Arrive(d, op) ==
  /\ At(d, "idle")
  /\ Set(d, [phase |-> "arrived", op |-> op, epoch |-> deployed, status |-> "active",
             scope |-> config.home, config |-> 0, existing |-> NULL, again |-> FALSE,
             failure |-> "none", barred |-> ~Entitles(key, op)])
  /\ UNCHANGED <<now, key, settings, receipts, faults, history>>

(* authenticateKey, and the status that claim and renew ask for. *)
Authenticate(d) ==
  /\ At(d, "arrived")
  /\ IF Entitles(key, delivery[d].op)
       THEN Set(d, [delivery[d] EXCEPT !.phase = "authenticated", !.status = key])
       ELSE Refuse(d)
  /\ UNCHANGED <<now, key, settings, receipts, faults, history>>

(* resolveProfile: a route that an earlier delivery has resolved keeps its *)
(* meaning, also when the family's default profile is another one by now.  *)
Resolve(d) ==
  LET old == receipts[delivery[d].op.id]
  IN  /\ At(d, "authenticated")
      /\ Set(d, [delivery[d] EXCEPT !.phase = "resolved", !.config = config.revision,
                   !.scope = IF old = NULL THEN config.home ELSE old.scope])
      /\ UNCHANGED <<now, key, settings, receipts, faults, history>>

(* beginReceipt: looks for the receipt of an earlier delivery, and takes   *)
(* over the scope of one it finds.                                         *)
Begin(d) ==
  LET row == delivery[d]
      old == receipts[row.op.id]
      read == [row EXCEPT !.phase = "begun", !.existing = old,
                 !.scope = IF old = NULL THEN row.scope ELSE old.scope]
  IN  /\ At(d, "resolved")
      /\ IF old # NULL /\ ~CheckReplay(read, old, row.status)
           THEN Refuse(d)
           ELSE Set(d, read)
      /\ UNCHANGED <<now, key, settings, receipts, faults, history>>

-----------------------------------------------------------------------------
\* The guards that beginReceipt puts in every batch, and the unique index.
MayCommit(row) ==
  /\ receipts[row.op.id] = NULL
  /\ Fresh(row.op)
  /\ activeEpoch = row.epoch
  /\ ~closed
  /\ Entitles(key, row.op)

\* configGuard, which claim adds.
SameConfig(row) == row.op.action = "claim" => config.revision = row.config

Execute(op) ==
  /\ done' = done \cup {op}
  /\ twice' = IF op \in done THEN twice \cup {op} ELSE twice

(* The batch commits; its answer may be lost between the database and the  *)
(* worker, which then knows no more than that something failed.            *)
Commit(d) ==
  LET row == delivery[d]
  IN  /\ At(d, "begun") /\ row.existing = NULL
      /\ MayCommit(row) /\ SameConfig(row)
      /\ \E r \in Retention :
           receipts' = [receipts EXCEPT ![row.op.id] =
             [op |-> row.op, scope |-> row.scope, epoch |-> row.epoch, deadline |-> now + r]]
      /\ Execute(row.op)
      /\ \/ Reply(d, "ok", row.op) /\ UNCHANGED faults
         \/ /\ faults < MaxFaults /\ faults' = faults + 1
            /\ Set(d, [row EXCEPT !.phase = "failed", !.failure = "resource"])
      /\ UNCHANGED <<now, key, settings>>

(* The batch rolls back: a guard or the unique index refuses it, or the    *)
(* database has no room or no time for it.                                 *)
RollBack(d) ==
  LET row == delivery[d]
      Failed(failure) == Set(d, [row EXCEPT !.phase = "failed", !.failure = failure])
  IN  /\ At(d, "begun") /\ row.existing = NULL
      /\ \/ ~MayCommit(row) /\ Failed("other") /\ UNCHANGED faults
         \/ MayCommit(row) /\ ~SameConfig(row) /\ Failed("config") /\ UNCHANGED faults
         \/ faults < MaxFaults /\ faults' = faults + 1 /\ Failed("resource")
      /\ UNCHANGED <<now, key, settings, receipts, history>>

(* After a failed batch the receipt is looked for once more: there is one  *)
(* when another delivery was faster, or when the batch committed after all.*)
Reread(d) ==
  LET row == delivery[d]
  IN  /\ At(d, "failed")
      /\ receipts[row.op.id] # NULL
      /\ Set(d, [row EXCEPT !.phase = "begun", !.existing = receipts[row.op.id]])
      /\ UNCHANGED <<now, key, settings, receipts, faults, history>>

(* No receipt: the batch has failed for good.  index.ts runs a claim whose *)
(* configuration changed a second time, within the queries it has left.    *)
GiveUp(d) ==
  LET row == delivery[d]
  IN  /\ At(d, "failed")
      /\ receipts[row.op.id] = NULL
      /\ \/ /\ row.failure = "config" /\ ~row.again
            /\ Set(d, [row EXCEPT !.phase = "authenticated", !.again = TRUE,
                         !.failure = "none"])
         \/ Refuse(d)
         \/ row.failure = "resource" /\ Reply(d, "later", NULL)
      /\ UNCHANGED <<now, key, settings, receipts, faults, history>>

(* A query that only reads fails: the answer is an error, whatever the     *)
(* batch before it did.                                                    *)
ReadFails(d) ==
  /\ delivery[d].phase \in Phase \ {"idle", "answered"}
  /\ faults < MaxFaults /\ faults' = faults + 1
  /\ Refuse(d) \/ Reply(d, "later", NULL)
  /\ UNCHANGED <<now, key, settings, receipts, history>>

(* authorizeReplay: the caller's present status, the present epoch and the *)
(* leases of a report in one snapshot, then checkReplay with that status.  *)
(* A delivery that lost the insertion still has the scope it resolved.     *)
ReportLive(row) ==
  receipts[row.op.id] = row.existing /\ now < row.existing.op.lease

\* Mutation: the status that the delivery was authenticated with.
AuthorizedOnArrival(row) ==
  activeEpoch = row.epoch /\ CheckReplay(row, row.existing, row.status)

Authorized(row) ==
  /\ activeEpoch = row.epoch
  /\ \/ key = "active"
     \/ key = "soft" /\ row.op.action = "report" /\ ReportLive(row)
  /\ CheckReplay(row, row.existing, key)

Authorize(d) ==
  LET row == delivery[d]
  IN  /\ At(d, "begun") /\ row.existing # NULL
      /\ IF Authorized(row) THEN Move(d, "allowed") ELSE Refuse(d)
      /\ UNCHANGED <<now, key, settings, receipts, faults, history>>

(* The stored items are read in a query of their own; pruning may have     *)
(* taken them meanwhile.                                                   *)
Replay(d) ==
  LET row == delivery[d]
  IN  /\ At(d, "allowed")
      /\ Reply(d, "ok", IF receipts[row.op.id] = row.existing THEN row.existing.op ELSE NULL)
      /\ UNCHANGED <<now, key, settings, receipts, faults, history>>

\* Lost on the way to the service.
Lose(d) ==
  /\ At(d, "arrived")
  /\ Set(d, Idle)
  /\ UNCHANGED <<now, key, settings, receipts, faults, history>>

\* The answer leaves the service, whether or not anybody waits for it.
Leave(d) ==
  /\ At(d, "answered")
  /\ Set(d, Idle)
  /\ UNCHANGED <<now, key, settings, receipts, faults, history>>

\* A fault of the sender, which the service does not notice.
FaultElsewhere ==
  /\ faults < MaxFaults /\ faults' = faults + 1
  /\ UNCHANGED <<now, key, settings, receipts, delivery, history>>

-----------------------------------------------------------------------------
(* prune takes receipts past their deadline, up to a hundred at a time. *)
Prune ==
  /\ \E gone \in SUBSET {i \in Id : receipts[i] # NULL /\ receipts[i].deadline < now} :
       /\ gone # {}
       /\ receipts' = [i \in Id |-> IF i \in gone THEN NULL ELSE receipts[i]]
  /\ UNCHANGED <<now, key, settings, delivery, faults, history>>

\* Deliveries that have not come to their decisive step.
Undecided(d) == delivery[d].phase \notin {"idle", "allowed", "answered"}

Bar(lost(_)) ==
  delivery' = [d \in Delivery |->
    IF Undecided(d) /\ lost(delivery[d]) THEN [delivery[d] EXCEPT !.barred = TRUE]
                                         ELSE delivery[d]]

(* keyAction: soft, then hard, and never back. *)
RevokeKey(status) ==
  /\ key # status /\ key # "hard"
  /\ key' = status
  /\ LET lost(row) == ~Entitles(status, row.op) IN Bar(lost)
  /\ UNCHANGED <<now, settings, receipts, faults, history>>

(* installationAction: maintenance on and off. *)
SetMaintenance ==
  /\ closed' = ~closed
  /\ UNCHANGED <<now, key, activeEpoch, deployed, config, receipts, delivery, faults, history>>

(* A worker with another instance epoch is deployed after a restore, with  *)
(* maintenance still on, as docs/operations.md has it.                     *)
Deploy ==
  /\ deployed < MaxEpoch /\ closed
  /\ deployed' = deployed + 1
  /\ UNCHANGED <<now, key, activeEpoch, closed, config, receipts, delivery, faults, history>>

(* installationAction: the deployed worker's epoch becomes the active one, *)
(* which only maintenance allows.                                          *)
Activate ==
  /\ closed /\ activeEpoch # deployed
  /\ activeEpoch' = deployed
  /\ LET lost(row) == row.epoch # deployed IN Bar(lost)
  /\ UNCHANGED <<now, key, deployed, closed, config, receipts, faults, history>>

(* A change of families, profiles, pools or defaults bumps a revision; the *)
(* default profile of the family, and so the route's meaning, may change.  *)
Reconfigure ==
  /\ config.revision < MaxConfig
  /\ config' \in [revision : {config.revision + 1}, home : Scope]
  /\ UNCHANGED <<now, key, activeEpoch, deployed, closed, receipts, delivery, faults, history>>

Tick ==
  /\ now < MaxTime
  /\ now' = now + 1
  /\ UNCHANGED <<key, settings, receipts, delivery, faults, history>>

-----------------------------------------------------------------------------
Serve(d) ==
  \/ Authenticate(d) \/ Resolve(d) \/ Begin(d)
  \/ Commit(d) \/ RollBack(d) \/ Reread(d) \/ GiveUp(d)
  \/ ReadFails(d) \/ Authorize(d) \/ Replay(d)

\* The kinds of administration that have begun.
Kinds ==
  {kind \in {"key", "epoch", "settings"} :
     \/ kind = "key" /\ key # "active"
     \/ kind = "epoch" /\ (closed \/ deployed > 0)
     \/ kind = "settings" /\ config.revision > 0}

Administer ==
  /\ \/ Prune \/ SetMaintenance \/ Deploy \/ Activate \/ Reconfigure
     \/ \E status \in {"soft", "hard"} : RevokeKey(status)
  /\ Cardinality(Kinds') <= MaxKinds

ReceiptsNext ==
  \/ \E d \in Delivery, op \in Operation : Arrive(d, op)
  \/ \E d \in Delivery : Serve(d) \/ Lose(d) \/ Leave(d)
  \/ Administer
  \/ FaultElsewhere
  \/ Tick

ReceiptsSpec == Init /\ [][ReceiptsNext]_vars

-----------------------------------------------------------------------------
(* AtMostOnce: however often and however late an operation arrives, its    *)
(* batch commits once, also after its receipt was pruned.  (The freshness  *)
(* guard of beginReceipt against the retention of receipts.)               *)
AtMostOnce == twice = {}

(* AnsweredAlike: a delivery that is answered with a result is answered    *)
(* with the result of the operation it carries, not of another one with    *)
(* the same id, and the operation has been done; the result is missing     *)
(* only from answers that outlive the receipt.  (checkReplay.)             *)
AnsweredAlike ==
  \A d \in Delivery : At(d, "answered") /\ delivery[d].answer = "ok" =>
    /\ delivery[d].op \in done
    /\ \/ delivery[d].told = delivery[d].op
       \/ delivery[d].told = NULL /\ ~Fresh(delivery[d].op)

(* NoRightRestored: a delivery whose key lost the right to its operation,  *)
(* or whose epoch ended, before it was decided never answers with a        *)
(* result, neither a new nor a stored one.  (guard_auth and guard_epoch of *)
(* the batch; authorizeReplay, whose comment promises that a receipt never *)
(* restores revoked authority.)                                            *)
NoRightRestored ==
  \A d \in Delivery :
    At(d, "answered") /\ delivery[d].answer = "ok" => ~delivery[d].barred
=============================================================================
