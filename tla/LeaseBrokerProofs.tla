------------------------- MODULE LeaseBrokerProofs -------------------------
(***************************************************************************)
(* Proofs about LeaseBroker, for any tasks, profiles, keys, capacities and *)
(* bounds.                                                                 *)
(***************************************************************************)
EXTENDS LeaseBroker, FiniteSetTheorems, TLAPS

\* Attempts are numbered as they are granted, and neither their generation
\* nor their epoch is ahead of the task's and the installation's.
NumberingOf(t) ==
  /\ task[t].latest <= task[t].lease_generation
  /\ \A n \in AttemptNo :
       /\ attempts[t][n] # NULL <=> n <= task[t].latest
       /\ attempts[t][n] # NULL =>
            /\ attempts[t][n].lease_generation <= task[t].lease_generation
            /\ attempts[t][n].epoch <= epoch

Numbering == \A t \in Task : NumberingOf(t)

-----------------------------------------------------------------------------
(* What the helpers of the actions return. *)

\* The bounds are natural numbers, and so is the last instant.
LEMMA Bounds ==
  /\ MaxNow \in Nat
  /\ Horizon \in Nat /\ MaxLifetime \in Nat \ {0}
  /\ MaxGeneration \in Nat /\ MaxEpoch \in Nat
  /\ NULL \notin Outcome /\ NULL \notin AttemptRow /\ NULL \notin HeadRow
BY BoundAssumption, NullAssumption DEF MaxNow

\* A lease asked for by the horizon ends by the last instant.
LEMMA ExpiryType ==
  ASSUME now \in 0..MaxNow, now <= Horizon, NEW d \in Duration
  PROVE  Expiry(d) \in 0..MaxNow /\ now + MaxLifetime \in 0..MaxNow
BY BoundAssumption DEF Expiry, MaxNow

\* A renewal leaves the expiry at or before the attempt's maximum, and never
\* earlier than it was.
LEMMA RenewedExpiryType ==
  ASSUME now \in 0..MaxNow, NEW d \in Duration, NEW a \in AttemptRow
  PROVE  /\ RenewedExpiry(a, d) \in 0..MaxNow
         /\ a.expires_at <= RenewedExpiry(a, d)
BY BoundAssumption, Bounds DEF RenewedExpiry, AttemptRow

\* Revoking an attempt changes its revoked flag only.
LEMMA RevokedType ==
  ASSUME NEW a \in AttemptRow
  PROVE  /\ Revoked(a) \in AttemptRow
         /\ Revoked(a).by = a.by
         /\ Revoked(a).epoch = a.epoch
         /\ Revoked(a).lease_generation = a.lease_generation
         /\ Revoked(a).input_revision = a.input_revision
         /\ Revoked(a).expires_at = a.expires_at
         /\ Revoked(a).outcome = a.outcome
BY DEF Revoked, AttemptRow

\* Revoking the latest attempt of a task changes no column of any attempt but
\* revoked, and adds and removes no attempt.
LEMMA RevokeLatestKeeps ==
  ASSUME TypeOK, Numbering, NEW t \in Task
  PROVE  /\ RevokeLatest(t) \in [AttemptNo -> AttemptRow \cup {NULL}]
         /\ \A n \in AttemptNo :
              /\ n # task[t].latest => RevokeLatest(t)[n] = attempts[t][n]
              /\ RevokeLatest(t)[n] = NULL <=> attempts[t][n] = NULL
              /\ attempts[t][n] # NULL =>
                   /\ RevokeLatest(t)[n].by = attempts[t][n].by
                   /\ RevokeLatest(t)[n].epoch = attempts[t][n].epoch
                   /\ RevokeLatest(t)[n].lease_generation
                        = attempts[t][n].lease_generation
                   /\ RevokeLatest(t)[n].expires_at = attempts[t][n].expires_at
                   /\ RevokeLatest(t)[n].outcome = attempts[t][n].outcome
<1>1. ASSUME NEW n \in AttemptNo
      PROVE  /\ RevokeLatest(t)[n] \in AttemptRow \cup {NULL}
             /\ n # task[t].latest => RevokeLatest(t)[n] = attempts[t][n]
             /\ RevokeLatest(t)[n] = NULL <=> attempts[t][n] = NULL
             /\ attempts[t][n] # NULL =>
                   /\ RevokeLatest(t)[n].by = attempts[t][n].by
                   /\ RevokeLatest(t)[n].epoch = attempts[t][n].epoch
                   /\ RevokeLatest(t)[n].lease_generation
                        = attempts[t][n].lease_generation
                   /\ RevokeLatest(t)[n].expires_at = attempts[t][n].expires_at
                   /\ RevokeLatest(t)[n].outcome = attempts[t][n].outcome
  <2>1. attempts[t][n] \in AttemptRow \cup {NULL}
    BY DEF TypeOK
  <2>2. RevokeLatest(t)[n] = IF n = task[t].latest THEN Revoked(attempts[t][n])
                                                    ELSE attempts[t][n]
    BY DEF RevokeLatest
  <2>3. CASE n = task[t].latest
    <3>1. attempts[t][n] # NULL
      BY <2>3 DEF Numbering, NumberingOf, AttemptNo
    <3>2. attempts[t][n] \in AttemptRow
      BY <2>1, <3>1
    <3> QED  BY <2>2, <2>3, <3>1, <3>2, RevokedType, Bounds
  <2>4. CASE n # task[t].latest
    BY <2>1, <2>2, <2>4
  <2> QED  BY <2>3, <2>4
<1> QED  BY <1>1 DEF RevokeLatest

\* A grant's attempt, head and task row are rows of their tables.
LEMMA GrantType ==
  ASSUME TypeOK, Numbering, NEW c \in Caller, NEW t \in Task,
         NEW d \in Duration, now <= Horizon,
         task[t].lease_generation < MaxGeneration
  PROVE  /\ NewAttempt(c, t, d) \in AttemptRow
         /\ NewHead(c, t, d) \in HeadRow
         /\ GrantedTask(t) \in TaskRow
         /\ GrantedTask(t).latest = task[t].latest + 1
         /\ GrantedTask(t).lease_generation = task[t].lease_generation + 1
         /\ GrantedTask(t).completed = task[t].completed
         /\ GrantedTask(t).result = task[t].result
         /\ task[t].latest + 1 \in AttemptNo
<1>1. task[t] \in TaskRow
  BY DEF TypeOK
<1>2. /\ Expiry(d) \in 0..MaxNow
      /\ now + MaxLifetime \in 0..MaxNow
  BY ExpiryType DEF TypeOK
<1>3. /\ task[t].lease_generation + 1 \in 1..MaxGeneration
      /\ task[t].latest + 1 \in AttemptNo
  BY <1>1, Bounds DEF TaskRow, AttemptNo, Numbering, NumberingOf
<1>4. NULL \in Outcome \cup {NULL} /\ epoch \in 1..MaxEpoch
  BY DEF TypeOK
<1>5. NewAttempt(c, t, d) \in AttemptRow
  BY <1>1, <1>2, <1>3, <1>4 DEF NewAttempt, AttemptRow, TaskRow
<1>6. NewHead(c, t, d) \in HeadRow
  BY <1>2, <1>3, <1>4 DEF NewHead, HeadRow
<1>7. /\ GrantedTask(t).latest = task[t].latest + 1
      /\ GrantedTask(t).lease_generation = task[t].lease_generation + 1
      /\ GrantedTask(t).completed = task[t].completed
      /\ GrantedTask(t).result = task[t].result
  BY <1>1 DEF GrantedTask, TaskRow
<1>8. task[t].latest + 1 \in 0..MaxGeneration /\ task[t].attempts_total + 1 \in Nat
      /\ task[t].lease_generation + 1 \in 0..MaxGeneration
  BY <1>1, <1>3, Bounds DEF TaskRow, AttemptNo
<1>9. GrantedTask(t) \in TaskRow
  BY <1>1, <1>8 DEF GrantedTask, TaskRow
<1> QED  BY <1>3, <1>5, <1>6, <1>7, <1>9

\* A report writes the outcome, and for a success closes the task.
LEMMA ReportedTaskType ==
  ASSUME TypeOK, NEW t \in Task, NEW n \in AttemptNo, NEW o \in Outcome
  PROVE  /\ ReportedTask(t, n, o) \in TaskRow
         /\ ReportedTask(t, n, o).latest = task[t].latest
         /\ ReportedTask(t, n, o).lease_generation = task[t].lease_generation
         /\ o.outcome = "success" =>
              ReportedTask(t, n, o).completed /\ ReportedTask(t, n, o).result = n
         /\ o.outcome # "success" => ReportedTask(t, n, o) = task[t]
<1>1. task[t] \in TaskRow
  BY DEF TypeOK
<1>2. CASE o.outcome = "success"
  <2>1. ReportedTask(t, n, o) = [task[t] EXCEPT !.completed = TRUE, !.result = n]
    BY <1>2 DEF ReportedTask
  <2>2. n \in 0..MaxGeneration
    BY Bounds DEF AttemptNo
  <2>3. ReportedTask(t, n, o) \in TaskRow
    BY <1>1, <2>1, <2>2 DEF TaskRow
  <2>4. /\ ReportedTask(t, n, o).latest = task[t].latest
        /\ ReportedTask(t, n, o).lease_generation = task[t].lease_generation
        /\ ReportedTask(t, n, o).result = n
    BY <1>1, <2>1 DEF TaskRow
  <2>5. ReportedTask(t, n, o).completed
    BY <1>1, <2>1 DEF TaskRow
  <2> QED  BY <1>2, <2>3, <2>4, <2>5
<1>3. CASE o.outcome # "success"
  BY <1>1, <1>3 DEF ReportedTask
<1> QED  BY <1>2, <1>3

\* A change moves the generation of the task when it invalidates its lease
\* and never touches its latest attempt; only a reset reopens it.
LEMMA ChangedTaskType ==
  ASSUME TypeOK, NEW t \in Task, NEW ch \in Change,
         Invalidates(ch) => task[t].lease_generation < MaxGeneration
  PROVE  /\ ChangedTask(t, ch) \in TaskRow
         /\ ChangedTask(t, ch).latest = task[t].latest
         /\ ChangedTask(t, ch).lease_generation =
              IF Invalidates(ch) THEN task[t].lease_generation + 1
                                 ELSE task[t].lease_generation
         /\ ChangedTask(t, ch).completed =
              (task[t].completed /\ ~ResetsAll(ch))
         /\ ~ResetsAll(ch) => ChangedTask(t, ch).result = task[t].result
<1>1. task[t] \in TaskRow /\ ch \in ChangeType
  BY StructureAssumption DEF TypeOK
<1>2. ResetsAll(ch) \in BOOLEAN /\ Invalidates(ch) \in BOOLEAN
  BY <1>1 DEF ResetsAll, Invalidates, ChangeType
<1>3. /\ ChangedTask(t, ch).latest = task[t].latest
      /\ ChangedTask(t, ch).lease_generation =
           IF Invalidates(ch) THEN task[t].lease_generation + 1
                              ELSE task[t].lease_generation
      /\ ~ResetsAll(ch) => ChangedTask(t, ch).result = task[t].result
  BY <1>1, <1>2 DEF ChangedTask, TaskRow
<1>4. ChangedTask(t, ch).completed = (task[t].completed /\ ~ResetsAll(ch))
  BY <1>1, <1>2 DEF ChangedTask, TaskRow
<1>5. /\ ChangedTask(t, ch).enabled \in BOOLEAN
      /\ ChangedTask(t, ch).deleted \in BOOLEAN
  BY <1>1, <1>2 DEF ChangedTask, TaskRow
<1>6. /\ ChangedTask(t, ch).input_revision \in Nat
      /\ ChangedTask(t, ch).attempts_total \in Nat
      /\ ChangedTask(t, ch).result \in 0..MaxGeneration
      /\ ChangedTask(t, ch).lease_generation \in 0..MaxGeneration
  BY <1>1, <1>2, Bounds DEF ChangedTask, TaskRow
<1>7. /\ ChangedTask(t, ch).max_attempts_set \in BOOLEAN
      /\ ChangedTask(t, ch).max_attempts \in Nat \cup {NULL}
  BY <1>1 DEF ChangedTask, TaskRow, ChangeType
<1>8. ChangedTask(t, ch) \in TaskRow
  BY <1>1, <1>3, <1>4, <1>5, <1>6, <1>7, Bounds DEF ChangedTask, TaskRow
<1> QED  BY <1>3, <1>4, <1>8

\* A reset leaves every profile's counter a natural number.
LEMMA ResetStateType ==
  ASSUME TypeOK, NEW t \in Task, NEW ch \in Change
  PROVE  ResetState(t, ch) \in [Profile -> ProfileRow]
BY DEF ResetState, TypeOK, ProfileRow

-----------------------------------------------------------------------------
(* Types and numbering. *)

\* A claim keeps the types, and numbers each attempt it grants next.
LEMMA ClaimType ==
  ASSUME TypeOK, Numbering, NEW c \in Caller, NEW S \in SUBSET Task,
         NEW d \in Duration, Claim(c, S, d)
  PROVE  TypeOK' /\ Numbering'
<1>1. ASSUME NEW t \in S
      PROVE  /\ NewAttempt(c, t, d) \in AttemptRow
             /\ NewHead(c, t, d) \in HeadRow
             /\ GrantedTask(t) \in TaskRow
             /\ GrantedTask(t).latest = task[t].latest + 1
             /\ GrantedTask(t).lease_generation = task[t].lease_generation + 1
             /\ task[t].latest + 1 \in AttemptNo
  BY <1>1, GrantType DEF Claim
<1>2. ASSUME NEW t \in S
      PROVE  /\ attempts'[t] = [RevokeLatest(t) EXCEPT
                                  ![task[t].latest + 1] = NewAttempt(c, t, d)]
             /\ attempts'[t] \in [AttemptNo -> AttemptRow \cup {NULL}]
             /\ attempts'[t][task[t].latest + 1] = NewAttempt(c, t, d)
             /\ \A n \in AttemptNo : n # task[t].latest + 1 =>
                  attempts'[t][n] = RevokeLatest(t)[n]
  <2>1. RevokeLatest(t) \in [AttemptNo -> AttemptRow \cup {NULL}]
    BY RevokeLatestKeeps
  <2>2. attempts'[t] = [RevokeLatest(t) EXCEPT
                          ![task[t].latest + 1] = NewAttempt(c, t, d)]
    BY DEF Claim
  <2> QED  BY <1>1, <2>1, <2>2
<1>3. task' \in [Task -> TaskRow]
  <2>1. \A t \in Task : task[t] \in TaskRow
    BY DEF TypeOK
  <2> QED  BY <1>1, <2>1 DEF Claim
<1>4. attempts' \in [Task -> [AttemptNo -> AttemptRow \cup {NULL}]]
  <2>1. \A t \in Task : attempts'[t] \in [AttemptNo -> AttemptRow \cup {NULL}]
    BY <1>2 DEF Claim, TypeOK
  <2> QED  BY <2>1 DEF Claim
<1>5. head' \in [Task -> HeadRow \cup {NULL}]
  <2>1. \A t \in Task : head[t] \in HeadRow \cup {NULL}
    BY DEF TypeOK
  <2> QED  BY <1>1, <2>1 DEF Claim
<1>6. profileState' \in [Task -> [Profile -> ProfileRow]]
  <2>1. c.profile \in Profile
    BY StructureAssumption
  <2>2. ASSUME NEW t \in Task
        PROVE  [profileState[t] EXCEPT ![c.profile].attempts = @ + 1]
                 \in [Profile -> ProfileRow]
    <3>1. profileState[t] \in [Profile -> ProfileRow]
      BY DEF TypeOK
    <3>2. [profileState[t][c.profile] EXCEPT !.attempts = @ + 1] \in ProfileRow
      BY <2>1, <3>1 DEF ProfileRow
    <3> QED  BY <2>1, <3>1, <3>2
  <2>3. \A t \in Task : profileState[t] \in [Profile -> ProfileRow]
    BY DEF TypeOK
  <2> QED  BY <2>2, <2>3 DEF Claim
<1>7. TypeOK'
  BY <1>3, <1>4, <1>5, <1>6 DEF TypeOK, Claim
<1>8. ASSUME NEW t \in Task
      PROVE  NumberingOf(t)'
  <2>1. NumberingOf(t) /\ task[t] \in TaskRow /\ epoch' = epoch
    BY DEF Numbering, TypeOK, Claim
  <2>2. CASE t \notin S
    BY <2>1, <2>2 DEF Claim, NumberingOf
  <2>3. CASE t \in S
    <3>1. task'[t] = GrantedTask(t)
      BY <2>3 DEF Claim
    <3>2. task'[t].latest <= task'[t].lease_generation
      BY <1>1, <2>1, <2>3, <3>1 DEF NumberingOf, TaskRow
    <3>3. ASSUME NEW n \in AttemptNo
          PROVE  /\ attempts'[t][n] # NULL <=> n <= task'[t].latest
                 /\ attempts'[t][n] # NULL =>
                      /\ attempts'[t][n].lease_generation <= task'[t].lease_generation
                      /\ attempts'[t][n].epoch <= epoch
      <4>1. CASE n = task[t].latest + 1
        <5>1. attempts'[t][n] = NewAttempt(c, t, d)
          BY <1>2, <2>3, <4>1
        <5>2. /\ NewAttempt(c, t, d).lease_generation = task[t].lease_generation + 1
              /\ NewAttempt(c, t, d).epoch = epoch
          BY DEF NewAttempt
        <5>3. epoch <= epoch /\ n <= n /\ NewAttempt(c, t, d) # NULL
          BY <1>1, <2>3, Bounds DEF TypeOK, AttemptNo
        <5> QED  BY <1>1, <2>1, <2>3, <3>1, <4>1, <5>1, <5>2, <5>3 DEF TaskRow
      <4>2. CASE n # task[t].latest + 1
        <5>1. attempts'[t][n] = RevokeLatest(t)[n]
          BY <1>2, <2>3, <4>2
        <5>2. n <= task[t].latest + 1 <=> n <= task[t].latest
          BY <2>1, <4>2 DEF TaskRow, AttemptNo
        <5>3. attempts[t][n] # NULL => attempts[t][n] \in AttemptRow
          BY DEF TypeOK
        <5> QED  BY <1>1, <2>1, <2>3, <3>1, <5>1, <5>2, <5>3, RevokeLatestKeeps
                 DEF NumberingOf, TaskRow, AttemptRow
      <4> QED  BY <4>1, <4>2
    <3> QED  BY <2>1, <3>2, <3>3 DEF NumberingOf
  <2> QED  BY <2>2, <2>3
<1> QED  BY <1>7, <1>8 DEF Numbering

\* A report rewrites the outcome of its own attempt and of no other.
LEMMA ReportWrites ==
  ASSUME TypeOK, NEW t \in Task, NEW n \in AttemptNo, NEW o \in Outcome,
         Report(t, n, o)
  PROVE  /\ attempts[t][n] \in AttemptRow
         /\ attempts'[t][n] \in AttemptRow
         /\ attempts'[t][n].outcome = o
         /\ attempts'[t][n].by = attempts[t][n].by
         /\ attempts'[t][n].epoch = attempts[t][n].epoch
         /\ attempts'[t][n].lease_generation = attempts[t][n].lease_generation
         /\ attempts'[t][n].expires_at = attempts[t][n].expires_at
         /\ \A m \in AttemptNo : m # n => attempts'[t][m] = attempts[t][m]
         /\ \A u \in Task : u # t => attempts'[u] = attempts[u]
         /\ attempts' \in [Task -> [AttemptNo -> AttemptRow \cup {NULL}]]
<1>1. attempts \in [Task -> [AttemptNo -> AttemptRow \cup {NULL}]]
  BY DEF TypeOK
<1>2. attempts[t][n] \in AttemptRow
  BY <1>1 DEF Report
<1>3. [attempts[t][n] EXCEPT !.outcome = o] \in AttemptRow
  BY <1>2 DEF AttemptRow
<1>4. attempts' = [attempts EXCEPT ![t] =
                     [attempts[t] EXCEPT ![n] = [attempts[t][n] EXCEPT !.outcome = o]]]
  BY DEF Report
<1>5. attempts'[t][n] = [attempts[t][n] EXCEPT !.outcome = o]
  BY <1>1, <1>4
<1>6. /\ attempts'[t][n].outcome = o
      /\ attempts'[t][n].by = attempts[t][n].by
      /\ attempts'[t][n].epoch = attempts[t][n].epoch
      /\ attempts'[t][n].lease_generation = attempts[t][n].lease_generation
      /\ attempts'[t][n].expires_at = attempts[t][n].expires_at
  BY <1>2, <1>5 DEF AttemptRow
<1> QED  BY <1>1, <1>2, <1>3, <1>4, <1>5, <1>6

\* A report keeps the types and the numbering.
LEMMA ReportType ==
  ASSUME TypeOK, Numbering, NEW t \in Task, NEW n \in AttemptNo,
         NEW o \in Outcome, Report(t, n, o)
  PROVE  TypeOK' /\ Numbering'
<1>1. task' \in [Task -> TaskRow]
  BY ReportedTaskType DEF Report, TypeOK
<1>2. profileState' \in [Task -> [Profile -> ProfileRow]]
  <2>1. attempts[t][n].by.profile \in Profile
    <3>1. attempts[t][n].by \in Caller
      BY ReportWrites DEF AttemptRow
    <3> QED  BY <3>1, StructureAssumption
  <2>2. profileState \in [Task -> [Profile -> ProfileRow]]
    BY DEF TypeOK
  <2>3. ASSUME NEW p \in Profile
        PROVE  [profileState EXCEPT ![t][p].permanent_failure = TRUE]
                 \in [Task -> [Profile -> ProfileRow]]
    <3>1. [profileState[t][p] EXCEPT !.permanent_failure = TRUE] \in ProfileRow
      <4>1. profileState[t][p] \in ProfileRow
        BY <2>2
      <4> QED  BY <4>1 DEF ProfileRow
    <3>2. [profileState[t] EXCEPT ![p] = [profileState[t][p] EXCEPT !.permanent_failure = TRUE]]
            \in [Profile -> ProfileRow]
      BY <2>2, <3>1
    <3> QED  BY <2>2, <3>2
  <2> QED  BY <2>1, <2>2, <2>3 DEF Report
<1>3. head' \in [Task -> HeadRow \cup {NULL}]
  BY DEF Report, TypeOK
<1>4. TypeOK'
  BY <1>1, <1>2, <1>3, ReportWrites DEF TypeOK, Report
<1>5. ASSUME NEW u \in Task
      PROVE  NumberingOf(u)'
  <2>1. /\ NumberingOf(u)
        /\ task'[u].latest = task[u].latest
        /\ task'[u].lease_generation = task[u].lease_generation
        /\ epoch' = epoch
    BY ReportedTaskType DEF Numbering, Report, TypeOK
  <2>2. ASSUME NEW m \in AttemptNo
        PROVE  /\ attempts'[u][m] = NULL <=> attempts[u][m] = NULL
               /\ attempts[u][m] # NULL =>
                    /\ attempts'[u][m].lease_generation = attempts[u][m].lease_generation
                    /\ attempts'[u][m].epoch = attempts[u][m].epoch
    <3>1. CASE u = t /\ m = n
      <4>1. attempts'[t][n] \in AttemptRow /\ attempts[t][n] \in AttemptRow
        BY ReportWrites
      <4>2. attempts'[t][n] # NULL /\ attempts[t][n] # NULL
        BY <4>1, Bounds
      <4>3. /\ attempts'[t][n].lease_generation = attempts[t][n].lease_generation
            /\ attempts'[t][n].epoch = attempts[t][n].epoch
        BY ReportWrites
      <4> QED  BY <3>1, <4>2, <4>3
    <3>2. CASE ~(u = t /\ m = n)
      BY <3>2, ReportWrites
    <3> QED  BY <3>1, <3>2
  <2> QED  BY <2>1, <2>2 DEF NumberingOf
<1> QED  BY <1>4, <1>5 DEF Numbering

\* A renewal rewrites the expiry of its own attempt and of no other.
LEMMA RenewWrites ==
  ASSUME TypeOK, NEW t \in Task, NEW n \in AttemptNo, NEW d \in Duration,
         Renew(t, n, d)
  PROVE  /\ attempts[t][n] \in AttemptRow
         /\ attempts'[t][n] \in AttemptRow
         /\ attempts'[t][n].expires_at = RenewedExpiry(attempts[t][n], d)
         /\ attempts'[t][n].by = attempts[t][n].by
         /\ attempts'[t][n].epoch = attempts[t][n].epoch
         /\ attempts'[t][n].lease_generation = attempts[t][n].lease_generation
         /\ attempts'[t][n].outcome = attempts[t][n].outcome
         /\ \A m \in AttemptNo : m # n => attempts'[t][m] = attempts[t][m]
         /\ \A u \in Task : u # t => attempts'[u] = attempts[u]
         /\ attempts' \in [Task -> [AttemptNo -> AttemptRow \cup {NULL}]]
<1>1. attempts \in [Task -> [AttemptNo -> AttemptRow \cup {NULL}]]
  BY DEF TypeOK
<1>2. attempts[t][n] \in AttemptRow
  BY <1>1 DEF Renew
<1>3. [attempts[t][n] EXCEPT !.expires_at = RenewedExpiry(attempts[t][n], d)] \in AttemptRow
  BY <1>2, RenewedExpiryType DEF AttemptRow, TypeOK
<1>4. attempts' = [attempts EXCEPT ![t] =
                     [attempts[t] EXCEPT ![n] =
                        [attempts[t][n] EXCEPT
                           !.expires_at = RenewedExpiry(attempts[t][n], d)]]]
  BY DEF Renew
<1>5. attempts'[t][n] = [attempts[t][n] EXCEPT
                           !.expires_at = RenewedExpiry(attempts[t][n], d)]
  BY <1>1, <1>4
<1>6. /\ attempts'[t][n].expires_at = RenewedExpiry(attempts[t][n], d)
      /\ attempts'[t][n].by = attempts[t][n].by
      /\ attempts'[t][n].epoch = attempts[t][n].epoch
      /\ attempts'[t][n].lease_generation = attempts[t][n].lease_generation
      /\ attempts'[t][n].outcome = attempts[t][n].outcome
  BY <1>2, <1>5 DEF AttemptRow
<1> QED  BY <1>1, <1>2, <1>3, <1>4, <1>5, <1>6

\* A renewal keeps the types and the numbering.
LEMMA RenewType ==
  ASSUME TypeOK, Numbering, NEW t \in Task, NEW n \in AttemptNo,
         NEW d \in Duration, Renew(t, n, d)
  PROVE  TypeOK' /\ Numbering'
<1>1. head' \in [Task -> HeadRow \cup {NULL}]
  <2>1. RenewedExpiry(attempts[t][n], d) \in 0..MaxNow
    BY RenewWrites, RenewedExpiryType DEF TypeOK
  <2>2. CASE head[t] # NULL /\ head[t].attempt = n
    <3>1. head[t] \in HeadRow
      BY <2>2 DEF TypeOK
    <3>2. [head[t] EXCEPT !.expires_at = RenewedExpiry(attempts[t][n], d)] \in HeadRow
      BY <2>1, <3>1 DEF HeadRow
    <3> QED  BY <2>2, <3>2 DEF Renew, RenewedHead, TypeOK
  <2>3. CASE ~(head[t] # NULL /\ head[t].attempt = n)
    BY <2>3 DEF Renew, RenewedHead, TypeOK
  <2> QED  BY <2>2, <2>3
<1>2. TypeOK'
  BY <1>1, RenewWrites DEF TypeOK, Renew
<1>3. ASSUME NEW u \in Task
      PROVE  NumberingOf(u)'
  <2>1. NumberingOf(u) /\ task'[u] = task[u] /\ epoch' = epoch
    BY DEF Numbering, Renew
  <2>2. ASSUME NEW m \in AttemptNo
        PROVE  /\ attempts'[u][m] = NULL <=> attempts[u][m] = NULL
               /\ attempts[u][m] # NULL =>
                    /\ attempts'[u][m].lease_generation = attempts[u][m].lease_generation
                    /\ attempts'[u][m].epoch = attempts[u][m].epoch
    <3>1. CASE u = t /\ m = n
      <4>1. attempts'[t][n] \in AttemptRow /\ attempts[t][n] \in AttemptRow
        BY RenewWrites
      <4>2. attempts'[t][n] # NULL /\ attempts[t][n] # NULL
        BY <4>1, Bounds
      <4>3. /\ attempts'[t][n].lease_generation = attempts[t][n].lease_generation
            /\ attempts'[t][n].epoch = attempts[t][n].epoch
        BY RenewWrites
      <4> QED  BY <3>1, <4>2, <4>3
    <3>2. CASE ~(u = t /\ m = n)
      BY <3>2, RenewWrites
    <3> QED  BY <3>1, <3>2
  <2> QED  BY <2>1, <2>2 DEF NumberingOf
<1> QED  BY <1>2, <1>3 DEF Numbering

\* A change of a task keeps the types and the numbering.
LEMMA ChangeKeepsType ==
  ASSUME TypeOK, Numbering, NEW t \in Task, NEW ch \in Change,
         ChangeTask(t, ch)
  PROVE  TypeOK' /\ Numbering'
<1>1. Invalidates(ch) => task[t].lease_generation < MaxGeneration
  BY DEF ChangeTask
<1>2. TypeOK'
  <2>1. task' \in [Task -> TaskRow]
    BY <1>1, ChangedTaskType DEF ChangeTask, TypeOK
  <2>2. attempts' \in [Task -> [AttemptNo -> AttemptRow \cup {NULL}]]
    BY RevokeLatestKeeps DEF ChangeTask, TypeOK
  <2>3. head' \in [Task -> HeadRow \cup {NULL}]
    BY DEF ChangeTask, TypeOK
  <2>4. profileState' \in [Task -> [Profile -> ProfileRow]]
    BY ResetStateType DEF ChangeTask, TypeOK
  <2> QED  BY <2>1, <2>2, <2>3, <2>4 DEF TypeOK, ChangeTask
<1>3. ASSUME NEW u \in Task
      PROVE  NumberingOf(u)'
  <2>1. NumberingOf(u) /\ epoch' = epoch /\ task[u] \in TaskRow
    BY DEF Numbering, ChangeTask, TypeOK
  <2>2. /\ task'[u].latest = task[u].latest
        /\ task[u].lease_generation <= task'[u].lease_generation
        /\ task'[u].latest \in Int
        /\ task'[u].lease_generation \in Int /\ task[u].lease_generation \in Int
    BY <1>1, <2>1, ChangedTaskType DEF ChangeTask, TypeOK, TaskRow
  <2>3. ASSUME NEW m \in AttemptNo
        PROVE  /\ attempts'[u][m] = NULL <=> attempts[u][m] = NULL
               /\ attempts[u][m] # NULL =>
                    /\ attempts'[u][m].lease_generation = attempts[u][m].lease_generation
                    /\ attempts'[u][m].epoch = attempts[u][m].epoch
                    /\ attempts[u][m] \in AttemptRow
    <3>1. attempts'[u] = attempts[u] \/ attempts'[u] = RevokeLatest(u)
      BY DEF ChangeTask, TypeOK
    <3>2. attempts[u][m] \in AttemptRow \cup {NULL}
      BY DEF TypeOK
    <3> QED  BY <3>1, <3>2, RevokeLatestKeeps
  <2>4. ASSUME NEW m \in AttemptNo, attempts[u][m] # NULL
        PROVE  /\ attempts'[u][m].lease_generation <= task'[u].lease_generation
               /\ attempts'[u][m].epoch <= epoch'
    <3>1. attempts[u][m].lease_generation <= task[u].lease_generation
      BY <2>1, <2>4 DEF NumberingOf
    <3>2. attempts[u][m].lease_generation \in Int
      BY <2>3, <2>4 DEF AttemptRow
    <3> QED  BY <2>1, <2>2, <2>3, <2>4, <3>1, <3>2 DEF NumberingOf
  <2>5. task'[u].latest <= task'[u].lease_generation
    BY <2>1, <2>2 DEF NumberingOf
  <2>6. \A m \in AttemptNo : attempts'[u][m] # NULL <=> m <= task'[u].latest
    BY <2>1, <2>2, <2>3 DEF NumberingOf
  <2> QED  BY <2>3, <2>4, <2>5, <2>6 DEF NumberingOf
<1> QED  BY <1>2, <1>3 DEF Numbering

-----------------------------------------------------------------------------
(* The inductive invariant. *)

Settled(t) == task[t].completed => ~Live(t) /\ ShowsSuccess(t)

\* CompletedIsSettled is not inductive by itself: that a success closes the
\* task for every attempt needs the numbering, and that a claim supersedes
\* the head needs the head to be the latest attempt's.
IInv ==
  /\ TypeOK
  /\ Numbering
  /\ HeadIsProjection
  /\ \A t \in Task : Settled(t)

\* What a step does not touch keeps what was true of it.
LEMMA Untouched ==
  ASSUME NEW t \in Task, HeadMatches(t), Settled(t),
         task'[t] = task[t], attempts'[t] = attempts[t], head'[t] = head[t]
  PROVE  HeadMatches(t)' /\ Settled(t)'
BY DEF HeadMatches, Settled, Live, ShowsSuccess

\* A claim leaves every task it grants with the head of the new attempt.
LEMMA ClaimSafe ==
  ASSUME IInv, NEW c \in Caller, NEW S \in SUBSET Task,
         NEW d \in Duration, Claim(c, S, d), NEW t \in Task
  PROVE  HeadMatches(t)' /\ Settled(t)'
<1>1. CASE t \notin S
  BY <1>1, Untouched DEF IInv, HeadIsProjection, Claim
<1>2. CASE t \in S
  <2> DEFINE n == task[t].latest + 1
  <2>1. /\ GrantedTask(t).latest = n
        /\ GrantedTask(t).lease_generation = task[t].lease_generation + 1
        /\ GrantedTask(t).completed = task[t].completed
        /\ n \in AttemptNo
    BY <1>2, GrantType DEF IInv, Claim
  <2>2. task'[t] = GrantedTask(t) /\ head'[t] = NewHead(c, t, d)
    BY <1>2 DEF Claim
  <2>3. attempts'[t][n] = NewAttempt(c, t, d)
    <3>1. attempts'[t] = [RevokeLatest(t) EXCEPT ![n] = NewAttempt(c, t, d)]
      BY <1>2 DEF Claim
    <3> QED  BY <2>1, <3>1, RevokeLatestKeeps DEF IInv
  <2>4. ~task[t].completed
    BY <1>2 DEF Claim, Eligible
  <2>5. head'[t] = [attempt |-> n, by |-> c, epoch |-> epoch,
                    lease_generation |-> task[t].lease_generation + 1,
                    expires_at |-> Expiry(d)]
    BY <2>2 DEF NewHead
  <2>6. /\ attempts'[t][n].by = c
        /\ attempts'[t][n].epoch = epoch
        /\ attempts'[t][n].lease_generation = task[t].lease_generation + 1
        /\ attempts'[t][n].expires_at = Expiry(d)
        /\ attempts'[t][n].outcome = NULL
    BY <2>3 DEF NewAttempt
  <2>7. task'[t].latest = n /\ task'[t].lease_generation = task[t].lease_generation + 1
    BY <2>1, <2>2
  <2>8. Live(t)' /\ head'[t] # NULL
    <3>1. n # 0
      BY <2>1 DEF AttemptNo
    <3>2. NewHead(c, t, d) # NULL
      BY <1>2, GrantType, Bounds DEF IInv, Claim
    <3> QED  BY <2>2, <2>6, <2>7, <3>1, <3>2 DEF Live
  <2>9. HeadMatches(t)'
    BY <2>5, <2>6, <2>7, <2>8 DEF HeadMatches
  <2> QED  BY <2>1, <2>2, <2>4, <2>9 DEF Settled
<1> QED  BY <1>1, <1>2

\* A report ends the life of its attempt, takes its head away, and closes
\* the task only with a success.
LEMMA ReportSafe ==
  ASSUME IInv, NEW u \in Task, NEW n \in AttemptNo, NEW o \in Outcome,
         Report(u, n, o), NEW t \in Task
  PROVE  HeadMatches(t)' /\ Settled(t)'
<1>1. CASE t # u
  <2>1. task'[t] = task[t] /\ head'[t] = head[t]
    BY <1>1 DEF Report, IInv, TypeOK
  <2> QED  BY <1>1, <2>1, Untouched, ReportWrites DEF IInv, HeadIsProjection
<1>2. CASE t = u
  <2>1. /\ n = task[t].latest
        /\ attempts[t][n].outcome = NULL
        /\ attempts[t][n].lease_generation = task[t].lease_generation
    BY <1>2 DEF Report, MayReport, Fenced
  <2>2. Live(t) /\ head[t] # NULL /\ head[t].attempt = n
    <3>1. n # 0 /\ HeadMatches(t)
      BY DEF IInv, HeadIsProjection, AttemptNo
    <3>2. Live(t)
      BY <2>1, <3>1 DEF Live
    <3> QED  BY <2>1, <3>1, <3>2 DEF HeadMatches
  <2>3. head'[t] = NULL
    BY <1>2, <2>2 DEF Report, IInv, TypeOK
  <2>4. /\ task'[t] = ReportedTask(t, n, o)
        /\ task'[t].latest = n
    BY <1>2, <2>1, ReportedTaskType DEF Report, IInv, TypeOK
  <2>5. attempts'[t][n].outcome = o /\ o # NULL
    BY <1>2, ReportWrites, Bounds DEF IInv
  <2>6. ~Live(t)'
    BY <2>4, <2>5 DEF Live
  <2>7. task'[t].completed => ShowsSuccess(t)'
    <3>1. ~task[t].completed
      BY <2>2 DEF IInv, Settled
    <3>2. CASE o.outcome = "success"
      <4>1. task'[t].result = n
        BY <2>4, <3>2, ReportedTaskType DEF IInv
      <4> QED  BY <2>5, <3>2, <4>1 DEF ShowsSuccess, AttemptNo
    <3>3. CASE o.outcome # "success"
      BY <2>4, <3>1, <3>3, ReportedTaskType DEF IInv
    <3> QED  BY <3>2, <3>3
  <2> QED  BY <2>3, <2>6, <2>7 DEF HeadMatches, Settled
<1> QED  BY <1>1, <1>2

\* A renewal moves the expiry of the attempt and of its head together.
LEMMA RenewSafe ==
  ASSUME IInv, NEW u \in Task, NEW n \in AttemptNo, NEW d \in Duration,
         Renew(u, n, d), NEW t \in Task
  PROVE  HeadMatches(t)' /\ Settled(t)'
<1>1. CASE t # u
  <2>1. task'[t] = task[t] /\ head'[t] = head[t]
    BY <1>1 DEF Renew, RenewedHead, IInv, TypeOK
  <2> QED  BY <1>1, <2>1, Untouched, RenewWrites DEF IInv, HeadIsProjection
<1>2. CASE t = u
  <2>1. /\ n = task[t].latest
        /\ attempts[t][n].outcome = NULL
        /\ attempts[t][n].lease_generation = task[t].lease_generation
        /\ task'[t] = task[t]
    BY <1>2 DEF Renew, MayRenew, Fenced
  <2>2. HeadMatches(t) /\ Settled(t) /\ n # 0
    BY DEF IInv, HeadIsProjection, AttemptNo
  <2>3. Live(t)
    BY <2>1, <2>2 DEF Live
  <2>4. /\ head[t] # NULL
        /\ head[t] = [attempt |-> n, by |-> attempts[t][n].by,
                      epoch |-> attempts[t][n].epoch,
                      lease_generation |-> attempts[t][n].lease_generation,
                      expires_at |-> attempts[t][n].expires_at]
    BY <2>1, <2>2, <2>3 DEF HeadMatches
  <2>5. head[t].attempt = n
    BY <2>4
  <2>6. head' = [head EXCEPT ![t].expires_at = RenewedExpiry(attempts[t][n], d)]
    BY <1>2, <2>4, <2>5 DEF Renew, RenewedHead
  <2>7. head'[t] = [head[t] EXCEPT !.expires_at = RenewedExpiry(attempts[t][n], d)]
    BY <2>6 DEF IInv, TypeOK
  <2>8. head'[t] = [attempt |-> n, by |-> attempts[t][n].by,
                    epoch |-> attempts[t][n].epoch,
                    lease_generation |-> attempts[t][n].lease_generation,
                    expires_at |-> RenewedExpiry(attempts[t][n], d)]
    BY <2>4, <2>7
  <2>9. head'[t] # NULL
    <3>1. head' \in [Task -> HeadRow \cup {NULL}] /\ head'[t] \in HeadRow
      <4>1. RenewedExpiry(attempts[t][n], d) \in 0..MaxNow
        BY <1>2, RenewWrites, RenewedExpiryType DEF IInv, TypeOK
      <4>2. head[t] \in HeadRow
        BY <2>4 DEF IInv, TypeOK
      <4>3. head'[t] \in HeadRow
        BY <2>7, <4>1, <4>2 DEF HeadRow
      <4> QED  BY <1>2, <4>3, RenewType DEF IInv, TypeOK
    <3> QED  BY <3>1, Bounds
  <2>10. Live(t)'
    BY <1>2, <2>1, <2>2, RenewWrites DEF Live, IInv
  <2>11. HeadMatches(t)'
    BY <1>2, <2>1, <2>8, <2>9, <2>10, RenewWrites DEF HeadMatches, IInv
  <2>12. ~task[t].completed
    BY <2>2, <2>3 DEF Settled
  <2> QED  BY <2>1, <2>11, <2>12 DEF Settled
<1> QED  BY <1>1, <1>2

\* A change that invalidates takes the head away and moves the generation
\* past the attempt; any other leaves lease and result as they were.
LEMMA ChangeSafe ==
  ASSUME IInv, NEW u \in Task, NEW ch \in Change, ChangeTask(u, ch),
         NEW t \in Task
  PROVE  HeadMatches(t)' /\ Settled(t)'
<1>1. CASE t # u
  <2>1. task'[t] = task[t] /\ head'[t] = head[t] /\ attempts'[t] = attempts[t]
    BY <1>1 DEF ChangeTask, IInv, TypeOK
  <2> QED  BY <2>1, Untouched DEF IInv, HeadIsProjection
<1>2. CASE t = u
  <2>1. /\ task'[t] = ChangedTask(t, ch)
        /\ task'[t].latest = task[t].latest
        /\ task'[t].lease_generation =
             IF Invalidates(ch) THEN task[t].lease_generation + 1
                                ELSE task[t].lease_generation
        /\ task'[t].completed = (task[t].completed /\ ~ResetsAll(ch))
        /\ ~ResetsAll(ch) => task'[t].result = task[t].result
    BY <1>2, ChangedTaskType DEF ChangeTask, IInv, TypeOK
  <2>2. HeadMatches(t) /\ Settled(t) /\ NumberingOf(t) /\ task[t] \in TaskRow
    BY DEF IInv, HeadIsProjection, Numbering, TypeOK
  <2>3. \A n \in AttemptNo : attempts[t][n] # NULL =>
          /\ attempts'[t][n].outcome = attempts[t][n].outcome
          /\ attempts'[t][n].lease_generation = attempts[t][n].lease_generation
    BY <1>2, RevokeLatestKeeps DEF ChangeTask, IInv, TypeOK
  <2>4. task[t].latest # 0 =>
          task[t].latest \in AttemptNo /\ attempts[t][task[t].latest] \in AttemptRow
                                       /\ attempts[t][task[t].latest] # NULL
    BY <2>2, Bounds DEF NumberingOf, TaskRow, AttemptNo, IInv, TypeOK
  <2>5. ShowsSuccess(t) /\ ~ResetsAll(ch) => ShowsSuccess(t)'
    <3>1. SUFFICES ASSUME ShowsSuccess(t), ~ResetsAll(ch) PROVE ShowsSuccess(t)'
      OBVIOUS
    <3>2. task[t].result \in AttemptNo
      BY <2>2, <3>1, Bounds DEF TaskRow, AttemptNo, ShowsSuccess
    <3>3. attempts'[t][task[t].result].outcome = attempts[t][task[t].result].outcome
      <4>1. CASE task[t].result = task[t].latest
        BY <2>3, <2>4, <3>1, <4>1 DEF ShowsSuccess
      <4>2. CASE task[t].result # task[t].latest
        BY <1>2, <3>2, <4>2, RevokeLatestKeeps DEF ChangeTask, IInv, TypeOK
      <4> QED  BY <4>1, <4>2
    <3> QED  BY <2>1, <3>1, <3>3 DEF ShowsSuccess
  <2>6. CASE Invalidates(ch)
    <3>1. head'[t] = NULL
      BY <1>2, <2>6 DEF ChangeTask, IInv, TypeOK
    <3>2. ~Live(t)'
      <4>1. CASE task[t].latest = 0
        BY <2>1, <4>1 DEF Live
      <4>2. CASE task[t].latest # 0
        <5>1. attempts[t][task[t].latest].lease_generation <= task[t].lease_generation
          BY <2>2, <2>4, <4>2 DEF NumberingOf
        <5>2. attempts[t][task[t].latest].lease_generation # task[t].lease_generation + 1
          BY <2>2, <2>4, <4>2, <5>1 DEF TaskRow, AttemptRow
        <5> QED  BY <2>1, <2>3, <2>4, <2>6, <4>2, <5>2 DEF Live
      <4> QED  BY <4>1, <4>2
    <3> QED  BY <2>1, <2>2, <2>5, <3>1, <3>2 DEF HeadMatches, Settled
  <2>7. CASE ~Invalidates(ch)
    <3>1. head'[t] = head[t] /\ attempts'[t] = attempts[t]
      BY <1>2, <2>7 DEF ChangeTask
    <3>2. ~ResetsAll(ch)
      BY <2>7 DEF ResetsAll, Resets, Invalidates
    <3> QED  BY <2>1, <2>2, <2>5, <2>7, <3>1, <3>2 DEF HeadMatches, Settled, Live
  <2> QED  BY <2>6, <2>7
<1> QED  BY <1>1, <1>2

\* Keys, maintenance, epochs and time move no row of a task.
LEMMA RestType ==
  ASSUME TypeOK, Numbering,
         \/ \E k \in Key : SoftRevoke(k)
         \/ \E k \in Key : HardRevoke(k)
         \/ \E b \in BOOLEAN : SetMaintenance(b)
         \/ ActivateEpoch
         \/ Tick
         \/ UNCHANGED vars
  PROVE  /\ TypeOK' /\ Numbering'
         /\ task' = task /\ attempts' = attempts /\ head' = head
         /\ profileState' = profileState
         /\ epoch <= epoch' /\ now <= now'
<1>1. /\ task' = task /\ attempts' = attempts /\ head' = head
      /\ profileState' = profileState
  BY DEF SoftRevoke, HardRevoke, SetMaintenance, ActivateEpoch, Tick, vars
<1>2. keyStatus' \in [Key -> {"active", "soft_revoked", "hard_revoked"}]
  BY DEF SoftRevoke, HardRevoke, SetMaintenance, ActivateEpoch, Tick, vars, TypeOK
<1>3. maintenance' \in BOOLEAN
  BY DEF SoftRevoke, HardRevoke, SetMaintenance, ActivateEpoch, Tick, vars, TypeOK
<1>4. epoch' \in 1..MaxEpoch /\ epoch <= epoch'
  BY Bounds DEF SoftRevoke, HardRevoke, SetMaintenance, ActivateEpoch, Tick, vars, TypeOK
<1>5. now' \in 0..MaxNow /\ now <= now'
  BY Bounds DEF SoftRevoke, HardRevoke, SetMaintenance, ActivateEpoch, Tick, vars, TypeOK
<1>6. TypeOK'
  BY <1>1, <1>2, <1>3, <1>4, <1>5 DEF TypeOK
<1>7. ASSUME NEW t \in Task
      PROVE  NumberingOf(t)'
  <2>1. NumberingOf(t)
    BY DEF Numbering
  <2>2. ASSUME NEW n \in AttemptNo, attempts[t][n] # NULL
        PROVE  attempts[t][n].epoch <= epoch'
    <3>1. attempts[t][n].epoch \in Int /\ epoch \in Int /\ epoch' \in Int
      BY <1>4, <2>2 DEF TypeOK, AttemptRow
    <3> QED  BY <1>4, <2>1, <2>2, <3>1 DEF NumberingOf
  <2> QED  BY <1>1, <2>1, <2>2 DEF NumberingOf
<1> QED  BY <1>1, <1>4, <1>5, <1>6, <1>7 DEF Numbering

\* The invariant holds at first: no attempt, no head, nothing completed.
LEMMA InitInvariant == Init => IInv
<1> SUFFICES ASSUME Init PROVE IInv
  OBVIOUS
<1>1. NewTask \in TaskRow /\ NewTask.latest = 0 /\ NewTask.lease_generation = 0
                          /\ ~NewTask.completed
  BY Bounds DEF NewTask, TaskRow
<1>2. TypeOK
  <2>1. now \in 0..MaxNow /\ epoch \in 1..MaxEpoch
    BY BoundAssumption DEF Init, MaxNow
  <2>5. maintenance \in BOOLEAN
    BY DEF Init
  <2>2. /\ keyStatus \in [Key -> {"active", "soft_revoked", "hard_revoked"}]
        /\ task \in [Task -> TaskRow]
        /\ head \in [Task -> HeadRow \cup {NULL}]
    BY <1>1 DEF Init
  <2>3. attempts \in [Task -> [AttemptNo -> AttemptRow \cup {NULL}]]
    BY DEF Init
  <2>4. profileState \in [Task -> [Profile -> ProfileRow]]
    <3>1. [attempts |-> 0, permanent_failure |-> FALSE] \in ProfileRow
      BY DEF ProfileRow
    <3> QED  BY <3>1 DEF Init
  <2> QED  BY <2>1, <2>2, <2>3, <2>4, <2>5 DEF TypeOK
<1>3. ASSUME NEW t \in Task
      PROVE  NumberingOf(t) /\ HeadMatches(t) /\ Settled(t)
  <2>1. task[t] = NewTask /\ head[t] = NULL /\ \A n \in AttemptNo : attempts[t][n] = NULL
    BY DEF Init
  <2>2. ~Live(t)
    BY <1>1, <2>1 DEF Live
  <2> QED  BY <1>1, <2>1, <2>2 DEF NumberingOf, HeadMatches, Settled, AttemptNo
<1> QED  BY <1>2, <1>3 DEF IInv, Numbering, HeadIsProjection

\* Every step keeps the invariant.
LEMMA NextInvariant == IInv /\ [Next]_vars => IInv'
<1> SUFFICES ASSUME IInv, [Next]_vars PROVE IInv'
  OBVIOUS
<1> USE DEF IInv, HeadIsProjection
<1>1. ASSUME NEW c \in Caller, NEW S \in SUBSET Task, NEW d \in Duration, Claim(c, S, d)
      PROVE  IInv'
  BY <1>1, ClaimType, ClaimSafe
<1>2. ASSUME NEW t \in Task, NEW n \in AttemptNo, NEW o \in Outcome, Report(t, n, o)
      PROVE  IInv'
  BY <1>2, ReportType, ReportSafe
<1>3. ASSUME NEW t \in Task, NEW n \in AttemptNo, NEW d \in Duration, Renew(t, n, d)
      PROVE  IInv'
  BY <1>3, RenewType, RenewSafe
<1>4. ASSUME NEW t \in Task, NEW ch \in Change, ChangeTask(t, ch)
      PROVE  IInv'
  BY <1>4, ChangeKeepsType, ChangeSafe
<1>5. ASSUME \/ \E k \in Key : SoftRevoke(k)
             \/ \E k \in Key : HardRevoke(k)
             \/ \E b \in BOOLEAN : SetMaintenance(b)
             \/ ActivateEpoch
             \/ Tick
             \/ UNCHANGED vars
      PROVE  IInv'
  BY <1>5, RestType, Untouched
<1> QED  BY <1>1, <1>2, <1>3, <1>4, <1>5 DEF Next

\* The inductive invariant holds in every reachable state.
LEMMA Invariant == Spec => []IInv
BY InitInvariant, NextInvariant, PTL DEF Spec

\* Every table has the rows its schema allows.
THEOREM TypeCorrect == Spec => []TypeOK
BY Invariant, PTL DEF IInv

\* lease_heads always says what tasks and attempts say: see HeadIsProjection.
THEOREM HeadsAgree == Spec => []HeadIsProjection
BY Invariant, PTL DEF IInv

\* A completed task shows an accepted success, and no attempt of it can still
\* be accepted.
THEOREM CompletedSettled == Spec => []CompletedIsSettled
<1>1. IInv => CompletedIsSettled
  <2> SUFFICES ASSUME IInv, NEW t \in Task, task[t].completed
               PROVE  (\A n \in AttemptNo : ~Authority(t, n)) /\ ShowsSuccess(t)
    BY DEF CompletedIsSettled
  <2>1. Settled(t) /\ task[t] \in TaskRow
    BY DEF IInv, TypeOK
  <2> QED  BY <2>1 DEF Settled, Live, Authority, AttemptNo
<1> QED  BY <1>1, Invariant, PTL

-----------------------------------------------------------------------------
(* What no step does. *)

\* What a step may do to attempt n of task t: the row keeps its identity, the
\* numbers that fence it only grow, a hard-revoked key stays so, and it gets
\* an outcome only while it has the authority.
Moves(t, n) ==
  /\ attempts'[t][n].by = attempts[t][n].by
  /\ attempts'[t][n].lease_generation = attempts[t][n].lease_generation
  /\ attempts'[t][n].epoch = attempts[t][n].epoch
  /\ attempts'[t][n].outcome # attempts[t][n].outcome => Authority(t, n)
  /\ task[t].latest <= task'[t].latest
  /\ task[t].lease_generation <= task'[t].lease_generation
  /\ epoch <= epoch'
  /\ \A k \in Key : keyStatus[k] = "hard_revoked" => keyStatus'[k] = "hard_revoked"

\* Every step moves the rows an attempt depends on only as Moves says.
LEMMA StepMoves ==
  ASSUME IInv, [Next]_vars, NEW t \in Task, NEW n \in AttemptNo,
         attempts[t][n] # NULL
  PROVE  Moves(t, n)
<1>0. /\ n <= task[t].latest /\ task[t] \in TaskRow
      /\ attempts[t][n] \in AttemptRow /\ epoch \in 1..MaxEpoch
  BY DEF IInv, Numbering, NumberingOf, TypeOK
<1>1. task[t].latest <= task[t].latest /\ epoch <= epoch
      /\ task[t].lease_generation <= task[t].lease_generation
  BY <1>0 DEF TaskRow
<1>2. ASSUME NEW c \in Caller, NEW S \in SUBSET Task, NEW d \in Duration, Claim(c, S, d)
      PROVE  Moves(t, n)
  <2>1. CASE t \in S
    <3>1. /\ task'[t].latest = task[t].latest + 1
          /\ task'[t].lease_generation = task[t].lease_generation + 1
          /\ task[t].latest + 1 \in AttemptNo
      BY <1>2, <2>1, GrantType DEF IInv, Claim
    <3>2. n # task[t].latest + 1
      BY <1>0 DEF TaskRow, AttemptNo
    <3>3. attempts'[t] = [RevokeLatest(t) EXCEPT
                            ![task[t].latest + 1] = NewAttempt(c, t, d)]
      BY <1>2, <2>1 DEF Claim
    <3>4. attempts'[t][n] = RevokeLatest(t)[n]
      BY <3>1, <3>2, <3>3, RevokeLatestKeeps DEF IInv
    <3>5. epoch' = epoch /\ keyStatus' = keyStatus
      BY <1>2 DEF Claim
    <3> QED  BY <1>0, <1>1, <3>1, <3>4, <3>5, RevokeLatestKeeps DEF Moves, IInv, TaskRow
  <2>2. CASE t \notin S
    BY <1>1, <1>2, <2>2 DEF Claim, Moves
  <2> QED  BY <2>1, <2>2
<1>3. ASSUME NEW u \in Task, NEW m \in AttemptNo, NEW o \in Outcome, Report(u, m, o)
      PROVE  Moves(t, n)
  <2>1. /\ task'[t].latest = task[t].latest
        /\ task'[t].lease_generation = task[t].lease_generation
        /\ epoch' = epoch /\ keyStatus' = keyStatus
    BY <1>3, ReportedTaskType DEF Report, IInv, TypeOK
  <2>2. CASE u = t /\ m = n
    <3>1. Authority(t, n)
      BY <1>3, <2>2 DEF Report, MayReport, KeyMayReport, Fenced, Authority
    <3> QED  BY <1>1, <1>3, <2>1, <2>2, <3>1, ReportWrites DEF Moves, IInv
  <2>3. CASE ~(u = t /\ m = n)
    <3>1. attempts'[t][n] = attempts[t][n]
      BY <1>3, <2>3, ReportWrites DEF IInv
    <3> QED  BY <1>1, <2>1, <3>1 DEF Moves
  <2> QED  BY <2>2, <2>3
<1>4. ASSUME NEW u \in Task, NEW m \in AttemptNo, NEW d \in Duration, Renew(u, m, d)
      PROVE  Moves(t, n)
  <2>1. task' = task /\ epoch' = epoch /\ keyStatus' = keyStatus
    BY <1>4 DEF Renew
  <2>2. CASE u = t /\ m = n
    BY <1>1, <1>4, <2>1, <2>2, RenewWrites DEF Moves, IInv
  <2>3. CASE ~(u = t /\ m = n)
    <3>1. attempts'[t][n] = attempts[t][n]
      BY <1>4, <2>3, RenewWrites DEF IInv
    <3> QED  BY <1>1, <2>1, <3>1 DEF Moves
  <2> QED  BY <2>2, <2>3
<1>5. ASSUME NEW u \in Task, NEW ch \in Change, ChangeTask(u, ch)
      PROVE  Moves(t, n)
  <2>1. /\ task'[t].latest = task[t].latest
        /\ task[t].lease_generation <= task'[t].lease_generation
    BY <1>0, <1>5, ChangedTaskType DEF ChangeTask, IInv, TypeOK, TaskRow
  <2>2. attempts'[t] = attempts[t] \/ attempts'[t] = RevokeLatest(t)
    BY <1>5 DEF ChangeTask, IInv, TypeOK
  <2>3. epoch' = epoch /\ keyStatus' = keyStatus
    BY <1>5 DEF ChangeTask
  <2> QED  BY <1>1, <2>1, <2>2, <2>3, RevokeLatestKeeps DEF Moves, IInv
<1>6. ASSUME \/ \E k \in Key : SoftRevoke(k)
             \/ \E k \in Key : HardRevoke(k)
             \/ \E b \in BOOLEAN : SetMaintenance(b)
             \/ ActivateEpoch
             \/ Tick
             \/ UNCHANGED vars
      PROVE  Moves(t, n)
  <2>1. task' = task /\ attempts' = attempts /\ epoch <= epoch'
    BY <1>6, RestType DEF IInv
  <2>2. \A k \in Key : keyStatus[k] = "hard_revoked" => keyStatus'[k] = "hard_revoked"
    BY <1>6 DEF SoftRevoke, HardRevoke, SetMaintenance, ActivateEpoch, Tick, vars, IInv, TypeOK
  <2> QED  BY <1>1, <2>1, <2>2 DEF Moves
<1> QED  BY <1>2, <1>3, <1>4, <1>5, <1>6 DEF Next

\* No single step gives a lost attempt its authority back.
LEMMA OldWorkerStep ==
  ASSUME IInv, [Next]_vars, NEW t \in Task, NEW n \in AttemptNo,
         attempts[t][n] # NULL, ~Authority(t, n)
  PROVE  ~Authority(t, n)' /\ attempts'[t][n].outcome = attempts[t][n].outcome
<1>1. Moves(t, n) /\ IInv'
  BY StepMoves, NextInvariant
<1>2. /\ task[t] \in TaskRow /\ task'[t] \in TaskRow
      /\ attempts[t][n] \in AttemptRow
      /\ epoch \in 1..MaxEpoch /\ epoch' \in 1..MaxEpoch
      /\ n <= task[t].latest
      /\ attempts[t][n].lease_generation <= task[t].lease_generation
      /\ attempts[t][n].epoch <= epoch
  BY <1>1 DEF IInv, Numbering, NumberingOf, TypeOK
<1>3. attempts'[t][n].outcome = attempts[t][n].outcome
  BY <1>1 DEF Moves
<1>4. attempts[t][n].by.key \in Key
  <2>1. attempts[t][n].by \in Caller
    BY <1>2 DEF AttemptRow
  <2> QED  BY <2>1, StructureAssumption
\* An attempt is out for one of five reasons, and each of them is for good.
<1>5. \/ attempts[t][n].outcome # NULL
      \/ n < task[t].latest
      \/ attempts[t][n].lease_generation < task[t].lease_generation
      \/ attempts[t][n].epoch < epoch
      \/ keyStatus[attempts[t][n].by.key] = "hard_revoked"
  BY <1>2 DEF Authority, TaskRow, AttemptRow, AttemptNo
<1>6. CASE attempts[t][n].outcome # NULL
  BY <1>3, <1>6 DEF Authority
<1>7. CASE n < task[t].latest
  BY <1>1, <1>2, <1>3, <1>7 DEF Authority, Moves, TaskRow, AttemptNo
<1>8. CASE attempts[t][n].lease_generation < task[t].lease_generation
  BY <1>1, <1>2, <1>3, <1>8 DEF Authority, Moves, TaskRow, AttemptRow
<1>9. CASE attempts[t][n].epoch < epoch
  BY <1>1, <1>2, <1>3, <1>9 DEF Authority, Moves, AttemptRow
<1>10. CASE keyStatus[attempts[t][n].by.key] = "hard_revoked"
  BY <1>1, <1>3, <1>4, <1>10 DEF Authority, Moves
<1> QED  BY <1>5, <1>6, <1>7, <1>8, <1>9, <1>10

\* Once superseded, revoked or finalized, or once its key or epoch is gone, an
\* attempt never decides its task again, and its outcome never changes.
THEOREM OldWorkersStayOut == Spec => OldWorkerStaysOut
<1>1. IInv /\ [Next]_vars =>
        [\A t \in Task, n \in AttemptNo :
           attempts[t][n] # NULL /\ ~Authority(t, n)
             => /\ ~Authority(t, n)'
                /\ attempts'[t][n].outcome = attempts[t][n].outcome]_vars
  BY OldWorkerStep
<1> QED  BY <1>1, Invariant, PTL DEF Spec, OldWorkerStaysOut

\* A lease that no longer counts does not count again, unless for a new grant.
LEMMA DeadLeaseStep ==
  ASSUME IInv, [Next]_vars, NEW t \in Task, head[t] # NULL, ~Leased(t),
         task'[t].latest = task[t].latest
  PROVE  ~Leased(t)'
<1> DEFINE n == task[t].latest
<1>1. /\ IInv' /\ HeadMatches(t) /\ HeadMatches(t)'
  BY NextInvariant DEF IInv, HeadIsProjection
<1>2. SUFFICES ASSUME Leased(t)' PROVE FALSE
  OBVIOUS
<1>3. /\ Live(t) /\ n \in AttemptNo
      /\ head[t].attempt = n
      /\ head[t].by = attempts[t][n].by
      /\ head[t].epoch = attempts[t][n].epoch
      /\ head[t].lease_generation = attempts[t][n].lease_generation
      /\ head[t].expires_at = attempts[t][n].expires_at
  BY <1>1 DEF HeadMatches, Live, IInv, TypeOK, TaskRow, AttemptNo
<1>4. /\ Live(t)'
      /\ head'[t].by = attempts'[t][n].by
      /\ head'[t].epoch = attempts'[t][n].epoch
      /\ head'[t].expires_at = attempts'[t][n].expires_at
  <2>1. head'[t] # NULL
    BY <1>2 DEF Leased
  <2> QED  BY <1>1, <2>1 DEF HeadMatches
<1>5. attempts[t][n] # NULL /\ attempts[t][n] \in AttemptRow
  BY <1>3 DEF IInv, Numbering, NumberingOf, TypeOK, TaskRow
<1>6. Moves(t, n)
  BY <1>3, <1>5, StepMoves
<1>7. /\ keyStatus[head[t].by.key] # "hard_revoked"
      /\ head[t].epoch = epoch
  <2>1. attempts[t][n].by.key \in Key
    <3>1. attempts[t][n].by \in Caller
      BY <1>5 DEF AttemptRow
    <3> QED  BY <3>1, StructureAssumption
  <2>2. keyStatus'[attempts[t][n].by.key] # "hard_revoked"
        /\ attempts[t][n].epoch = epoch'
    BY <1>2, <1>4, <1>6 DEF Leased, Moves
  <2>3. attempts[t][n].epoch <= epoch /\ epoch <= epoch'
    BY <1>3, <1>5, <1>6 DEF Moves, IInv, Numbering, NumberingOf
  <2>4. attempts[t][n].epoch \in Int /\ epoch \in Int /\ epoch' \in Int
    BY <1>1, <1>5 DEF IInv, TypeOK, AttemptRow
  <2> QED  BY <1>3, <1>6, <2>1, <2>2, <2>3, <2>4 DEF Moves
<1>8. attempts[t][n].expires_at <= now
  <2>1. ~(head[t].expires_at > now)
    BY <1>3, <1>7 DEF Leased, Live
  <2> QED  BY <1>3, <1>5, <2>1 DEF IInv, TypeOK, AttemptRow
\* So the lease had expired, and no step moves the expiry of an expired lease.
<1>9. attempts'[t][n].expires_at = attempts[t][n].expires_at /\ now <= now'
  <2>0. now <= now /\ now \in 0..MaxNow
    BY DEF IInv, TypeOK
  <2>1. ASSUME NEW c \in Caller, NEW S \in SUBSET Task, NEW d \in Duration, Claim(c, S, d)
        PROVE  attempts'[t][n].expires_at = attempts[t][n].expires_at /\ now <= now'
    <3>1. t \notin S
      <4>1. t \in S => task'[t].latest = task[t].latest + 1
        BY <2>1, GrantType DEF IInv, Claim
      <4> QED  BY <1>3, <4>1 DEF AttemptNo
    <3> QED  BY <2>0, <2>1, <3>1 DEF Claim
  <2>2. ASSUME NEW u \in Task, NEW m \in AttemptNo, NEW o \in Outcome, Report(u, m, o)
        PROVE  attempts'[t][n].expires_at = attempts[t][n].expires_at /\ now <= now'
    <3>1. TypeOK /\ now' = now
      BY <2>2 DEF IInv, Report
    <3>2. /\ attempts'[u][m].expires_at = attempts[u][m].expires_at
          /\ \A i \in AttemptNo : i # m => attempts'[u][i] = attempts[u][i]
          /\ \A v \in Task : v # u => attempts'[v] = attempts[v]
      BY <2>2, <3>1, ReportWrites
    <3>3. attempts'[t][n].expires_at = attempts[t][n].expires_at
      BY <1>3, <3>2
    <3> QED  BY <2>0, <3>1, <3>3
  <2>3. ASSUME NEW u \in Task, NEW m \in AttemptNo, NEW d \in Duration, Renew(u, m, d)
        PROVE  attempts'[t][n].expires_at = attempts[t][n].expires_at /\ now <= now'
    <3>1. ~(u = t /\ m = n)
      <4>1. u = t /\ m = n => attempts[t][n].expires_at > now
        BY <2>3 DEF Renew, MayRenew
      <4> QED  BY <1>5, <1>8, <2>0, <4>1 DEF AttemptRow
    <3> QED  BY <1>3, <2>0, <2>3, <3>1, RenewWrites DEF IInv, Renew
  <2>4. ASSUME NEW u \in Task, NEW ch \in Change, ChangeTask(u, ch)
        PROVE  attempts'[t][n].expires_at = attempts[t][n].expires_at /\ now <= now'
    <3>1. attempts'[t] = attempts[t] \/ attempts'[t] = RevokeLatest(t)
      BY <2>4 DEF ChangeTask, IInv, TypeOK
    <3> QED  BY <1>3, <1>5, <2>0, <2>4, <3>1, RevokeLatestKeeps DEF ChangeTask, IInv
  <2>5. ASSUME \/ \E k \in Key : SoftRevoke(k)
               \/ \E k \in Key : HardRevoke(k)
               \/ \E b \in BOOLEAN : SetMaintenance(b)
               \/ ActivateEpoch
               \/ Tick
               \/ UNCHANGED vars
        PROVE  attempts'[t][n].expires_at = attempts[t][n].expires_at /\ now <= now'
    BY <2>5, RestType DEF IInv
  <2> QED  BY <2>1, <2>2, <2>3, <2>4, <2>5 DEF Next
<1>10. ~(attempts'[t][n].expires_at > now')
  <2>1. now \in Int /\ now' \in Int /\ attempts[t][n].expires_at \in Int
    BY <1>1, <1>5 DEF IInv, TypeOK, AttemptRow
  <2> QED  BY <1>8, <1>9, <2>1
<1> QED  BY <1>2, <1>4, <1>10 DEF Leased

\* A lease that expired, or whose key or epoch is gone, never counts again.
THEOREM DeadLeasesStayDead == Spec => DeadLeaseStaysDead
<1>1. IInv /\ [Next]_vars =>
        [\A t \in Task :
           head[t] # NULL /\ ~Leased(t)
             => ~(Leased(t)' /\ task'[t].latest = task[t].latest)]_vars
  BY DeadLeaseStep
<1> QED  BY <1>1, Invariant, PTL DEF Spec, DeadLeaseStaysDead

-----------------------------------------------------------------------------
(* The tables keep the promise of TaskAuthority.                           *)

\* A step that accepts no success and grants nothing leaves the promise as it
\* was, or takes the authority away.
LEMMA FenceOrSame ==
  ASSUME IInv, [Next]_vars, NEW t \in Task,
         task'[t].latest = task[t].latest,
         Accepted(t)' = Accepted(t),
         \/ task'[t].completed = task[t].completed
         \/ ~task'[t].completed /\ AuthorityOf(t)' = 0
  PROVE  \/ leaseBar(t)' = leaseBar(t)
         \/ Promise!TaskStep(leaseBar(t), leaseBar(t)')
<1>1. AuthorityOf(t)' = AuthorityOf(t) \/ AuthorityOf(t)' = 0
  <2>1. CASE task[t].latest = 0
    BY <2>1 DEF AuthorityOf
  <2>2. CASE task[t].latest # 0
    <3>1. task[t].latest \in AttemptNo /\ attempts[t][task[t].latest] # NULL
      BY <2>2 DEF IInv, Numbering, NumberingOf, TypeOK, TaskRow, AttemptNo
    <3>2. ~Authority(t, task[t].latest) => ~Authority(t, task[t].latest)'
      BY <3>1, OldWorkerStep
    <3> QED  BY <2>2, <3>2 DEF AuthorityOf
  <2> QED  BY <2>1, <2>2
<1>2. leaseBar(t) = [issued |-> task[t].latest, authority |-> AuthorityOf(t),
                     accepted |-> Accepted(t), open |-> ~task[t].completed]
  BY DEF leaseBar
<1>3. leaseBar(t)' = [issued |-> task[t].latest, authority |-> AuthorityOf(t)',
                      accepted |-> Accepted(t), open |-> ~task'[t].completed]
  BY DEF leaseBar
<1>4. CASE task'[t].completed = task[t].completed /\ AuthorityOf(t)' = AuthorityOf(t)
  BY <1>2, <1>3, <1>4
<1>5. CASE task'[t].completed = task[t].completed /\ AuthorityOf(t)' = 0
  <2>1. /\ leaseBar(t).open = (~task[t].completed)
        /\ leaseBar(t).issued = task[t].latest
        /\ leaseBar(t).accepted = Accepted(t)
    BY <1>2
  <2>2. leaseBar(t)' = [issued |-> leaseBar(t).issued, authority |-> 0,
                        accepted |-> leaseBar(t).accepted, open |-> leaseBar(t).open]
    BY <1>3, <1>5, <2>1
  <2> QED  BY <2>2 DEF Promise!TaskStep, Promise!Fence
<1>6. CASE ~task'[t].completed /\ AuthorityOf(t)' = 0
  <2>1. (~task'[t].completed) = TRUE
    BY <1>6
  <2>2. leaseBar(t).issued = task[t].latest /\ leaseBar(t).accepted = Accepted(t)
    BY <1>2
  <2>3. leaseBar(t)' = [issued |-> leaseBar(t).issued, authority |-> 0,
                        accepted |-> leaseBar(t).accepted, open |-> TRUE]
    BY <1>3, <1>6, <2>1, <2>2
  <2> QED  BY <2>3 DEF Promise!TaskStep, Promise!Fence
<1> QED  BY <1>1, <1>4, <1>5, <1>6

\* A claim grants the promised attempt to each of its tasks.
LEMMA ClaimGrants ==
  ASSUME IInv, NEW c \in Caller, NEW S \in SUBSET Task, NEW d \in Duration,
         Claim(c, S, d), NEW t \in S
  PROVE  Promise!Grant(leaseBar(t), leaseBar(t)')
<1>0. PICK n \in AttemptNo : n = task[t].latest + 1
  BY GrantType DEF IInv, Claim
<1>1. /\ task'[t] = GrantedTask(t)
      /\ task'[t].latest = n
      /\ task'[t].lease_generation = task[t].lease_generation + 1
      /\ task'[t].completed = task[t].completed
      /\ n \in AttemptNo
  BY <1>0, GrantType DEF IInv, Claim
<1>2. attempts'[t] = [RevokeLatest(t) EXCEPT ![n] = NewAttempt(c, t, d)]
  BY <1>0 DEF Claim
<1>3. /\ attempts'[t][n] = NewAttempt(c, t, d)
      /\ \A m \in AttemptNo : m # n => attempts'[t][m] = RevokeLatest(t)[m]
  BY <1>1, <1>2, RevokeLatestKeeps DEF IInv
<1>4. attempts'[t][n] # NULL /\ attempts[t][n] = NULL
  <2>1. NewAttempt(c, t, d) # NULL
    BY GrantType, Bounds DEF IInv, Claim
  <2>2. ~(n <= task[t].latest)
    BY <1>0 DEF IInv, TypeOK, TaskRow
  <2> QED  BY <1>1, <1>3, <2>1, <2>2 DEF IInv, Numbering, NumberingOf
<1>5. /\ NewAttempt(c, t, d).by = c
      /\ NewAttempt(c, t, d).epoch = epoch
      /\ NewAttempt(c, t, d).lease_generation = task[t].lease_generation + 1
      /\ NewAttempt(c, t, d).outcome = NULL
  BY DEF NewAttempt
<1>6. keyStatus[c.key] # "hard_revoked" /\ keyStatus' = keyStatus /\ epoch' = epoch
      /\ ~task[t].completed
  BY DEF Claim, Eligible
<1>7. Authority(t, n)'
  <2>1. /\ attempts'[t][n].by = c
        /\ attempts'[t][n].epoch = epoch'
        /\ attempts'[t][n].lease_generation = task'[t].lease_generation
        /\ attempts'[t][n].outcome = NULL
    BY <1>1, <1>3, <1>5, <1>6
  <2>2. keyStatus'[attempts'[t][n].by.key] # "hard_revoked"
    BY <1>6, <2>1
  <2> QED  BY <1>1, <1>4, <2>1, <2>2 DEF Authority
<1>8. AuthorityOf(t)' = n
  <2>1. n # 0
    BY <1>1 DEF AttemptNo
  <2> QED  BY <1>1, <1>7, <2>1 DEF AuthorityOf
<1>9. Accepted(t)' = Accepted(t)
  <2>1. ASSUME NEW m \in AttemptNo
        PROVE  m \in Accepted(t)' <=> m \in Accepted(t)
    <3>1. CASE m = n
      BY <1>3, <1>4, <1>5, <3>1 DEF Accepted
    <3>2. CASE m # n
      BY <1>3, <3>2, RevokeLatestKeeps DEF Accepted, IInv
    <3> QED  BY <3>1, <3>2
  <2>2. Accepted(t) \subseteq AttemptNo /\ Accepted(t)' \subseteq AttemptNo
    BY DEF Accepted
  <2> QED  BY <2>1, <2>2
<1>10. (~task[t].completed) = TRUE
  BY <1>6
<1>11. leaseBar(t) = [issued |-> task[t].latest, authority |-> AuthorityOf(t),
                      accepted |-> Accepted(t), open |-> TRUE]
  BY <1>10 DEF leaseBar
<1>12. leaseBar(t)' = [issued |-> n, authority |-> n,
                       accepted |-> Accepted(t), open |-> TRUE]
  BY <1>1, <1>8, <1>9, <1>10 DEF leaseBar
<1> QED  BY <1>0, <1>11, <1>12 DEF Promise!Grant

\* A report accepts a success of the attempt in authority over an open task,
\* or only ends its authority.
LEMMA ReportPromised ==
  ASSUME IInv, NEW t \in Task, NEW n \in AttemptNo, NEW o \in Outcome,
         Report(t, n, o)
  PROVE  \/ leaseBar(t)' = leaseBar(t)
         \/ Promise!TaskStep(leaseBar(t), leaseBar(t)')
<1>1. /\ n = task[t].latest
      /\ attempts[t][n].outcome = NULL
      /\ Authority(t, n)
  BY DEF Report, MayReport, KeyMayReport, Fenced, Authority
<1>2. /\ task'[t] = ReportedTask(t, n, o)
      /\ task'[t].latest = task[t].latest
  BY ReportedTaskType DEF Report, IInv, TypeOK
<1>3. /\ attempts'[t][n].outcome = o /\ o # NULL
      /\ attempts[t][n] # NULL /\ attempts'[t][n] # NULL
      /\ \A m \in AttemptNo : m # n => attempts'[t][m] = attempts[t][m]
  BY ReportWrites, Bounds DEF IInv
<1>4. Accepted(t) \subseteq AttemptNo /\ Accepted(t)' \subseteq AttemptNo
  BY DEF Accepted
<1>5. \A m \in AttemptNo : m # n => (m \in Accepted(t)' <=> m \in Accepted(t))
  BY <1>3 DEF Accepted
<1>6. n \notin Accepted(t) /\ (n \in Accepted(t)' <=> o.outcome = "success")
  BY <1>1, <1>3 DEF Accepted
<1>7. CASE o.outcome = "success"
  <2>1. Accepted(t)' = Accepted(t) \cup {n}
    BY <1>4, <1>5, <1>6, <1>7
  <2>2. AuthorityOf(t) = n /\ AuthorityOf(t)' = 0 /\ n # 0
    BY <1>1, <1>2, <1>3 DEF AuthorityOf, AttemptNo, Authority
  <2>3. ~task[t].completed
    <3>1. Settled(t) /\ n # 0
      BY DEF IInv, AttemptNo
    <3> QED  BY <1>1, <3>1 DEF Settled, Live, Authority
  <2>4. task'[t].completed
    BY <1>2, <1>7, ReportedTaskType DEF IInv
  <2>5. leaseBar(t) = [issued |-> task[t].latest, authority |-> n,
                       accepted |-> Accepted(t), open |-> TRUE]
    <3>1. (~task[t].completed) = TRUE
      BY <2>3
    <3> QED  BY <2>2, <3>1 DEF leaseBar
  <2>6. leaseBar(t)' = [issued |-> task[t].latest, authority |-> 0,
                        accepted |-> Accepted(t) \cup {n}, open |-> FALSE]
    <3>1. (~task'[t].completed) = FALSE
      BY <2>4
    <3> QED  BY <1>2, <2>1, <2>2, <3>1 DEF leaseBar
  <2>7. leaseBar(t)' = [issued |-> leaseBar(t).issued, authority |-> 0,
                        accepted |-> leaseBar(t).accepted \cup {leaseBar(t).authority},
                        open |-> FALSE]
    BY <2>5, <2>6
  <2>8. leaseBar(t).authority # 0 /\ leaseBar(t).open
    BY <2>2, <2>5
  <2> QED  BY <2>7, <2>8 DEF Promise!TaskStep, Promise!Succeed
<1>8. CASE o.outcome # "success"
  <2>1. Accepted(t)' = Accepted(t)
    BY <1>4, <1>5, <1>6, <1>8
  <2>2. task'[t].completed = task[t].completed
    BY <1>2, <1>8, ReportedTaskType DEF IInv
  <2>3. [Next]_vars
    BY DEF Next
  <2> QED  BY <1>2, <2>1, <2>2, <2>3, FenceOrSame
<1> QED  BY <1>7, <1>8

\* Whatever a step does, it does to each task what the promise allows.
LEMMA StepPromised ==
  ASSUME IInv, [Next]_vars, NEW t \in Task
  PROVE  \/ leaseBar(t)' = leaseBar(t)
         \/ Promise!TaskStep(leaseBar(t), leaseBar(t)')
<1>1. ASSUME NEW c \in Caller, NEW S \in SUBSET Task, NEW d \in Duration, Claim(c, S, d)
      PROVE  \/ leaseBar(t)' = leaseBar(t)
             \/ Promise!TaskStep(leaseBar(t), leaseBar(t)')
  <2>1. CASE t \in S
    BY <1>1, <2>1, ClaimGrants DEF Promise!TaskStep
  <2>2. CASE t \notin S
    <3>1. /\ task'[t] = task[t] /\ attempts'[t] = attempts[t]
          /\ epoch' = epoch /\ keyStatus' = keyStatus
      BY <1>1, <2>2 DEF Claim
    <3>2. AuthorityOf(t)' = AuthorityOf(t) /\ Accepted(t)' = Accepted(t)
      BY <3>1 DEF AuthorityOf, Authority, Accepted
    <3> QED  BY <3>1, <3>2 DEF leaseBar
  <2> QED  BY <2>1, <2>2
<1>2. ASSUME NEW u \in Task, NEW n \in AttemptNo, NEW o \in Outcome, Report(u, n, o)
      PROVE  \/ leaseBar(t)' = leaseBar(t)
             \/ Promise!TaskStep(leaseBar(t), leaseBar(t)')
  <2>1. CASE t = u
    BY <1>2, <2>1, ReportPromised
  <2>2. CASE t # u
    <3>1. /\ task'[t] = task[t] /\ attempts'[t] = attempts[t]
          /\ epoch' = epoch /\ keyStatus' = keyStatus
      BY <1>2, <2>2, ReportWrites DEF Report, IInv, TypeOK
    <3>2. AuthorityOf(t)' = AuthorityOf(t) /\ Accepted(t)' = Accepted(t)
      BY <3>1 DEF AuthorityOf, Authority, Accepted
    <3> QED  BY <3>1, <3>2 DEF leaseBar
  <2> QED  BY <2>1, <2>2
<1>3. ASSUME NEW u \in Task, NEW n \in AttemptNo, NEW d \in Duration, Renew(u, n, d)
      PROVE  \/ leaseBar(t)' = leaseBar(t)
             \/ Promise!TaskStep(leaseBar(t), leaseBar(t)')
  <2>1. task' = task
    BY <1>3 DEF Renew
  <2>2. Accepted(t)' = Accepted(t)
    <3>1. ASSUME NEW m \in AttemptNo
          PROVE  m \in Accepted(t)' <=> m \in Accepted(t)
      <4>1. CASE u = t /\ m = n
        <5>1. /\ attempts'[t][m] # NULL /\ attempts[t][m] # NULL
              /\ attempts'[t][m].outcome = attempts[t][m].outcome
          BY <1>3, <4>1, RenewWrites, Bounds DEF IInv
        <5> QED  BY <5>1 DEF Accepted
      <4>2. CASE ~(u = t /\ m = n)
        <5>1. attempts'[t][m] = attempts[t][m]
          BY <1>3, <4>2, RenewWrites DEF IInv
        <5> QED  BY <5>1 DEF Accepted
      <4> QED  BY <4>1, <4>2
    <3>2. Accepted(t) \subseteq AttemptNo /\ Accepted(t)' \subseteq AttemptNo
      BY DEF Accepted
    <3> QED  BY <3>1, <3>2
  <2> QED  BY <2>1, <2>2, FenceOrSame
<1>4. ASSUME NEW u \in Task, NEW ch \in Change, ChangeTask(u, ch)
      PROVE  \/ leaseBar(t)' = leaseBar(t)
             \/ Promise!TaskStep(leaseBar(t), leaseBar(t)')
  <2>1. attempts'[t] = attempts[t] \/ attempts'[t] = RevokeLatest(t)
    BY <1>4 DEF ChangeTask, IInv, TypeOK
  <2>2. Accepted(t)' = Accepted(t)
    <3>1. ASSUME NEW m \in AttemptNo
          PROVE  m \in Accepted(t)' <=> m \in Accepted(t)
      BY <2>1, RevokeLatestKeeps DEF Accepted, IInv
    <3>2. Accepted(t) \subseteq AttemptNo /\ Accepted(t)' \subseteq AttemptNo
      BY DEF Accepted
    <3> QED  BY <3>1, <3>2
  <2>3. CASE t # u
    BY <1>4, <2>2, <2>3, FenceOrSame DEF ChangeTask, IInv, TypeOK
  <2>4. CASE t = u
    <3>1. /\ task'[t].latest = task[t].latest
          /\ task'[t].completed = (task[t].completed /\ ~ResetsAll(ch))
      BY <1>4, <2>4, ChangedTaskType DEF ChangeTask, IInv, TypeOK
    <3>2. CASE ~ResetsAll(ch)
      <4>1. task[t].completed \in BOOLEAN
        BY DEF IInv, TypeOK, TaskRow
      <4>2. task'[t].completed = task[t].completed
        BY <3>1, <3>2, <4>1
      <4> QED  BY <2>2, <3>1, <4>2, FenceOrSame
    <3>3. CASE ResetsAll(ch)
      <4>1. head'[t] = NULL
        <5>1. Invalidates(ch)
          BY <3>3 DEF ResetsAll, Resets, Invalidates
        <5> QED  BY <1>4, <2>4, <5>1 DEF ChangeTask, IInv, TypeOK
      <4>2. HeadMatches(t)'
        BY <1>4, ChangeSafe
      <4>3. AuthorityOf(t)' = 0
        BY <4>1, <4>2 DEF HeadMatches, Live, AuthorityOf, Authority
      <4> QED  BY <2>2, <3>1, <3>3, <4>3, FenceOrSame
    <3> QED  BY <3>2, <3>3
  <2> QED  BY <2>3, <2>4
<1>5. ASSUME \/ \E k \in Key : SoftRevoke(k)
             \/ \E k \in Key : HardRevoke(k)
             \/ \E b \in BOOLEAN : SetMaintenance(b)
             \/ ActivateEpoch
             \/ Tick
             \/ UNCHANGED vars
      PROVE  \/ leaseBar(t)' = leaseBar(t)
             \/ Promise!TaskStep(leaseBar(t), leaseBar(t)')
  <2>1. task' = task /\ attempts' = attempts
    BY <1>5, RestType DEF IInv
  <2>2. Accepted(t)' = Accepted(t)
    BY <2>1 DEF Accepted
  <2> QED  BY <2>1, <2>2, FenceOrSame
<1> QED  BY <1>1, <1>2, <1>3, <1>4, <1>5 DEF Next

\* The broker's tables implement TaskAuthority: at most one attempt at a time
\* has authority over a task, the last one granted; what is fenced off never
\* comes back; a success is accepted only from the attempt in authority over
\* an open task, and closes it.
THEOREM PromiseKept == Spec => KeepsPromise
<1>1. Init => Promise!Init
  <2> SUFFICES ASSUME Init PROVE Promise!Init
    OBVIOUS
  <2>1. ASSUME NEW t \in Task
        PROVE  leaseBar(t) = [issued |-> 0, authority |-> 0, accepted |-> {}, open |-> TRUE]
    <3>1. /\ task[t].latest = 0 /\ (~task[t].completed) = TRUE
          /\ \A n \in AttemptNo : attempts[t][n] = NULL
      BY DEF Init, NewTask
    <3>2. AuthorityOf(t) = 0 /\ Accepted(t) = {}
      BY <3>1 DEF AuthorityOf, Accepted
    <3> QED  BY <3>1, <3>2 DEF leaseBar
  <2> QED  BY <2>1 DEF Promise!Init
<1>2. IInv /\ [Next]_vars => [Promise!Next]_([t \in Task |-> leaseBar(t)])
  <2> SUFFICES ASSUME IInv, [Next]_vars PROVE Promise!Next
    OBVIOUS
  <2>1. \A t \in Task : \/ leaseBar(t)' = leaseBar(t)
                        \/ Promise!TaskStep(leaseBar(t), leaseBar(t)')
    BY StepPromised
  <2> QED  BY <2>1 DEF Promise!Next
<1> QED  BY <1>1, <1>2, Invariant, PTL DEF Spec, KeepsPromise, Promise!Spec

-----------------------------------------------------------------------------
(* Attempts.  CountersAgree is kept by every step as it stands, and no step *)
(* but a claim lets a counter rise.                                         *)

Budget(t) ==
  /\ Within(task[t].attempts_total, TotalAttemptCap[PoolOf[t]])
  /\ task[t].attempts_total <= task[t].latest
  /\ \A p \in Profile : profileState[t][p].attempts <= task[t].attempts_total

Rises(t) ==
  \A p \in Profile :
    \/ profileState'[t][p].attempts <= profileState[t][p].attempts
    \/ Within(profileState[t][p].attempts, LimitOf(t, p))'

\* The numbers an attempt budget compares are natural numbers, or no limit.
LEMMA BudgetNumbers ==
  ASSUME TypeOK, NEW t \in Task
  PROVE  /\ task[t] \in TaskRow
         /\ task[t].attempts_total \in Nat /\ task[t].latest \in Nat
         /\ TotalAttemptCap[PoolOf[t]] \in Nat \cup {NULL}
         /\ \A p \in Profile : /\ profileState[t][p] \in ProfileRow
                               /\ profileState[t][p].attempts \in Nat
                               /\ LimitOf(t, p) \in Nat \cup {NULL}
<1>1. task[t] \in TaskRow /\ \A p \in Profile : profileState[t][p] \in ProfileRow
  BY DEF TypeOK
<1>2. task[t].attempts_total \in Nat /\ task[t].latest \in Nat
  BY <1>1, Bounds DEF TaskRow
<1>3. \A p \in Profile : profileState[t][p].attempts \in Nat
  BY <1>1 DEF ProfileRow
<1>4. \A p \in Profile : LimitOf(t, p) \in Nat \cup {NULL}
  BY <1>1, CapAssumption DEF LimitOf, TaskRow
<1>5. TotalAttemptCap[PoolOf[t]] \in Nat \cup {NULL}
  BY CapAssumption, StructureAssumption
<1> QED  BY <1>1, <1>2, <1>3, <1>4, <1>5

\* A number below a limit is within it when it is one higher.
LEMMA BelowThenWithin ==
  ASSUME NEW n \in Nat, NEW limit \in Nat \cup {NULL}, Below(n, limit)
  PROVE  Within(n + 1, limit)
BY DEF Below, Within

\* A grant counts one attempt of the task and one of the claiming profile,
\* and is made only where both are below the limits in force, which it leaves
\* as they are.
LEMMA ClaimBudget ==
  ASSUME IInv, NEW c \in Caller, NEW S \in SUBSET Task, NEW d \in Duration, Claim(c, S, d),
         NEW t \in Task, Budget(t)
  PROVE  Budget(t)' /\ Rises(t)
<1>1. CASE t \notin S
  <2>1. task'[t] = task[t] /\ profileState'[t] = profileState[t]
    BY <1>1 DEF Claim
  <2>2. TypeOK
    BY DEF IInv
  <2> QED  BY <2>1, <2>2, BudgetNumbers DEF Budget, Rises
<1>2. CASE t \in S
  <2>1. /\ task'[t] = GrantedTask(t)
        /\ profileState'[t] = [profileState[t] EXCEPT ![c.profile].attempts = @ + 1]
    BY <1>2 DEF Claim
  <2>2. c.profile \in Profile
    BY StructureAssumption
  <2>3. TypeOK
    BY DEF IInv
  <2>4. /\ task'[t].attempts_total = task[t].attempts_total + 1
        /\ task'[t].latest = task[t].latest + 1
        /\ task'[t].max_attempts_set = task[t].max_attempts_set
        /\ task'[t].max_attempts = task[t].max_attempts
    BY <2>1, <2>3, BudgetNumbers DEF GrantedTask, TaskRow
  <2>5. /\ Below(profileState[t][c.profile].attempts, LimitOf(t, c.profile))
        /\ Below(task[t].attempts_total, TotalAttemptCap[PoolOf[t]])
    BY <1>2 DEF Claim, Eligible
  <2>6. ASSUME NEW p \in Profile
        PROVE  profileState'[t][p].attempts =
                 IF p = c.profile THEN profileState[t][p].attempts + 1
                                  ELSE profileState[t][p].attempts
    <3>1. profileState[t] \in [Profile -> ProfileRow]
      BY <2>3 DEF TypeOK
    <3> QED  BY <2>1, <2>2, <3>1 DEF ProfileRow
  <2>7. /\ Within(task'[t].attempts_total, TotalAttemptCap[PoolOf[t]])
        /\ task'[t].attempts_total <= task'[t].latest
    <3>1. /\ task[t].attempts_total \in Nat /\ task[t].latest \in Nat
          /\ TotalAttemptCap[PoolOf[t]] \in Nat \cup {NULL}
      BY <2>3, BudgetNumbers
    <3>2. Within(task[t].attempts_total + 1, TotalAttemptCap[PoolOf[t]])
      BY <2>5, <3>1, BelowThenWithin
    <3> QED  BY <2>4, <3>1, <3>2 DEF Budget
  <2>8. ASSUME NEW p \in Profile
        PROVE  profileState'[t][p].attempts <= task'[t].attempts_total
    BY <2>3, <2>4, <2>6, BudgetNumbers DEF Budget
  <2>9. ASSUME NEW p \in Profile
        PROVE  \/ profileState'[t][p].attempts <= profileState[t][p].attempts
               \/ Within(profileState[t][p].attempts, LimitOf(t, p))'
    <3>1. LimitOf(t, p)' = LimitOf(t, p)
      BY <2>4 DEF LimitOf
    <3>2. CASE p # c.profile
      BY <2>3, <2>6, <3>2, BudgetNumbers
    <3>3. CASE p = c.profile
      <4>1. Within(profileState[t][p].attempts + 1, LimitOf(t, p))
        BY <2>3, <2>5, <3>3, BudgetNumbers, BelowThenWithin
      <4> QED  BY <2>6, <3>1, <3>3, <4>1 DEF Within
    <3> QED  BY <3>2, <3>3
  <2> QED  BY <2>7, <2>8, <2>9 DEF Budget, Rises
<1> QED  BY <1>1, <1>2

\* A report counts nothing.
LEMMA ReportBudget ==
  ASSUME IInv, NEW u \in Task, NEW n \in AttemptNo, NEW o \in Outcome, Report(u, n, o),
         NEW t \in Task, Budget(t)
  PROVE  Budget(t)' /\ Rises(t)
<1> USE DEF IInv
<1>1. /\ task'[t].attempts_total = task[t].attempts_total
      /\ task'[t].latest = task[t].latest
  <2>1. task'[t] = IF t = u THEN ReportedTask(t, n, o) ELSE task[t]
    BY DEF Report, TypeOK
  <2> QED  BY <2>1, BudgetNumbers DEF ReportedTask, TaskRow
<1>2. \A p \in Profile : profileState'[t][p].attempts = profileState[t][p].attempts
  <2>1. profileState \in [Task -> [Profile -> ProfileRow]]
    BY DEF TypeOK
  <2>2. \/ profileState' = profileState
        \/ profileState' = [profileState EXCEPT ![u][attempts[u][n].by.profile].permanent_failure = TRUE]
    BY DEF Report
  <2> QED  BY <2>1, <2>2 DEF ProfileRow
<1> QED  BY <1>1, <1>2, BudgetNumbers DEF Budget, Rises

\* A full reset of a scope sets the counters of that scope to zero; of all,
\* the task's with those of every profile.  No change lets a counter rise,
\* whatever it makes of the task's limit.
LEMMA ChangeBudget ==
  ASSUME IInv, NEW u \in Task, NEW ch \in Change, ChangeTask(u, ch),
         NEW t \in Task, Budget(t)
  PROVE  Budget(t)' /\ Rises(t)
<1>0. TypeOK
  BY DEF IInv
<1>1. CASE t # u
  <2>1. task'[t] = task[t] /\ profileState'[t] = profileState[t]
    BY <1>1 DEF ChangeTask, IInv, TypeOK
  <2> QED  BY <1>0, <2>1, BudgetNumbers DEF Budget, Rises
<1>2. CASE t = u
  <2> DEFINE all == ResetsAll(ch) /\ ch.mode = "full"
  <2>2. /\ task'[t].attempts_total = IF all THEN 0 ELSE task[t].attempts_total
        /\ task'[t].latest = task[t].latest
    <3>1. task'[t] = ChangedTask(t, ch)
      BY <1>0, <1>2 DEF ChangeTask, TypeOK
    <3> QED  BY <1>0, <3>1, BudgetNumbers DEF ChangedTask, TaskRow
  <2>3. ASSUME NEW p \in Profile
        PROVE  /\ profileState'[t][p].attempts \in {0, profileState[t][p].attempts}
               /\ all => profileState'[t][p].attempts = 0
    <3>1. profileState'[t] = ResetState(t, ch)
      BY <1>0, <1>2 DEF ChangeTask, TypeOK
    <3> QED  BY <3>1 DEF ResetState, ResetsAll
  <2>4. /\ Within(task'[t].attempts_total, TotalAttemptCap[PoolOf[t]])
        /\ task'[t].attempts_total <= task'[t].latest
    BY <1>0, <2>2, BudgetNumbers DEF Budget, Within
  <2>5. ASSUME NEW p \in Profile
        PROVE  /\ profileState'[t][p].attempts <= task'[t].attempts_total
               /\ profileState'[t][p].attempts <= profileState[t][p].attempts
    BY <1>0, <2>2, <2>3, BudgetNumbers DEF Budget
  <2> QED  BY <2>4, <2>5 DEF Budget, Rises
<1> QED  BY <1>1, <1>2

\* The counters of a task agree and stay within the pool's cap, and a profile's
\* rises only as far as the limit then in force, through any grants and resets
\* and any changes of the task's own limit: see AttemptBudget.
THEOREM AttemptsBounded == Spec => AttemptBudget
<1>1. Init => CountersAgree
  <2> SUFFICES ASSUME Init, NEW t \in Task PROVE Budget(t)
    BY DEF CountersAgree, Budget
  <2>1. TotalAttemptCap[PoolOf[t]] \in Nat \cup {NULL}
    BY CapAssumption, StructureAssumption
  <2>2. task[t] = NewTask
        /\ \A p \in Profile : profileState[t][p] = [attempts |-> 0, permanent_failure |-> FALSE]
    BY DEF Init
  <2> QED  BY <2>1, <2>2 DEF NewTask, Budget, Within
<1>2. IInv /\ CountersAgree /\ [Next]_vars => CountersAgree' /\ RisesWithinLimit
  <2> SUFFICES ASSUME IInv, [Next]_vars, \A t \in Task : Budget(t), NEW t \in Task
               PROVE  Budget(t)' /\ Rises(t)
    BY DEF CountersAgree, Budget, RisesWithinLimit, Rises
  <2>0. TypeOK
    BY DEF IInv
  <2>1. ASSUME task' = task, profileState' = profileState
        PROVE  Budget(t)' /\ Rises(t)
    BY <2>0, <2>1, BudgetNumbers DEF Budget, Rises
  <2>2. ASSUME NEW u \in Task, NEW n \in AttemptNo, NEW d \in Duration, Renew(u, n, d)
        PROVE  Budget(t)' /\ Rises(t)
    BY <2>1, <2>2 DEF Renew
  <2>3. ASSUME \/ \E k \in Key : SoftRevoke(k)
               \/ \E k \in Key : HardRevoke(k)
               \/ \E b \in BOOLEAN : SetMaintenance(b)
               \/ ActivateEpoch
               \/ Tick
               \/ UNCHANGED vars
        PROVE  Budget(t)' /\ Rises(t)
    BY <2>1, <2>3, RestType DEF IInv
  <2> QED  BY <2>2, <2>3, ClaimBudget, ReportBudget, ChangeBudget DEF Next
<1>3. IInv /\ CountersAgree /\ [Next]_vars => [CountersAgree' /\ RisesWithinLimit]_vars
  BY <1>2
<1> QED  BY <1>1, <1>2, <1>3, Invariant, PTL DEF Spec, AttemptBudget

-----------------------------------------------------------------------------
(* Capacities. Each of the five counts the leases of a set of callers.     *)

LeasedBy(B) == {t \in Task : Leased(t) /\ head[t].by \in B}

\* A head's caller is one of the callers.
LEMMA HeadCaller ==
  ASSUME TypeOK, NEW t \in Task, Leased(t)
  PROVE  /\ head[t].by \in Caller
         /\ head[t].by.profile \in Profile /\ head[t].by.worker \in Worker
<1>1. head[t] \in HeadRow
  BY DEF TypeOK, Leased
<1> QED  BY <1>1, StructureAssumption DEF HeadRow

\* No step but a grant of the task makes it count as a caller's lease that it
\* was not.
LEMMA LeaseKept ==
  ASSUME IInv, [Next]_vars, NEW t \in Task, Leased(t)', task'[t].latest = task[t].latest,
         head[t] # NULL => head'[t] = NULL \/ head'[t].by = head[t].by,
         head[t] = NULL => head'[t] = NULL
  PROVE  Leased(t) /\ head'[t].by = head[t].by
<1>1. head'[t] # NULL
  BY DEF Leased
<1> QED  BY <1>1, DeadLeaseStep

\* A claim adds its tasks to the leases of the claiming caller, any other step
\* adds nothing.
LEMMA NewLeases ==
  ASSUME IInv, [Next]_vars, NEW B
  PROVE  \/ LeasedBy(B)' \subseteq LeasedBy(B)
         \/ \E c \in Caller, S \in SUBSET Task :
              /\ Room(c, Cardinality(S))
              /\ LeasedBy(B)' \subseteq LeasedBy(B) \cup (IF c \in B THEN S ELSE {})
<1> DEFINE Same(t) == /\ task'[t].latest = task[t].latest
                      /\ head[t] # NULL => head'[t] = NULL \/ head'[t].by = head[t].by
                      /\ head[t] = NULL => head'[t] = NULL
<1>0. TypeOK
  BY DEF IInv
<1>1. ASSUME NEW t \in Task, Same(t), t \in LeasedBy(B)'
      PROVE  t \in LeasedBy(B)
  <2>1. Leased(t)' /\ head'[t].by \in B
    BY <1>1 DEF LeasedBy
  <2>2. Leased(t) /\ head'[t].by = head[t].by
    BY <1>1, <2>1, LeaseKept
  <2> QED  BY <2>1, <2>2 DEF LeasedBy
<1>2. ASSUME \A t \in Task : Same(t)
      PROVE  LeasedBy(B)' \subseteq LeasedBy(B)
  <2>1. LeasedBy(B)' \subseteq Task
    BY DEF LeasedBy
  <2> QED  BY <1>1, <1>2, <2>1
<1>3. ASSUME NEW c \in Caller, NEW S \in SUBSET Task, NEW d \in Duration, Claim(c, S, d)
      PROVE  /\ Room(c, Cardinality(S))
             /\ LeasedBy(B)' \subseteq LeasedBy(B) \cup (IF c \in B THEN S ELSE {})
  <2>1. Room(c, Cardinality(S))
    BY <1>3 DEF Claim
  <2>2. ASSUME NEW t \in LeasedBy(B)', t \notin S
        PROVE  t \in LeasedBy(B)
    <3>1. t \in Task
      BY DEF LeasedBy
    <3>2. task'[t] = task[t] /\ head'[t] = head[t]
      BY <1>3, <2>2, <3>1 DEF Claim
    <3> QED  BY <1>1, <2>2, <3>1, <3>2
  <2>3. ASSUME NEW t \in LeasedBy(B)', t \in S
        PROVE  c \in B
    <3>1. head'[t] = NewHead(c, t, d) /\ head'[t].by \in B
      BY <1>3, <2>3 DEF Claim, LeasedBy
    <3> QED  BY <3>1 DEF NewHead
  <2> QED  BY <2>1, <2>2, <2>3
<1>4. ASSUME NEW u \in Task, NEW n \in AttemptNo, NEW o \in Outcome, Report(u, n, o),
             NEW t \in Task
      PROVE  Same(t)
  <2>1. task'[t].latest = task[t].latest
    <3>1. task'[t] = IF t = u THEN ReportedTask(t, n, o) ELSE task[t]
      BY <1>0, <1>4 DEF Report, TypeOK
    <3> QED  BY <1>0, <3>1, BudgetNumbers DEF ReportedTask, TaskRow
  <2>2. head'[t] = head[t] \/ head'[t] = NULL
    BY <1>0, <1>4 DEF Report, TypeOK
  <2> QED  BY <2>1, <2>2
<1>5. ASSUME NEW u \in Task, NEW n \in AttemptNo, NEW d \in Duration, Renew(u, n, d),
             NEW t \in Task
      PROVE  Same(t)
  <2>1. task'[t].latest = task[t].latest
    BY <1>5 DEF Renew
  <2>2. \/ head'[t] = head[t]
        \/ head[t] # NULL /\ head'[t] = [head[t] EXCEPT !.expires_at = RenewedExpiry(attempts[u][n], d)]
    BY <1>0, <1>5 DEF Renew, RenewedHead, TypeOK
  <2>3. head[t] # NULL => head[t] \in HeadRow
    BY <1>0 DEF TypeOK
  <2>4. head[t] # NULL =>
          [head[t] EXCEPT !.expires_at = RenewedExpiry(attempts[u][n], d)].by = head[t].by
    BY <2>3 DEF HeadRow
  <2> QED  BY <2>1, <2>2, <2>4
<1>6. ASSUME NEW u \in Task, NEW ch \in Change, ChangeTask(u, ch),
             NEW t \in Task
      PROVE  Same(t)
  <2>1. task'[t].latest = task[t].latest
    <3>1. task'[t] = IF t = u THEN ChangedTask(t, ch) ELSE task[t]
      BY <1>0, <1>6 DEF ChangeTask, TypeOK
    <3> QED  BY <1>0, <3>1, BudgetNumbers DEF ChangedTask, TaskRow
  <2>2. head'[t] = head[t] \/ head'[t] = NULL
    BY <1>0, <1>6 DEF ChangeTask, TypeOK
  <2> QED  BY <2>1, <2>2
<1>7. ASSUME \/ \E k \in Key : SoftRevoke(k)
             \/ \E k \in Key : HardRevoke(k)
             \/ \E b \in BOOLEAN : SetMaintenance(b)
             \/ ActivateEpoch
             \/ Tick
             \/ UNCHANGED vars,
             NEW t \in Task
      PROVE  Same(t)
  <2>1. task' = task /\ head' = head
    BY <1>7, RestType DEF IInv
  <2> QED  BY <2>1
<1> HIDE DEF Same
<1> QED  BY <1>2, <1>3, <1>4, <1>5, <1>6, <1>7 DEF Next

\* A capacity over a set of callers holds after a step if it held before and
\* every claim of one of them left room under it.
LEMMA CapacityKept ==
  ASSUME IInv, [Next]_vars, NEW B, NEW cap \in Nat,
         Cardinality(LeasedBy(B)) <= cap,
         \A c \in B \cap Caller : \A k \in Nat : Room(c, k) => k + Cardinality(LeasedBy(B)) <= cap
  PROVE  Cardinality(LeasedBy(B)') <= cap
<1>1. IsFiniteSet(LeasedBy(B)) /\ Cardinality(LeasedBy(B)) \in Nat
  <2>1. LeasedBy(B) \in SUBSET Task
    BY DEF LeasedBy
  <2> QED  BY <2>1, FiniteAssumption, FS_Subset, FS_CardinalityType
<1>2. CASE LeasedBy(B)' \subseteq LeasedBy(B)
  <2>1. IsFiniteSet(LeasedBy(B)') /\ Cardinality(LeasedBy(B)') <= Cardinality(LeasedBy(B))
    BY <1>1, <1>2, FS_Subset
  <2>2. Cardinality(LeasedBy(B)') \in Nat
    BY <2>1, FS_CardinalityType
  <2> QED  BY <1>1, <2>1, <2>2
<1>3. ASSUME NEW c \in Caller, NEW S \in SUBSET Task, Room(c, Cardinality(S)), c \in B,
             LeasedBy(B)' \subseteq LeasedBy(B) \cup S
      PROVE  Cardinality(LeasedBy(B)') <= cap
  <2>1. IsFiniteSet(S) /\ Cardinality(S) \in Nat
    BY FiniteAssumption, FS_Subset, FS_CardinalityType
  <2>2. IsFiniteSet(LeasedBy(B) \cap S) /\ Cardinality(LeasedBy(B) \cap S) \in Nat
    <3>1. LeasedBy(B) \cap S \in SUBSET S
      OBVIOUS
    <3> QED  BY <2>1, <3>1, FS_Subset, FS_CardinalityType
  <2>3. /\ IsFiniteSet(LeasedBy(B) \cup S)
        /\ Cardinality(LeasedBy(B) \cup S) =
             Cardinality(LeasedBy(B)) + Cardinality(S) - Cardinality(LeasedBy(B) \cap S)
    BY <1>1, <2>1, FS_Union
  <2>4. /\ Cardinality(LeasedBy(B)') <= Cardinality(LeasedBy(B) \cup S)
        /\ Cardinality(LeasedBy(B)') \in Nat
    BY <1>3, <2>3, FS_Subset, FS_CardinalityType
  <2>5. Cardinality(S) + Cardinality(LeasedBy(B)) <= cap
    BY <1>3, <2>1
  <2> QED  BY <1>1, <2>1, <2>2, <2>3, <2>4, <2>5
<1>4. ASSUME NEW c \in Caller, NEW S \in SUBSET Task, Room(c, Cardinality(S)),
             LeasedBy(B)' \subseteq LeasedBy(B) \cup (IF c \in B THEN S ELSE {})
      PROVE  Cardinality(LeasedBy(B)') <= cap
  BY <1>2, <1>3, <1>4
<1> QED  BY <1>2, <1>4, NewLeases

ThroughProfile(p) == {c \in Caller : c.profile = p}
ThroughPool(q) == {c \in Caller : ProfilePool[c.profile] = q}
ThroughFamily(f) == {c \in Caller : ProfileFamily[c.profile] = f}
From(w) == {c \in Caller : c.worker = w}

\* What the capacities count, as leases of sets of callers.
Counts ==
  /\ \A p \in Profile : LeasedByProfile(p) = LeasedBy(ThroughProfile(p))
  /\ \A q \in Pool : LeasedInPool(q) = LeasedBy(ThroughPool(q))
  /\ \A f \in Family : LeasedByFamily(f) = LeasedBy(ThroughFamily(f))
  /\ \A w \in Worker :
       /\ \A p \in Profile :
            LeasedByProfile(p) \cap HeldByWorker(w) = LeasedBy(ThroughProfile(p) \cap From(w))
       /\ \A f \in Family :
            LeasedByFamily(f) \cap HeldByWorker(w) = LeasedBy(ThroughFamily(f) \cap From(w))

\* Every head that counts belongs to one of the callers.
LEMMA CountsAgree == TypeOK => Counts
<1> SUFFICES ASSUME TypeOK PROVE Counts
  OBVIOUS
<1>1. \A t \in Task : Leased(t) => head[t].by \in Caller
  BY HeadCaller
<1>2. \A p \in Profile : LeasedByProfile(p) = LeasedBy(ThroughProfile(p))
  BY <1>1 DEF LeasedByProfile, LeasedBy, ThroughProfile
<1>3. \A q \in Pool : LeasedInPool(q) = LeasedBy(ThroughPool(q))
  BY <1>1 DEF LeasedInPool, LeasedBy, ThroughPool
<1>4. \A f \in Family : LeasedByFamily(f) = LeasedBy(ThroughFamily(f))
  BY <1>1 DEF LeasedByFamily, LeasedBy, ThroughFamily
<1>5. \A w \in Worker, p \in Profile :
        LeasedByProfile(p) \cap HeldByWorker(w) = LeasedBy(ThroughProfile(p) \cap From(w))
  BY <1>1 DEF LeasedByProfile, HeldByWorker, LeasedBy, ThroughProfile, From
<1>6. \A w \in Worker, f \in Family :
        LeasedByFamily(f) \cap HeldByWorker(w) = LeasedBy(ThroughFamily(f) \cap From(w))
  BY <1>1 DEF LeasedByFamily, HeldByWorker, LeasedBy, ThroughFamily, From
<1> QED  BY <1>2, <1>3, <1>4, <1>5, <1>6 DEF Counts

\* A step leaves every capacity as it leaves the one over its callers.
LEMMA CapsStep == IInv /\ CapsHold /\ [Next]_vars => CapsHold'
<1> SUFFICES ASSUME IInv, CapsHold, [Next]_vars PROVE CapsHold'
  OBVIOUS
<1>1. Counts /\ Counts'
  <2>1. TypeOK /\ TypeOK'
    BY NextInvariant DEF IInv
  <2>2. TypeOK' => Counts'
    BY CountsAgree, PTL
  <2> QED  BY <2>1, <2>2, CountsAgree
<1>2. ASSUME NEW p \in Profile
      PROVE  Cardinality(LeasedByProfile(p)') <= ProfileCap[p]
  <2>1. ProfileCap[p] \in Nat /\ Cardinality(LeasedBy(ThroughProfile(p))) <= ProfileCap[p]
    BY <1>1, CapAssumption DEF CapsHold, Counts
  <2>2. \A c \in ThroughProfile(p) \cap Caller : \A k \in Nat :
          Room(c, k) => k + Cardinality(LeasedBy(ThroughProfile(p))) <= ProfileCap[p]
    BY <1>1 DEF Room, ThroughProfile, Counts
  <2>3. Cardinality(LeasedBy(ThroughProfile(p))') <= ProfileCap[p]
    BY <2>1, <2>2, CapacityKept
  <2> QED  BY <1>1, <2>3 DEF Counts
<1>3. ASSUME NEW p \in Profile, NEW w \in Worker
      PROVE  Cardinality((LeasedByProfile(p) \cap HeldByWorker(w))') <= WorkerProfileCap[p]
  <2> DEFINE B == ThroughProfile(p) \cap From(w)
  <2>1. WorkerProfileCap[p] \in Nat /\ Cardinality(LeasedBy(B)) <= WorkerProfileCap[p]
    BY <1>1, CapAssumption DEF CapsHold, Counts
  <2>2. \A c \in B \cap Caller : \A k \in Nat :
          Room(c, k) => k + Cardinality(LeasedBy(B)) <= WorkerProfileCap[p]
    BY <1>1 DEF Room, ThroughProfile, From, Counts
  <2>3. Cardinality(LeasedBy(B)') <= WorkerProfileCap[p]
    BY <2>1, <2>2, CapacityKept
  <2> QED  BY <1>1, <2>3 DEF Counts
<1>4. ASSUME NEW q \in Pool
      PROVE  Cardinality(LeasedInPool(q)') <= PoolCap[q]
  <2>1. PoolCap[q] \in Nat /\ Cardinality(LeasedBy(ThroughPool(q))) <= PoolCap[q]
    BY <1>1, CapAssumption DEF CapsHold, Counts
  <2>2. \A c \in ThroughPool(q) \cap Caller : \A k \in Nat :
          Room(c, k) => k + Cardinality(LeasedBy(ThroughPool(q))) <= PoolCap[q]
    BY <1>1 DEF Room, ThroughPool, Counts
  <2>3. Cardinality(LeasedBy(ThroughPool(q))') <= PoolCap[q]
    BY <2>1, <2>2, CapacityKept
  <2> QED  BY <1>1, <2>3 DEF Counts
<1>5. ASSUME NEW f \in Family
      PROVE  Cardinality(LeasedByFamily(f)') <= FamilyCap[f]
  <2>1. FamilyCap[f] \in Nat /\ Cardinality(LeasedBy(ThroughFamily(f))) <= FamilyCap[f]
    BY <1>1, CapAssumption DEF CapsHold, Counts
  <2>2. \A c \in ThroughFamily(f) \cap Caller : \A k \in Nat :
          Room(c, k) => k + Cardinality(LeasedBy(ThroughFamily(f))) <= FamilyCap[f]
    BY <1>1 DEF Room, ThroughFamily, Counts
  <2>3. Cardinality(LeasedBy(ThroughFamily(f))') <= FamilyCap[f]
    BY <2>1, <2>2, CapacityKept
  <2> QED  BY <1>1, <2>3 DEF Counts
<1>6. ASSUME NEW f \in Family, NEW w \in Worker
      PROVE  Cardinality((LeasedByFamily(f) \cap HeldByWorker(w))') <= WorkerFamilyCap[f]
  <2> DEFINE B == ThroughFamily(f) \cap From(w)
  <2>1. WorkerFamilyCap[f] \in Nat /\ Cardinality(LeasedBy(B)) <= WorkerFamilyCap[f]
    BY <1>1, CapAssumption DEF CapsHold, Counts
  <2>2. \A c \in B \cap Caller : \A k \in Nat :
          Room(c, k) => k + Cardinality(LeasedBy(B)) <= WorkerFamilyCap[f]
    BY <1>1 DEF Room, ThroughFamily, From, Counts
  <2>3. Cardinality(LeasedBy(B)') <= WorkerFamilyCap[f]
    BY <2>1, <2>2, CapacityKept
  <2> QED  BY <1>1, <2>3 DEF Counts
<1> QED  BY <1>2, <1>3, <1>4, <1>5, <1>6 DEF CapsHold

\* No claim takes a worker, a profile, a pool or a family past its capacity:
\* see CapsHold.
THEOREM CapacitiesHold == Spec => []CapsHold
<1>1. Init => CapsHold
  <2> SUFFICES ASSUME Init PROVE CapsHold
    OBVIOUS
  <2>1. \A t \in Task : ~Leased(t)
    BY DEF Init, Leased
  <2>2. /\ \A p \in Profile : LeasedByProfile(p) = {}
        /\ \A q \in Pool : LeasedInPool(q) = {}
        /\ \A f \in Family : LeasedByFamily(f) = {}
    BY <2>1 DEF LeasedByProfile, LeasedInPool, LeasedByFamily
  <2>3. /\ \A p \in Profile, w \in Worker : LeasedByProfile(p) \cap HeldByWorker(w) = {}
        /\ \A f \in Family, w \in Worker : LeasedByFamily(f) \cap HeldByWorker(w) = {}
    BY <2>2
  <2>4. Cardinality({}) = 0
    BY FS_EmptySet
  <2>5. /\ \A p \in Profile : 0 <= ProfileCap[p] /\ 0 <= WorkerProfileCap[p]
        /\ \A q \in Pool : 0 <= PoolCap[q]
        /\ \A f \in Family : 0 <= FamilyCap[f] /\ 0 <= WorkerFamilyCap[f]
    BY CapAssumption
  <2> QED  BY <2>2, <2>3, <2>4, <2>5, Zenon DEF CapsHold
<1> QED  BY <1>1, CapsStep, Invariant, PTL DEF Spec
=============================================================================
