------------------------ MODULE SchemaMigrationProofs ------------------------
(***************************************************************************)
(* Proofs about SchemaMigration, for any tasks, operations, chunks and     *)
(* bounds, and any number of requests at the same time.  Types always      *)
(* hold.  The tables keep the barrier, and every closed pool can be        *)
(* resumed, exactly when no activation, cancellation or import comes too   *)
(* late; then no task converts twice either.  Requests that come one after *)
(* the other, or at the same time only to resume one operation, are never  *)
(* late.                                                                   *)
(***************************************************************************)
EXTENDS SchemaMigration, TLAPS

\* Requests do not overlap.
OneAtATime == \A r, s \in Request : r = s

\* The pool has one migration.
OneOperation == \A o, p \in Op : o = p

\* All that administrators ask for is to carry on with it.
Resuming == OneOperation /\ Asked \subseteq {"apply"}

\* Requests come one after the other, or at the same time to resume one
\* migration.
Orderly == OneAtATime \/ Resuming

\* What a request has chosen belongs to its operation.
RequestTyped(q) ==
  /\ q.stage \notin {"idle", "import"} => q.op \in Op
  /\ q.stage = "import" => q.op \in Contract
  /\ q.valid \subseteq q.items

PoolRow == [migration_status : {"ready", "migrating"}, contract : Contract]

TypeInv == TypeOK /\ \A r \in Request : RequestTyped(request[r])

-----------------------------------------------------------------------------
\* A touched item keeps its status and its payload.
LEMMA TouchedFacts ==
  ASSUME TypeOK, NEW S
  PROVE  /\ Touched(S) \in [Op -> [Task -> ItemRow]]
         /\ \A o \in Op, t \in Task :
              /\ Touched(S)[o][t].status = item[o][t].status
              /\ Touched(S)[o][t].corrected = item[o][t].corrected
              /\ Touched(S)[o][t].untouched => item[o][t].untouched
              /\ item[o][t] = NoItem => Touched(S)[o][t] = NoItem
<1>1. \A o \in Op, t \in Task : item[o][t] \in ItemRow
  BY DEF TypeOK
<1>2. ASSUME NEW row \in ItemRow, NEW next, next = row \/ next = [row EXCEPT !.untouched = FALSE]
      PROVE  /\ next \in ItemRow /\ next.status = row.status
             /\ next.corrected = row.corrected /\ (next.untouched => row.untouched)
             /\ row = NoItem => next = NoItem
  <2>1. CASE next = row
    BY <2>1
  <2>2. CASE next = [row EXCEPT !.untouched = FALSE]
    <3>1. next = [status |-> row.status, untouched |-> FALSE, corrected |-> row.corrected]
      BY <2>2 DEF ItemRow
    <3>2. row.status \in {"none", "pending", "applied", "rejected"} /\ row.corrected \in BOOLEAN
      BY DEF ItemRow
    <3>3. next \in ItemRow
      BY <3>1, <3>2 DEF ItemRow
    <3>4. row = NoItem => next = NoItem
      BY <3>1 DEF NoItem
    <3>. QED BY <3>1, <3>3, <3>4
  <2>. QED BY <1>2, <2>1, <2>2
<1>3. ASSUME NEW o \in Op, NEW t \in Task
      PROVE  /\ Touched(S)[o][t] \in ItemRow /\ Touched(S)[o][t].status = item[o][t].status
             /\ Touched(S)[o][t].corrected = item[o][t].corrected
             /\ Touched(S)[o][t].untouched => item[o][t].untouched
             /\ item[o][t] = NoItem => Touched(S)[o][t] = NoItem
  <2>1. Touched(S)[o][t] = item[o][t] \/ Touched(S)[o][t] = [item[o][t] EXCEPT !.untouched = FALSE]
    BY DEF Touched
  <2>2. item[o][t] \in ItemRow
    BY <1>1
  <2>. QED BY <1>2, <2>1, <2>2
<1>4. Touched(S) \in [Op -> [Task -> ItemRow]]
  BY <1>3 DEF Touched
<1>. QED BY <1>3, <1>4

\* An outdated operation keeps its status and its kind.
LEMMA OutdatedFacts ==
  ASSUME TypeOK
  PROVE  /\ Outdated \in [Op -> OpRow]
         /\ \A o \in Op : /\ Outdated[o].status = op[o].status /\ Outdated[o].heavy = op[o].heavy
                          /\ ~Outdated[o].current
BY DEF TypeOK, Outdated, OpRow

\* So does one that gets another status, with all others outdated or not.
LEMMA StatusFacts ==
  ASSUME NEW rows \in [Op -> OpRow], NEW o \in Op,
         NEW status \in {"none", "preview", "applying", "complete", "cancelled"},
         NEW next, next = [rows EXCEPT ![o].status = status]
  PROVE  /\ next \in [Op -> OpRow] /\ next[o].status = status
         /\ next[o].heavy = rows[o].heavy /\ next[o].current = rows[o].current
         /\ \A p \in Op \ {o} : next[p] = rows[p]
BY DEF OpRow

\* What a request is after a step of another, or of its own.
LEMMA GoesFacts ==
  ASSUME TypeInv, NEW r \in Request, NEW q \in RequestRow, RequestTyped(q),
         request' = [request EXCEPT ![r] = q]
  PROVE  /\ request' \in [Request -> RequestRow] /\ request'[r] = q
         /\ \A s \in Request \ {r} : request'[s] = request[s]
         /\ \A s \in Request : RequestTyped(request'[s])
BY DEF TypeInv, TypeOK

\* A handler that has nothing in progress.
LEMMA IdleTyped ==
  Idle \in RequestRow /\ RequestTyped(Idle)
BY DEF Idle, RequestRow, Stage, RequestTyped

\* A step that leaves the rest alone has typed requests.
LEMMA RequestStep ==
  ASSUME TypeInv, UNCHANGED <<pool, task, lease, op, item, deaths>>,
         NEW r \in Request, NEW q \in RequestRow, RequestTyped(q),
         request' = [request EXCEPT ![r] = q]
  PROVE  TypeInv'
<1>1. request' \in [Request -> RequestRow] /\ \A s \in Request : RequestTyped(request'[s])
  BY GoesFacts
<1>. QED BY <1>1 DEF TypeInv, TypeOK, RequestTyped

-----------------------------------------------------------------------------
(* Types.                                                                  *)
\* The traffic of the pool.
LEMMA TrafficTyped ==
  ASSUME TypeInv, UNCHANGED <<op, request, deaths, pool>>,
         task' \in [Task -> Row], \A t \in Task : task[t].exists => task'[t].exists,
         lease' \in [Task -> LeaseRow \cup {NULL}],
         item' = item \/ \E S : item' = Touched(S)
  PROVE  TypeInv'
<1>1. TypeOK
  BY DEF TypeInv
<1>2. item' \in [Op -> [Task -> ItemRow]] /\ \A o \in Op, t \in Task : item'[o][t] # NoItem => item[o][t] # NoItem
  BY <1>1, TouchedFacts DEF TypeOK
<1>. QED BY <1>1, <1>2 DEF TypeInv, TypeOK, RequestTyped

\* Each of them keeps the types.
LEMMA TrafficTypes ==
  ASSUME TypeInv,
         \/ \E t \in Task : Claim(t) \/ Report(t) \/ Expire(t) \/ EditInputs(t) \/ ChangeTask(t) \/ CreateTask(t)
         \/ UpdateConfiguration
  PROVE  TypeInv'
<1>1. TypeOK
  BY DEF TypeInv
<1>2. pool.contract \in Contract /\ \A t \in Task : task[t] \in Row
  BY <1>1 DEF TypeOK
<1>3. ASSUME NEW t \in Task, Claim(t) PROVE TypeInv'
  <2>1. [contract |-> pool.contract, unexpired |-> TRUE] \in LeaseRow
    BY <1>2 DEF LeaseRow
  <2>. QED BY <1>1, <1>3, <2>1, TrafficTyped DEF Claim, TypeOK
<1>4. ASSUME NEW t \in Task, Report(t) \/ ChangeTask(t) PROVE TypeInv'
  BY <1>1, <1>4, TrafficTyped DEF Report, ChangeTask, TypeOK
<1>5. ASSUME NEW t \in Task, Expire(t) PROVE TypeInv'
  <2>1. lease[t] \in LeaseRow
    BY <1>1, <1>5 DEF Expire, TypeOK
  <2>2. [lease[t] EXCEPT !.unexpired = FALSE] \in LeaseRow
    BY <2>1 DEF LeaseRow
  <2>3. lease' = [lease EXCEPT ![t] = [lease[t] EXCEPT !.unexpired = FALSE]]
    BY <1>5 DEF Expire
  <2>4. lease' \in [Task -> LeaseRow \cup {NULL}]
    BY <1>1, <2>2, <2>3 DEF TypeOK
  <2>. QED BY <1>1, <1>5, <2>4, TrafficTyped DEF Expire, TypeOK
<1>6. ASSUME NEW t \in Task, EditInputs(t) PROVE TypeInv'
  <2>1. /\ task' = [task EXCEPT ![t].contract = pool.contract, ![t].input_revision = @ + 1]
        /\ lease' = [lease EXCEPT ![t] = NULL] /\ item' = Touched({t}) /\ UNCHANGED <<pool, op, request, deaths>>
    BY <1>6 DEF EditInputs
  <2>2. task' \in [Task -> Row] /\ \A u \in Task : task'[u].exists = task[u].exists
    BY <1>1, <1>2, <2>1 DEF TypeOK, Row
  <2>. QED BY <1>1, <2>1, <2>2, TrafficTyped DEF TypeOK
<1>7. ASSUME NEW t \in Task, CreateTask(t) PROVE TypeInv'
  <2>1. task' \in [Task -> Row] /\ \A u \in Task : task[u].exists => task'[u].exists
    BY <1>1, <1>2, <1>7 DEF CreateTask, TypeOK, Row
  <2>. QED BY <1>1, <1>7, <2>1, TrafficTyped DEF CreateTask, TypeOK
<1>8. CASE UpdateConfiguration
  <2>1. op' \in [Op -> OpRow] /\ \A o \in Op : op'[o].heavy = op[o].heavy
    BY <1>1, <1>8, OutdatedFacts DEF UpdateConfiguration
  <2>. QED BY <1>1, <1>8, <2>1 DEF UpdateConfiguration, TypeInv, TypeOK, RequestTyped
<1>. QED BY <1>3, <1>4, <1>5, <1>6, <1>7, <1>8

\* Previews and what requests read.
LEMMA ReadTypes ==
  ASSUME TypeInv,
         \/ \E r \in Request, o \in Op : Apply(r, o) \/ AskCancel(r, o) \/ \E t \in Task : AskCorrect(r, o, t)
         \/ \E r \in Request : ReadPending(r) \/ ReadRejected(r) \/ Refused(r) \/ ReadFields(r)
  PROVE  TypeInv'
<1>0. ASSUME NEW r \in Request, NEW stage \in Stage, NEW o \in Contract, NEW items \in SUBSET Task,
             NEW valid \in SUBSET items, Goes(r, stage, o, items, valid),
             stage # "import" => o \in Op,
             UNCHANGED <<pool, task, lease, op, item, deaths>>
      PROVE  TypeInv'
  <2>1. [stage |-> stage, op |-> o, items |-> items, valid |-> valid] \in RequestRow
    BY DEF RequestRow
  <2>2. RequestTyped([stage |-> stage, op |-> o, items |-> items, valid |-> valid])
    BY <1>0 DEF RequestTyped
  <2>. QED BY <1>0, <2>1, <2>2, RequestStep DEF Goes
<1>1. ASSUME NEW r \in Request, NEW stage \in Stage, NEW o \in Op, NEW items \in SUBSET Task,
             NEW valid \in SUBSET items, Goes(r, stage, o, items, valid),
             UNCHANGED <<pool, task, lease, op, item, deaths>>
      PROVE  TypeInv'
  BY <1>0, <1>1 DEF Contract
<1>2. ASSUME NEW r \in Request, Ends(r), UNCHANGED <<pool, task, lease, op, item, deaths>>
      PROVE  TypeInv'
  BY <1>2, IdleTyped, RequestStep DEF Ends
<1>3. ASSUME NEW r \in Request, NEW o \in Op, Apply(r, o) \/ AskCancel(r, o)
      PROVE  TypeInv'
  <2>1. {"start", "light", "pending", "cancel"} \subseteq Stage
    BY DEF Stage
  <2>. QED BY <1>1, <1>3, <2>1 DEF Apply, AskCancel
<1>4. ASSUME NEW r \in Request, NEW o \in Op, NEW t \in Task, AskCorrect(r, o, t)
      PROVE  TypeInv'
  BY <1>1, <1>4 DEF AskCorrect, Stage
<1>5. ASSUME NEW r \in Request, ReadPending(r)
      PROVE  TypeInv'
  <2>. DEFINE o == request[r].op
  <2>1. o \in Op /\ UNCHANGED <<pool, task, lease, op, item, deaths>>
    BY <1>5 DEF ReadPending, TypeInv, RequestTyped
  <2>2. CASE Goes(r, "rejected", o, {}, {})
    BY <1>1, <2>1, <2>2 DEF Stage
  <2>3. CASE \E S \in SUBSET Has(o, "pending") :
               Goes(r, "convert", o, S, {t \in S : t \notin Misfit \/ item[o][t].corrected})
    <3>1. PICK S \in SUBSET Has(o, "pending") :
            Goes(r, "convert", o, S, {t \in S : t \notin Misfit \/ item[o][t].corrected})
      BY <2>3
    <3>2. S \in SUBSET Task
      BY DEF Has
    <3>3. {t \in S : t \notin Misfit \/ item[o][t].corrected} \in SUBSET S
      OBVIOUS
    <3>4. "convert" \in Stage
      BY DEF Stage
    <3>. QED BY <1>1, <2>1, <3>1, <3>2, <3>3, <3>4
  <2>. QED BY <1>5, <2>2, <2>3 DEF ReadPending
<1>6. ASSUME NEW r \in Request, ReadRejected(r)
      PROVE  TypeInv'
  <2>1. request[r].op \in Op
    BY <1>6 DEF ReadRejected, TypeInv, RequestTyped
  <2>. QED BY <1>1, <1>2, <1>6, <2>1 DEF ReadRejected, Stage
<1>7. ASSUME NEW r \in Request, Refused(r)
      PROVE  TypeInv'
  BY <1>2, <1>7 DEF Refused
<1>8. ASSUME NEW r \in Request, ReadFields(r)
      PROVE  TypeInv'
  <2>1. pool.contract \in Contract
    BY DEF TypeInv, TypeOK
  <2>. QED BY <1>0, <1>8, <2>1 DEF ReadFields, Stage
<1>. QED BY <1>3, <1>4, <1>5, <1>6, <1>7, <1>8

\* A new preview.
LEMMA PreviewTypes ==
  ASSUME TypeInv, NEW o \in Op, NEW heavy \in BOOLEAN, Preview(o, heavy)
  PROVE  /\ TypeInv'
         /\ op'[o] = [status |-> "preview", heavy |-> heavy, current |-> TRUE]
         /\ \A p \in Op \ {o} : op'[p] = op[p] /\ item'[p] = item[p]
         /\ \A t \in Task : \/ item'[o][t] = NoItem
                            \/ item'[o][t] = [status |-> "pending", untouched |-> TRUE, corrected |-> FALSE]
<1>. DEFINE listed(t) == heavy /\ t \in Tasks
            new(t) == IF listed(t) THEN [status |-> "pending", untouched |-> TRUE, corrected |-> FALSE] ELSE NoItem
            row == [status |-> "preview", heavy |-> heavy, current |-> TRUE]
<1>1. /\ op' = [op EXCEPT ![o] = row] /\ item' = [item EXCEPT ![o] = [t \in Task |-> new(t)]]
      /\ UNCHANGED <<pool, task, lease, request, deaths>>
  BY DEF Preview
<1>2. TypeOK
  BY DEF TypeInv
<1>3. row \in OpRow
  BY DEF OpRow
<1>4. op' \in [Op -> OpRow] /\ op'[o] = row /\ \A p \in Op \ {o} : op'[p] = op[p]
  BY <1>1, <1>2, <1>3 DEF TypeOK
<1>5. \A t \in Task : new(t) \in ItemRow
  BY DEF ItemRow, NoItem
<1>6. /\ item' \in [Op -> [Task -> ItemRow]] /\ \A t \in Task : item'[o][t] = new(t)
      /\ \A p \in Op \ {o} : item'[p] = item[p]
  <2>. DEFINE rows == [t \in Task |-> new(t)]
  <2>1. rows \in [Task -> ItemRow] /\ \A t \in Task : rows[t] = new(t)
    BY <1>5
  <2>. HIDE DEF rows
  <2>2. item \in [Op -> [Task -> ItemRow]]
    BY <1>2 DEF TypeOK
  <2>3. item' = [item EXCEPT ![o] = rows]
    BY <1>1 DEF rows
  <2>. QED BY <2>1, <2>2, <2>3
<1>7. \A t \in Task : item'[o][t] # NoItem => heavy /\ task[t].exists
  BY <1>6 DEF Tasks
<1>8. \A p \in Op, t \in Task : item'[p][t] # NoItem => op'[p].heavy /\ task'[t].exists
  BY <1>1, <1>2, <1>4, <1>6, <1>7 DEF TypeOK
<1>9. TypeInv'
  BY <1>1, <1>2, <1>4, <1>6, <1>8 DEF TypeInv, TypeOK, RequestTyped
<1>. QED BY <1>4, <1>6, <1>9

-----------------------------------------------------------------------------
(* What batches do.                                                        *)
\* The request that sent a batch is over.
LEMMA EndsFacts ==
  ASSUME TypeInv, NEW r \in Request, Ends(r)
  PROVE  /\ request' \in [Request -> RequestRow] /\ request'[r] = Idle
         /\ \A s \in Request \ {r} : request'[s] = request[s]
         /\ \A s \in Request : RequestTyped(request'[s])
BY IdleTyped, GoesFacts DEF Ends

\* A batch that changes the pool and the status of its operation.
LEMMA OperationStep ==
  ASSUME TypeInv, NEW r \in Request, Ends(r), NEW o \in Op, NEW rows \in [Op -> OpRow],
         \A p \in Op : rows[p].heavy = op[p].heavy,
         NEW status \in {"none", "preview", "applying", "complete", "cancelled"},
         op' = [rows EXCEPT ![o].status = status],
         pool' \in PoolRow,
         UNCHANGED <<task, lease, item, deaths>>
  PROVE  /\ TypeInv'
         /\ op'[o].status = status /\ op'[o].current = rows[o].current /\ op'[o].heavy = op[o].heavy
         /\ \A p \in Op \ {o} : op'[p] = rows[p]
<1>1. /\ op' \in [Op -> OpRow] /\ op'[o].status = status /\ op'[o].current = rows[o].current
      /\ op'[o].heavy = rows[o].heavy /\ \A p \in Op \ {o} : op'[p] = rows[p]
  BY StatusFacts
<1>2. \A p \in Op : op'[p].heavy = op[p].heavy
  BY <1>1
<1>3. request' \in [Request -> RequestRow] /\ \A s \in Request : RequestTyped(request'[s])
  BY EndsFacts
<1>4. TypeInv'
  BY <1>1, <1>2, <1>3 DEF TypeInv, TypeOK, RequestTyped, PoolRow
<1>. QED BY <1>1, <1>2, <1>4

\* The pool closes,
LEMMA StartTypes ==
  ASSUME TypeInv, NEW r \in Request, NEW revoke \in BOOLEAN, Start(r, revoke)
  PROVE  LET o == request[r].op
         IN  /\ TypeInv' /\ o \in Op /\ pool'.migration_status = "migrating"
             /\ op'[o].status = "applying"
             /\ \A p \in Op : ~op'[p].current /\ (p # o => op'[p].status = op[p].status)
<1>. DEFINE o == request[r].op
<1>1. TypeOK /\ o \in Op
  BY DEF TypeInv, RequestTyped, Start
<1>2. op' = [Outdated EXCEPT ![o].status = "applying"] /\ Ends(r) /\ UNCHANGED <<task, lease, item, deaths>>
      /\ pool' = [pool EXCEPT !.migration_status = "migrating"]
  BY DEF Start
<1>3. pool' \in PoolRow
      /\ pool'.migration_status = "migrating"
  BY <1>1, <1>2 DEF TypeOK, PoolRow
<1>4. /\ Outdated \in [Op -> OpRow]
      /\ \A p \in Op : Outdated[p].status = op[p].status /\ Outdated[p].heavy = op[p].heavy /\ ~Outdated[p].current
  BY <1>1, OutdatedFacts
<1>5. /\ TypeInv' /\ op'[o].status = "applying" /\ op'[o].current = Outdated[o].current
      /\ \A p \in Op \ {o} : op'[p] = Outdated[p]
  BY <1>1, <1>2, <1>3, <1>4, OperationStep
<1>. QED BY <1>1, <1>3, <1>4, <1>5

\* or opens under the contract of the operation,
LEMMA ActivateTypes ==
  ASSUME TypeInv, NEW r \in Request, Activate(r)
  PROVE  LET o == request[r].op
         IN  /\ TypeInv' /\ o \in Op /\ pool' = [migration_status |-> "ready", contract |-> o]
             /\ op'[o].status = "complete"
             /\ \A p \in Op : ~op'[p].current /\ (p # o => op'[p].status = op[p].status)
<1>. DEFINE o == request[r].op
<1>1. TypeOK /\ o \in Op
  BY DEF TypeInv, RequestTyped, Activate
<1>2. op' = [Outdated EXCEPT ![o].status = "complete"] /\ Ends(r) /\ UNCHANGED <<task, lease, item, deaths>>
      /\ pool' = [migration_status |-> "ready", contract |-> o]
  BY DEF Activate
<1>3. pool' \in PoolRow
  BY <1>1, <1>2 DEF Contract, PoolRow
<1>4. /\ Outdated \in [Op -> OpRow]
      /\ \A p \in Op : Outdated[p].status = op[p].status /\ Outdated[p].heavy = op[p].heavy /\ ~Outdated[p].current
  BY <1>1, OutdatedFacts
<1>5. /\ TypeInv' /\ op'[o].status = "complete" /\ op'[o].current = Outdated[o].current
      /\ \A p \in Op \ {o} : op'[p] = Outdated[p]
  BY <1>1, <1>2, <1>3, <1>4, OperationStep
<1>. QED BY <1>1, <1>2, <1>4, <1>5

\* or stays as open as it is,
LEMMA LightTypes ==
  ASSUME TypeInv, NEW r \in Request, ActivateLight(r)
  PROVE  LET o == request[r].op
         IN  /\ TypeInv' /\ o \in Op /\ op[o].current
             /\ pool'.migration_status = "ready" /\ pool'.contract = pool.contract
             /\ op'[o].status = "complete"
             /\ \A p \in Op : ~op'[p].current /\ (p # o => op'[p].status = op[p].status)
<1>. DEFINE o == request[r].op
<1>1. TypeOK /\ o \in Op
  BY DEF TypeInv, RequestTyped, ActivateLight
<1>2. op' = [Outdated EXCEPT ![o].status = "complete"] /\ Ends(r) /\ UNCHANGED <<task, lease, item, deaths>>
      /\ pool' = [pool EXCEPT !.migration_status = "ready"] /\ op[o].current
  BY DEF ActivateLight
<1>3. pool' \in PoolRow
  BY <1>1, <1>2 DEF TypeOK, PoolRow
<1>6. pool'.migration_status = "ready" /\ pool'.contract = pool.contract
  BY <1>1, <1>2 DEF TypeOK
<1>4. /\ Outdated \in [Op -> OpRow]
      /\ \A p \in Op : Outdated[p].status = op[p].status /\ Outdated[p].heavy = op[p].heavy /\ ~Outdated[p].current
  BY <1>1, OutdatedFacts
<1>5. /\ TypeInv' /\ op'[o].status = "complete" /\ op'[o].current = Outdated[o].current
      /\ \A p \in Op \ {o} : op'[p] = Outdated[p]
  <2>1. \A p \in Op : Outdated[p].heavy = op[p].heavy
    BY <1>4
  <2>2. op' = [Outdated EXCEPT ![o].status = "complete"] /\ Ends(r) /\ UNCHANGED <<task, lease, item, deaths>>
    BY <1>2
  <2>. QED BY <1>1, <1>3, <1>4, <2>1, <2>2, OperationStep
<1>. QED BY <1>1, <1>2, <1>4, <1>5, <1>6

\* and a cancellation leaves it alone.
LEMMA CancelTypes ==
  ASSUME TypeInv, NEW r \in Request, Cancel(r)
  PROVE  LET o == request[r].op
         IN  /\ TypeInv' /\ o \in Op
             /\ op'[o].status = "cancelled" /\ op'[o].current = op[o].current
             /\ \A p \in Op \ {o} : op'[p] = op[p]
<1>. DEFINE o == request[r].op
<1>1. TypeOK /\ o \in Op /\ op \in [Op -> OpRow]
  BY DEF TypeInv, TypeOK, RequestTyped, Cancel
<1>2. op' = [op EXCEPT ![o].status = "cancelled"] /\ Ends(r) /\ UNCHANGED <<pool, task, lease, item, deaths>>
  BY DEF Cancel
<1>3. pool' \in PoolRow
  BY <1>1, <1>2 DEF TypeOK, PoolRow
<1>. QED BY <1>1, <1>2, <1>3, OperationStep

\* A request dies.
LEMMA DieTypes ==
  ASSUME TypeInv, NEW r \in Request, Die(r)
  PROVE  TypeInv'
<1>1. request' \in [Request -> RequestRow] /\ \A s \in Request : RequestTyped(request'[s])
  BY EndsFacts DEF Die
<1>2. deaths' \in 0 .. MaxDeaths
  BY SchemaAssumption DEF Die, TypeInv, TypeOK
<1>. QED BY <1>1, <1>2 DEF Die, TypeInv, TypeOK, RequestTyped

\* A correction changes rejected items to pending ones, and no others.
LEMMA CorrectTypes ==
  ASSUME TypeInv, NEW r \in Request, NEW good \in BOOLEAN, Correct(r, good)
  PROVE  LET o == request[r].op
         IN  /\ TypeInv' /\ o \in Op /\ UNCHANGED <<pool, task, lease, op>>
             /\ \A p \in Op \ {o} : item'[p] = item[p]
             /\ \A t \in Task : \/ item'[o][t] = item[o][t]
                                \/ /\ item[o][t].status = "rejected" /\ item'[o][t].status = "pending"
                                   /\ item'[o][t].untouched = item[o][t].untouched
<1>. DEFINE o == request[r].op
            new(t) == IF t \in request[r].items THEN Corrected(item[o][t], good) ELSE item[o][t]
            rows == [t \in Task |-> new(t)]
<1>1. TypeOK /\ o \in Op
  BY DEF TypeInv, RequestTyped, Correct
<1>2. item' = [item EXCEPT ![o] = rows] /\ Ends(r) /\ UNCHANGED <<pool, task, lease, op, deaths>>
  BY DEF Correct
<1>3. item \in [Op -> [Task -> ItemRow]] /\ \A t \in Task : item[o][t] \in ItemRow
  BY <1>1 DEF TypeOK
<1>4. ASSUME NEW t \in Task
      PROVE  \/ new(t) = item[o][t]
             \/ /\ item[o][t].status = "rejected" /\ new(t).status = "pending" /\ new(t) \in ItemRow
                /\ new(t).untouched = item[o][t].untouched
  <2>1. ASSUME NEW row \in ItemRow,
               NEW next, next = [row EXCEPT !.status = "pending", !.corrected = good]
        PROVE  next.status = "pending" /\ next \in ItemRow /\ next.untouched = row.untouched
    <3>1. next = [status |-> "pending", untouched |-> row.untouched, corrected |-> good]
      BY <2>1 DEF ItemRow
    <3>2. row.untouched \in BOOLEAN
      BY DEF ItemRow
    <3>. QED BY <3>1, <3>2 DEF ItemRow
  <2>2. CASE item[o][t].status = "rejected"
    BY <1>3, <2>1, <2>2 DEF Corrected
  <2>3. CASE item[o][t].status # "rejected"
    BY <2>3 DEF Corrected
  <2>. QED BY <2>2, <2>3
<1>5. rows \in [Task -> ItemRow] /\ \A t \in Task : rows[t] = new(t)
  BY <1>3, <1>4
<1>. HIDE DEF rows, new
<1>6. /\ item' \in [Op -> [Task -> ItemRow]] /\ \A t \in Task : item'[o][t] = new(t)
      /\ \A p \in Op \ {o} : item'[p] = item[p]
  BY <1>1, <1>2, <1>3, <1>5
<1>7. \A p \in Op, t \in Task : item'[p][t] # NoItem => item[p][t] # NoItem
  BY <1>4, <1>6 DEF NoItem
<1>8. request' \in [Request -> RequestRow] /\ \A s \in Request : RequestTyped(request'[s])
  BY <1>2, EndsFacts
<1>9. TypeInv'
  BY <1>1, <1>2, <1>6, <1>7, <1>8 DEF TypeInv, TypeOK, RequestTyped
<1>. QED BY <1>1, <1>2, <1>4, <1>6, <1>9

\* An import makes or edits tasks, under the contract it has read.
LEMMA ImportTypes ==
  ASSUME TypeInv, NEW r \in Request, NEW S \in SUBSET Task, Import(r, S)
  PROVE  /\ TypeInv' /\ UNCHANGED <<pool, op>> /\ request[r].op \in Contract
         /\ \A t \in S : task'[t].exists /\ task'[t].contract = request[r].op /\ lease'[t] = NULL
         /\ \A t \in Task \ S : task'[t] = task[t] /\ lease'[t] = lease[t]
         /\ \A o \in Op, t \in Task : /\ item'[o][t].status = item[o][t].status
                                      /\ item'[o][t].untouched => item[o][t].untouched
<1>. DEFINE c == request[r].op
            new(t) == [exists |-> TRUE, contract |-> c,
                       input_revision |-> task[t].input_revision + IF t \in Tasks THEN 1 ELSE 0]
<1>1. TypeOK /\ c \in Contract
  BY DEF TypeInv, RequestTyped, Import
<1>2. /\ task' = [t \in Task |-> IF t \in S THEN new(t) ELSE task[t]]
      /\ lease' = Unleased(S) /\ item' = Touched(S) /\ Ends(r) /\ UNCHANGED <<pool, op, deaths>>
  BY DEF Import
<1>3. ASSUME NEW t \in Task
      PROVE  new(t) \in Row /\ new(t).exists /\ new(t).contract = c
  <2>1. task[t].input_revision \in Nat
    BY <1>1 DEF TypeOK, Row
  <2>. QED BY <1>1, <2>1 DEF Row
<1>. HIDE DEF new
<1>4. task' \in [Task -> Row]
  BY <1>1, <1>2, <1>3 DEF TypeOK
<1>5. /\ \A t \in S : task'[t].exists /\ task'[t].contract = c
      /\ \A t \in Task \ S : task'[t] = task[t]
  BY <1>2, <1>3
<1>6. /\ \A t \in S : lease'[t] = NULL
      /\ \A t \in Task \ S : lease'[t] = lease[t]
      /\ lease' \in [Task -> LeaseRow \cup {NULL}]
  BY <1>1, <1>2 DEF Unleased, TypeOK
<1>7. /\ item' \in [Op -> [Task -> ItemRow]]
      /\ \A o \in Op, t \in Task : /\ item'[o][t].status = item[o][t].status
                                   /\ item'[o][t].untouched => item[o][t].untouched
                                   /\ item'[o][t] # NoItem => item[o][t] # NoItem
  BY <1>1, <1>2, TouchedFacts
<1>8. request' \in [Request -> RequestRow] /\ \A s \in Request : RequestTyped(request'[s])
  BY <1>2, EndsFacts
<1>9. \A t \in Task : task[t].exists => task'[t].exists
  BY <1>5
<1>10. TypeInv'
  BY <1>1, <1>2, <1>4, <1>6, <1>7, <1>8, <1>9 DEF TypeInv, TypeOK, RequestTyped
<1>11. UNCHANGED <<pool, op>>
  BY <1>2
<1>12. \A o \in Op, t \in Task : /\ item'[o][t].status = item[o][t].status
                                 /\ item'[o][t].untouched => item[o][t].untouched
  BY <1>7
<1>. HIDE DEF c
<1>13. /\ \A t \in S : task'[t].exists /\ task'[t].contract = c /\ lease'[t] = NULL
       /\ \A t \in Task \ S : task'[t] = task[t] /\ lease'[t] = lease[t]
  BY <1>5, <1>6
<1>. QED BY <1>1, <1>10, <1>11, <1>12, <1>13 DEF c

\* What a chunk does to the items S of operation o.
Chunk(o, S, valid) ==
  /\ o \in Op /\ valid \subseteq S
  /\ \A t \in S : item[o][t].status = "pending"
  /\ \A t \in Task : /\ task'[t].exists = task[t].exists
                     /\ t \in valid => task'[t].contract = o /\ lease'[t] = NULL
                     /\ t \notin valid => task'[t] = task[t] /\ lease'[t] = lease[t]
  /\ \A p \in Op \ {o}, t \in Task : /\ item'[p][t].status = item[p][t].status
                                     /\ item'[p][t].untouched => item[p][t].untouched
  /\ \A t \in Task : /\ t \in valid => item'[o][t].status = "applied"
                     /\ t \in S \ valid => item'[o][t].status = "rejected"
                     /\ t \notin S => item'[o][t].status = item[o][t].status
  /\ \A t \in Task \ S : item'[o][t].untouched => item[o][t].untouched

\* A chunk decides items that are pending, and changes the tasks that convert.
LEMMA ConvertTypes ==
  ASSUME TypeInv, NEW r \in Request, Convert(r)
  PROVE  TypeInv' /\ UNCHANGED <<pool, op>> /\ Chunk(request[r].op, request[r].items, request[r].valid)
<1>. SUFFICES ASSUME NEW o, NEW S, NEW valid,
                     o = request[r].op, S = request[r].items, valid = request[r].valid
              PROVE  TypeInv' /\ UNCHANGED <<pool, op>> /\ Chunk(o, S, valid)
  OBVIOUS
<1>. DEFINE T == Touched(valid)
            new(t) == IF t \in valid THEN [T[o][t] EXCEPT !.status = "applied"]
                      ELSE IF t \in S \ valid THEN [T[o][t] EXCEPT !.status = "rejected"] ELSE T[o][t]
            rows == [t \in Task |-> new(t)]
            converted(t) == IF t \in valid
                            THEN [task[t] EXCEPT !.contract = o, !.input_revision = task[t].input_revision + 1]
                            ELSE task[t]
<1>1. TypeOK /\ o \in Op /\ valid \subseteq S /\ StillPending(o, S) /\ S \subseteq Task
  BY DEF TypeInv, TypeOK, RequestRow, RequestTyped, Convert
<1>0. o = request[r].op /\ S = request[r].items /\ valid = request[r].valid
  OBVIOUS
<1>2. /\ task' = [t \in Task |-> converted(t)] /\ lease' = Unleased(valid)
      /\ Ends(r) /\ UNCHANGED <<pool, op, deaths>>
  BY DEF Convert
<1>3. item' = [T EXCEPT ![o] = rows]
  BY DEF Convert
<1>4. /\ \A t \in Task : task[t] \in Row /\ item[o][t] \in ItemRow
      /\ item \in [Op -> [Task -> ItemRow]] /\ lease \in [Task -> LeaseRow \cup {NULL}]
  BY <1>1 DEF TypeOK
<1>5. /\ T \in [Op -> [Task -> ItemRow]]
      /\ \A p \in Op, t \in Task :
           /\ T[p][t].status = item[p][t].status
           /\ T[p][t].untouched => item[p][t].untouched
           /\ item[p][t] = NoItem => T[p][t] = NoItem
  BY <1>1, TouchedFacts
<1>. HIDE DEF T
\* the tasks,
<1>6. ASSUME NEW t \in Task
      PROVE  /\ converted(t) \in Row /\ converted(t).exists = task[t].exists
             /\ t \in valid => converted(t).contract = o
             /\ t \notin valid => converted(t) = task[t]
  <2>1. CASE t \in valid
    <3>1. converted(t) = [exists |-> task[t].exists, contract |-> o, input_revision |-> task[t].input_revision + 1]
      BY <1>4, <2>1 DEF Row
    <3>2. task[t].exists \in BOOLEAN /\ task[t].input_revision + 1 \in Nat /\ o \in Contract
      BY <1>1, <1>4 DEF Row, Contract
    <3>. QED BY <2>1, <3>1, <3>2 DEF Row
  <2>2. CASE t \notin valid
    BY <1>4, <2>2
  <2>. QED BY <2>1, <2>2
<1>7. task' \in [Task -> Row] /\ \A t \in Task : task'[t] = converted(t)
  BY <1>2, <1>6
<1>8. /\ lease' \in [Task -> LeaseRow \cup {NULL}]
      /\ \A t \in Task : lease'[t] = IF t \in valid THEN NULL ELSE lease[t]
  BY <1>2, <1>4 DEF Unleased
\* and the items.
<1>9. ASSUME NEW row \in ItemRow, NEW status \in {"applied", "rejected"},
             NEW next, next = [row EXCEPT !.status = status]
      PROVE  next \in ItemRow /\ next.status = status /\ next.untouched = row.untouched
  <2>1. next = [status |-> status, untouched |-> row.untouched, corrected |-> row.corrected]
    BY <1>9 DEF ItemRow
  <2>2. row.untouched \in BOOLEAN /\ row.corrected \in BOOLEAN
    BY DEF ItemRow
  <2>. QED BY <2>1, <2>2 DEF ItemRow
<1>10. ASSUME NEW t \in Task
       PROVE  /\ new(t) \in ItemRow
              /\ new(t).status = IF t \in valid THEN "applied" ELSE IF t \in S THEN "rejected" ELSE T[o][t].status
              /\ new(t).untouched = T[o][t].untouched
              /\ t \notin S => new(t) = T[o][t]
  <2>1. T[o][t] \in ItemRow
    BY <1>1, <1>5
  <2>2. CASE t \in valid
    BY <1>1, <1>9, <2>1, <2>2
  <2>3. CASE t \in S \ valid
    BY <1>1, <1>9, <2>1, <2>3
  <2>4. CASE t \notin S
    BY <1>1, <2>1, <2>4
  <2>. QED BY <1>1, <2>2, <2>3, <2>4
<1>11. rows \in [Task -> ItemRow] /\ \A t \in Task : rows[t] = new(t)
  BY <1>10
<1>. HIDE DEF rows, new, converted
<1>12. /\ item' \in [Op -> [Task -> ItemRow]] /\ \A t \in Task : item'[o][t] = new(t)
       /\ \A p \in Op \ {o} : item'[p] = T[p]
  BY <1>1, <1>3, <1>5, <1>11
<1>13. \A t \in S : item[o][t].status = "pending"
  BY <1>1 DEF StillPending
<1>14. ASSUME NEW p \in Op, NEW t \in Task, item'[p][t] # NoItem
       PROVE  item[p][t] # NoItem
  <2>1. CASE p = o /\ t \in S
    BY <1>13, <2>1 DEF NoItem
  <2>2. CASE p = o /\ t \notin S
    BY <1>5, <1>10, <1>12, <1>14, <2>2
  <2>3. CASE p # o
    BY <1>5, <1>12, <1>14, <2>3
  <2>. QED BY <2>1, <2>2, <2>3
<1>15. request' \in [Request -> RequestRow] /\ \A s \in Request : RequestTyped(request'[s])
  BY <1>2, EndsFacts
<1>16. \A p \in Op, t \in Task : item'[p][t] # NoItem => op'[p].heavy /\ task'[t].exists
  BY <1>1, <1>2, <1>6, <1>7, <1>14 DEF TypeOK
<1>17. TypeInv'
  BY <1>1, <1>2, <1>7, <1>8, <1>12, <1>15, <1>16 DEF TypeInv, TypeOK, RequestTyped
<1>18. \A t \in Task : /\ task'[t].exists = task[t].exists
                       /\ t \in valid => task'[t].contract = o /\ lease'[t] = NULL
                       /\ t \notin valid => task'[t] = task[t] /\ lease'[t] = lease[t]
  BY <1>6, <1>7, <1>8
<1>19. \A p \in Op \ {o}, t \in Task : /\ item'[p][t].status = item[p][t].status
                                       /\ item'[p][t].untouched => item[p][t].untouched
  BY <1>5, <1>12
<1>20. \A t \in Task : /\ item'[o][t].status = IF t \in valid THEN "applied"
                                               ELSE IF t \in S THEN "rejected" ELSE item[o][t].status
                       /\ item'[o][t].untouched => item[o][t].untouched
  BY <1>1, <1>5, <1>10, <1>12
<1>21. o \in Op /\ valid \subseteq S /\ UNCHANGED <<pool, op>>
  BY <1>1, <1>2
<1>22. \A t \in Task \ S : item'[o][t].untouched => item[o][t].untouched
  BY <1>20
<1>23. \A t \in Task : /\ t \in valid => item'[o][t].status = "applied"
                       /\ t \in S \ valid => item'[o][t].status = "rejected"
                       /\ t \notin S => item'[o][t].status = item[o][t].status
  BY <1>20, <1>21
<1>24. Chunk(o, S, valid)
  BY <1>13, <1>18, <1>19, <1>21, <1>22, <1>23 DEF Chunk
<1>. QED BY <1>17, <1>21, <1>24

-----------------------------------------------------------------------------
\* Nothing happened yet.
LEMMA InitTypes ==
  ASSUME Init
  PROVE  TypeInv
<1>1. pool \in PoolRow
  BY DEF Init, Contract, PoolRow
<1>2. task \in [Task -> Row]
  BY DEF Init, Row, Contract
<1>3. op \in [Op -> OpRow]
  BY DEF Init, OpRow
<1>4. item \in [Op -> [Task -> ItemRow]] /\ \A o \in Op, t \in Task : item[o][t] = NoItem
  BY DEF Init, ItemRow, NoItem
<1>5. request \in [Request -> RequestRow] /\ \A r \in Request : RequestTyped(request[r])
  BY IdleTyped DEF Init
<1>6. deaths \in 0 .. MaxDeaths /\ lease \in [Task -> LeaseRow \cup {NULL}]
  BY SchemaAssumption DEF Init
<1>. QED BY <1>1, <1>2, <1>3, <1>4, <1>5, <1>6 DEF TypeInv, TypeOK, PoolRow

\* A step of nobody.
LEMMA StutterTypes ==
  ASSUME TypeInv, UNCHANGED vars
  PROVE  TypeInv'
BY DEF vars, TypeInv, TypeOK, RequestTyped

\* Every step keeps the types.
LEMMA TypesStep ==
  ASSUME TypeInv, [Next]_vars
  PROVE  TypeInv'
<1>1. CASE UNCHANGED vars
  BY <1>1, StutterTypes
<1>2. CASE \/ \E t \in Task : Claim(t) \/ Report(t) \/ Expire(t) \/ EditInputs(t) \/ ChangeTask(t) \/ CreateTask(t)
           \/ UpdateConfiguration
  BY <1>2, TrafficTypes
<1>3. CASE \/ \E r \in Request, o \in Op : Apply(r, o) \/ AskCancel(r, o) \/ \E t \in Task : AskCorrect(r, o, t)
           \/ \E r \in Request : ReadPending(r) \/ ReadRejected(r) \/ Refused(r) \/ ReadFields(r)
  BY <1>3, ReadTypes
<1>4. CASE \E o \in Op, heavy \in BOOLEAN : Preview(o, heavy)
  BY <1>4, PreviewTypes
<1>5. CASE \E r \in Request, revoke \in BOOLEAN : Start(r, revoke)
  BY <1>5, StartTypes
<1>6. CASE \E r \in Request : Convert(r)
  BY <1>6, ConvertTypes
<1>7. CASE \E r \in Request : Activate(r)
  BY <1>7, ActivateTypes
<1>8. CASE \E r \in Request : ActivateLight(r)
  BY <1>8, LightTypes
<1>9. CASE \E r \in Request : Die(r)
  BY <1>9, DieTypes
<1>10. CASE \E r \in Request : Cancel(r)
  BY <1>10, CancelTypes
<1>11. CASE \E r \in Request, good \in BOOLEAN : Correct(r, good)
  BY <1>11, CorrectTypes
<1>12. CASE \E r \in Request, S \in SUBSET Task : Import(r, S)
  BY <1>12, ImportTypes
<1>. QED BY <1>1, <1>2, <1>3, <1>4, <1>5, <1>6, <1>7, <1>8, <1>9, <1>10, <1>11, <1>12 DEF Next

\* The columns keep their types, and an item its task and a heavy operation,
\* whatever requests overlap (schema.ts, migrations/0001_initial.sql).
THEOREM TypesHold == Spec => []TypeOK
<1>1. Spec => []TypeInv
  BY InitTypes, TypesStep, PTL DEF Spec
<1>2. TypeInv => TypeOK
  BY DEF TypeInv
<1>. QED BY <1>1, <1>2, PTL

-----------------------------------------------------------------------------
(* A chunk converts once.                                                  *)
\* The step of a chunk, in the terms of ConvertedOnce.
OnceStep ==
  \A o \in Op, t \in Task :
    item[o][t].status = "applied" /\ pool.migration_status = "migrating"
      => /\ item'[o][t].status = "applied"
         /\ op[o].status = "applying" =>
              task'[t].input_revision = task[t].input_revision

\* A request has a chunk of the operation applying, or none to convert.
ConvertsOne ==
  \A r \in Request, o \in Op :
    /\ request[r].stage = "convert" /\ op[o].status = "applying"
    /\ StillPending(request[r].op, request[r].items)
    => request[r].op = o \/ request[r].items = {}

\* A chunk has only pending items, so nothing that is converted.
LEMMA ConvertOnce ==
  ASSUME TypeInv, ConvertsOne, NEW r \in Request, Convert(r)
  PROVE  OnceStep
<1>. SUFFICES ASSUME NEW o, NEW S, NEW valid,
                     o = request[r].op, S = request[r].items, Chunk(o, S, valid)
              PROVE  OnceStep
  BY ConvertTypes
<1>2. request[r].stage = "convert" /\ StillPending(o, S)
  BY DEF Convert
<1>3. ASSUME NEW p \in Op, NEW t \in Task, item[p][t].status = "applied"
      PROVE  item'[p][t].status = "applied"
  <2>1. CASE p = o
    <3>1. t \notin S
      BY <1>3, <2>1 DEF Chunk
    <3>. QED BY <1>3, <2>1, <3>1 DEF Chunk
  <2>2. CASE p # o
    BY <1>3, <2>2 DEF Chunk
  <2>. QED BY <2>1, <2>2
<1>4. ASSUME NEW p \in Op, NEW t \in Task, item[p][t].status = "applied", op[p].status = "applying"
      PROVE  task'[t].input_revision = task[t].input_revision
  <2>1. p = o \/ S = {}
    BY <1>2, <1>4 DEF ConvertsOne
  <2>2. t \notin valid
    BY <1>4, <2>1 DEF Chunk
  <2>. QED BY <2>2 DEF Chunk
<1>. QED BY <1>3, <1>4 DEF OnceStep

\* No step converts a task twice.
LEMMA OnceStepHolds ==
  ASSUME TypeInv, ConvertsOne, [Next]_vars
  PROVE  OnceStep
<1>1. TypeOK
  BY DEF TypeInv
<1>2. ASSUME item' = item \/ \E S : item' = Touched(S)
      PROVE  \A o \in Op, t \in Task : item'[o][t].status = item[o][t].status
  BY <1>1, <1>2, TouchedFacts
<1>3. CASE UNCHANGED <<item, task>>
  BY <1>3 DEF OnceStep
<1>4. CASE UNCHANGED vars
  BY <1>3, <1>4 DEF vars
<1>5. CASE \E t \in Task : Claim(t) \/ Report(t) \/ Expire(t) \/ ChangeTask(t)
  <2>1. UNCHANGED task /\ (item' = item \/ \E S : item' = Touched(S))
    BY <1>5 DEF Claim, Report, Expire, ChangeTask
  <2>. QED BY <1>2, <2>1 DEF OnceStep
<1>6. CASE \/ \E t \in Task : EditInputs(t) \/ CreateTask(t)
           \/ \E r \in Request, S \in SUBSET Task : Import(r, S)
  <2>1. pool.migration_status = "ready"
    BY <1>6 DEF EditInputs, CreateTask, Import
  <2>. QED BY <2>1 DEF OnceStep
<1>7. CASE \E o \in Op, heavy \in BOOLEAN : Preview(o, heavy)
  <2>1. pool.migration_status = "ready"
    BY <1>7 DEF Preview
  <2>. QED BY <2>1 DEF OnceStep
<1>8. CASE \/ UpdateConfiguration
           \/ \E r \in Request, o \in Op : Apply(r, o) \/ AskCancel(r, o) \/ \E t \in Task : AskCorrect(r, o, t)
           \/ \E r \in Request : ReadPending(r) \/ ReadRejected(r) \/ Refused(r) \/ Die(r) \/ Cancel(r)
           \/ \E r \in Request : ReadFields(r)
           \/ \E r \in Request : Activate(r) \/ ActivateLight(r) \/ \E revoke \in BOOLEAN : Start(r, revoke)
  <2>1. UNCHANGED <<item, task>>
    BY <1>8 DEF UpdateConfiguration, Apply, AskCancel, AskCorrect, ReadPending, ReadRejected,
                Refused, Die, Cancel, ReadFields, Activate, ActivateLight, Start
  <2>. QED BY <1>3, <2>1
<1>9. CASE \E r \in Request : Convert(r)
  BY <1>9, ConvertOnce
<1>10. ASSUME NEW r \in Request, NEW good \in BOOLEAN, Correct(r, good)
       PROVE  OnceStep
  <2>. DEFINE o == request[r].op
  <2>1. /\ UNCHANGED task /\ \A p \in Op \ {o} : item'[p] = item[p]
        /\ \A t \in Task : item'[o][t] = item[o][t] \/ item[o][t].status = "rejected"
    BY <1>10, CorrectTypes
  <2>2. \A p \in Op, t \in Task : item[p][t].status = "applied" => item'[p][t].status = "applied"
    BY <2>1
  <2>. QED BY <2>1, <2>2 DEF OnceStep
<1>. QED BY <1>4, <1>5, <1>6, <1>7, <1>8, <1>9, <1>10 DEF Next

-----------------------------------------------------------------------------
(* The rows of a pool, whichever requests they meet.                       *)
\* An attempt is an existing task's.
LeaseHasTask == \A t \in Task : lease[t] # NULL => task[t].exists

\* A closed pool is not what any preview reviewed.
CurrentIsOpen == \A o \in Op : op[o].current => pool.migration_status = "ready"

\* What was reviewed is listed,
UntouchedIsListed ==
  \A o \in Op, t \in Task : item[o][t].untouched => item[o][t].status # "none"

\* and nothing is decided before the operation starts.
UndecidedBefore ==
  \A o \in Op : op[o].status \in {"none", "preview"} =>
    \A t \in Task : item[o][t].status \in {"none", "pending"}

OneApplying ==
  \A o, p \in Op : op[o].status = "applying" /\ op[p].status = "applying" => o = p

\* The tasks converted so far are the new contract's, and nobody holds them.
AppliedIsConverted ==
  \A o \in Op : op[o].status = "applying" =>
    \A t \in Task : item[o][t].status = "applied" => task[t].contract = o /\ lease[t] = NULL

RowsInv ==
  /\ LeaseHasTask /\ CurrentIsOpen /\ UntouchedIsListed /\ UndecidedBefore
  /\ OneApplying /\ AppliedIsConverted
  /\ ClosedWhileApplying /\ Resumable /\ NoHalfConverted /\ LeasesFollowContract

\* No item waits for its conversion, or for a correction.
Decided(o) == \A t \in Task : item[o][t].status \notin {"pending", "rejected"}

\* An activation is on time: behind the last item of the migration in
\* progress, or with the contract that is in force already.
Activable(o) ==
  \/ op[o].status = "applying" /\ Decided(o)
  \/ pool = [migration_status |-> "ready", contract |-> o]

\* What the batch of a request relies on and does not recheck.
Trusted(q) ==
  /\ q.stage \in {"start", "light"} /\ op[q.op].current =>
       /\ op[q.op].status \in {"preview", "cancelled"}
       /\ \A t \in Task : item[q.op][t].status \in {"none", "pending"}
  /\ q.stage = "convert" => op[q.op].status = "applying" \/ Decided(q.op)
  /\ q.stage = "activate" => Activable(q.op)
  /\ q.stage = "cancel" => op[q.op].status # "applying"
  /\ q.stage = "import" => q.op = pool.contract

\* A batch of the request commits.
Batch(r) ==
  \/ Convert(r) \/ Activate(r) \/ ActivateLight(r) \/ Cancel(r)
  \/ \E revoke \in BOOLEAN : Start(r, revoke)
  \/ \E S \in SUBSET Task : Import(r, S)

SafeInv == TypeInv /\ RowsInv /\ \A r \in Request : Trusted(request[r])

\* Rows that may change without a request's batch.
Quiet ==
  /\ UNCHANGED pool
  /\ \A o \in Op : op'[o].status = op[o].status /\ (op'[o].current => op[o].current)
  /\ \A o \in Op, t \in Task : /\ item'[o][t].status = item[o][t].status
                               /\ item'[o][t].untouched => item[o][t].untouched

\* What they may do to a task: its inputs follow the contract that is active,
\* and only in an open pool.
QuietTask(t) ==
  /\ lease'[t] # NULL => task'[t].exists
  /\ \/ /\ task'[t].exists = task[t].exists /\ task'[t].contract = task[t].contract
        /\ lease'[t] # NULL => lease[t] # NULL /\ lease'[t].contract = lease[t].contract
     \/ /\ pool.migration_status = "ready"
        /\ task'[t].exists => task'[t].contract = pool.contract
        /\ lease'[t] # NULL => lease'[t].contract = pool.contract

\* What other handlers do keeps the promises of a closed pool.
LEMMA QuietRows ==
  ASSUME RowsInv, Quiet, \A t \in Task : QuietTask(t)
  PROVE  RowsInv'
<1>1. \A o \in Op : op'[o].status = op[o].status /\ (op'[o].current => op[o].current)
  BY DEF Quiet
<1>2. \A o \in Op, t \in Task : /\ item'[o][t].status = item[o][t].status
                                /\ item'[o][t].untouched => item[o][t].untouched
  BY DEF Quiet
<1>3. pool' = pool
  BY DEF Quiet
<1>4. LeaseHasTask'
  BY DEF LeaseHasTask, QuietTask
<1>5. CurrentIsOpen' /\ UntouchedIsListed' /\ UndecidedBefore' /\ OneApplying' /\ ClosedWhileApplying'
  <2>1. CurrentIsOpen'
    BY <1>1, <1>3 DEF RowsInv, CurrentIsOpen
  <2>2. UntouchedIsListed'
    BY <1>2 DEF RowsInv, UntouchedIsListed
  <2>3. UndecidedBefore'
    BY <1>1, <1>2 DEF RowsInv, UndecidedBefore
  <2>4. OneApplying'
    BY <1>1 DEF RowsInv, OneApplying
  <2>5. ClosedWhileApplying'
    BY <1>1, <1>3 DEF RowsInv, ClosedWhileApplying
  <2>. QED BY <2>1, <2>2, <2>3, <2>4, <2>5
<1>6. AppliedIsConverted'
  <2>. SUFFICES ASSUME NEW o \in Op, op'[o].status = "applying", NEW t \in Task, item'[o][t].status = "applied"
                PROVE  task'[t].contract = o /\ lease'[t] = NULL
    BY DEF AppliedIsConverted
  <2>1. op[o].status = "applying" /\ item[o][t].status = "applied"
    BY <1>1, <1>2
  <2>2. pool.migration_status = "migrating"
    BY <2>1 DEF RowsInv, ClosedWhileApplying
  <2>3. task[t].contract = o /\ lease[t] = NULL
    BY <2>1 DEF RowsInv, AppliedIsConverted
  <2>. QED BY <2>2, <2>3 DEF QuietTask
<1>7. Resumable'
  <2>. SUFFICES ASSUME pool.migration_status = "migrating"
                PROVE  \E o \in Op : /\ op'[o].status = "applying"
                                     /\ \A t \in Task : task'[t].exists => item'[o][t].status # "none"
    BY <1>3 DEF Resumable, Tasks
  <2>1. PICK o \in Op : /\ op[o].status = "applying"
                        /\ \A t \in Task : task[t].exists => item[o][t].status # "none"
    BY DEF RowsInv, Resumable, Tasks
  <2>2. \A t \in Task : task'[t].exists = task[t].exists
    BY DEF QuietTask
  <2>. QED BY <1>1, <1>2, <2>1, <2>2
<1>8. NoHalfConverted'
  <2>. SUFFICES ASSUME pool.migration_status = "ready", NEW t \in Task, task'[t].exists
                PROVE  task'[t].contract = pool.contract
    BY <1>3 DEF NoHalfConverted, Tasks
  <2>1. task[t].exists => task[t].contract = pool.contract
    BY DEF RowsInv, NoHalfConverted, Tasks
  <2>. QED BY <2>1 DEF QuietTask
<1>9. LeasesFollowContract'
  <2>. SUFFICES ASSUME pool.migration_status = "ready", NEW t \in Task, lease'[t] # NULL
                PROVE  lease'[t].contract = pool.contract
    BY <1>3 DEF LeasesFollowContract
  <2>1. lease[t] # NULL => lease[t].contract = pool.contract
    BY DEF RowsInv, LeasesFollowContract
  <2>. QED BY <2>1 DEF QuietTask
<1>. QED BY <1>4, <1>5, <1>6, <1>7, <1>8, <1>9 DEF RowsInv

\* Traffic is quiet,
LEMMA TrafficQuiet ==
  ASSUME TypeInv, RowsInv,
         \/ \E t \in Task : Claim(t) \/ Report(t) \/ Expire(t) \/ EditInputs(t) \/ ChangeTask(t) \/ CreateTask(t)
         \/ UpdateConfiguration
  PROVE  Quiet /\ (\A t \in Task : QuietTask(t)) /\ UNCHANGED request
<1>1. TypeOK /\ lease \in [Task -> LeaseRow \cup {NULL}] /\ task \in [Task -> Row]
      /\ \A t \in Task : lease[t] # NULL => task[t].exists
  BY DEF TypeInv, TypeOK, RowsInv, LeaseHasTask
<1>2. ASSUME UNCHANGED pool, op' = op \/ op' = Outdated, item' = item \/ \E S : item' = Touched(S)
      PROVE  Quiet
  BY <1>1, <1>2, TouchedFacts, OutdatedFacts DEF Quiet
<1>3. ASSUME NEW t \in Task, task'[t] = task[t], lease'[t] = lease[t] \/ lease'[t] = NULL
      PROVE  QuietTask(t)
  BY <1>1, <1>3 DEF QuietTask
<1>4. ASSUME NEW t \in Task, Claim(t)
      PROVE  Quiet /\ (\A u \in Task : QuietTask(u)) /\ UNCHANGED request
  <2>. DEFINE row == [contract |-> pool.contract, unexpired |-> TRUE]
  <2>1. lease' = [lease EXCEPT ![t] = row] /\ pool.migration_status = "ready" /\ task[t].exists
        /\ item' = Touched({t}) /\ UNCHANGED <<pool, task, op, request, deaths>>
    BY <1>4 DEF Claim, Tasks
  <2>2. row.contract = pool.contract
    OBVIOUS
  <2>. HIDE DEF row
  <2>3. QuietTask(t)
    <3>1. lease'[t] = row
      BY <1>1, <2>1
    <3>2. task'[t].exists => task'[t].contract = pool.contract
      BY <2>1 DEF RowsInv, NoHalfConverted, Tasks
    <3>. QED BY <2>1, <2>2, <3>1, <3>2 DEF QuietTask
  <2>4. \A u \in Task \ {t} : QuietTask(u)
    BY <1>1, <1>3, <2>1
  <2>. QED BY <1>2, <2>1, <2>3, <2>4
<1>5. ASSUME NEW t \in Task, Report(t) \/ ChangeTask(t)
      PROVE  Quiet /\ (\A u \in Task : QuietTask(u)) /\ UNCHANGED request
  <2>1. lease' = [lease EXCEPT ![t] = NULL] /\ item' = Touched({t}) /\ UNCHANGED <<pool, task, op, request, deaths>>
    BY <1>5 DEF Report, ChangeTask
  <2>2. \A u \in Task : QuietTask(u)
    BY <1>1, <1>3, <2>1
  <2>. QED BY <1>2, <2>1, <2>2
<1>6. ASSUME NEW t \in Task, Expire(t)
      PROVE  Quiet /\ (\A u \in Task : QuietTask(u)) /\ UNCHANGED request
  <2>1. lease' = [lease EXCEPT ![t] = [lease[t] EXCEPT !.unexpired = FALSE]] /\ lease[t] # NULL
        /\ UNCHANGED <<pool, task, op, item, request, deaths>>
    BY <1>6 DEF Expire
  <2>2. [lease[t] EXCEPT !.unexpired = FALSE].contract = lease[t].contract
    BY <1>1, <2>1 DEF LeaseRow
  <2>3. lease'[t].contract = lease[t].contract /\ task'[t] = task[t] /\ task[t].exists
    BY <1>1, <2>1, <2>2
  <2>4. QuietTask(t)
    BY <2>1, <2>3 DEF QuietTask
  <2>5. \A u \in Task \ {t} : QuietTask(u)
    BY <1>1, <1>3, <2>1
  <2>. QED BY <1>2, <2>1, <2>4, <2>5
<1>7. ASSUME NEW t \in Task, EditInputs(t)
      PROVE  Quiet /\ (\A u \in Task : QuietTask(u)) /\ UNCHANGED request
  <2>1. /\ task' = [task EXCEPT ![t].contract = pool.contract, ![t].input_revision = @ + 1]
        /\ pool.migration_status = "ready" /\ lease' = [lease EXCEPT ![t] = NULL]
        /\ item' = Touched({t}) /\ UNCHANGED <<pool, op, request, deaths>>
    BY <1>7 DEF EditInputs
  <2>2. task'[t].contract = pool.contract /\ lease'[t] = NULL /\ \A u \in Task \ {t} : task'[u] = task[u] /\ lease'[u] = lease[u]
    BY <1>1, <2>1 DEF Row
  <2>3. QuietTask(t)
    BY <2>1, <2>2 DEF QuietTask
  <2>4. \A u \in Task \ {t} : QuietTask(u)
    BY <1>3, <2>2
  <2>. QED BY <1>2, <2>1, <2>3, <2>4
<1>8. ASSUME NEW t \in Task, CreateTask(t)
      PROVE  Quiet /\ (\A u \in Task : QuietTask(u)) /\ UNCHANGED request
  <2>1. /\ task' = [task EXCEPT ![t].exists = TRUE, ![t].contract = pool.contract]
        /\ pool.migration_status = "ready" /\ ~task[t].exists /\ UNCHANGED <<pool, lease, op, item, request, deaths>>
    BY <1>8 DEF CreateTask, Tasks
  <2>2. task'[t].contract = pool.contract /\ lease'[t] = NULL /\ \A u \in Task \ {t} : task'[u] = task[u] /\ lease'[u] = lease[u]
    BY <1>1, <2>1 DEF Row
  <2>3. QuietTask(t)
    BY <2>1, <2>2 DEF QuietTask
  <2>4. \A u \in Task \ {t} : QuietTask(u)
    BY <1>3, <2>2
  <2>. QED BY <1>2, <2>1, <2>3, <2>4
<1>9. CASE UpdateConfiguration
  <2>1. op' = Outdated /\ UNCHANGED <<pool, task, lease, item, request, deaths>>
    BY <1>9 DEF UpdateConfiguration
  <2>2. \A u \in Task : QuietTask(u)
    BY <1>3, <2>1
  <2>. QED BY <1>2, <2>1, <2>2
<1>. QED BY <1>4, <1>5, <1>6, <1>7, <1>8, <1>9

\* an import under the contract in force,
LEMMA ImportQuiet ==
  ASSUME TypeInv, RowsInv, NEW r \in Request, NEW S \in SUBSET Task, Import(r, S),
         request[r].op = pool.contract
  PROVE  /\ Quiet /\ (\A t \in Task : QuietTask(t))
         /\ \A t \in Task : task[t].exists => task'[t].exists
<1>1. /\ UNCHANGED <<pool, op>> /\ pool.migration_status = "ready"
      /\ \A t \in S : task'[t].exists /\ task'[t].contract = pool.contract /\ lease'[t] = NULL
      /\ \A t \in Task \ S : task'[t] = task[t] /\ lease'[t] = lease[t]
      /\ \A o \in Op, t \in Task : /\ item'[o][t].status = item[o][t].status
                                   /\ item'[o][t].untouched => item[o][t].untouched
  BY ImportTypes DEF Import
<1>2. Quiet
  BY <1>1 DEF Quiet
<1>3. ASSUME NEW t \in Task
      PROVE  QuietTask(t)
  <2>1. lease[t] # NULL => task[t].exists
    BY DEF RowsInv, LeaseHasTask
  <2>2. CASE t \in S
    BY <1>1, <2>1, <2>2 DEF QuietTask
  <2>3. CASE t \notin S
    BY <1>1, <2>1, <2>3 DEF QuietTask
  <2>. QED BY <2>2, <2>3
<1>. QED BY <1>1, <1>2, <1>3

\* and so is what only reads.
LEMMA StillQuiet ==
  ASSUME RowsInv, UNCHANGED <<pool, task, lease, op, item>>
  PROVE  Quiet /\ \A t \in Task : QuietTask(t)
BY DEF Quiet, QuietTask, RowsInv, LeaseHasTask

\* A preview is made of an open pool.
LEMMA PreviewRows ==
  ASSUME TypeInv, RowsInv, NEW o \in Op, NEW heavy \in BOOLEAN, Preview(o, heavy)
  PROVE  RowsInv'
<1>1. TypeInv /\ RowsInv
  OBVIOUS
<1>2. /\ TypeInv' /\ op'[o].status = "preview"
      /\ \A p \in Op \ {o} : op'[p] = op[p] /\ item'[p] = item[p]
      /\ \A t \in Task : \/ item'[o][t].status = "none" /\ ~item'[o][t].untouched
                         \/ item'[o][t].status = "pending"
  <2>1. TypeInv' /\ \A p \in Op \ {o} : op'[p] = op[p] /\ item'[p] = item[p]
    BY <1>1, PreviewTypes
  <2>2. op'[o].status = "preview"
    <3>1. op'[o] = [status |-> "preview", heavy |-> heavy, current |-> TRUE]
      BY <1>1, PreviewTypes
    <3>. QED BY <3>1
  <2>3. \A t \in Task : \/ item'[o][t] = NoItem
                        \/ item'[o][t] = [status |-> "pending", untouched |-> TRUE, corrected |-> FALSE]
    BY <1>1, PreviewTypes
  <2>. QED BY <2>1, <2>2, <2>3 DEF NoItem
<1>3. /\ op[o].status = "none" /\ pool.migration_status = "ready"
      /\ UNCHANGED <<pool, task, lease, request, deaths>>
  BY DEF Preview
<1>4. LeaseHasTask' /\ NoHalfConverted' /\ LeasesFollowContract' /\ CurrentIsOpen' /\ Resumable'
  BY <1>1, <1>3 DEF RowsInv, LeaseHasTask, NoHalfConverted, LeasesFollowContract, CurrentIsOpen,
                    Resumable, Tasks
<1>5. UntouchedIsListed'
  BY <1>1, <1>2 DEF RowsInv, UntouchedIsListed
<1>6. UndecidedBefore'
  BY <1>1, <1>2 DEF RowsInv, UndecidedBefore
<1>7. OneApplying' /\ ClosedWhileApplying'
  BY <1>1, <1>2, <1>3 DEF RowsInv, OneApplying, ClosedWhileApplying
<1>8. AppliedIsConverted'
  BY <1>1, <1>2, <1>3 DEF RowsInv, ClosedWhileApplying, AppliedIsConverted
<1>. QED BY <1>4, <1>5, <1>6, <1>7, <1>8 DEF RowsInv

\* A pool closes with every task listed and none decided.
LEMMA StartRows ==
  ASSUME TypeInv, RowsInv, NEW r \in Request, Trusted(request[r]),
         NEW revoke \in BOOLEAN, Start(r, revoke)
  PROVE  RowsInv'
<1>. SUFFICES ASSUME NEW o, o = request[r].op
              PROVE  RowsInv'
  OBVIOUS
<1>1. TypeInv /\ RowsInv
  OBVIOUS
<1>2. /\ TypeInv' /\ o \in Op /\ pool'.migration_status = "migrating" /\ op'[o].status = "applying"
      /\ \A p \in Op : ~op'[p].current /\ (p # o => op'[p].status = op[p].status)
  BY <1>1, StartTypes
<1>3. /\ Reviewed(o) /\ UNCHANGED <<task, lease, item, deaths>>
      /\ \A t \in Task : item[o][t].status \in {"none", "pending"}
  BY DEF Start, Reviewed, Trusted
<1>4. pool.migration_status = "ready" /\ \A p \in Op : op[p].status # "applying"
  BY <1>1, <1>2, <1>3 DEF Reviewed, RowsInv, CurrentIsOpen, ClosedWhileApplying
<1>5. LeaseHasTask' /\ UntouchedIsListed' /\ CurrentIsOpen' /\ UndecidedBefore'
  BY <1>1, <1>2, <1>3 DEF RowsInv, LeaseHasTask, UntouchedIsListed, CurrentIsOpen, UndecidedBefore
<1>6. OneApplying' /\ ClosedWhileApplying'
  BY <1>2, <1>4 DEF OneApplying, ClosedWhileApplying
<1>7. AppliedIsConverted'
  <2>1. \A t \in Task : item'[o][t].status # "applied"
    BY <1>3
  <2>. QED BY <1>2, <1>4, <2>1 DEF AppliedIsConverted
<1>8. Resumable'
  <2>1. \A t \in Task : task'[t].exists => item'[o][t].status # "none"
    BY <1>1, <1>2, <1>3 DEF Reviewed, Tasks, RowsInv, UntouchedIsListed
  <2>. QED BY <1>2, <2>1 DEF Resumable, Tasks
<1>9. NoHalfConverted' /\ LeasesFollowContract'
  BY <1>2 DEF NoHalfConverted, LeasesFollowContract
<1>. QED BY <1>5, <1>6, <1>7, <1>8, <1>9 DEF RowsInv

\* A chunk of an operation that is over has no items.
LEMMA ChunkIsEmpty ==
  ASSUME TypeInv, RowsInv, NEW r \in Request, Convert(r), Decided(request[r].op)
  PROVE  /\ Quiet /\ \A t \in Task : QuietTask(t)
         /\ \A t \in Task : task'[t] = task[t] /\ lease'[t] = lease[t]
<1>. SUFFICES ASSUME NEW o, NEW S, NEW valid, S = request[r].items, o = request[r].op, Chunk(o, S, valid)
              PROVE  /\ Quiet /\ \A t \in Task : QuietTask(t)
                     /\ \A t \in Task : task'[t] = task[t] /\ lease'[t] = lease[t]
  BY ConvertTypes
<1>1. S \subseteq Task
  BY DEF TypeInv, TypeOK, RequestRow
<1>2. S = {} /\ valid = {}
  BY <1>1 DEF Decided, Chunk
<1>3. \A t \in Task : task'[t] = task[t] /\ lease'[t] = lease[t]
  BY <1>2 DEF Chunk
<1>4. UNCHANGED <<pool, op>>
  BY ConvertTypes
<1>5. \A p \in Op, t \in Task : /\ item'[p][t].status = item[p][t].status
                                /\ item'[p][t].untouched => item[p][t].untouched
  <2>1. ASSUME NEW p \in Op, NEW t \in Task, p = o
        PROVE  /\ item'[p][t].status = item[p][t].status
               /\ item'[p][t].untouched => item[p][t].untouched
    BY <1>2, <2>1 DEF Chunk
  <2>2. ASSUME NEW p \in Op, NEW t \in Task, p # o
        PROVE  /\ item'[p][t].status = item[p][t].status
               /\ item'[p][t].untouched => item[p][t].untouched
    BY <2>2 DEF Chunk
  <2>. QED BY <2>1, <2>2
<1>6. Quiet
  BY <1>4, <1>5 DEF Quiet
<1>. QED BY <1>3, <1>6 DEF QuietTask, RowsInv, LeaseHasTask

\* An operation that ends, but not a migration, leaves the others alone.
LEMMA EndsUnapplied ==
  ASSUME TypeInv, RowsInv, NEW o \in Op, op[o].status # "applying",
         op'[o].status \in {"complete", "cancelled"},
         \A p \in Op : (op'[p].current => op[p].current) /\ (p # o => op'[p].status = op[p].status),
         pool'.migration_status = pool.migration_status, pool'.contract = pool.contract,
         UNCHANGED <<task, lease, item>>
  PROVE  RowsInv'
<1>1. LeaseHasTask' /\ NoHalfConverted' /\ LeasesFollowContract' /\ UntouchedIsListed'
  BY DEF RowsInv, LeaseHasTask, NoHalfConverted, LeasesFollowContract, UntouchedIsListed, Tasks
<1>2. CurrentIsOpen' /\ UndecidedBefore'
  BY DEF RowsInv, CurrentIsOpen, UndecidedBefore
<1>3. \A p \in Op : op'[p].status = "applying" <=> op[p].status = "applying"
  OBVIOUS
<1>4. OneApplying' /\ ClosedWhileApplying'
  BY <1>3 DEF RowsInv, OneApplying, ClosedWhileApplying
<1>5. AppliedIsConverted'
  BY <1>3 DEF RowsInv, AppliedIsConverted
<1>6. Resumable'
  BY <1>3 DEF RowsInv, Resumable, Tasks
<1>. QED BY <1>1, <1>2, <1>4, <1>5, <1>6 DEF RowsInv

\* To open an open pool again with the same contract changes no task,
LEMMA ActivatedAgain ==
  ASSUME TypeInv, RowsInv, NEW r \in Request, Activate(r),
         pool = [migration_status |-> "ready", contract |-> request[r].op]
  PROVE  RowsInv' /\ op[request[r].op].status # "applying" /\ pool' = pool
<1>. SUFFICES ASSUME NEW o, o = request[r].op
              PROVE  RowsInv' /\ op[o].status # "applying" /\ pool' = pool
  OBVIOUS
<1>1. /\ o \in Op /\ pool' = pool /\ UNCHANGED <<task, lease, item>> /\ op'[o].status = "complete"
      /\ \A p \in Op : ~op'[p].current /\ (p # o => op'[p].status = op[p].status)
  BY ActivateTypes DEF Activate
<1>2. op[o].status # "applying"
  BY <1>1 DEF RowsInv, ClosedWhileApplying
<1>. QED BY <1>1, <1>2, EndsUnapplied

\* and another one opens once no item is pending or rejected, and every
\* task is listed.
LEMMA ActivateRows ==
  ASSUME TypeInv, RowsInv, NEW r \in Request, Activate(r), Trusted(request[r])
  PROVE  RowsInv'
<1>. SUFFICES ASSUME NEW o, o = request[r].op, op[o].status = "applying", Decided(o)
              PROVE  RowsInv'
  <2>1. CASE pool = [migration_status |-> "ready", contract |-> request[r].op]
    BY <2>1, ActivatedAgain
  <2>2. CASE op[request[r].op].status = "applying" /\ Decided(request[r].op)
    BY <2>2
  <2>. QED BY <2>1, <2>2 DEF Activate, Trusted, Activable
<1>1. TypeInv /\ RowsInv
  OBVIOUS
<1>2. /\ TypeInv' /\ o \in Op /\ pool' = [migration_status |-> "ready", contract |-> o]
      /\ op'[o].status = "complete"
      /\ \A p \in Op : ~op'[p].current /\ (p # o => op'[p].status = op[p].status)
  BY <1>1, ActivateTypes
<1>3. /\ op[o].status = "applying" /\ UNCHANGED <<task, lease, item, deaths>>
      /\ \A t \in Task : item[o][t].status \notin {"pending", "rejected"}
  BY DEF Activate, Decided
<1>4. \A p \in Op : op'[p].status # "applying"
  BY <1>1, <1>2, <1>3 DEF RowsInv, OneApplying
<1>5. ASSUME NEW t \in Task, task[t].exists
      PROVE  task[t].contract = o /\ lease[t] = NULL
  <2>1. item[o][t].status # "none"
    BY <1>1, <1>2, <1>3, <1>5 DEF RowsInv, ClosedWhileApplying, Resumable, OneApplying, Tasks
  <2>2. item[o][t].status \in {"none", "pending", "applied", "rejected"}
    BY <1>1, <1>2 DEF TypeInv, TypeOK, ItemRow
  <2>3. item[o][t].status = "applied"
    BY <1>3, <2>1, <2>2
  <2>. QED BY <1>1, <1>2, <1>3, <2>3 DEF RowsInv, AppliedIsConverted
<1>6. LeaseHasTask' /\ UntouchedIsListed' /\ CurrentIsOpen' /\ UndecidedBefore'
  BY <1>1, <1>2, <1>3 DEF RowsInv, LeaseHasTask, UntouchedIsListed, CurrentIsOpen, UndecidedBefore
<1>7. OneApplying' /\ ClosedWhileApplying' /\ AppliedIsConverted'
  BY <1>4 DEF OneApplying, ClosedWhileApplying, AppliedIsConverted
<1>8. Resumable'
  BY <1>2 DEF Resumable
<1>9. NoHalfConverted'
  BY <1>2, <1>3, <1>5 DEF NoHalfConverted, Tasks
<1>10. LeasesFollowContract'
  BY <1>1, <1>3, <1>5 DEF RowsInv, LeaseHasTask, LeasesFollowContract
<1>. QED BY <1>6, <1>7, <1>8, <1>9, <1>10 DEF RowsInv

\* A light operation is over at once, and the pool was open.
LEMMA LightRows ==
  ASSUME TypeInv, RowsInv, NEW r \in Request, Trusted(request[r]), ActivateLight(r)
  PROVE  RowsInv'
<1>. SUFFICES ASSUME NEW o, o = request[r].op
              PROVE  RowsInv'
  OBVIOUS
<1>1. TypeInv /\ RowsInv
  OBVIOUS
<1>2. /\ TypeInv' /\ o \in Op /\ op[o].current
      /\ pool'.migration_status = "ready" /\ pool'.contract = pool.contract
      /\ op'[o].status = "complete"
      /\ \A p \in Op : ~op'[p].current /\ (p # o => op'[p].status = op[p].status)
  BY <1>1, LightTypes
<1>3. op[o].status # "applying" /\ UNCHANGED <<task, lease, item, deaths>>
  BY <1>2 DEF ActivateLight, Trusted
<1>4. pool.migration_status = "ready"
  BY <1>1, <1>2 DEF RowsInv, CurrentIsOpen
<1>. QED BY <1>1, <1>2, <1>3, <1>4, EndsUnapplied

\* A cancelled operation is not the one that closed the pool.
LEMMA CancelRows ==
  ASSUME TypeInv, RowsInv, NEW r \in Request, Trusted(request[r]), Cancel(r)
  PROVE  RowsInv'
<1>. SUFFICES ASSUME NEW o, o = request[r].op
              PROVE  RowsInv'
  OBVIOUS
<1>1. TypeInv /\ RowsInv
  OBVIOUS
<1>2. /\ TypeInv' /\ o \in Op /\ op'[o].status = "cancelled" /\ op'[o].current = op[o].current
      /\ \A p \in Op \ {o} : op'[p] = op[p]
  BY <1>1, CancelTypes
<1>3. op[o].status # "applying" /\ UNCHANGED <<pool, task, lease, item, deaths>>
  BY DEF Cancel, Trusted
<1>. QED BY <1>1, <1>2, <1>3, EndsUnapplied

\* A chunk belongs to the operation that closed the pool.
LEMMA ConvertRows ==
  ASSUME TypeInv, RowsInv, NEW r \in Request, Convert(r), Trusted(request[r])
  PROVE  RowsInv'
<1>1. TypeInv /\ RowsInv
  OBVIOUS
<1>. SUFFICES ASSUME NEW o, NEW S, NEW valid, op[o].status = "applying", Chunk(o, S, valid)
              PROVE  RowsInv'
  <2>1. CASE Decided(request[r].op)
    BY <2>1, ChunkIsEmpty, QuietRows
  <2>2. CASE op[request[r].op].status = "applying"
    BY <2>2, ConvertTypes
  <2>. QED BY <2>1, <2>2 DEF Convert, Trusted
<1>2. UNCHANGED <<pool, op>>
  BY <1>1, ConvertTypes
<1>3. op[o].status = "applying" /\ o \in Op
  BY DEF Chunk
<1>4. pool.migration_status = "migrating" /\ \A p \in Op : op[p].status = "applying" => p = o
  BY <1>1, <1>3 DEF RowsInv, ClosedWhileApplying, OneApplying
<1>5. LeaseHasTask'
  BY <1>1 DEF RowsInv, LeaseHasTask, Chunk
<1>6. CurrentIsOpen' /\ OneApplying' /\ ClosedWhileApplying'
  BY <1>1, <1>2 DEF RowsInv, CurrentIsOpen, OneApplying, ClosedWhileApplying
<1>7. ASSUME NEW t \in Task
      PROVE  /\ item'[o][t].status \in {"applied", "rejected"} \/ (t \notin S /\ item'[o][t].status = item[o][t].status)
             /\ item[o][t].status # "none" => item'[o][t].status # "none"
             /\ item'[o][t].untouched => item'[o][t].status # "none"
  <2>1. CASE t \in S
    BY <2>1 DEF Chunk
  <2>2. CASE t \notin S
    BY <1>1, <1>3, <2>2 DEF Chunk, RowsInv, UntouchedIsListed
  <2>. QED BY <2>1, <2>2
<1>8. UntouchedIsListed'
  <2>1. \A p \in Op \ {o}, t \in Task : item'[p][t].untouched => item'[p][t].status # "none"
    BY <1>1 DEF RowsInv, UntouchedIsListed, Chunk
  <2>. QED BY <1>7, <2>1 DEF UntouchedIsListed
<1>9. UndecidedBefore'
  <2>1. \A p \in Op \ {o}, t \in Task : item'[p][t].status = item[p][t].status
    BY DEF Chunk
  <2>. QED BY <1>1, <1>2, <1>3, <2>1 DEF RowsInv, UndecidedBefore
<1>10. AppliedIsConverted'
  <2>. SUFFICES ASSUME NEW t \in Task, item'[o][t].status = "applied"
                PROVE  task'[t].contract = o /\ lease'[t] = NULL
    BY <1>2, <1>4 DEF AppliedIsConverted
  <2>1. CASE t \in valid
    BY <2>1 DEF Chunk
  <2>2. CASE t \notin valid
    <3>1. t \notin S /\ item[o][t].status = "applied"
      BY <2>2 DEF Chunk
    <3>. QED BY <1>1, <1>3, <2>2, <3>1 DEF Chunk, RowsInv, AppliedIsConverted
  <2>. QED BY <2>1, <2>2
<1>11. Resumable'
  <2>1. \A t \in Task : task'[t].exists = task[t].exists
    BY DEF Chunk
  <2>2. \A t \in Task : task[t].exists => item[o][t].status # "none"
    BY <1>1, <1>4 DEF RowsInv, Resumable, Tasks
  <2>. QED BY <1>2, <1>3, <1>7, <2>1, <2>2 DEF Resumable, Tasks
<1>12. NoHalfConverted' /\ LeasesFollowContract'
  BY <1>2, <1>4 DEF NoHalfConverted, LeasesFollowContract
<1>. QED BY <1>5, <1>6, <1>8, <1>9, <1>10, <1>11, <1>12 DEF RowsInv

\* A correction decides nothing.
LEMMA CorrectRows ==
  ASSUME TypeInv, RowsInv, NEW r \in Request, NEW good \in BOOLEAN, Correct(r, good)
  PROVE  RowsInv'
<1>. SUFFICES ASSUME NEW o, o = request[r].op
              PROVE  RowsInv'
  OBVIOUS
<1>1. TypeInv /\ RowsInv
  OBVIOUS
<1>2. /\ TypeInv' /\ o \in Op /\ UNCHANGED <<pool, task, lease, op>>
      /\ \A p \in Op \ {o} : item'[p] = item[p]
      /\ \A t \in Task : \/ item'[o][t] = item[o][t]
                         \/ item[o][t].status = "rejected" /\ item'[o][t].status = "pending"
  BY <1>1, CorrectTypes
<1>4. \A p \in Op, t \in Task : \/ item'[p][t] = item[p][t]
                                \/ p = o /\ item[p][t].status = "rejected" /\ item'[p][t].status = "pending"
  BY <1>2
<1>5. LeaseHasTask' /\ CurrentIsOpen' /\ OneApplying' /\ ClosedWhileApplying' /\ NoHalfConverted' /\ LeasesFollowContract'
  BY <1>1, <1>2 DEF RowsInv, LeaseHasTask, CurrentIsOpen, OneApplying, ClosedWhileApplying,
                    NoHalfConverted, LeasesFollowContract, Tasks
<1>6. UntouchedIsListed' /\ UndecidedBefore'
  BY <1>1, <1>2, <1>4 DEF RowsInv, UntouchedIsListed, UndecidedBefore
<1>7. AppliedIsConverted'
  <2>1. \A p \in Op, t \in Task : item'[p][t].status = "applied" => item[p][t].status = "applied"
    BY <1>4
  <2>. QED BY <1>1, <1>2, <2>1 DEF RowsInv, AppliedIsConverted
<1>8. Resumable'
  <2>1. \A p \in Op, t \in Task : item[p][t].status # "none" => item'[p][t].status # "none"
    BY <1>4
  <2>. QED BY <1>1, <1>2, <2>1 DEF RowsInv, Resumable, Tasks
<1>. QED BY <1>5, <1>6, <1>7, <1>8 DEF RowsInv

\* Every step keeps the promises of a closed pool, if what its batch relies
\* on is true.
LEMMA RowsStep ==
  ASSUME TypeInv, RowsInv, [Next]_vars, \A r \in Request : Batch(r) => Trusted(request[r])
  PROVE  RowsInv'
<1>1. TypeInv /\ RowsInv /\ \A r \in Request : Batch(r) => Trusted(request[r])
  OBVIOUS
<1>2. CASE UNCHANGED <<pool, task, lease, op, item>>
  BY <1>1, <1>2, StillQuiet, QuietRows
<1>3. CASE \/ \E t \in Task : Claim(t) \/ Report(t) \/ Expire(t) \/ EditInputs(t) \/ ChangeTask(t) \/ CreateTask(t)
           \/ UpdateConfiguration
  BY <1>1, <1>3, TrafficQuiet, QuietRows
<1>4. CASE \/ \E r \in Request, o \in Op : Apply(r, o) \/ AskCancel(r, o) \/ \E t \in Task : AskCorrect(r, o, t)
           \/ \E r \in Request : ReadPending(r) \/ ReadRejected(r) \/ Refused(r) \/ Die(r) \/ ReadFields(r)
           \/ UNCHANGED vars
  <2>1. UNCHANGED <<pool, task, lease, op, item>>
    BY <1>4 DEF Apply, AskCancel, AskCorrect, ReadPending, ReadRejected, Refused, Die, ReadFields, vars
  <2>. QED BY <1>2, <2>1
<1>5. CASE \E o \in Op, heavy \in BOOLEAN : Preview(o, heavy)
  BY <1>1, <1>5, PreviewRows
<1>6. CASE \E r \in Request, revoke \in BOOLEAN : Start(r, revoke)
  BY <1>1, <1>6, StartRows DEF Batch
<1>7. CASE \E r \in Request : Convert(r)
  BY <1>1, <1>7, ConvertRows DEF Batch
<1>8. CASE \E r \in Request : Activate(r)
  BY <1>1, <1>8, ActivateRows DEF Batch
<1>9. CASE \E r \in Request : ActivateLight(r)
  BY <1>1, <1>9, LightRows DEF Batch
<1>10. CASE \E r \in Request : Cancel(r)
  BY <1>1, <1>10, CancelRows DEF Batch
<1>11. CASE \E r \in Request, good \in BOOLEAN : Correct(r, good)
  BY <1>1, <1>11, CorrectRows
<1>12. CASE \E r \in Request, S \in SUBSET Task : Import(r, S)
  <2>1. PICK r \in Request, S \in SUBSET Task : Import(r, S)
    BY <1>12
  <2>2. request[r].op = pool.contract
    BY <1>1, <2>1 DEF Batch, Trusted, Import
  <2>. QED BY <1>1, <2>1, <2>2, ImportQuiet, QuietRows
<1>. QED BY <1>3, <1>4, <1>5, <1>6, <1>7, <1>8, <1>9, <1>10, <1>11, <1>12 DEF Next

\* A new pool is open, and nothing is reviewed.
LEMMA InitRows ==
  ASSUME Init
  PROVE  TypeInv /\ RowsInv /\ \A r \in Request : request[r].stage = "idle"
<1>1. TypeInv
  BY InitTypes
<1>2. /\ pool = [migration_status |-> "ready", contract |-> First]
      /\ \A t \in Task : task[t].contract = First /\ lease[t] = NULL
      /\ \A o \in Op : op[o].status = "none" /\ ~op[o].current
      /\ \A o \in Op, t \in Task : item[o][t].status = "none" /\ ~item[o][t].untouched
      /\ \A r \in Request : request[r].stage = "idle"
  BY DEF Init, NoItem, Idle
<1>3. RowsInv
  BY <1>2 DEF RowsInv, LeaseHasTask, CurrentIsOpen, UntouchedIsListed, UndecidedBefore, OneApplying,
              AppliedIsConverted, ClosedWhileApplying, Resumable, NoHalfConverted, LeasesFollowContract, Tasks
<1>. QED BY <1>1, <1>2, <1>3

-----------------------------------------------------------------------------
(* Requests one after the other.                                           *)

\* What a request has read is still true when its batch comes.
ReadIsTrue(q) ==
  /\ q.stage \in {"start", "light", "cancel"} => op[q.op].status = "preview"
  /\ q.stage \in {"pending", "rejected", "convert", "activate", "correct"} => op[q.op].status = "applying"
  /\ q.stage \in {"rejected", "activate"} => \A t \in Task : item[q.op][t].status # "pending"
  /\ q.stage = "activate" => \A t \in Task : item[q.op][t].status # "rejected"
  /\ q.stage = "import" => q.op = pool.contract

MigrationInv == TypeInv /\ RowsInv /\ \A r \in Request : ReadIsTrue(request[r])

LEMMA ReadIsTrusted ==
  ASSUME MigrationInv
  PROVE  SafeInv
<1>1. ASSUME NEW r \in Request, NEW q, q = request[r]
      PROVE  Trusted(q)
  <2>1. TypeInv /\ RowsInv /\ ReadIsTrue(q) /\ (q.stage \notin {"idle", "import"} => q.op \in Op)
    BY <1>1 DEF MigrationInv, TypeInv, RequestTyped
  <2>2. q.stage \in {"start", "light"} => \A t \in Task : item[q.op][t].status \in {"none", "pending"}
    BY <2>1 DEF ReadIsTrue, RowsInv, UndecidedBefore
  <2>. QED BY <2>1, <2>2 DEF ReadIsTrue, Trusted, Activable, Decided
<1>. QED BY <1>1 DEF MigrationInv, SafeInv

\* Nothing a request has read changes meanwhile.
LEMMA ReadsStayTrue ==
  ASSUME MigrationInv, Quiet, UNCHANGED request
  PROVE  (\A r \in Request : ReadIsTrue(request[r]))'
<1>1. ASSUME NEW r \in Request, NEW q, q = request[r]
      PROVE  ReadIsTrue(q)'
  <2>1. ReadIsTrue(q) /\ (q.stage \notin {"idle", "import"} => q.op \in Op)
    BY <1>1 DEF MigrationInv, TypeInv, RequestTyped
  <2>. QED BY <2>1 DEF ReadIsTrue, Quiet
<1>2. request' = request
  OBVIOUS
<1>. QED BY <1>1, <1>2 DEF ReadIsTrue

\* The only request there is has read what it says, or has read nothing.
LEMMA NewRead ==
  ASSUME OneAtATime, MigrationInv, TypeInv', RowsInv', NEW r \in Request,
         NEW q \in RequestRow, request' = [request EXCEPT ![r] = q], ReadIsTrue(q)'
  PROVE  MigrationInv'
<1>1. request'[r] = q /\ \A s \in Request : s = r
  BY DEF OneAtATime, MigrationInv, TypeInv, TypeOK
<1>2. ASSUME NEW s \in Request, NEW p, p = request'[s]
      PROVE  ReadIsTrue(p)'
  BY <1>1, <1>2
<1>3. (\A s \in Request : ReadIsTrue(request[s]))'
  BY <1>2 DEF ReadIsTrue
<1>. QED BY <1>3 DEF MigrationInv

\* A request whose batch is over has read nothing.
LEMMA BatchEnds ==
  ASSUME OneAtATime, MigrationInv, TypeInv', RowsInv', NEW r \in Request, Ends(r)
  PROVE  MigrationInv'
<1>1. ReadIsTrue(Idle)'
  BY DEF ReadIsTrue, Idle
<1>. QED BY <1>1, IdleTyped, NewRead DEF Ends

\* Requests read one query after the other.
LEMMA ReadStep ==
  ASSUME OneAtATime, MigrationInv,
         \/ \E r \in Request, o \in Op : Apply(r, o) \/ AskCancel(r, o) \/ \E t \in Task : AskCorrect(r, o, t)
         \/ \E r \in Request : ReadPending(r) \/ ReadRejected(r) \/ Refused(r) \/ ReadFields(r)
  PROVE  MigrationInv'
<1>1. TypeInv /\ RowsInv
  BY DEF MigrationInv
<1>2. TypeInv'
  BY <1>1, ReadTypes
<1>3. UNCHANGED <<pool, task, lease, op, item>>
  BY DEF Apply, AskCancel, AskCorrect, ReadPending, ReadRejected, Refused, ReadFields
<1>4. RowsInv'
  BY <1>1, <1>3, StillQuiet, QuietRows
<1>5. ASSUME NEW r \in Request, NEW stage \in Stage, NEW o \in Op, NEW items \in SUBSET Task,
             NEW valid \in SUBSET items, Goes(r, stage, o, items, valid),
             stage \in {"start", "light", "cancel"} => op[o].status = "preview",
             stage \in {"pending", "rejected", "convert", "activate", "correct"} => op[o].status = "applying",
             stage \in {"rejected", "activate"} => \A t \in Task : item[o][t].status # "pending",
             stage = "activate" => \A t \in Task : item[o][t].status # "rejected",
             stage # "import"
      PROVE  MigrationInv'
  <2>. DEFINE q == [stage |-> stage, op |-> o, items |-> items, valid |-> valid]
  <2>1. q \in RequestRow /\ q.stage = stage /\ q.op = o
    BY DEF RequestRow, Contract
  <2>2. request' = [request EXCEPT ![r] = q]
    BY <1>5 DEF Goes
  <2>. HIDE DEF q
  <2>3. ReadIsTrue(q)'
    BY <1>3, <1>5, <2>1 DEF ReadIsTrue
  <2>. QED BY <1>2, <1>4, <2>1, <2>2, <2>3, NewRead
<1>6. ASSUME NEW r \in Request, Ends(r)
      PROVE  MigrationInv'
  BY <1>2, <1>4, <1>6, BatchEnds
<1>7. ASSUME NEW r \in Request, NEW o \in Op, Apply(r, o) \/ AskCancel(r, o)
      PROVE  MigrationInv'
  <2>1. CASE op[o].status = "preview" /\ Goes(r, IF op[o].heavy THEN "start" ELSE "light", o, {}, {})
    BY <1>5, <2>1 DEF Stage
  <2>2. CASE op[o].status = "applying" /\ Goes(r, "pending", o, {}, {})
    BY <1>5, <2>2 DEF Stage
  <2>3. CASE op[o].status = "preview" /\ Goes(r, "cancel", o, {}, {})
    BY <1>5, <2>3 DEF Stage
  <2>. QED BY <1>7, <2>1, <2>2, <2>3 DEF Apply, AskCancel, Cancellable
<1>8. ASSUME NEW r \in Request, NEW o \in Op, NEW t \in Task, AskCorrect(r, o, t)
      PROVE  MigrationInv'
  BY <1>5, <1>8 DEF AskCorrect, Stage
<1>9. ASSUME NEW r \in Request, ReadPending(r)
      PROVE  MigrationInv'
  <2>. SUFFICES ASSUME NEW o, o = request[r].op
                PROVE  MigrationInv'
    OBVIOUS
  <2>1. o \in Op /\ op[o].status = "applying"
    BY <1>9 DEF ReadPending, MigrationInv, TypeInv, RequestTyped, ReadIsTrue
  <2>2. CASE Has(o, "pending") = {} /\ Goes(r, "rejected", o, {}, {})
    <3>1. \A t \in Task : item[o][t].status # "pending"
      BY <2>2 DEF Has
    <3>. QED BY <1>5, <2>1, <2>2, <3>1 DEF Stage
  <2>3. CASE \E S \in SUBSET Has(o, "pending") :
               Goes(r, "convert", o, S, {t \in S : t \notin Misfit \/ item[o][t].corrected})
    <3>1. PICK S \in SUBSET Has(o, "pending") :
            Goes(r, "convert", o, S, {t \in S : t \notin Misfit \/ item[o][t].corrected})
      BY <2>3
    <3>2. S \in SUBSET Task
      BY DEF Has
    <3>3. {t \in S : t \notin Misfit \/ item[o][t].corrected} \in SUBSET S
      OBVIOUS
    <3>4. "convert" \in Stage
      BY DEF Stage
    <3>. QED BY <1>5, <2>1, <3>1, <3>2, <3>3, <3>4
  <2>. QED BY <1>9, <2>2, <2>3 DEF ReadPending
<1>10. ASSUME NEW r \in Request, ReadRejected(r)
       PROVE  MigrationInv'
  <2>. SUFFICES ASSUME NEW o, o = request[r].op
                PROVE  MigrationInv'
    OBVIOUS
  <2>1. o \in Op /\ op[o].status = "applying" /\ \A t \in Task : item[o][t].status # "pending"
    BY <1>10 DEF ReadRejected, MigrationInv, TypeInv, RequestTyped, ReadIsTrue
  <2>2. CASE Has(o, "rejected") = {} /\ Goes(r, "activate", o, {}, {})
    <3>1. \A t \in Task : item[o][t].status # "rejected"
      BY <2>2 DEF Has
    <3>. QED BY <1>5, <2>1, <2>2, <3>1 DEF Stage
  <2>. QED BY <1>6, <1>10, <2>2 DEF ReadRejected
<1>11. ASSUME NEW r \in Request, Refused(r)
       PROVE  MigrationInv'
  BY <1>6, <1>11 DEF Refused
<1>12. ASSUME NEW r \in Request, ReadFields(r)
       PROVE  MigrationInv'
  <2>. PICK q : q = [stage |-> "import", op |-> pool.contract, items |-> {}, valid |-> {}]
    OBVIOUS
  <2>1. q \in RequestRow
    BY <1>1 DEF TypeInv, TypeOK, RequestRow, Stage
  <2>2. request' = [request EXCEPT ![r] = q]
    BY <1>12 DEF ReadFields, Goes
  <2>3. q.stage = "import" /\ q.op = pool'.contract
    BY <1>3
  <2>4. ReadIsTrue(q)'
    BY <2>3 DEF ReadIsTrue
  <2>. QED BY <1>2, <1>4, <2>1, <2>2, <2>4, NewRead
<1>. QED BY <1>7, <1>8, <1>9, <1>10, <1>11, <1>12

\* A preview makes a new operation, of which nobody has read.
LEMMA PreviewReads ==
  ASSUME MigrationInv, NEW o \in Op, NEW heavy \in BOOLEAN, Preview(o, heavy)
  PROVE  (\A r \in Request : ReadIsTrue(request[r]))'
<1>1. /\ \A p \in Op \ {o} : op'[p] = op[p] /\ item'[p] = item[p]
      /\ op[o].status = "none" /\ UNCHANGED <<pool, request>>
  BY PreviewTypes DEF Preview, MigrationInv
<1>2. ASSUME NEW r \in Request, NEW q, q = request[r]
      PROVE  ReadIsTrue(q)'
  <2>1. ReadIsTrue(q) /\ (q.stage \notin {"idle", "import"} => q.op \in Op)
    BY <1>2 DEF MigrationInv, TypeInv, RequestTyped
  <2>2. q.stage \in {"start", "light", "cancel", "pending", "rejected", "convert", "activate", "correct"} =>
          op'[q.op] = op[q.op] /\ item'[q.op] = item[q.op]
    BY <1>1, <2>1 DEF ReadIsTrue
  <2>. QED BY <1>1, <2>1, <2>2 DEF ReadIsTrue
<1>. QED BY <1>1, <1>2 DEF ReadIsTrue

\* Every step keeps the invariant.
LEMMA MigrationStep ==
  ASSUME OneAtATime, MigrationInv, [Next]_vars
  PROVE  MigrationInv'
<1>1. TypeInv /\ RowsInv /\ TypeInv' /\ RowsInv'
  BY ReadIsTrusted, RowsStep, TypesStep DEF MigrationInv, SafeInv
<1>2. CASE \/ \E t \in Task : Claim(t) \/ Report(t) \/ Expire(t) \/ EditInputs(t) \/ ChangeTask(t) \/ CreateTask(t)
           \/ UpdateConfiguration
  <2>1. Quiet /\ UNCHANGED request
    BY <1>1, <1>2, TrafficQuiet
  <2>. QED BY <1>1, <2>1, ReadsStayTrue DEF MigrationInv
<1>3. CASE UNCHANGED vars
  <2>1. Quiet /\ UNCHANGED request
    BY <1>1, <1>3, StillQuiet DEF vars
  <2>. QED BY <1>1, <2>1, ReadsStayTrue DEF MigrationInv
<1>4. CASE \/ \E r \in Request, o \in Op : Apply(r, o) \/ AskCancel(r, o) \/ \E t \in Task : AskCorrect(r, o, t)
           \/ \E r \in Request : ReadPending(r) \/ ReadRejected(r) \/ Refused(r) \/ ReadFields(r)
  BY <1>4, ReadStep
<1>5. CASE \E o \in Op, heavy \in BOOLEAN : Preview(o, heavy)
  <2>1. (\A r \in Request : ReadIsTrue(request[r]))'
    BY <1>5, PreviewReads
  <2>. QED BY <1>1, <2>1 DEF MigrationInv
<1>6. CASE \/ \E r \in Request, revoke \in BOOLEAN : Start(r, revoke)
           \/ \E r \in Request : Convert(r) \/ Activate(r) \/ ActivateLight(r) \/ Die(r) \/ Cancel(r)
           \/ \E r \in Request, good \in BOOLEAN : Correct(r, good)
           \/ \E r \in Request, S \in SUBSET Task : Import(r, S)
  <2>1. PICK r \in Request : Ends(r)
    BY <1>6 DEF Start, Convert, Activate, ActivateLight, Die, Cancel, Correct, Import
  <2>. QED BY <1>1, <2>1, BatchEnds
<1>. QED BY <1>2, <1>3, <1>4, <1>5, <1>6 DEF Next

\* When requests come one after the other, the invariant always holds.
LEMMA MigrationHolds == ASSUME OneAtATime PROVE Spec => []SafeInv
<1>1. ASSUME MigrationInv, [Next]_vars PROVE MigrationInv'
  BY <1>1, MigrationStep
<1>2. Init => MigrationInv
  <2>. SUFFICES ASSUME Init PROVE MigrationInv
    OBVIOUS
  <2>1. \A r \in Request : request[r].stage = "idle"
    BY InitRows
  <2>2. \A r \in Request : ReadIsTrue(request[r])
    BY <2>1 DEF ReadIsTrue
  <2>. QED BY <2>2, InitRows DEF MigrationInv
<1>3. MigrationInv => SafeInv
  BY ReadIsTrusted
<1>. QED BY <1>1, <1>2, <1>3, PTL DEF Spec

-----------------------------------------------------------------------------
(* Requests at the same time that resume the pool's one migration.         *)

\* What was reviewed has not started.
CurrentIsPreview == \A o \in Op : op[o].current => op[o].status = "preview"

\* The operation has opened the pool, and none has closed it since.
Activated(o) ==
  /\ op[o].status = "complete" /\ Decided(o)
  /\ pool = [migration_status |-> "ready", contract |-> o]

\* What a request has read is true, or its operation is over meanwhile.
ReadHolds(q) ==
  /\ q.stage \notin {"cancel", "correct", "import"}
  /\ q.stage \in {"pending", "rejected", "convert", "activate"} =>
       op[q.op].status = "applying" \/ Activated(q.op)
  /\ q.stage \in {"rejected", "activate"} => \A t \in Task : item[q.op][t].status # "pending"
  /\ q.stage = "activate" => Decided(q.op)

ResumeInv ==
  TypeInv /\ RowsInv /\ CurrentIsPreview /\ \A r \in Request : ReadHolds(request[r])

\* A migration only goes on: it ends by opening the pool, and no item waits
\* again that was decided.
Onward ==
  \A o \in Op :
    /\ op[o].status = "applying" => op'[o].status = "applying" \/ Activated(o)'
    /\ Activated(o) => Activated(o)'
    /\ op[o].status \in {"applying", "complete"} /\ (\A t \in Task : item[o][t].status # "pending") =>
         \A t \in Task : item'[o][t].status = item[o][t].status

LEMMA HoldsIsTrusted ==
  ASSUME ResumeInv
  PROVE  SafeInv
<1>1. ASSUME NEW r \in Request, NEW q, q = request[r]
      PROVE  Trusted(q)
  <2>1. ReadHolds(q) /\ (q.stage \notin {"idle", "import"} => q.op \in Op)
    BY <1>1 DEF ResumeInv, TypeInv, RequestTyped
  <2>2. q.stage \in {"start", "light"} /\ op[q.op].current =>
          /\ op[q.op].status = "preview"
          /\ \A t \in Task : item[q.op][t].status \in {"none", "pending"}
    BY <2>1 DEF ResumeInv, CurrentIsPreview, RowsInv, UndecidedBefore
  <2>. QED BY <2>1, <2>2 DEF ReadHolds, Trusted, Activable, Activated
<1>. QED BY <1>1 DEF ResumeInv, SafeInv

\* What a request has read still holds when the migration went on.
LEMMA ReadGoesOn ==
  ASSUME TypeInv, NEW q, ReadHolds(q), q.stage \notin {"idle", "import"} => q.op \in Op, Onward
  PROVE  ReadHolds(q)'
<1>1. CASE q.stage \in {"pending", "rejected", "convert", "activate"}
  <2>1. q.op \in Op
    BY <1>1
  <2>2. op'[q.op].status = "applying" \/ Activated(q.op)'
    BY <1>1, <2>1 DEF ReadHolds, Onward
  <2>3. op[q.op].status \in {"applying", "complete"}
    BY <1>1 DEF ReadHolds, Activated
  <2>4. CASE q.stage \in {"rejected", "activate"}
    <3>1. \A t \in Task : item[q.op][t].status # "pending"
      BY <2>4 DEF ReadHolds
    <3>2. \A t \in Task : item'[q.op][t].status = item[q.op][t].status
      BY <2>1, <2>3, <3>1 DEF Onward
    <3>. QED BY <2>2, <2>4, <3>1, <3>2 DEF ReadHolds, Decided
  <2>5. CASE q.stage \notin {"rejected", "activate"}
    BY <1>1, <2>2, <2>5 DEF ReadHolds
  <2>. QED BY <2>4, <2>5
<1>2. CASE q.stage \notin {"pending", "rejected", "convert", "activate"}
  BY <1>2 DEF ReadHolds
<1>. QED BY <1>1, <1>2

\* So a step keeps what all requests have read, but for the one that takes it.
LEMMA AllGoOn ==
  ASSUME ResumeInv, Onward, NEW r \in Request, NEW q, ReadHolds(q)', RequestTyped(q), q \in RequestRow,
         request' = [request EXCEPT ![r] = q] \/ UNCHANGED request
  PROVE  (\A s \in Request : ReadHolds(request[s]))'
<1>1. ASSUME NEW s \in Request, NEW p, p = request[s]
      PROVE  ReadHolds(p)'
  <2>1. ReadHolds(p) /\ (p.stage \notin {"idle", "import"} => p.op \in Op) /\ TypeInv
    BY <1>1 DEF ResumeInv, TypeInv, RequestTyped
  <2>. QED BY <2>1, ReadGoesOn
<1>2. ASSUME NEW s \in Request, NEW p, p = request'[s]
      PROVE  ReadHolds(p)'
  <2>1. request \in [Request -> RequestRow]
    BY DEF ResumeInv, TypeInv, TypeOK
  <2>2. p = q \/ p = request[s]
    BY <1>2, <2>1
  <2>. QED BY <1>1, <2>2
<1>. QED BY <1>2 DEF ReadHolds

\* A migration goes on over what changes nothing.
LEMMA QuietGoesOn ==
  ASSUME Quiet
  PROVE  Onward /\ (CurrentIsPreview => CurrentIsPreview')
<1>1. \A o \in Op : Activated(o) => Activated(o)'
  BY DEF Quiet, Activated, Decided
<1>2. Onward
  BY <1>1 DEF Quiet, Onward
<1>. QED BY <1>2 DEF Quiet, CurrentIsPreview

\* And over a step of the one operation, before it starts,
LEMMA NotStartedGoesOn ==
  ASSUME OneOperation, NEW o \in Op, op[o].status \in {"none", "preview"}
  PROVE  Onward
<1>1. \A p \in Op : p = o
  BY DEF OneOperation
<1>. QED BY <1>1 DEF Onward, Activated

\* while its chunks convert,
LEMMA ConvertGoesOn ==
  ASSUME ResumeInv, NEW r \in Request, Convert(r)
  PROVE  Onward /\ CurrentIsPreview'
<1>1. TypeInv /\ RowsInv /\ CurrentIsPreview
  BY DEF ResumeInv
<1>2. PICK o, S, valid : S = request[r].items /\ o = request[r].op /\ Chunk(o, S, valid)
  BY <1>1, ConvertTypes
<1>3. UNCHANGED <<pool, op>> /\ S \subseteq Task /\ o \in Op
  BY <1>1, <1>2, ConvertTypes DEF TypeInv, TypeOK, RequestRow, Chunk
<1>4. ASSUME NEW p \in Op, \A t \in Task : item[p][t].status # "pending"
      PROVE  \A t \in Task : item'[p][t].status = item[p][t].status
  <2>1. CASE p = o
    <3>1. S = {}
      BY <1>2, <1>3, <1>4, <2>1 DEF Chunk
    <3>. QED BY <1>2, <2>1, <3>1 DEF Chunk
  <2>2. CASE p # o
    BY <1>2, <2>2 DEF Chunk
  <2>. QED BY <2>1, <2>2
<1>5. ASSUME NEW p \in Op, Activated(p)
      PROVE  Activated(p)'
  <2>1. \A t \in Task : item'[p][t].status = item[p][t].status
    BY <1>4, <1>5 DEF Activated, Decided
  <2>. QED BY <1>3, <1>5, <2>1 DEF Activated, Decided
<1>6. Onward
  BY <1>3, <1>4, <1>5 DEF Onward
<1>. QED BY <1>1, <1>3, <1>6 DEF CurrentIsPreview

\* and when the pool opens.
LEMMA ActivateGoesOn ==
  ASSUME OneOperation, ResumeInv, NEW r \in Request, Activate(r)
  PROVE  Onward /\ CurrentIsPreview'
<1>. SUFFICES ASSUME NEW o, o = request[r].op
              PROVE  Onward /\ CurrentIsPreview'
  OBVIOUS
<1>1. TypeInv /\ Decided(o)
  BY DEF ResumeInv, Activate, ReadHolds
<1>2. /\ o \in Op /\ pool' = [migration_status |-> "ready", contract |-> o]
      /\ op'[o].status = "complete" /\ \A p \in Op : ~op'[p].current
  BY <1>1, ActivateTypes
<1>3. UNCHANGED item
  BY DEF Activate
<1>4. Activated(o)'
  BY <1>1, <1>2, <1>3 DEF Activated, Decided
<1>5. \A p \in Op : p = o
  BY <1>2 DEF OneOperation
<1>6. Onward
  BY <1>3, <1>4, <1>5 DEF Onward
<1>. QED BY <1>2, <1>6 DEF CurrentIsPreview

LEMMA IdleHolds == ReadHolds(Idle)'
BY DEF ReadHolds, Idle

\* What a request that resumes may read.
LEMMA ResumeReads ==
  ASSUME Resuming, ResumeInv, TypeInv', RowsInv',
         \/ \E r \in Request, o \in Op : Apply(r, o) \/ AskCancel(r, o) \/ \E t \in Task : AskCorrect(r, o, t)
         \/ \E r \in Request : ReadPending(r) \/ ReadRejected(r) \/ Refused(r) \/ Die(r)
  PROVE  ResumeInv'
<1>1. UNCHANGED <<pool, task, lease, op, item>>
  BY DEF Apply, AskCancel, AskCorrect, ReadPending, ReadRejected, Refused, Die
<1>2. TypeInv /\ RowsInv /\ CurrentIsPreview
  BY DEF ResumeInv
<1>3. Onward /\ CurrentIsPreview'
  BY <1>1, <1>2, StillQuiet, QuietGoesOn
<1>4. ASSUME NEW r \in Request, NEW stage \in Stage, NEW o \in Op, NEW items \in SUBSET Task,
             NEW valid \in SUBSET items, Goes(r, stage, o, items, valid),
             stage \notin {"cancel", "correct", "import"},
             stage \in {"pending", "rejected", "convert", "activate"} =>
               op[o].status = "applying" \/ Activated(o),
             stage \in {"rejected", "activate"} => \A t \in Task : item[o][t].status # "pending",
             stage = "activate" => \A t \in Task : item[o][t].status # "rejected"
      PROVE  ResumeInv'
  <2>. DEFINE q == [stage |-> stage, op |-> o, items |-> items, valid |-> valid]
  <2>1. /\ q \in RequestRow /\ q.stage = stage /\ q.op = o /\ RequestTyped(q)
        /\ request' = [request EXCEPT ![r] = q]
    BY <1>4 DEF RequestRow, RequestTyped, Contract, Goes
  <2>. HIDE DEF q
  <2>2. ReadHolds(q)'
    BY <1>1, <1>4, <2>1 DEF ReadHolds, Activated, Decided
  <2>3. (\A s \in Request : ReadHolds(request[s]))'
    BY <1>3, <2>1, <2>2, AllGoOn
  <2>. QED BY <1>3, <2>3 DEF ResumeInv
<1>5. ASSUME NEW r \in Request, Ends(r)
      PROVE  ResumeInv'
  <2>1. (\A s \in Request : ReadHolds(request[s]))'
    BY <1>3, <1>5, IdleHolds, IdleTyped, AllGoOn DEF Ends
  <2>. QED BY <1>3, <2>1 DEF ResumeInv
<1>6. ASSUME NEW r \in Request, NEW o \in Op, Apply(r, o)
      PROVE  ResumeInv'
  <2>1. CASE op[o].status = "preview" /\ Goes(r, IF op[o].heavy THEN "start" ELSE "light", o, {}, {})
    BY <1>4, <2>1 DEF Stage
  <2>2. CASE op[o].status = "applying" /\ Goes(r, "pending", o, {}, {})
    BY <1>4, <2>2 DEF Stage
  <2>. QED BY <1>6, <2>1, <2>2 DEF Apply
<1>7. ASSUME NEW r \in Request, ReadPending(r)
      PROVE  ResumeInv'
  <2>. SUFFICES ASSUME NEW o, o = request[r].op
                PROVE  ResumeInv'
    OBVIOUS
  <2>1. o \in Op /\ (op[o].status = "applying" \/ Activated(o))
    BY <1>7 DEF ReadPending, ResumeInv, TypeInv, RequestTyped, ReadHolds
  <2>2. CASE Has(o, "pending") = {} /\ Goes(r, "rejected", o, {}, {})
    <3>1. \A t \in Task : item[o][t].status # "pending"
      BY <2>2 DEF Has
    <3>. QED BY <1>4, <2>1, <2>2, <3>1 DEF Stage
  <2>3. CASE \E S \in SUBSET Has(o, "pending") :
               Goes(r, "convert", o, S, {t \in S : t \notin Misfit \/ item[o][t].corrected})
    <3>1. PICK S \in SUBSET Has(o, "pending") :
            Goes(r, "convert", o, S, {t \in S : t \notin Misfit \/ item[o][t].corrected})
      BY <2>3
    <3>2. S \in SUBSET Task
      BY DEF Has
    <3>3. {t \in S : t \notin Misfit \/ item[o][t].corrected} \in SUBSET S
      OBVIOUS
    <3>4. "convert" \in Stage
      BY DEF Stage
    <3>. QED BY <1>4, <2>1, <3>1, <3>2, <3>3, <3>4
  <2>. QED BY <1>7, <2>2, <2>3 DEF ReadPending
<1>8. ASSUME NEW r \in Request, ReadRejected(r)
      PROVE  ResumeInv'
  <2>. SUFFICES ASSUME NEW o, o = request[r].op
                PROVE  ResumeInv'
    OBVIOUS
  <2>1. /\ o \in Op /\ (op[o].status = "applying" \/ Activated(o))
        /\ \A t \in Task : item[o][t].status # "pending"
    BY <1>8 DEF ReadRejected, ResumeInv, TypeInv, RequestTyped, ReadHolds
  <2>2. CASE Has(o, "rejected") = {} /\ Goes(r, "activate", o, {}, {})
    <3>1. \A t \in Task : item[o][t].status # "rejected"
      BY <2>2 DEF Has
    <3>. QED BY <1>4, <2>1, <2>2, <3>1 DEF Stage
  <2>. QED BY <1>5, <1>8, <2>2 DEF ReadRejected
<1>9. ASSUME NEW r \in Request, Refused(r) \/ Die(r)
      PROVE  ResumeInv'
  BY <1>5, <1>9 DEF Refused, Die
<1>10. \A r \in Request, o \in Op : ~AskCancel(r, o) /\ \A t \in Task : ~AskCorrect(r, o, t)
  BY DEF Resuming, AskCancel, AskCorrect
<1>. QED BY <1>6, <1>7, <1>8, <1>9, <1>10

\* Every step keeps the invariant.
LEMMA ResumeStep ==
  ASSUME Resuming, ResumeInv, [Next]_vars
  PROVE  ResumeInv'
<1>1. /\ TypeInv /\ RowsInv /\ TypeInv' /\ RowsInv' /\ CurrentIsPreview /\ OneOperation
      /\ \A r \in Request : ReadHolds(request[r])
  BY HoldsIsTrusted, RowsStep, TypesStep DEF ResumeInv, SafeInv, Resuming
<1>2. ASSUME Onward, CurrentIsPreview', NEW r \in Request, Ends(r)
      PROVE  ResumeInv'
  <2>1. (\A s \in Request : ReadHolds(request[s]))'
    BY <1>2, IdleHolds, IdleTyped, AllGoOn DEF Ends
  <2>. QED BY <1>1, <1>2, <2>1 DEF ResumeInv
<1>3. ASSUME Onward, CurrentIsPreview', UNCHANGED request
      PROVE  ResumeInv'
  <2>1. CASE Request = {}
    BY <1>1, <1>3, <2>1 DEF ResumeInv
  <2>2. CASE Request # {}
    <3>1. PICK r \in Request : TRUE
      BY <2>2
    <3>2. (\A s \in Request : ReadHolds(request[s]))'
      BY <1>3, <3>1, IdleHolds, IdleTyped, AllGoOn
    <3>. QED BY <1>1, <1>3, <3>2 DEF ResumeInv
  <2>. QED BY <2>1, <2>2
<1>4. CASE \/ \E t \in Task : Claim(t) \/ Report(t) \/ Expire(t) \/ EditInputs(t) \/ ChangeTask(t) \/ CreateTask(t)
           \/ UpdateConfiguration
  BY <1>1, <1>3, <1>4, TrafficQuiet, QuietGoesOn
<1>5. CASE UNCHANGED vars
  <2>1. UNCHANGED <<pool, task, lease, op, item, request>>
    BY <1>5 DEF vars
  <2>. QED BY <1>1, <1>3, <2>1, StillQuiet, QuietGoesOn
<1>6. CASE \/ \E r \in Request, o \in Op : Apply(r, o) \/ AskCancel(r, o) \/ \E t \in Task : AskCorrect(r, o, t)
           \/ \E r \in Request : ReadPending(r) \/ ReadRejected(r) \/ Refused(r) \/ Die(r)
  BY <1>1, <1>6, ResumeReads
<1>7. ASSUME NEW o \in Op, NEW heavy \in BOOLEAN, Preview(o, heavy)
      PROVE  ResumeInv'
  <2>1. op[o].status = "none" /\ UNCHANGED request
    BY <1>7 DEF Preview
  <2>2. op'[o].status = "preview"
    <3>1. op'[o] = [status |-> "preview", heavy |-> heavy, current |-> TRUE]
      BY <1>1, <1>7, PreviewTypes
    <3>. QED BY <3>1
  <2>3. CurrentIsPreview'
    BY <1>1, <2>2 DEF OneOperation, CurrentIsPreview
  <2>. QED BY <1>1, <1>3, <2>1, <2>3, NotStartedGoesOn
<1>8. ASSUME NEW r \in Request, NEW revoke \in BOOLEAN, Start(r, revoke)
      PROVE  ResumeInv'
  <2>. SUFFICES ASSUME NEW o, o = request[r].op
                PROVE  ResumeInv'
    OBVIOUS
  <2>1. o \in Op /\ (\A p \in Op : ~op'[p].current)
    BY <1>1, <1>8, StartTypes
  <2>2. op[o].status = "preview" /\ Ends(r)
    BY <1>1, <1>8, <2>1 DEF Start, Reviewed, CurrentIsPreview
  <2>3. CurrentIsPreview'
    BY <2>1 DEF CurrentIsPreview
  <2>. QED BY <1>1, <1>2, <2>1, <2>2, <2>3, NotStartedGoesOn
<1>9. ASSUME NEW r \in Request, ActivateLight(r)
      PROVE  ResumeInv'
  <2>. SUFFICES ASSUME NEW o, o = request[r].op
                PROVE  ResumeInv'
    OBVIOUS
  <2>1. o \in Op /\ op[o].current /\ (\A p \in Op : ~op'[p].current)
    BY <1>1, <1>9, LightTypes
  <2>2. op[o].status = "preview" /\ Ends(r)
    BY <1>1, <1>9, <2>1 DEF ActivateLight, CurrentIsPreview
  <2>3. CurrentIsPreview'
    BY <2>1 DEF CurrentIsPreview
  <2>. QED BY <1>1, <1>2, <2>1, <2>2, <2>3, NotStartedGoesOn
<1>10. ASSUME NEW r \in Request, Convert(r)
       PROVE  ResumeInv'
  BY <1>2, <1>10, ConvertGoesOn DEF Convert
<1>11. ASSUME NEW r \in Request, Activate(r)
       PROVE  ResumeInv'
  BY <1>1, <1>2, <1>11, ActivateGoesOn DEF Activate
<1>12. \A r \in Request : /\ ~Cancel(r) /\ ~ReadFields(r)
                         /\ \A good \in BOOLEAN : ~Correct(r, good)
                         /\ \A S \in SUBSET Task : ~Import(r, S)
  BY <1>1 DEF ReadHolds, Cancel, Correct, Import, ReadFields, Resuming
<1>. QED BY <1>4, <1>5, <1>6, <1>7, <1>8, <1>9, <1>10, <1>11, <1>12 DEF Next

\* When requests only resume one migration, the invariant always holds.
LEMMA ResumingHolds == ASSUME Resuming PROVE Spec => []SafeInv
<1>1. ASSUME ResumeInv, [Next]_vars PROVE ResumeInv'
  BY <1>1, ResumeStep
<1>2. Init => ResumeInv
  <2>. SUFFICES ASSUME Init PROVE ResumeInv
    OBVIOUS
  <2>1. \A r \in Request : request[r].stage = "idle"
    BY InitRows
  <2>2. \A r \in Request : ReadHolds(request[r])
    BY <2>1 DEF ReadHolds
  <2>3. CurrentIsPreview
    BY DEF Init, CurrentIsPreview
  <2>. QED BY <2>2, <2>3, InitRows DEF ResumeInv
<1>3. ResumeInv => SafeInv
  BY HoldsIsTrusted
<1>. QED BY <1>1, <1>2, <1>3, PTL DEF Spec

-----------------------------------------------------------------------------
(* Requests that overlap in any way.  What an activation, a cancellation   *)
(* and an import have read may be false when their batch comes, and the    *)
(* batch does not recheck it.  Such a batch is late; all others are on     *)
(* time, and a start, a chunk and a correction never come too late.        *)

OnTimeStep ==
  \A r \in Request :
    /\ Activate(r) => Activable(request[r].op)
    /\ Cancel(r) => op[request[r].op].status # "applying"
    /\ \A S \in SUBSET Task : Import(r, S) => request[r].op = pool.contract

OnTime == [][OnTimeStep]_vars

\* The operation ended, and decided all its items before.
Over(o) ==
  op[o].status \in {"complete", "cancelled"} /\ ~op[o].current /\ Decided(o)

Started(o) == op[o].status = "applying" \/ Over(o)

\* An operation is under way for a request that resumes or corrects it, or it
\* is over meanwhile.
ReadStands(q) ==
  q.stage \in {"pending", "rejected", "convert", "activate", "correct"} => Started(q.op)

ReadsStand == \A r \in Request : ReadStands(request[r])

\* What was reviewed has not started.
CurrentIsFresh ==
  \A o \in Op : op[o].current =>
    /\ op[o].status \in {"preview", "cancelled"}
    /\ \A t \in Task : item[o][t].status \in {"none", "pending"}

\* The contract in force is that of an operation that has ended.
ActiveIsOver ==
  pool.contract # First =>
    op[pool.contract].status \in {"complete", "cancelled"} /\ ~op[pool.contract].current

\* A task whose item waits has not crossed.
WaitingIsOld ==
  \A o \in Op, t \in Task :
    op[o].status = "applying" /\ item[o][t].status \in {"pending", "rejected"} =>
      task[t].exists /\ task[t].contract = pool.contract

TimelyInv ==
  TypeInv /\ RowsInv /\ CurrentIsFresh /\ ReadsStand /\ ActiveIsOver /\ WaitingIsOld

\* What was started does not start again.
StartedStays == \A o \in Op : Started(o) => Started(o)'

Keeps == CurrentIsFresh' /\ StartedStays /\ ActiveIsOver' /\ WaitingIsOld'

\* What requests have read of started operations still stands.
LEMMA ReadsGoOn ==
  ASSUME TypeInv, ReadsStand, StartedStays, NEW q, ReadStands(q)',
         \A s \in Request : request'[s] = request[s] \/ request'[s] = q
  PROVE  ReadsStand'
<1>1. ASSUME NEW s \in Request, NEW p, p = request'[s]
      PROVE  ReadStands(p)'
  <2>1. CASE p = q
    BY <2>1
  <2>2. CASE p = request[s]
    <3>1. ReadStands(p) /\ (p.stage \notin {"idle", "import"} => p.op \in Op)
      BY <2>2 DEF ReadsStand, TypeInv, RequestTyped
    <3>. QED BY <3>1 DEF ReadStands, StartedStays
  <2>. QED BY <1>1, <2>1, <2>2
<1>. QED BY <1>1 DEF ReadsStand, ReadStands

LEMMA IdleStands == ReadStands(Idle)'
BY DEF ReadStands, Idle

\* Other handlers start and end no operation, and move no task in a closed pool.
LEMMA QuietKeeps ==
  ASSUME TimelyInv, Quiet, \A t \in Task : QuietTask(t)
  PROVE  Keeps
<1>1. /\ pool' = pool /\ pool.contract \in Contract /\ RowsInv /\ CurrentIsFresh /\ ActiveIsOver /\ WaitingIsOld
      /\ \A o \in Op : op'[o].status = op[o].status /\ (op'[o].current => op[o].current)
      /\ \A o \in Op, t \in Task : item'[o][t].status = item[o][t].status
  BY DEF Quiet, TimelyInv, TypeInv, TypeOK
<1>2. ActiveIsOver'
  BY <1>1 DEF ActiveIsOver, Contract
<1>3. ASSUME NEW o \in Op, op'[o].status = "applying", NEW t \in Task,
             item'[o][t].status \in {"pending", "rejected"}
      PROVE  task'[t].exists /\ task'[t].contract = pool'.contract
  <2>1. pool.migration_status = "migrating"
    BY <1>1, <1>3 DEF RowsInv, ClosedWhileApplying
  <2>2. task[t].exists /\ task[t].contract = pool.contract
    BY <1>1, <1>3 DEF WaitingIsOld
  <2>. QED BY <1>1, <2>1, <2>2 DEF QuietTask
<1>4. WaitingIsOld'
  BY <1>3 DEF WaitingIsOld
<1>5. CurrentIsFresh'
  BY <1>1 DEF CurrentIsFresh
<1>6. StartedStays
  BY <1>1 DEF StartedStays, Started, Over, Decided
<1>. QED BY <1>2, <1>4, <1>5, <1>6 DEF Keeps

\* A preview makes a new operation.
LEMMA PreviewKeeps ==
  ASSUME TimelyInv, NEW o \in Op, NEW heavy \in BOOLEAN, Preview(o, heavy)
  PROVE  Keeps /\ Applying' = Applying /\ UNCHANGED <<pool, task, lease, request>>
<1>1. /\ op[o].status = "none" /\ UNCHANGED <<pool, task, lease, request>>
      /\ TypeInv /\ CurrentIsFresh /\ ActiveIsOver /\ WaitingIsOld /\ pool.contract \in Contract
  BY DEF Preview, TimelyInv, TypeInv, TypeOK
<1>2. /\ op'[o] = [status |-> "preview", heavy |-> heavy, current |-> TRUE]
      /\ \A p \in Op \ {o} : op'[p] = op[p] /\ item'[p] = item[p]
      /\ \A t \in Task : \/ item'[o][t] = NoItem
                         \/ item'[o][t] = [status |-> "pending", untouched |-> TRUE, corrected |-> FALSE]
  BY <1>1, PreviewTypes
<1>3. op'[o].status = "preview" /\ \A t \in Task : item'[o][t].status \in {"none", "pending"}
  BY <1>2 DEF NoItem
<1>4. CurrentIsFresh'
  BY <1>1, <1>2, <1>3 DEF CurrentIsFresh
<1>5. StartedStays
  BY <1>1, <1>2 DEF StartedStays, Started, Over, Decided
<1>6. ActiveIsOver'
  BY <1>1, <1>2 DEF ActiveIsOver, Contract
<1>7. WaitingIsOld'
  BY <1>1, <1>2, <1>3 DEF WaitingIsOld
<1>8. Applying' = Applying
  BY <1>1, <1>2, <1>3 DEF Applying
<1>. QED BY <1>1, <1>4, <1>5, <1>6, <1>7, <1>8 DEF Keeps

\* A migration starts: the pool closes, and its operation is the only one applied.
LEMMA StartKeeps ==
  ASSUME TimelyInv, NEW r \in Request, NEW revoke \in BOOLEAN, Start(r, revoke)
  PROVE  /\ Keeps
         /\ pool.migration_status = "ready" /\ pool'.migration_status = "migrating"
         /\ \E o \in Op : Applying' = {o} /\ o # pool.contract
         /\ pool'.contract = pool.contract /\ UNCHANGED <<task, lease>>
<1>. SUFFICES ASSUME NEW o, o = request[r].op
              PROVE  /\ Keeps
                     /\ pool.migration_status = "ready" /\ pool'.migration_status = "migrating"
                     /\ \E p \in Op : Applying' = {p} /\ p # pool.contract
                     /\ pool'.contract = pool.contract /\ UNCHANGED <<task, lease>>
  OBVIOUS
<1>1. TypeInv /\ RowsInv /\ TypeOK /\ CurrentIsFresh /\ ActiveIsOver
  BY DEF TimelyInv, TypeInv
<1>2. /\ o \in Op /\ pool'.migration_status = "migrating" /\ op'[o].status = "applying"
      /\ \A p \in Op : ~op'[p].current /\ (p # o => op'[p].status = op[p].status)
  BY <1>1, StartTypes
<1>3. op[o].current /\ UNCHANGED <<task, lease, item>>
  BY <1>1 DEF Start, Reviewed
<1>4. pool.migration_status = "ready" /\ \A p \in Op : op[p].status # "applying"
  BY <1>1, <1>2, <1>3 DEF RowsInv, CurrentIsOpen, ClosedWhileApplying
<1>5. pool'.contract = pool.contract /\ pool.contract \in Contract
  BY <1>1 DEF Start, TypeOK
<1>6. o # pool.contract
  BY <1>1, <1>2, <1>3, SchemaAssumption DEF ActiveIsOver
<1>7. ActiveIsOver'
  BY <1>1, <1>2, <1>5, <1>6 DEF ActiveIsOver, Contract
<1>8. WaitingIsOld'
  <2>. SUFFICES ASSUME NEW t \in Task, item[o][t].status \in {"pending", "rejected"}
                PROVE  task[t].exists /\ task[t].contract = pool.contract
    BY <1>2, <1>3, <1>4, <1>5 DEF WaitingIsOld
  <2>1. task[t].exists
    BY <1>1, <1>2 DEF TypeOK, NoItem
  <2>. QED BY <1>1, <1>4, <2>1 DEF RowsInv, NoHalfConverted, Tasks
<1>9. Applying' = {o}
  BY <1>2, <1>4 DEF Applying
<1>10. CurrentIsFresh'
  BY <1>2 DEF CurrentIsFresh
<1>11. StartedStays
  BY <1>2, <1>3 DEF StartedStays, Started, Over, Decided
<1>. QED BY <1>2, <1>3, <1>4, <1>5, <1>6, <1>7, <1>8, <1>9, <1>10, <1>11 DEF Keeps

\* A chunk takes tasks that wait to the contract of the migration.
LEMMA ConvertKeeps ==
  ASSUME TimelyInv, NEW r \in Request, Convert(r), op[request[r].op].status = "applying"
  PROVE  /\ Keeps
         /\ \E o \in Op, S \in SUBSET Task :
              /\ op[o].status = "applying"
              /\ \A t \in S : /\ task[t].exists /\ task[t].contract = pool.contract
                              /\ task'[t].exists /\ task'[t].contract = o /\ lease'[t] = NULL
              /\ \A t \in Task \ S : task'[t] = task[t] /\ lease'[t] = lease[t]
         /\ UNCHANGED <<pool, op>>
<1>1. TypeInv /\ RowsInv /\ TypeOK /\ CurrentIsFresh /\ ActiveIsOver /\ WaitingIsOld
  BY DEF TimelyInv, TypeInv
<1>. SUFFICES ASSUME NEW o, NEW S, NEW valid, o = request[r].op, S = request[r].items,
                     Chunk(o, S, valid)
              PROVE  /\ Keeps
                     /\ \E p \in Op, T \in SUBSET Task :
                          /\ op[p].status = "applying"
                          /\ \A t \in T : /\ task[t].exists /\ task[t].contract = pool.contract
                                          /\ task'[t].exists /\ task'[t].contract = p
                                          /\ lease'[t] = NULL
                          /\ \A t \in Task \ T : task'[t] = task[t] /\ lease'[t] = lease[t]
                     /\ UNCHANGED <<pool, op>>
  BY <1>1, ConvertTypes
<1>2. UNCHANGED <<pool, op>>
  BY <1>1, ConvertTypes
<1>3. op[o].status = "applying" /\ o \in Op /\ S \subseteq Task
  BY <1>1 DEF Convert, Chunk, TypeOK, RequestRow
<1>4. \A p \in Op : op[p].status = "applying" => p = o
  BY <1>1, <1>3 DEF RowsInv, OneApplying
<1>5. \A t \in S : task[t].exists /\ task[t].contract = pool.contract
  BY <1>1, <1>3 DEF Chunk, WaitingIsOld
<1>6. ActiveIsOver'
  BY <1>1, <1>2 DEF ActiveIsOver
<1>7. ASSUME NEW t \in Task, item'[o][t].status \in {"pending", "rejected"}
      PROVE  task'[t].exists /\ task'[t].contract = pool.contract
  <2>1. t \notin valid
    BY <1>7 DEF Chunk
  <2>2. task'[t] = task[t]
    BY <2>1 DEF Chunk
  <2>3. CASE t \in S
    BY <1>5, <2>2, <2>3
  <2>4. CASE t \notin S
    <3>1. item[o][t].status = item'[o][t].status
      BY <2>4 DEF Chunk
    <3>. QED BY <1>1, <1>3, <1>7, <2>2, <3>1 DEF WaitingIsOld
  <2>. QED BY <2>3, <2>4
<1>8. WaitingIsOld'
  BY <1>2, <1>4, <1>7 DEF WaitingIsOld
<1>9. /\ \A t \in valid : /\ task[t].exists /\ task[t].contract = pool.contract
                          /\ task'[t].exists /\ task'[t].contract = o /\ lease'[t] = NULL
      /\ \A t \in Task \ valid : task'[t] = task[t] /\ lease'[t] = lease[t]
      /\ valid \in SUBSET Task
  BY <1>3, <1>5 DEF Chunk
<1>10. \A p \in Op \ {o}, t \in Task : item'[p][t].status = item[p][t].status
  BY DEF Chunk
<1>11. CurrentIsFresh'
  BY <1>1, <1>2, <1>3, <1>10 DEF CurrentIsFresh
<1>12. StartedStays
  BY <1>2, <1>3, <1>10 DEF StartedStays, Started, Over, Decided
<1>. QED BY <1>2, <1>3, <1>6, <1>8, <1>9, <1>11, <1>12 DEF Keeps

\* A migration ends: the last task has crossed, and the pool opens.
LEMMA ActivateKeeps ==
  ASSUME TimelyInv, NEW r \in Request, Activate(r),
         op[request[r].op].status = "applying", Decided(request[r].op)
  PROVE  /\ Keeps
         /\ pool.migration_status = "migrating" /\ pool'.migration_status = "ready"
         /\ \E o \in Op :
              /\ Applying = {o} /\ pool'.contract = o
              /\ \A t \in Task : lease[t] = NULL /\ (task[t].exists => task[t].contract = o)
         /\ UNCHANGED <<task, lease>>
<1>. SUFFICES ASSUME NEW o, o = request[r].op
              PROVE  /\ Keeps
                     /\ pool.migration_status = "migrating" /\ pool'.migration_status = "ready"
                     /\ \E p \in Op :
                          /\ Applying = {p} /\ pool'.contract = p
                          /\ \A t \in Task :
                               lease[t] = NULL /\ (task[t].exists => task[t].contract = p)
                     /\ UNCHANGED <<task, lease>>
  OBVIOUS
<1>1. TypeInv /\ RowsInv /\ TypeOK
  BY DEF TimelyInv, TypeInv
<1>2. /\ o \in Op /\ pool' = [migration_status |-> "ready", contract |-> o]
      /\ op'[o].status = "complete"
      /\ \A p \in Op : ~op'[p].current /\ (p # o => op'[p].status = op[p].status)
  BY <1>1, ActivateTypes
<1>3. /\ op[o].status = "applying" /\ UNCHANGED <<task, lease, item>>
      /\ \A t \in Task : item[o][t].status \notin {"pending", "rejected"}
  BY DEF Activate, Decided
<1>4. /\ \A p \in Op : op[p].status = "applying" => p = o
      /\ pool.migration_status = "migrating"
  BY <1>1, <1>2, <1>3 DEF RowsInv, OneApplying, ClosedWhileApplying
<1>5. ASSUME NEW t \in Task, task[t].exists
      PROVE  task[t].contract = o /\ lease[t] = NULL
  <2>1. item[o][t].status # "none"
    BY <1>1, <1>4, <1>5 DEF RowsInv, Resumable, Tasks
  <2>2. item[o][t].status \in {"none", "pending", "applied", "rejected"}
    BY <1>1, <1>2 DEF TypeOK, ItemRow
  <2>3. item[o][t].status = "applied"
    BY <1>3, <2>1, <2>2
  <2>. QED BY <1>1, <1>2, <1>3, <2>3 DEF RowsInv, AppliedIsConverted
<1>6. \A t \in Task : lease[t] = NULL /\ (task[t].exists => task[t].contract = o)
  BY <1>1, <1>5 DEF RowsInv, LeaseHasTask
<1>7. ActiveIsOver' /\ WaitingIsOld'
  BY <1>2, <1>4 DEF ActiveIsOver, WaitingIsOld
<1>8. Applying = {o}
  BY <1>2, <1>3, <1>4 DEF Applying
<1>9. CurrentIsFresh'
  BY <1>2 DEF CurrentIsFresh
<1>10. StartedStays
  BY <1>2, <1>3, <1>4 DEF StartedStays, Started, Over, Decided
<1>. QED BY <1>2, <1>3, <1>4, <1>6, <1>7, <1>8, <1>9, <1>10 DEF Keeps

\* An operation that ends, but not a migration.
LEMMA EndsKeeps ==
  ASSUME TimelyInv, NEW o \in Op, op[o].status # "applying",
         op'[o].status \in {"complete", "cancelled"}, op'[o].current => op'[o].status = "cancelled",
         \A p \in Op : (op'[p].current => op[p].current) /\ (p # o => op'[p].status = op[p].status),
         pool' = pool, UNCHANGED <<task, item>>
  PROVE  Keeps /\ Applying' = Applying
<1>1. /\ CurrentIsFresh /\ ActiveIsOver /\ WaitingIsOld /\ pool.contract \in Contract
  BY DEF TimelyInv, TypeInv, TypeOK
<1>2. ActiveIsOver'
  BY <1>1 DEF ActiveIsOver, Contract
<1>3. WaitingIsOld'
  BY <1>1 DEF WaitingIsOld
<1>4. CurrentIsFresh'
  <2>. SUFFICES ASSUME NEW p \in Op, op'[p].current
                PROVE  /\ op'[p].status \in {"preview", "cancelled"}
                       /\ \A t \in Task : item'[p][t].status \in {"none", "pending"}
    BY DEF CurrentIsFresh
  <2>1. op[p].current
    OBVIOUS
  <2>2. op[p].status \in {"preview", "cancelled"} /\ \A t \in Task : item[p][t].status \in {"none", "pending"}
    BY <1>1, <2>1 DEF CurrentIsFresh
  <2>3. op'[p].status \in {"preview", "cancelled"}
    BY <2>2
  <2>. QED BY <2>2, <2>3
<1>5. StartedStays
  BY DEF StartedStays, Started, Over, Decided
<1>6. Applying' = Applying
  BY DEF Applying
<1>. QED BY <1>2, <1>3, <1>4, <1>5, <1>6 DEF Keeps

\* A light operation is over at once,
LEMMA LightKeeps ==
  ASSUME TimelyInv, NEW r \in Request, ActivateLight(r)
  PROVE  Keeps /\ Applying' = Applying /\ UNCHANGED <<pool, task, lease>>
<1>. SUFFICES ASSUME NEW o, o = request[r].op
              PROVE  Keeps /\ Applying' = Applying /\ UNCHANGED <<pool, task, lease>>
  OBVIOUS
<1>1. TypeInv /\ RowsInv /\ TypeOK /\ CurrentIsFresh
  BY DEF TimelyInv, TypeInv
<1>2. /\ o \in Op /\ op[o].current /\ op'[o].status = "complete"
      /\ \A p \in Op : ~op'[p].current /\ (p # o => op'[p].status = op[p].status)
  BY <1>1, LightTypes
<1>3. op[o].status # "applying"
  BY <1>1, <1>2 DEF CurrentIsFresh
<1>4. pool.migration_status = "ready"
  BY <1>1, <1>2 DEF RowsInv, CurrentIsOpen
<1>5. pool' = pool /\ UNCHANGED <<task, lease, item>>
  BY <1>1, <1>4 DEF ActivateLight, TypeOK
<1>. QED BY <1>2, <1>3, <1>5, EndsKeeps

\* a review that is cancelled before it started,
LEMMA CancelKeeps ==
  ASSUME TimelyInv, NEW r \in Request, Cancel(r), op[request[r].op].status # "applying"
  PROVE  Keeps /\ Applying' = Applying /\ UNCHANGED <<pool, task, lease>>
<1>. SUFFICES ASSUME NEW o, o = request[r].op
              PROVE  Keeps /\ Applying' = Applying /\ UNCHANGED <<pool, task, lease>>
  OBVIOUS
<1>1. TypeInv
  BY DEF TimelyInv
<1>2. /\ o \in Op /\ op'[o].status = "cancelled" /\ op'[o].current = op[o].current
      /\ \A p \in Op \ {o} : op'[p] = op[p]
  BY <1>1, CancelTypes
<1>3. UNCHANGED <<pool, task, lease, item>>
  BY DEF Cancel
<1>. QED BY <1>2, <1>3, EndsKeeps

\* and the second activation of a contract.
LEMMA AgainKeeps ==
  ASSUME TimelyInv, NEW r \in Request, Activate(r),
         pool = [migration_status |-> "ready", contract |-> request[r].op]
  PROVE  Keeps /\ Applying' = Applying /\ UNCHANGED <<pool, task, lease>>
<1>. SUFFICES ASSUME NEW o, o = request[r].op
              PROVE  Keeps /\ Applying' = Applying /\ UNCHANGED <<pool, task, lease>>
  OBVIOUS
<1>1. TypeInv /\ RowsInv
  BY DEF TimelyInv
<1>2. /\ o \in Op /\ op'[o].status = "complete"
      /\ \A p \in Op : ~op'[p].current /\ (p # o => op'[p].status = op[p].status)
  BY <1>1, ActivateTypes
<1>3. op[o].status # "applying" /\ pool' = pool
  BY <1>1, ActivatedAgain
<1>4. UNCHANGED <<task, lease, item>>
  BY DEF Activate
<1>. QED BY <1>2, <1>3, <1>4, EndsKeeps

\* A correction lets an item wait again that was rejected; an operation that
\* is over has none.
LEMMA CorrectKeeps ==
  ASSUME TimelyInv, NEW r \in Request, NEW good \in BOOLEAN, Correct(r, good)
  PROVE  Keeps /\ Applying' = Applying /\ UNCHANGED <<pool, task, lease>>
<1>. SUFFICES ASSUME NEW o, o = request[r].op
              PROVE  Keeps /\ Applying' = Applying /\ UNCHANGED <<pool, task, lease>>
  OBVIOUS
<1>1. TypeInv /\ CurrentIsFresh /\ ActiveIsOver /\ WaitingIsOld
  BY DEF TimelyInv
<1>2. /\ o \in Op /\ UNCHANGED <<pool, task, lease, op>>
      /\ \A p \in Op \ {o} : item'[p] = item[p]
      /\ \A t \in Task : \/ item'[o][t] = item[o][t]
                         \/ item[o][t].status = "rejected" /\ item'[o][t].status = "pending"
  BY <1>1, CorrectTypes
<1>3. \A p \in Op, t \in Task :
        \/ item'[p][t].status = item[p][t].status
        \/ item[p][t].status = "rejected" /\ item'[p][t].status = "pending"
  BY <1>2
<1>4. WaitingIsOld'
  BY <1>1, <1>2, <1>3 DEF WaitingIsOld
<1>5. CurrentIsFresh'
  BY <1>1, <1>2, <1>3 DEF CurrentIsFresh
<1>6. StartedStays
  BY <1>2, <1>3 DEF StartedStays, Started, Over, Decided
<1>7. ActiveIsOver' /\ Applying' = Applying
  BY <1>1, <1>2 DEF ActiveIsOver, Applying
<1>. QED BY <1>2, <1>4, <1>5, <1>6, <1>7 DEF Keeps

\* What a request reads of a started operation stands.
LEMMA GoesStands ==
  ASSUME TypeInv, ReadsStand, UNCHANGED <<op, item>>,
         NEW r \in Request, NEW stage, NEW o, NEW items, NEW valid, Goes(r, stage, o, items, valid),
         stage \in {"pending", "rejected", "convert", "activate", "correct"} => Started(o)
  PROVE  ReadsStand'
<1>. DEFINE q == [stage |-> stage, op |-> o, items |-> items, valid |-> valid]
<1>1. StartedStays
  BY DEF StartedStays, Started, Over, Decided
<1>2. q.stage = stage /\ q.op = o
  OBVIOUS
<1>3. \A s \in Request : request'[s] = request[s] \/ request'[s] = q
  BY DEF Goes, TypeInv, TypeOK
<1>. HIDE DEF q
<1>4. ReadStands(q)'
  BY <1>2 DEF ReadStands, Started, Over, Decided
<1>. QED BY <1>1, <1>3, <1>4, ReadsGoOn

\* So does what others have read, when a request is over or does not move.
LEMMA EndsStands ==
  ASSUME TypeInv, ReadsStand, StartedStays, UNCHANGED request \/ \E r \in Request : Ends(r)
  PROVE  ReadsStand'
<1>1. \A s \in Request : request'[s] = request[s] \/ request'[s] = Idle
  BY DEF Ends, TypeInv, TypeOK
<1>. QED BY <1>1, IdleStands, ReadsGoOn

\* Requests read operations that are under way, and keep to them.
LEMMA ReadsTimely ==
  ASSUME TimelyInv,
         \/ \E r \in Request, o \in Op : Apply(r, o) \/ AskCancel(r, o) \/ \E t \in Task : AskCorrect(r, o, t)
         \/ \E r \in Request : ReadPending(r) \/ ReadRejected(r) \/ Refused(r) \/ Die(r) \/ ReadFields(r)
  PROVE  ReadsStand'
<1>1. TypeInv /\ ReadsStand /\ UNCHANGED <<op, item>>
  BY DEF TimelyInv, Apply, AskCancel, AskCorrect, ReadPending, ReadRejected, Refused, Die, ReadFields
<1>2. StartedStays
  BY <1>1 DEF StartedStays, Started, Over, Decided
<1>3. CASE \E r \in Request : Ends(r)
  BY <1>1, <1>2, <1>3, EndsStands
<1>4. ASSUME NEW r \in Request, NEW o \in Op, Apply(r, o)
      PROVE  ReadsStand'
  <2>1. CASE op[o].status = "preview" /\ Goes(r, IF op[o].heavy THEN "start" ELSE "light", o, {}, {})
    BY <1>1, <2>1, GoesStands
  <2>2. CASE op[o].status = "applying" /\ Goes(r, "pending", o, {}, {})
    BY <1>1, <2>2, GoesStands DEF Started
  <2>. QED BY <1>4, <2>1, <2>2 DEF Apply
<1>5. ASSUME NEW r \in Request, NEW o \in Op, AskCancel(r, o) \/ \E t \in Task : AskCorrect(r, o, t)
      PROVE  ReadsStand'
  <2>1. CASE AskCancel(r, o)
    BY <1>1, <2>1, GoesStands DEF AskCancel
  <2>2. CASE \E t \in Task : AskCorrect(r, o, t)
    BY <1>1, <2>2, GoesStands DEF AskCorrect, Started
  <2>. QED BY <1>5, <2>1, <2>2
<1>6. ASSUME NEW r \in Request, ReadPending(r) \/ ReadRejected(r)
      PROVE  ReadsStand'
  <2>1. Started(request[r].op)
    BY <1>1, <1>6 DEF ReadPending, ReadRejected, ReadsStand, ReadStands
  <2>2. CASE \E stage, items, valid : Goes(r, stage, request[r].op, items, valid)
    BY <1>1, <2>1, <2>2, GoesStands
  <2>. QED BY <1>3, <1>6, <2>2 DEF ReadPending, ReadRejected
<1>7. ASSUME NEW r \in Request, ReadFields(r)
      PROVE  ReadsStand'
  BY <1>1, <1>7, GoesStands DEF ReadFields
<1>8. ASSUME NEW r \in Request, Refused(r) \/ Die(r)
      PROVE  ReadsStand'
  BY <1>3, <1>8 DEF Refused, Die
<1>. QED BY <1>4, <1>5, <1>6, <1>7, <1>8

\* What any batch relies on and does not recheck is true, if the steps that
\* may be late are on time.
LEMMA TimelyTrusted ==
  ASSUME TimelyInv, OnTimeStep, NEW r \in Request, Batch(r)
  PROVE  Trusted(request[r])
<1>. SUFFICES ASSUME NEW q, q = request[r]
              PROVE  Trusted(q)
  OBVIOUS
<1>1. CurrentIsFresh /\ ReadStands(q) /\ (q.stage \notin {"idle", "import"} => q.op \in Op)
  BY DEF TimelyInv, ReadsStand, TypeInv, RequestTyped
<1>2. q.stage \in {"start", "light"} /\ op[q.op].current =>
        /\ op[q.op].status \in {"preview", "cancelled"}
        /\ \A t \in Task : item[q.op][t].status \in {"none", "pending"}
  BY <1>1 DEF CurrentIsFresh
<1>3. q.stage = "convert" => op[q.op].status = "applying" \/ Decided(q.op)
  BY <1>1 DEF ReadStands, Started, Over
<1>4. /\ q.stage = "activate" => Activate(r)
      /\ q.stage = "cancel" => Cancel(r)
      /\ q.stage = "import" => \E S \in SUBSET Task : Import(r, S)
  BY DEF Batch, Start, ActivateLight, Convert, Activate, Cancel, Import
<1>. QED BY <1>2, <1>3, <1>4 DEF OnTimeStep, Trusted

-----------------------------------------------------------------------------
(* The refinement, action by action. *)

\* What the barrier sees of the tasks.
LEMMA Seen ==
  ASSUME TypeOK, NEW t \in Task
  PROVE  /\ task[t].exists => InputsFollow(t) = task[t].contract
         /\ ~task[t].exists => InputsFollow(t) = NULL
         /\ lease[t] = NULL => LeasedUnder(t) = NULL
         /\ lease[t] # NULL => LeasedUnder(t) = lease[t].contract
         /\ task[t].contract # NULL
BY SchemaAssumption DEF InputsFollow, LeasedUnder, TypeOK, Row

\* A step that touches no task, and closes or opens no pool, is none.
LEMMA BarrierStutters ==
  ASSUME UNCHANGED <<pool, task, lease>>, Applying' = Applying
  PROVE  UNCHANGED Barrier!barrierVars
<1>1. Target' = Target
  BY DEF Target
<1>2. [t \in Task |-> InputsFollow(t)]' = [t \in Task |-> InputsFollow(t)]
  BY DEF InputsFollow
<1>3. [t \in Task |-> LeasedUnder(t)]' = [t \in Task |-> LeasedUnder(t)]
  BY DEF LeasedUnder
<1>. QED BY <1>1, <1>2, <1>3 DEF Barrier!barrierVars

\* Other traffic serves an open pool, and gives leases up in a closed one.
LEMMA TrafficServes ==
  ASSUME TypeInv, TypeInv', RowsInv, Quiet, \A t \in Task : QuietTask(t),
         \A t \in Task : task[t].exists => task'[t].exists
  PROVE  Barrier!Serve \/ Barrier!GiveUp
<1>1. TypeOK /\ TypeOK' /\ pool' = pool
  BY DEF TypeInv, Quiet
<1>2. Applying' = Applying
  BY DEF Applying, Quiet
<1>3. Target' = Target
  BY <1>1, <1>2 DEF Target
<1>4. ASSUME NEW t \in Task
      PROVE  /\ task'[t].exists => InputsFollow(t)' = task'[t].contract
             /\ ~task'[t].exists => InputsFollow(t)' = NULL
             /\ lease'[t] = NULL => LeasedUnder(t)' = NULL
             /\ lease'[t] # NULL => LeasedUnder(t)' = lease'[t].contract
             /\ task'[t].contract # NULL
  BY <1>1, SchemaAssumption DEF InputsFollow, LeasedUnder, TypeOK, Row
<1>5. CASE pool.migration_status = "ready"
  <2>1. ASSUME NEW t \in Task
        PROVE  /\ InputsFollow(t)' = InputsFollow(t) \/ InputsFollow(t)' = pool.contract
               /\ LeasedUnder(t)' \in {LeasedUnder(t), pool.contract, NULL}
               /\ LeasedUnder(t)' # NULL => InputsFollow(t)' # NULL
    <3>1. QuietTask(t)
      OBVIOUS
    <3>. QED BY <1>1, <1>4, <3>1, Seen DEF QuietTask
  <2>2. Barrier!Serve
    BY <1>1, <1>3, <1>5, <2>1 DEF Barrier!Serve
  <2>. QED BY <2>2
<1>6. CASE pool.migration_status # "ready"
  <2>1. ASSUME NEW t \in Task
        PROVE  InputsFollow(t)' = InputsFollow(t) /\ LeasedUnder(t)' \in {LeasedUnder(t), NULL}
    <3>1. QuietTask(t)
      OBVIOUS
    <3>. QED BY <1>1, <1>4, <1>6, <3>1, Seen DEF QuietTask
  <2>2. Barrier!GiveUp
    BY <1>1, <1>3, <2>1 DEF Barrier!GiveUp
  <2>. QED BY <2>2
<1>. QED BY <1>5, <1>6

\* Traffic removes no task.
LEMMA TasksStay ==
  ASSUME TypeOK, NEW t \in Task, task[t].exists,
         \/ \E u \in Task : Claim(u) \/ Report(u) \/ Expire(u) \/ EditInputs(u) \/ ChangeTask(u) \/ CreateTask(u)
         \/ UpdateConfiguration
  PROVE  task'[t].exists
<1>1. task \in [Task -> Row]
  BY DEF TypeOK
<1>2. CASE UNCHANGED task
  BY <1>2
<1>3. ASSUME NEW u \in Task, EditInputs(u) PROVE task'[t].exists
  BY <1>1, <1>3 DEF EditInputs, Row
<1>4. ASSUME NEW u \in Task, CreateTask(u) PROVE task'[t].exists
  BY <1>1, <1>4 DEF CreateTask, Row
<1>. QED BY <1>2, <1>3, <1>4 DEF Claim, Report, Expire, ChangeTask, UpdateConfiguration

\* The tables start as an open barrier.
LEMMA InitBarrier == Init => Barrier!Init
<1>. SUFFICES ASSUME Init PROVE Barrier!Init
  OBVIOUS
<1>1. pool.migration_status = "ready" /\ pool.contract = First /\ Target = NULL
  BY DEF Init, Target
<1>2. \A t \in Task : InputsFollow(t) \in {First, NULL} /\ LeasedUnder(t) = NULL
  BY DEF Init, InputsFollow, LeasedUnder
<1>. QED BY <1>1, <1>2 DEF Barrier!Init

\* A migration closes the barrier,
LEMMA StartCloses ==
  ASSUME TimelyInv, NEW r \in Request, NEW revoke \in BOOLEAN, Start(r, revoke)
  PROVE  Keeps /\ Barrier!Next
<1>1. PICK o \in Op : Applying' = {o} /\ o # pool.contract
  BY StartKeeps
<1>2. /\ Keeps /\ pool.migration_status = "ready" /\ pool'.migration_status = "migrating"
      /\ pool'.contract = pool.contract /\ UNCHANGED <<task, lease>>
  BY StartKeeps
<1>3. Target' = o
  <2>1. pool'.migration_status # "ready"
    BY <1>2
  <2>. QED BY <1>1, <2>1 DEF Target
<1>4. Barrier!Close(o)
  BY <1>1, <1>2, <1>3 DEF Barrier!Close, InputsFollow, LeasedUnder
<1>. QED BY <1>2, <1>4 DEF Contract, Barrier!Next

\* a chunk crosses it,
LEMMA ConvertCrosses ==
  ASSUME TimelyInv, NEW r \in Request, Convert(r), op[request[r].op].status = "applying"
  PROVE  Keeps /\ Barrier!Next
<1>1. PICK o \in Op, S \in SUBSET Task :
        /\ op[o].status = "applying"
        /\ \A t \in S : /\ task[t].exists /\ task[t].contract = pool.contract
                        /\ task'[t].exists /\ task'[t].contract = o /\ lease'[t] = NULL
        /\ \A t \in Task \ S : task'[t] = task[t] /\ lease'[t] = lease[t]
  BY ConvertKeeps
<1>2. Keeps /\ RowsInv /\ UNCHANGED <<pool, op>>
  BY ConvertKeeps DEF TimelyInv
<1>3. pool.migration_status = "migrating" /\ Applying = {o} /\ Applying' = {o}
  BY <1>1, <1>2 DEF RowsInv, ClosedWhileApplying, OneApplying, Applying
<1>4. Target = o /\ Target' = o
  BY <1>2, <1>3 DEF Target
<1>5. /\ \A t \in S : /\ InputsFollow(t) = pool.contract
                      /\ InputsFollow(t)' = o /\ LeasedUnder(t)' = NULL
      /\ \A t \in Task \ S : InputsFollow(t)' = InputsFollow(t) /\ LeasedUnder(t)' = LeasedUnder(t)
  BY <1>1 DEF InputsFollow, LeasedUnder
<1>6. Barrier!Cross(S)
  BY <1>2, <1>3, <1>4, <1>5 DEF Barrier!Cross
<1>. QED BY <1>2, <1>6 DEF Barrier!Next

\* and an activation opens it.
LEMMA ActivateOpens ==
  ASSUME TimelyInv, NEW r \in Request, Activate(r),
         op[request[r].op].status = "applying", Decided(request[r].op)
  PROVE  Keeps /\ Barrier!Next
<1>1. PICK o \in Op :
        /\ Applying = {o} /\ pool'.contract = o
        /\ \A t \in Task : lease[t] = NULL /\ (task[t].exists => task[t].contract = o)
  BY ActivateKeeps
<1>2. /\ Keeps /\ pool.migration_status = "migrating" /\ pool'.migration_status = "ready"
      /\ UNCHANGED <<task, lease>>
  BY ActivateKeeps
<1>3. Target = o /\ Target' = NULL
  BY <1>1, <1>2 DEF Target
<1>4. \A t \in Task : InputsFollow(t) \in {o, NULL} /\ LeasedUnder(t) = NULL
  BY <1>1 DEF InputsFollow, LeasedUnder
<1>5. Barrier!Open
  BY <1>1, <1>2, <1>3, <1>4 DEF Barrier!Open, InputsFollow, LeasedUnder
<1>. QED BY <1>2, <1>5 DEF Barrier!Next

\* Every step on time keeps the invariant, and is a step of the barrier or none.
LEMMA TimelyStep ==
  ASSUME TimelyInv, OnTimeStep, [Next]_vars
  PROVE  TimelyInv' /\ [Barrier!Next]_(Barrier!barrierVars)
<1>1. /\ TimelyInv /\ OnTimeStep /\ TypeInv /\ TypeInv' /\ RowsInv /\ TypeOK /\ ReadsStand
      /\ \A r \in Request : Batch(r) => Trusted(request[r])
  BY TypesStep, TimelyTrusted DEF TimelyInv, TypeInv
<1>2. RowsInv'
  BY <1>1, RowsStep
<1>. DEFINE Done == TimelyInv' /\ [Barrier!Next]_(Barrier!barrierVars)
<1>. SUFFICES Done
  OBVIOUS
<1>3. ASSUME Keeps, ReadsStand', [Barrier!Next]_(Barrier!barrierVars)
      PROVE  Done
  BY <1>1, <1>2, <1>3 DEF Keeps, TimelyInv
<1>4. ASSUME Keeps, UNCHANGED request \/ \E r \in Request : Ends(r),
             Barrier!Next \/ UNCHANGED Barrier!barrierVars
      PROVE  Done
  <2>1. ReadsStand'
    BY <1>1, <1>4, EndsStands DEF Keeps
  <2>. QED BY <1>3, <1>4, <2>1
<1>. HIDE DEF Done
<1>5. ASSUME Quiet, \A t \in Task : QuietTask(t), \A t \in Task : task[t].exists => task'[t].exists
      PROVE  Keeps /\ Barrier!Next
  BY <1>1, <1>5, QuietKeeps, TrafficServes DEF Barrier!Next
<1>6. CASE \/ \E t \in Task : Claim(t) \/ Report(t) \/ Expire(t) \/ EditInputs(t) \/ ChangeTask(t) \/ CreateTask(t)
           \/ UpdateConfiguration
  <2>1. Quiet /\ \A t \in Task : QuietTask(t)
    BY <1>1, <1>6, TrafficQuiet
  <2>2. \A t \in Task : task[t].exists => task'[t].exists
    BY <1>1, <1>6, TasksStay
  <2>3. UNCHANGED request
    BY <1>6 DEF Claim, Report, Expire, EditInputs, ChangeTask, CreateTask, UpdateConfiguration
  <2>. QED BY <1>4, <1>5, <2>1, <2>2, <2>3
<1>7. ASSUME UNCHANGED <<pool, task, lease, op, item>>
      PROVE  Keeps /\ Applying' = Applying /\ UNCHANGED Barrier!barrierVars
  <2>1. Keeps
    BY <1>1, <1>7, StillQuiet, QuietKeeps
  <2>2. Applying' = Applying
    BY <1>7 DEF Applying
  <2>. QED BY <1>7, <2>1, <2>2, BarrierStutters
<1>8. CASE UNCHANGED vars
  <2>1. UNCHANGED <<pool, task, lease, op, item, request>>
    BY <1>8 DEF vars
  <2>. QED BY <1>4, <1>7, <2>1
<1>9. CASE \/ \E r \in Request, o \in Op : Apply(r, o) \/ AskCancel(r, o) \/ \E t \in Task : AskCorrect(r, o, t)
           \/ \E r \in Request : ReadPending(r) \/ ReadRejected(r) \/ Refused(r) \/ Die(r) \/ ReadFields(r)
  <2>1. UNCHANGED <<pool, task, lease, op, item>>
    BY <1>9 DEF Apply, AskCancel, AskCorrect, ReadPending, ReadRejected, Refused, Die, ReadFields
  <2>2. ReadsStand'
    BY <1>1, <1>9, ReadsTimely
  <2>. QED BY <1>3, <1>7, <2>1, <2>2
<1>10. ASSUME NEW o \in Op, NEW heavy \in BOOLEAN, Preview(o, heavy)
       PROVE  Done
  BY <1>1, <1>4, <1>10, PreviewKeeps, BarrierStutters
<1>11. ASSUME NEW r \in Request, NEW revoke \in BOOLEAN, Start(r, revoke)
       PROVE  Done
  <2>1. Ends(r)
    BY <1>11 DEF Start
  <2>. QED BY <1>1, <1>4, <1>11, <2>1, StartCloses
<1>12. ASSUME NEW r \in Request, Convert(r)
       PROVE  Done
  <2>1. Ends(r)
    BY <1>12 DEF Convert
  <2>2. op[request[r].op].status = "applying" \/ Decided(request[r].op)
    BY <1>1, <1>12 DEF Batch, Trusted, Convert
  <2>3. CASE op[request[r].op].status = "applying"
    BY <1>1, <1>4, <1>12, <2>1, <2>3, ConvertCrosses
  <2>4. CASE Decided(request[r].op)
    <3>1. Quiet /\ (\A t \in Task : QuietTask(t)) /\ \A t \in Task : task[t].exists => task'[t].exists
      BY <1>1, <1>12, <2>4, ChunkIsEmpty
    <3>. QED BY <1>4, <1>5, <2>1, <3>1
  <2>. QED BY <2>2, <2>3, <2>4
<1>13. ASSUME NEW r \in Request, Activate(r)
       PROVE  Done
  <2>1. Ends(r)
    BY <1>13 DEF Activate
  <2>2. Activable(request[r].op)
    BY <1>1, <1>13 DEF OnTimeStep
  <2>3. CASE op[request[r].op].status = "applying" /\ Decided(request[r].op)
    BY <1>1, <1>4, <1>13, <2>1, <2>3, ActivateOpens
  <2>4. CASE pool = [migration_status |-> "ready", contract |-> request[r].op]
    BY <1>1, <1>4, <1>13, <2>1, <2>4, AgainKeeps, BarrierStutters
  <2>. QED BY <2>2, <2>3, <2>4 DEF Activable
<1>14. ASSUME NEW r \in Request, ActivateLight(r)
       PROVE  Done
  <2>1. Ends(r)
    BY <1>14 DEF ActivateLight
  <2>. QED BY <1>1, <1>4, <1>14, <2>1, LightKeeps, BarrierStutters
<1>15. ASSUME NEW r \in Request, Cancel(r)
       PROVE  Done
  <2>1. Ends(r) /\ op[request[r].op].status # "applying"
    BY <1>1, <1>15 DEF Cancel, OnTimeStep
  <2>. QED BY <1>1, <1>4, <1>15, <2>1, CancelKeeps, BarrierStutters
<1>16. ASSUME NEW r \in Request, NEW good \in BOOLEAN, Correct(r, good)
       PROVE  Done
  <2>1. Ends(r)
    BY <1>16 DEF Correct
  <2>. QED BY <1>1, <1>4, <1>16, <2>1, CorrectKeeps, BarrierStutters
<1>17. ASSUME NEW r \in Request, NEW S \in SUBSET Task, Import(r, S)
       PROVE  Done
  <2>1. Ends(r) /\ request[r].op = pool.contract
    BY <1>1, <1>17 DEF Import, OnTimeStep
  <2>2. Quiet /\ (\A t \in Task : QuietTask(t)) /\ \A t \in Task : task[t].exists => task'[t].exists
    BY <1>1, <1>17, <2>1, ImportQuiet
  <2>. QED BY <1>4, <1>5, <2>1, <2>2
<1>. QED
  BY <1>6, <1>8, <1>9, <1>10, <1>11, <1>12, <1>13, <1>14, <1>15, <1>16, <1>17 DEF Next

\* The tables start in the invariant, and as an open barrier.
LEMMA InitTimely == Init => TimelyInv /\ Barrier!Init
<1>. SUFFICES ASSUME Init PROVE TimelyInv /\ Barrier!Init
  OBVIOUS
<1>1. TypeInv /\ RowsInv /\ \A r \in Request : request[r].stage = "idle"
  BY InitRows
<1>2. ReadsStand
  BY <1>1 DEF ReadsStand, ReadStands
<1>3. CurrentIsFresh /\ ActiveIsOver /\ WaitingIsOld
  BY DEF Init, CurrentIsFresh, ActiveIsOver, WaitingIsOld
<1>. QED BY <1>1, <1>2, <1>3, InitBarrier DEF TimelyInv

\* A chunk of an operation that is over meanwhile is empty.
LEMMA TimelyConvertsOne ==
  ASSUME TimelyInv
  PROVE  ConvertsOne
<1>1. ASSUME NEW r \in Request, NEW o \in Op, NEW q, q = request[r],
             q.stage = "convert", op[o].status = "applying", StillPending(q.op, q.items)
      PROVE  q.op = o \/ q.items = {}
  <2>1. q.op \in Op /\ Started(q.op) /\ q.items \subseteq Task
    BY <1>1 DEF TimelyInv, TypeInv, TypeOK, RequestRow, RequestTyped, ReadsStand, ReadStands
  <2>2. CASE op[q.op].status = "applying"
    BY <1>1, <2>1, <2>2 DEF TimelyInv, RowsInv, OneApplying
  <2>3. CASE Over(q.op)
    BY <1>1, <2>1, <2>3 DEF Over, Decided, StillPending
  <2>. QED BY <2>1, <2>2, <2>3 DEF Started
<1>. QED BY <1>1 DEF ConvertsOne

-----------------------------------------------------------------------------
(* A late batch breaks the barrier, or leaves a pool that nothing resumes. *)

\* A cancellation that comes late ends the only migration of a closed pool.
LEMMA LateCancel ==
  ASSUME TimelyInv, Resumable', NEW r \in Request, Cancel(r)
  PROVE  op[request[r].op].status # "applying"
<1>. SUFFICES ASSUME NEW o, o = request[r].op, op[o].status = "applying"
              PROVE  FALSE
  OBVIOUS
<1>1. TypeInv /\ RowsInv
  BY DEF TimelyInv
<1>2. /\ o \in Op /\ op'[o].status = "cancelled" /\ UNCHANGED pool
      /\ \A p \in Op \ {o} : op'[p] = op[p]
  BY <1>1, CancelTypes DEF Cancel
<1>3. pool'.migration_status = "migrating"
  BY <1>1, <1>2 DEF RowsInv, ClosedWhileApplying
<1>4. PICK p \in Op : op'[p].status = "applying"
  BY <1>3 DEF Resumable
<1>5. p # o /\ op[p].status = "applying"
  BY <1>2, <1>4
<1>. QED BY <1>1, <1>2, <1>5 DEF RowsInv, OneApplying

\* An activation that comes late opens the barrier before the last task has
\* crossed, or for another contract than it closed for, or changes the
\* contract of an open pool.
LEMMA LateActivate ==
  ASSUME TimelyInv, [Barrier!Next]_(Barrier!barrierVars), NEW r \in Request, Activate(r)
  PROVE  Activable(request[r].op)
<1>. SUFFICES ASSUME NEW o, o = request[r].op, ~Activable(o)
              PROVE  FALSE
  OBVIOUS
<1>1. TypeInv /\ TypeOK /\ RowsInv /\ ActiveIsOver /\ WaitingIsOld
  BY DEF TimelyInv, TypeInv
<1>2. o \in Op /\ pool' = [migration_status |-> "ready", contract |-> o]
  BY <1>1, ActivateTypes
<1>3. CASE pool.migration_status = "ready"
  <2>1. pool.contract # o
    BY <1>1, <1>3 DEF Activable, TypeOK
  <2>2. pool'.contract # pool.contract /\ pool'.migration_status = "ready"
    BY <1>2, <2>1
  <2>. QED BY <1>3, <2>2 DEF Barrier!Next, Barrier!Serve, Barrier!GiveUp, Barrier!Close, Barrier!Cross,
                             Barrier!Open, Barrier!barrierVars
<1>4. CASE pool.migration_status = "migrating"
  <2>1. pool'.migration_status = "ready"
    BY <1>2
  <2>2. Barrier!Open
    BY <1>4, <2>1 DEF Barrier!Next, Barrier!Serve, Barrier!GiveUp, Barrier!Close, Barrier!Cross,
                      Barrier!barrierVars
  <2>3. PICK p \in Op : op[p].status = "applying"
    BY <1>1, <1>4 DEF RowsInv, Resumable
  <2>4. Applying = {p}
    BY <1>1, <2>3 DEF RowsInv, OneApplying, Applying
  <2>5. Target = p
    BY <1>4, <2>4 DEF Target
  <2>6. p = o /\ \A t \in Task : InputsFollow(t) \in {o, NULL}
    BY <1>2, <2>2, <2>5 DEF Barrier!Open
  <2>7. PICK t \in Task : item[o][t].status \in {"pending", "rejected"}
    BY <2>3, <2>6 DEF Activable, Decided
  <2>8. task[t].exists /\ task[t].contract = pool.contract
    BY <1>1, <2>3, <2>6, <2>7 DEF WaitingIsOld
  <2>9. pool.contract = o
    BY <1>1, <2>6, <2>8, Seen
  <2>. QED BY <1>1, <1>2, <2>3, <2>6, <2>9, SchemaAssumption DEF ActiveIsOver
<1>. QED BY <1>1, <1>3, <1>4 DEF TypeOK

\* An import that comes late leaves tasks under a contract that is not in force.
LEMMA LateImport ==
  ASSUME TimelyInv, TypeInv', [Barrier!Next]_(Barrier!barrierVars),
         NEW r \in Request, NEW S \in SUBSET Task, Import(r, S)
  PROVE  request[r].op = pool.contract
<1>. SUFFICES ASSUME NEW c, c = request[r].op, c # pool.contract
              PROVE  FALSE
  OBVIOUS
<1>1. TypeInv /\ TypeOK /\ RowsInv
  BY DEF TimelyInv, TypeInv
<1>2. /\ UNCHANGED pool /\ c \in Contract /\ S # {} /\ pool.migration_status = "ready"
      /\ \A t \in S : task'[t].exists /\ task'[t].contract = c
  BY <1>1, ImportTypes DEF Import
<1>3. PICK t \in S : TRUE
  BY <1>2
<1>4. InputsFollow(t) \in {pool.contract, NULL}
  BY <1>1, <1>2 DEF InputsFollow, RowsInv, NoHalfConverted, Tasks
<1>5. InputsFollow(t)' = c /\ c # NULL
  BY <1>2, <1>3, SchemaAssumption DEF InputsFollow
<1>. DEFINE inputs == [u \in Task |-> InputsFollow(u)]
<1>6. inputs[t] \in {pool.contract, NULL} /\ inputs'[t] = c
  BY <1>4, <1>5
<1>7. CASE Barrier!Serve
  BY <1>5, <1>6, <1>7 DEF Barrier!Serve
<1>8. CASE Barrier!GiveUp \/ UNCHANGED Barrier!barrierVars
  BY <1>5, <1>6, <1>8 DEF Barrier!GiveUp, Barrier!barrierVars
<1>9. CASE \/ \E next \in Contract : Barrier!Close(next)
           \/ \E T \in SUBSET Task : Barrier!Cross(T)
           \/ Barrier!Open
  BY <1>2, <1>9 DEF Barrier!Close, Barrier!Cross, Barrier!Open
<1>. QED BY <1>7, <1>8, <1>9 DEF Barrier!Next

\* So the steps that keep to the barrier are on time.
LEMMA BarrierIsOnTime ==
  ASSUME TimelyInv, [Next]_vars, [Barrier!Next]_(Barrier!barrierVars), Resumable'
  PROVE  OnTimeStep
<1>1. TypeInv'
  BY TypesStep DEF TimelyInv
<1>. QED BY <1>1, LateCancel, LateActivate, LateImport DEF OnTimeStep

\* A request moves with its batch.
LEMMA StutterIsOnTime ==
  ASSUME TypeInv, UNCHANGED vars
  PROVE  OnTimeStep
<1>1. ASSUME NEW r \in Request, Ends(r), request[r].stage \in {"activate", "cancel", "import"}
      PROVE  FALSE
  BY <1>1, EndsFacts DEF Idle, vars
<1>. QED BY <1>1 DEF OnTimeStep, Activate, Cancel, Import

(* The barrier holds exactly when nothing comes late.  However requests    *)
(* overlap, and whatever administrators ask for, every step of the tables  *)
(* is a step of the barrier, and every closed pool can be resumed, if and  *)
(* only if no activation commits while an item of its operation waits, or  *)
(* after another operation has closed the pool again; no cancellation      *)
(* after the operation started; and no import after the contract changed   *)
(* whose fields it has read.  These are the facts that schemaApply,        *)
(* cancelOperation and applyOperation read and do not recheck in their     *)
(* batches; what every other batch relies on is rechecked, or cannot       *)
(* change meanwhile.                                                       *)
THEOREM BarrierIffOnTime == Spec => (OnTime <=> KeepsBarrier /\ []Resumable)
<1>. DEFINE BarrierStep == [Barrier!Next]_(Barrier!barrierVars)
<1>1. Init => TimelyInv /\ Barrier!Init
  BY InitTimely
<1>2. TimelyInv /\ [Next]_vars /\ [OnTimeStep]_vars => TimelyInv' /\ BarrierStep
  <2>1. TimelyInv /\ UNCHANGED vars => OnTimeStep
    BY StutterIsOnTime DEF TimelyInv
  <2>. QED BY <2>1, TimelyStep
<1>3. TimelyInv /\ [Next]_vars /\ BarrierStep /\ Resumable' => TimelyInv' /\ [OnTimeStep]_vars
  <2>1. TimelyInv /\ [Next]_vars /\ BarrierStep /\ Resumable' => OnTimeStep
    BY BarrierIsOnTime
  <2>. QED BY <2>1, TimelyStep
<1>4. TimelyInv => Resumable
  BY DEF TimelyInv, RowsInv
<1>5. Spec /\ OnTime => KeepsBarrier /\ []Resumable
  BY <1>1, <1>2, <1>4, PTL DEF Spec, OnTime, KeepsBarrier, Barrier!Spec
<1>6. Spec /\ KeepsBarrier /\ []Resumable => OnTime
  BY <1>1, <1>3, PTL DEF Spec, OnTime, KeepsBarrier, Barrier!Spec
<1>. QED BY <1>5, <1>6

\* As long as nothing comes late, the invariant of the tables holds.
LEMMA TimelyHolds == Spec /\ OnTime => []TimelyInv
<1>1. Init => TimelyInv
  BY InitTimely
<1>2. TimelyInv /\ [Next]_vars /\ [OnTimeStep]_vars => TimelyInv'
  <2>1. TimelyInv /\ UNCHANGED vars => OnTimeStep
    BY StutterIsOnTime DEF TimelyInv
  <2>. QED BY <2>1, TimelyStep
<1>. QED BY <1>1, <1>2, PTL DEF Spec, OnTime

(* As long as nothing comes late, an open pool has no task whose inputs    *)
(* follow another contract than the active one, and no attempt leased      *)
(* under another; a closed one has an operation to resume it with, which   *)
(* lists all its tasks, and does not open before that operation is over    *)
(* (schemaApply of schema.ts, claims and reports of router.ts).            *)
THEOREM OnTimePoolIsSafe ==
  Spec /\ OnTime => [](NoHalfConverted /\ LeasesFollowContract /\ Resumable /\ ClosedWhileApplying)
<1>1. TimelyInv => NoHalfConverted /\ LeasesFollowContract /\ Resumable /\ ClosedWhileApplying
  BY DEF TimelyInv, RowsInv
<1>. QED BY <1>1, TimelyHolds, PTL

\* And no task is converted twice, whichever operations, chunks, corrections
\* and deaths of requests overlap.
THEOREM OnTimeConvertsOnce == Spec /\ OnTime => ConvertedOnce
<1>1. TimelyInv /\ [Next]_vars => [OnceStep]_vars
  <2>1. TimelyInv => TypeInv /\ ConvertsOne
    BY TimelyConvertsOne DEF TimelyInv
  <2>. QED BY <2>1, OnceStepHolds
<1>2. Spec /\ OnTime => [][OnceStep]_vars
  BY <1>1, TimelyHolds, PTL DEF Spec
<1>. QED BY <1>2 DEF ConvertedOnce, OnceStep

-----------------------------------------------------------------------------
(* Requests that come one after the other, or resume one migration, are    *)
(* never late, so all of the above is theirs.                              *)

\* Either way, what batches rely on is true when they come.
LEMMA SafeHolds == ASSUME Orderly PROVE Spec => []SafeInv
<1>1. CASE OneAtATime
  BY <1>1, MigrationHolds
<1>2. CASE Resuming
  BY <1>2, ResumingHolds
<1>. QED BY <1>1, <1>2 DEF Orderly

\* Nothing comes late when requests come one after the other, or at the same
\* time only to resume the pool's one migration: two resumers may both reach
\* the activation of schemaApply, and the second finds its contract in force.
THEOREM OrderlyIsOnTime == ASSUME Orderly PROVE Spec => OnTime
<1>1. SafeInv => OnTimeStep
  BY DEF SafeInv, Trusted, OnTimeStep, Activate, Cancel, Import
<1>2. Spec => []SafeInv
  BY SafeHolds
<1>. QED BY <1>1, <1>2, PTL DEF OnTime

\* A chunk is converted once, however many requests resume the operation
\* with the same items, and whatever is corrected or dies meanwhile; and with
\* any number of operations, when requests come one after the other.
THEOREM TasksConvertOnce == ASSUME OneOperation \/ OneAtATime PROVE Spec => ConvertedOnce
<1>1. CASE OneOperation
  <2>1. ASSUME TypeInv PROVE ConvertsOne
    BY <1>1, <2>1 DEF OneOperation, ConvertsOne, TypeInv, RequestTyped
  <2>2. ASSUME TypeInv, [Next]_vars PROVE [OnceStep]_vars
    BY <2>1, <2>2, OnceStepHolds
  <2>3. Spec => [][OnceStep]_vars
    BY <2>2, InitTypes, TypesStep, PTL DEF Spec
  <2>. QED BY <2>3 DEF ConvertedOnce, OnceStep
<1>2. CASE OneAtATime
  <2>1. Spec => OnTime
    BY <1>2, OrderlyIsOnTime DEF Orderly
  <2>. QED BY <2>1, OnTimeConvertsOnce
<1>. QED BY <1>1, <1>2

\* When requests come one after the other, or all resume one migration, an
\* open pool has no task whose inputs follow another contract than its
\* active one (schemaApply of schema.ts).
THEOREM OpenPoolIsConverted == ASSUME Orderly PROVE Spec => []NoHalfConverted
BY OrderlyIsOnTime, OnTimePoolIsSafe, PTL

\* Nor an attempt that was leased under another one.
THEOREM LeasesAreCurrent == ASSUME Orderly PROVE Spec => []LeasesFollowContract
BY OrderlyIsOnTime, OnTimePoolIsSafe, PTL

\* A closed pool has an operation to resume it with, which lists all its
\* tasks, whichever requests died.
THEOREM ClosedPoolResumes == ASSUME Orderly PROVE Spec => []Resumable
BY OrderlyIsOnTime, OnTimePoolIsSafe, PTL

\* And it does not open before that operation is over.
THEOREM StaysClosed == ASSUME Orderly PROVE Spec => []ClosedWhileApplying
BY OrderlyIsOnTime, OnTimePoolIsSafe, PTL

(* The tables keep the promise of PoolBarrier, for any tasks, operations,  *)
(* chunks, corrections, other traffic and deaths, when requests come one   *)
(* after the other or resume one migration at the same time: initial       *)
(* states are initial states of the barrier, and every step is a step of   *)
(* it or none.                                                             *)
THEOREM TablesKeepBarrier == ASSUME Orderly PROVE Spec => KeepsBarrier
BY OrderlyIsOnTime, BarrierIffOnTime, PTL
=====
