--------------------------- MODULE ReceiptsProofs ---------------------------
(***************************************************************************)
(* Receipts makes every operation happen at most once, answers it alike,   *)
(* and restores no right, for all ids, bodies, deliveries and bounds and   *)
(* for every retention of at least FreshFor + Skew.                        *)
(*                                                                         *)
(* The invariant behind it: an operation that was done either still has    *)
(* its receipt or is too old to be accepted; what a delivery has read of a *)
(* receipt is true of it or of one that is too old; and a delivery that    *)
(* lost its right before it was decided still finds that it has lost it.   *)
(*                                                                         *)
(* TaskClient, the Python client, is a sender as Receipts expects one, and *)
(* what it returns from a batch of completions has been done, for all      *)
(* batches and clocks as well.                                             *)
(*                                                                         *)
(* The invariant behind it: the delivery the client waits for carries the  *)
(* operation of the call in progress, and what a batch counts as           *)
(* acknowledged, now or in what the program saved, has been done and has   *)
(* its own results.                                                        *)
(***************************************************************************)
EXTENDS TaskClient, TLAPS

Row == Running \cup Answered \cup {Idle}

Stale(op) == now > op.created + FreshFor

Lost(row) == ~Entitles(key, row.op) \/ row.epoch < activeEpoch

Known(r) == r.op \in done /\ (receipts[r.op.id] = r \/ Stale(r.op))

GoodRunning(row) ==
  /\ row.epoch <= deployed
  /\ row.existing # NULL => Known(row.existing) /\ row.existing.op.id = row.op.id
  /\ row.phase = "allowed" =>
       row.existing # NULL /\ row.existing.op = row.op /\ ~row.barred
  /\ row.barred /\ row.phase # "allowed" => Lost(row)

GoodAnswer(row) ==
  row.answer = "ok" =>
    /\ ~row.barred
    /\ row.op \in done
    /\ row.told = row.op \/ (row.told = NULL /\ Stale(row.op))

GoodRow(row) ==
  /\ row \in Running => GoodRunning(row)
  /\ row \in Answered => GoodAnswer(row)

Kept == \A i \in Id : receipts[i] # NULL =>
  /\ receipts[i].op.id = i
  /\ receipts[i].op \in done
  /\ receipts[i].deadline >= receipts[i].op.created + FreshFor

Remembered == \A op \in done :
  Stale(op) \/ (receipts[op.id] # NULL /\ receipts[op.id].op = op)

IInv ==
  /\ TypeOK
  /\ activeEpoch <= deployed
  /\ Kept
  /\ Remembered
  /\ AtMostOnce
  /\ \A d \in Delivery : GoodRow(delivery[d])

-----------------------------------------------------------------------------
(* A row is running exactly in the phases between its arrival and its answer. *)
LEMMA PhaseOfRow ==
  ASSUME NEW row \in Row
  PROVE  /\ row.phase \notin {"idle", "answered"} <=> row \in Running
         /\ row.phase = "answered" <=> row \in Answered
         /\ row.phase = "idle" <=> row = Idle
  BY DEF Row, Running, Answered, Idle

(* A step that changes one delivery's row, to a good one, and no table, *)
(* keeps the invariant.                                                 *)
LEMMA OneRow ==
  ASSUME IInv, NEW d \in Delivery, NEW row \in Row, GoodRow(row), Set(d, row),
         UNCHANGED <<now, key, settings, receipts, history>>, faults' \in Nat
  PROVE  IInv'
<1>1. delivery' \in [Delivery -> Row] /\ \A e \in Delivery :
        delivery'[e] = IF e = d THEN row ELSE delivery[e]
  BY DEF IInv, TypeOK, Set, Row
<1>2. TypeOK'
  BY <1>1 DEF IInv, TypeOK, Row, settings, history
<1>3. ASSUME NEW r, GoodRow(r) PROVE GoodRow(r)'
  BY <1>3 DEF GoodRow, GoodRunning, GoodAnswer, Known, Stale, Lost, settings, history
<1>4. \A e \in Delivery : GoodRow(delivery[e])'
  <2> TAKE e \in Delivery
  <2>1. GoodRow(delivery'[e])
    BY <1>1 DEF IInv
  <2> QED BY <2>1 DEF GoodRow, GoodRunning, GoodAnswer, Known, Stale, Lost, settings, history
<1>5. (activeEpoch <= deployed)' /\ Kept' /\ Remembered' /\ AtMostOnce'
  BY DEF IInv, Kept, Remembered, AtMostOnce, Stale, settings, history
<1> QED BY <1>2, <1>4, <1>5 DEF IInv

-----------------------------------------------------------------------------
\* The broker starts within the invariant.
LEMMA InitGood == Init => IInv
<1> SUFFICES ASSUME Init PROVE IInv
  OBVIOUS
<1>1. TypeOK
  <2>1. receipts \in [Id -> Receipt \cup {NULL}] /\ delivery \in [Delivery -> Row]
    BY DEF Init, Row
  <2>2. config \in [revision : Nat, home : Scope]
    BY DEF Init
  <2> QED BY <2>1, <2>2 DEF Init, TypeOK, Row
<1>2. \A d \in Delivery : GoodRow(delivery[d])
  BY DEF Init, GoodRow, Idle, Running, Answered
<1> QED BY <1>1, <1>2 DEF Init, IInv, Kept, Remembered, AtMostOnce

\* A request that arrives.
LEMMA ArriveGood ==
  ASSUME IInv, NEW d \in Delivery, NEW op \in Operation, Arrive(d, op)
  PROVE  IInv'
<1> DEFINE row == [phase |-> "arrived", op |-> op, epoch |-> deployed, status |-> "active",
                   scope |-> config.home, config |-> 0, existing |-> NULL, again |-> FALSE,
                   failure |-> "none", barred |-> ~Entitles(key, op)]
<1>1. row \in Running
  BY DEF IInv, TypeOK, Running, Phase, Entitles
<1>2. GoodRow(row)
  <2>1. row.epoch = deployed /\ row.existing = NULL /\ row.phase = "arrived"
        /\ row.op = op
    OBVIOUS
  <2>2. row.barred = ~Entitles(key, op)
    OBVIOUS
  <2>3. row.barred => Lost(row)
    BY <2>1, <2>2, Zenon DEF Lost
  <2>4. row.epoch <= deployed
    BY <2>1 DEF IInv, TypeOK
  <2>5. GoodRunning(row)
    BY <2>1, <2>3, <2>4, Zenon DEF GoodRunning
  <2> QED BY <2>5, <1>1, PhaseOfRow, <2>1 DEF GoodRow, Row
<1>3. Set(d, row) /\ faults' \in Nat /\ UNCHANGED <<now, key, settings, receipts, history>>
  BY DEF Arrive, IInv, TypeOK
<1>4. row \in Row
  BY <1>1 DEF Row
<1> HIDE DEF row
<1> QED BY <1>2, <1>3, <1>4, OneRow

(* Lose and Leave: the row becomes idle. *)
LEMMA IdleGood ==
  ASSUME IInv, NEW d \in Delivery, Lose(d) \/ Leave(d)
  PROVE  IInv'
<1>1. Idle \in Row /\ GoodRow(Idle)
  BY DEF Row, GoodRow, Idle, Running, Answered
<1>2. Set(d, Idle) /\ faults' \in Nat /\ UNCHANGED <<now, key, settings, receipts, history>>
  BY DEF Lose, Leave, IInv, TypeOK
<1> QED BY <1>1, <1>2, OneRow

(* An answer other than a result is good, whatever came before. *)
LEMMA NoResultGood ==
  ASSUME IInv, NEW d \in Delivery, delivery[d] \in Running,
         Refuse(d) \/ Reply(d, "later", NULL), faults' \in Nat,
         UNCHANGED <<now, key, settings, receipts, history>>
  PROVE  IInv'
<1> DEFINE row(answer) == [phase |-> "answered", op |-> delivery[d].op, answer |-> answer,
                           told |-> NULL, barred |-> delivery[d].barred]
<1>1. \A answer \in Answer \ {"ok"} : row(answer) \in Answered /\ GoodRow(row(answer))
  <2> TAKE answer \in Answer \ {"ok"}
  <2>1. row(answer) \in Answered
    BY DEF Running, Answered
  <2>2. row(answer).phase = "answered" /\ row(answer).answer # "ok"
    OBVIOUS
  <2> QED BY <2>1, <2>2, PhaseOfRow DEF GoodRow, GoodAnswer, Row
<1>2. PICK answer \in Answer \ {"ok"} : Set(d, row(answer))
  BY DEF Refuse, Reply, Answer
<1> HIDE DEF row
<1> QED BY <1>1, <1>2, OneRow DEF Row

\* A read of the receipt that fails.
LEMMA ReadFailsGood ==
  ASSUME IInv, NEW d \in Delivery, ReadFails(d)
  PROVE  IInv'
<1>1. delivery[d] \in Running
  BY PhaseOfRow DEF ReadFails, Phase, IInv, TypeOK, Row
<1>2. faults' \in Nat /\ UNCHANGED <<now, key, settings, receipts, history>>
  BY DEF ReadFails, IInv, TypeOK
<1> QED BY <1>1, <1>2, NoResultGood DEF ReadFails

(* Authenticate, Resolve and Begin, and what follows a failed batch. *)
LEMMA ReadGood ==
  ASSUME IInv, NEW d \in Delivery,
         Authenticate(d) \/ Resolve(d) \/ Begin(d) \/ RollBack(d) \/ Reread(d)
           \/ GiveUp(d)
  PROVE  IInv'
<1>1. delivery[d] \in Row /\ GoodRow(delivery[d])
  BY DEF IInv, TypeOK, Row
<1>2. delivery[d].phase \in {"arrived", "authenticated", "resolved", "begun", "failed"}
  BY DEF Authenticate, Resolve, Begin, RollBack, Reread, GiveUp, At
<1>3. delivery[d] \in Running /\ GoodRunning(delivery[d])
  BY <1>1, <1>2, PhaseOfRow DEF GoodRow
<1>4. faults' \in Nat /\ UNCHANGED <<now, key, settings, receipts, history>>
  BY DEF Authenticate, Resolve, Begin, RollBack, Reread, GiveUp, IInv, TypeOK
<1>5. CASE Refuse(d) \/ Reply(d, "later", NULL)
  BY <1>3, <1>4, <1>5, NoResultGood
<1>6. ASSUME NEW row \in Running, Set(d, row), row.op = delivery[d].op,
             row.epoch = delivery[d].epoch, row.barred = delivery[d].barred,
             row.phase # "allowed",
             row.existing = delivery[d].existing \/ row.existing = receipts[row.op.id]
      PROVE  IInv'
  <2>1. row.op.id \in Id
    BY <1>6 DEF Running, Operation
  <2> DEFINE old == receipts[row.op.id]
  <2>2. old # NULL => old.op.id = row.op.id /\ old.op \in done
    BY <2>1 DEF IInv, Kept
  <2>3. ASSUME row.existing = receipts[row.op.id] PROVE GoodRunning(row)
    <3>1. row.existing # NULL => Known(row.existing) /\ row.existing.op.id = row.op.id
      BY <2>2, <2>3 DEF Known
    <3>2. row.epoch <= deployed /\ (row.barred => Lost(row))
      BY <1>2, <1>3, <1>6 DEF GoodRunning, Lost
    <3> QED BY <3>1, <3>2, <1>6 DEF GoodRunning
  <2>4. ASSUME row.existing = delivery[d].existing PROVE GoodRunning(row)
    BY <2>4, <1>2, <1>3, <1>6 DEF GoodRunning, Lost
  <2>5. GoodRow(row) /\ row \in Row
    BY <2>3, <2>4, <1>6, PhaseOfRow DEF GoodRow, Row
  <2> QED BY <1>4, <1>6, <2>5, OneRow
<1>7. CASE Authenticate(d) /\ ~Refuse(d)
  <2> DEFINE row == [delivery[d] EXCEPT !.phase = "authenticated", !.status = key]
  <2>1. row \in Running /\ row.phase = "authenticated"
        /\ row.op = delivery[d].op /\ row.epoch = delivery[d].epoch
        /\ row.barred = delivery[d].barred /\ row.existing = delivery[d].existing
    BY <1>3 DEF Running, Phase, IInv, TypeOK
  <2>2. Set(d, row)
    BY <1>7 DEF Authenticate
  <2> HIDE DEF row
  <2> QED BY <2>1, <2>2, <1>6
<1>8. CASE Resolve(d)
  <2> DEFINE old == receipts[delivery[d].op.id]
             row == [delivery[d] EXCEPT !.phase = "resolved", !.config = config.revision,
                       !.scope = IF old = NULL THEN config.home ELSE old.scope]
  <2>1. (IF old = NULL THEN config.home ELSE old.scope) \in Scope /\ config.revision \in Nat
    BY <1>3 DEF Running, Operation, IInv, TypeOK, Receipt
  <2>2. row \in Running /\ row.phase = "resolved"
        /\ row.op = delivery[d].op /\ row.epoch = delivery[d].epoch
        /\ row.barred = delivery[d].barred /\ row.existing = delivery[d].existing
    <3> HIDE DEF old
    <3> QED BY <1>3, <2>1 DEF Running, Phase
  <2>3. Set(d, row)
    BY <1>8 DEF Resolve
  <2> HIDE DEF row
  <2> QED BY <2>2, <2>3, <1>6
<1>9. CASE Begin(d) /\ ~Refuse(d)
  <2> DEFINE old == receipts[delivery[d].op.id]
             scope == IF old = NULL THEN delivery[d].scope ELSE old.scope
             row == [delivery[d] EXCEPT !.phase = "begun", !.existing = old, !.scope = scope]
  <2>1. scope \in Scope /\ old \in Receipt \cup {NULL}
    BY <1>3 DEF Running, Operation, IInv, TypeOK, Receipt
  <2>2. row \in Running /\ row.phase = "begun"
        /\ row.op = delivery[d].op /\ row.epoch = delivery[d].epoch
        /\ row.barred = delivery[d].barred /\ row.existing = old
    <3> HIDE DEF old, scope
    <3> QED BY <1>3, <2>1 DEF Running, Phase
  <2>3. Set(d, row)
    BY <1>9 DEF Begin
  <2>4. row.existing = receipts[row.op.id]
    BY <2>2
  <2> HIDE DEF row
  <2> QED BY <2>2, <2>3, <2>4, <1>6
<1>10. CASE Reread(d)
  <2> DEFINE old == receipts[delivery[d].op.id]
             row == [delivery[d] EXCEPT !.phase = "begun", !.existing = old]
  <2>1. old \in Receipt \cup {NULL}
    BY <1>3 DEF Running, Operation, IInv, TypeOK, Receipt
  <2>2. row \in Running /\ row.phase = "begun"
        /\ row.op = delivery[d].op /\ row.epoch = delivery[d].epoch
        /\ row.barred = delivery[d].barred /\ row.existing = old
    <3> HIDE DEF old
    <3> QED BY <1>3, <2>1 DEF Running, Phase
  <2>3. Set(d, row)
    BY <1>10 DEF Reread
  <2>4. row.existing = receipts[row.op.id]
    BY <2>2
  <2> HIDE DEF row
  <2> QED BY <2>2, <2>3, <2>4, <1>6
<1>11. CASE RollBack(d)
  <2> DEFINE row(failure) == [delivery[d] EXCEPT !.phase = "failed", !.failure = failure]
  <2>1. \A failure \in {"other", "config", "resource"} :
          /\ row(failure) \in Running /\ row(failure).phase = "failed"
          /\ row(failure).op = delivery[d].op /\ row(failure).epoch = delivery[d].epoch
          /\ row(failure).barred = delivery[d].barred
          /\ row(failure).existing = delivery[d].existing
    BY <1>3 DEF Running, Phase
  <2>2. \E failure \in {"other", "config", "resource"} : Set(d, row(failure))
    BY <1>11 DEF RollBack
  <2> HIDE DEF row
  <2> QED BY <2>1, <2>2, <1>6
<1>12. CASE GiveUp(d) /\ ~Refuse(d) /\ ~Reply(d, "later", NULL)
  <2> DEFINE row == [delivery[d] EXCEPT !.phase = "authenticated", !.again = TRUE,
                                        !.failure = "none"]
  <2>1. row \in Running /\ row.phase = "authenticated"
        /\ row.op = delivery[d].op /\ row.epoch = delivery[d].epoch
        /\ row.barred = delivery[d].barred /\ row.existing = delivery[d].existing
    BY <1>3 DEF Running, Phase
  <2>2. Set(d, row)
    BY <1>12 DEF GiveUp
  <2> HIDE DEF row
  <2> QED BY <2>1, <2>2, <1>6
<1> QED BY <1>5, <1>7, <1>8, <1>9, <1>10, <1>11, <1>12

(* authorizeReplay lets a row go on only with the receipt of its operation, *)
(* and only while the right to it is there.                                 *)
LEMMA AuthorizeGood ==
  ASSUME IInv, NEW d \in Delivery, Authorize(d)
  PROVE  IInv'
<1>1. delivery[d] \in Row /\ GoodRow(delivery[d])
  BY DEF IInv, TypeOK, Row
<1>2. delivery[d] \in Running /\ GoodRunning(delivery[d]) /\ delivery[d].phase = "begun"
  BY <1>1, PhaseOfRow DEF GoodRow, Authorize, At
<1>3. faults' \in Nat /\ UNCHANGED <<now, key, settings, receipts, history>>
  BY DEF Authorize, IInv, TypeOK
<1>4. CASE Refuse(d)
  BY <1>2, <1>3, <1>4, NoResultGood
<1>5. CASE Authorized(delivery[d]) /\ Move(d, "allowed")
  <2> DEFINE row == [delivery[d] EXCEPT !.phase = "allowed"]
  <2>1. row \in Running /\ row.phase = "allowed"
        /\ row.op = delivery[d].op /\ row.epoch = delivery[d].epoch
        /\ row.barred = delivery[d].barred /\ row.existing = delivery[d].existing
    BY <1>2 DEF Running, Phase
  <2>2. Set(d, row)
    BY <1>5 DEF Move
  <2>3. row.existing # NULL
    BY <2>1 DEF Authorize
  <2>4. row.existing.op = row.op
    <3> DEFINE old == delivery[d].existing
    <3>1. old \in Receipt /\ old.op \in Operation /\ delivery[d].op \in Operation
      BY <1>2, <2>1, <2>3 DEF Running, Receipt
    <3>2. old.op.id = delivery[d].op.id
      BY <1>2, <2>1, <2>3 DEF GoodRunning
    <3>3. Fingerprint(old.op, old.scope) = Fingerprint(delivery[d].op, delivery[d].scope)
      BY <1>5 DEF Authorized, CheckReplay
    <3>4. /\ old.op.action = delivery[d].op.action /\ old.op.body = delivery[d].op.body
          /\ old.op.created = delivery[d].op.created /\ old.op.lease = delivery[d].op.lease
      BY <3>3 DEF Fingerprint
    <3>5. \A a, b \in Operation :
            a.id = b.id /\ a.action = b.action /\ a.body = b.body
              /\ a.created = b.created /\ a.lease = b.lease => a = b
      BY DEF Operation
    <3>6. old.op = delivery[d].op
      BY <3>1, <3>2, <3>4, <3>5
    <3> QED BY <3>6, <2>1
  <2>5. ~Lost(delivery[d])
    BY <1>5, <1>2 DEF Authorized, Lost, Entitles, Running, IInv, TypeOK
  <2>6. ~row.barred
    BY <2>5, <2>1, <1>2 DEF GoodRunning
  <2>7. GoodRunning(row)
    BY <2>1, <2>3, <2>4, <2>6, <1>2 DEF GoodRunning
  <2> HIDE DEF row
  <2>8. GoodRow(row) /\ row \in Row
    BY <2>1, <2>7, PhaseOfRow DEF GoodRow, Row
  <2> QED BY <2>2, <2>8, <1>3, OneRow
<1> QED BY <1>4, <1>5 DEF Authorize

\* A request answered from its receipt.
LEMMA ReplayGood ==
  ASSUME IInv, NEW d \in Delivery, Replay(d)
  PROVE  IInv'
<1>1. delivery[d] \in Row /\ GoodRow(delivery[d])
  BY DEF IInv, TypeOK, Row
<1>2. delivery[d] \in Running /\ GoodRunning(delivery[d]) /\ delivery[d].phase = "allowed"
  BY <1>1, PhaseOfRow DEF GoodRow, Replay, At
<1> DEFINE old == delivery[d].existing
           told == IF receipts[delivery[d].op.id] = old THEN old.op ELSE NULL
           row == [phase |-> "answered", op |-> delivery[d].op, answer |-> "ok",
                   told |-> told, barred |-> delivery[d].barred]
<1>3. old # NULL /\ old.op = delivery[d].op /\ ~delivery[d].barred /\ Known(old)
  BY <1>2 DEF GoodRunning
<1>4. told \in Operation \cup {NULL} /\ (told = delivery[d].op \/ (told = NULL /\ Stale(delivery[d].op)))
  BY <1>2, <1>3 DEF Known, Running
<1>5. row \in Answered /\ row.phase = "answered" /\ row.op = delivery[d].op /\ row.told = told
      /\ row.barred = delivery[d].barred
  <2> HIDE DEF told
  <2> QED BY <1>2, <1>4 DEF Running, Answered, Answer
<1>6. Set(d, row) /\ faults' \in Nat /\ UNCHANGED <<now, key, settings, receipts, history>>
  BY DEF Replay, Reply, IInv, TypeOK
<1> HIDE DEF row, told
<1>7. GoodAnswer(row)
  BY <1>3, <1>4, <1>5 DEF GoodAnswer, Known
<1>8. GoodRow(row) /\ row \in Row
  BY <1>5, <1>7, PhaseOfRow DEF GoodRow, Row
<1> QED BY <1>6, <1>8, OneRow

-----------------------------------------------------------------------------
(* What is good stays good while time passes, more is done, receipts go    *)
(* only when they are stale, and lost rights stay lost.                    *)
LEMMA RowStays ==
  ASSUME IInv, NEW row \in Row, GoodRow(row),
         deployed \in Nat, deployed' \in Nat, deployed <= deployed',
         done \subseteq done', now' \in Nat, now <= now',
         row \in Running => (Lost(row) => Lost(row)'),
         \A r \in Receipt : Known(r) => Known(r)'
  PROVE  GoodRow(row)'
<1>1. \A op \in Operation : Stale(op) => Stale(op)'
  BY ReceiptAssumption DEF Stale, Operation, IInv, TypeOK
<1>2. CASE row \in Running
  <2>1. row \notin Answered
    BY <1>2 DEF Running, Answered
  <2>2. row.existing # NULL => row.existing \in Receipt
    BY <1>2 DEF Running
  <2>3. row.epoch \in Nat
    BY <1>2 DEF Running
  <2>4. row.existing # NULL => Known(row.existing)'
    BY <1>2, <2>2 DEF GoodRow, GoodRunning
  <2>5. row.epoch <= deployed'
    BY <1>2, <2>3 DEF GoodRow, GoodRunning
  <2>6. row.barred /\ row.phase # "allowed" => Lost(row)'
    BY <1>2 DEF GoodRow, GoodRunning
  <2>7. GoodRunning(row)'
    BY <1>2, <2>4, <2>5, <2>6 DEF GoodRow, GoodRunning
  <2> QED BY <2>1, <2>7 DEF GoodRow
<1>3. CASE row \in Answered
  <2>1. row \notin Running
    BY <1>3 DEF Running, Answered
  <2>2. row.op \in Operation
    BY <1>3 DEF Answered
  <2> QED BY <1>1, <1>3, <2>1, <2>2 DEF GoodRow, GoodAnswer
<1>4. CASE row = Idle
  BY <1>4 DEF GoodRow, Idle, Running, Answered
<1> QED BY <1>2, <1>3, <1>4 DEF Row

\* A request whose batch commits.
LEMMA CommitGood ==
  ASSUME IInv, NEW d \in Delivery, Commit(d)
  PROVE  IInv'
<1>1. delivery[d] \in Row /\ GoodRow(delivery[d])
  BY DEF IInv, TypeOK, Row
<1>2. delivery[d] \in Running /\ GoodRunning(delivery[d]) /\ delivery[d].phase = "begun"
  BY <1>1, PhaseOfRow DEF GoodRow, Commit, At
<1> DEFINE op == delivery[d].op
<1>3. op \in Operation /\ op.id \in Id /\ op.created \in Int
  BY <1>2 DEF Running, Operation
<1>4. receipts[op.id] = NULL /\ Fresh(op) /\ activeEpoch = delivery[d].epoch /\ Entitles(key, op)
  BY DEF Commit, MayCommit
<1>5. PICK r \in Retention : receipts' = [receipts EXCEPT ![op.id] =
        [op |-> op, scope |-> delivery[d].scope, epoch |-> delivery[d].epoch,
         deadline |-> now + r]]
  BY DEF Commit
<1> DEFINE new == [op |-> op, scope |-> delivery[d].scope, epoch |-> delivery[d].epoch,
                   deadline |-> now + r]
<1>6. new \in Receipt /\ new # NULL /\ new.op = op /\ new.deadline >= op.created + FreshFor
  <2>1. r \in Nat /\ FreshFor + Skew <= r
    BY ReceiptAssumption
  <2>2. new \in Receipt
    BY <1>2, <1>3, <2>1 DEF Receipt, Running, IInv, TypeOK
  <2>3. now + r >= op.created + FreshFor
    BY <1>3, <1>4, <2>1, ReceiptAssumption DEF Fresh, IInv, TypeOK
  <2> QED BY <2>2, <2>3, ReceiptAssumption
<1>7. \A i \in Id : receipts'[i] = IF i = op.id THEN new ELSE receipts[i]
  BY <1>3, <1>5 DEF IInv, TypeOK
<1>8. op \notin done
  BY <1>3, <1>4, ReceiptAssumption DEF IInv, TypeOK, Remembered, Stale, Fresh
<1>9. done' = done \cup {op} /\ twice' = {}
  BY <1>8 DEF Commit, Execute, IInv, AtMostOnce
<1>10. UNCHANGED <<now, key, settings>> /\ faults' \in Nat
  BY DEF Commit, IInv, TypeOK
<1>11. receipts' \in [Id -> Receipt \cup {NULL}]
  <2> HIDE DEF op
  <2> QED BY <1>3, <1>5, <1>6 DEF IInv, TypeOK
<1> HIDE DEF new
<1>12. Kept'
  BY <1>3, <1>6, <1>7, <1>9 DEF Kept, IInv
<1>13. Remembered'
  <2> SUFFICES ASSUME NEW o \in done'
               PROVE  Stale(o)' \/ (receipts'[o.id] # NULL /\ receipts'[o.id].op = o)
    BY DEF Remembered
  <2>1. CASE o = op
    BY <2>1, <1>3, <1>6, <1>7
  <2>2. CASE o # op
    <3>1. o \in done /\ o.id \in Id
      BY <2>2, <1>9 DEF IInv, TypeOK, Operation
    <3>2. Stale(o) => Stale(o)'
      BY <1>10 DEF Stale
    <3>3. receipts[o.id] # NULL => receipts'[o.id] = receipts[o.id]
      BY <1>4, <1>7, <3>1
    <3> QED BY <3>1, <3>2, <3>3 DEF IInv, Remembered
  <2> QED BY <2>1, <2>2
<1>14. \A old \in Receipt : Known(old) => Known(old)'
  <2> TAKE old \in Receipt
  <2>1. old # NULL /\ old.op.id \in Id
    BY ReceiptAssumption DEF Receipt, Operation
  <2>2. receipts[old.op.id] = old => receipts'[old.op.id] = old
    BY <1>4, <1>7, <2>1
  <2>3. Stale(old.op) => Stale(old.op)'
    BY <1>10 DEF Stale
  <2> QED BY <2>2, <2>3, <1>9 DEF Known
<1>15. ASSUME NEW row \in Row, GoodRow(row) PROVE GoodRow(row)'
  <2>1. Lost(row) => Lost(row)'
    BY <1>10 DEF Lost, settings
  <2>2. deployed' = deployed /\ deployed \in Nat /\ now' = now /\ now \in Nat /\ done \subseteq done'
    BY <1>9, <1>10 DEF settings, IInv, TypeOK
  <2> QED BY <1>14, <1>15, <2>1, <2>2, RowStays
<1>16. ~delivery[d].barred
  BY <1>2, <1>4 DEF GoodRunning, Lost, Running, IInv, TypeOK
<1>17. PICK row \in Row : /\ Set(d, row)
                          /\ ~row.barred
                          /\ \/ row \in Answered /\ row.op = op /\ row.told = op
                             \/ /\ row \in Running /\ row.phase = "failed"
                                /\ row.existing = NULL /\ row.epoch = activeEpoch
  <2> DEFINE answer == [phase |-> "answered", op |-> op, answer |-> "ok", told |-> op,
                        barred |-> delivery[d].barred]
             failed == [delivery[d] EXCEPT !.phase = "failed", !.failure = "resource"]
  <2>1. Set(d, answer) \/ Set(d, failed)
    BY DEF Commit, Reply
  <2>2. answer \in Answered /\ answer.op = op /\ answer.told = op /\ ~answer.barred
    BY <1>2, <1>3, <1>16 DEF Answered, Answer, Running
  <2>3. failed \in Running /\ failed.phase = "failed" /\ failed.epoch = delivery[d].epoch
        /\ failed.existing = delivery[d].existing /\ ~failed.barred
    BY <1>2, <1>16 DEF Running, Phase
  <2>4. delivery[d].existing = NULL
    BY DEF Commit
  <2> HIDE DEF answer, failed
  <2>5. CASE Set(d, answer)
    BY <2>2, <2>5 DEF Row
  <2>6. CASE Set(d, failed)
    BY <1>4, <2>3, <2>4, <2>6 DEF Row
  <2> QED BY <2>1, <2>5, <2>6
<1>18. delivery' \in [Delivery -> Row] /\ \A e \in Delivery :
         delivery'[e] = IF e = d THEN row ELSE delivery[e]
  BY <1>17 DEF IInv, TypeOK, Set, Row
<1>19. \A e \in Delivery : GoodRow(delivery[e])'
  <2>1. GoodRow(row)'
    <3>1. row \in Answered => row \notin Running
      BY DEF Answered, Running
    <3>2. (activeEpoch <= deployed)'
      BY <1>10 DEF IInv, settings
    <3>3. activeEpoch' = activeEpoch
      BY <1>10 DEF settings
    <3> QED BY <1>9, <1>17, <3>1, <3>2, <3>3 DEF GoodRow, GoodAnswer, GoodRunning
  <2> TAKE e \in Delivery
  <2>2. CASE e = d
    <3>1. delivery'[e] = row
      BY <1>18, <2>2
    <3> QED BY <3>1, <2>1 DEF GoodRow, GoodRunning, GoodAnswer, Known, Stale, Lost
  <2>3. CASE e # d
    <3>1. PICK other \in Row : other = delivery[e] /\ GoodRow(other)
      BY DEF IInv, TypeOK, Row
    <3>2. delivery'[e] = other
      BY <1>18, <2>3, <3>1
    <3>3. GoodRow(other)'
      BY <3>1, <1>15
    <3> QED BY <3>2, <3>3 DEF GoodRow, GoodRunning, GoodAnswer, Known, Stale, Lost
  <2> QED BY <2>2, <2>3
<1>20. TypeOK'
  BY <1>3, <1>9, <1>10, <1>11, <1>18 DEF IInv, TypeOK, Row, settings
<1> QED BY <1>9, <1>10, <1>12, <1>13, <1>19, <1>20 DEF IInv, AtMostOnce, settings

-----------------------------------------------------------------------------
(* Steps that leave every delivery as it is. *)
LEMMA TablesGood ==
  ASSUME IInv,
         Prune \/ SetMaintenance \/ Deploy \/ Reconfigure \/ FaultElsewhere \/ Tick
  PROVE  IInv'
<1>1. UNCHANGED <<key, activeEpoch, delivery, done, twice>>
  BY DEF Prune, SetMaintenance, Deploy, Reconfigure, FaultElsewhere, Tick, settings, history
<1>2. now' \in Nat /\ now <= now' /\ deployed' \in Nat /\ deployed <= deployed'
  <2>1. now \in Nat /\ deployed \in Nat
    BY DEF IInv, TypeOK
  <2>2. CASE Tick
    <3>1. now' = now + 1 /\ deployed' = deployed
      BY <2>2 DEF Tick, settings
    <3> QED BY <2>1, <3>1
  <2>3. CASE Deploy
    BY <2>1, <2>3 DEF Deploy
  <2>4. CASE Prune \/ FaultElsewhere
    <3>1. now' = now /\ deployed' = deployed
      BY <2>4 DEF Prune, FaultElsewhere, settings
    <3> QED BY <2>1, <3>1
  <2>5. CASE SetMaintenance \/ Reconfigure
    BY <2>1, <2>5 DEF SetMaintenance, Reconfigure
  <2> QED BY <2>2, <2>3, <2>4, <2>5
<1>3. \A i \in Id : receipts[i] # NULL =>
        receipts'[i] = receipts[i] \/ (receipts'[i] = NULL /\ Stale(receipts[i].op))
  <2>1. CASE Prune
    <3> SUFFICES ASSUME NEW i \in Id, receipts[i] # NULL
                 PROVE  receipts'[i] = receipts[i]
                          \/ (receipts'[i] = NULL /\ Stale(receipts[i].op))
      OBVIOUS
    <3>1. receipts[i].op.created \in Int /\ receipts[i].deadline \in Nat
      BY DEF IInv, TypeOK, Receipt, Operation
    <3>2. receipts[i].deadline < now => Stale(receipts[i].op)
      BY <3>1, ReceiptAssumption DEF IInv, TypeOK, Kept, Stale
    <3>3. PICK gone \in SUBSET {j \in Id : receipts[j] # NULL /\ receipts[j].deadline < now} :
            receipts' = [j \in Id |-> IF j \in gone THEN NULL ELSE receipts[j]]
      BY <2>1 DEF Prune
    <3> QED BY <3>2, <3>3
  <2>2. CASE ~Prune
    BY <2>2 DEF SetMaintenance, Deploy, Reconfigure, FaultElsewhere, Tick
  <2> QED BY <2>1, <2>2
<1>4. \A i \in Id : receipts[i] = NULL => receipts'[i] = NULL
  BY DEF Prune, SetMaintenance, Deploy, Reconfigure, FaultElsewhere, Tick
<1>5. receipts' \in [Id -> Receipt \cup {NULL}]
  <2>1. CASE Prune
    BY <2>1 DEF Prune, IInv, TypeOK
  <2>2. CASE ~Prune
    BY <2>2 DEF SetMaintenance, Deploy, Reconfigure, FaultElsewhere, Tick, IInv, TypeOK
  <2> QED BY <2>1, <2>2
<1>6. config' \in [revision : Nat, home : Scope] /\ closed' \in BOOLEAN /\ faults' \in Nat
  <2>1. CASE Reconfigure
    BY <2>1 DEF Reconfigure, IInv, TypeOK
  <2>2. CASE ~Reconfigure
    <3>1. config' = config /\ (closed' = closed \/ closed' = ~closed)
      BY <2>2 DEF Prune, SetMaintenance, Deploy, FaultElsewhere, Tick, settings
    <3>2. faults' = faults \/ faults' = faults + 1
      BY <2>2 DEF Prune, SetMaintenance, Deploy, FaultElsewhere, Tick
    <3>3. closed' \in BOOLEAN
      BY <3>1, Zenon DEF IInv, TypeOK
    <3>4. config \in [revision : Nat, home : Scope] /\ faults \in Nat
      BY DEF IInv, TypeOK
    <3> QED BY <3>1, <3>2, <3>3, <3>4
  <2> QED BY <2>1, <2>2
<1>7. TypeOK'
  BY <1>1, <1>2, <1>5, <1>6 DEF IInv, TypeOK
<1>8. \A op \in Operation : Stale(op) => Stale(op)'
  BY <1>2, ReceiptAssumption DEF Stale, Operation, IInv, TypeOK
<1>9. Kept'
  BY <1>1, <1>3, <1>4 DEF IInv, Kept
<1>10. Remembered'
  <2> SUFFICES ASSUME NEW op \in done
               PROVE  Stale(op)' \/ (receipts'[op.id] # NULL /\ receipts'[op.id].op = op)
    BY <1>1 DEF Remembered
  <2>1. op \in Operation /\ op.id \in Id
    BY DEF IInv, TypeOK, Operation
  <2> QED BY <1>3, <1>8, <2>1 DEF IInv, Remembered
<1>11. \A r \in Receipt : Known(r) => Known(r)'
  <2> TAKE r \in Receipt
  <2>1. r # NULL /\ r.op \in Operation /\ r.op.id \in Id
    BY ReceiptAssumption DEF Receipt, Operation
  <2>2. receipts[r.op.id] = r => receipts'[r.op.id] = r \/ Stale(r.op)
    BY <1>3, <2>1
  <2> QED BY <1>1, <1>8, <2>1, <2>2 DEF Known
<1>12. \A d \in Delivery : GoodRow(delivery[d])'
  <2> TAKE d \in Delivery
  <2>1. PICK row \in Row : row = delivery[d] /\ GoodRow(row)
    BY DEF IInv, TypeOK, Row
  <2>2. Lost(row) => Lost(row)'
    BY <1>1 DEF Lost
  <2>3. GoodRow(row)'
    BY <1>1, <1>2, <1>11, <2>1, <2>2, RowStays DEF IInv, TypeOK
  <2>4. delivery'[d] = row
    BY <1>1, <2>1
  <2> QED BY <2>3, <2>4 DEF GoodRow, GoodRunning, GoodAnswer, Known, Stale, Lost
<1>13. (activeEpoch <= deployed)' /\ AtMostOnce'
  BY <1>1, <1>2 DEF IInv, TypeOK, AtMostOnce
<1> QED BY <1>7, <1>9, <1>10, <1>12, <1>13 DEF IInv

(* Steps that take rights away: they mark the deliveries that lose theirs, *)
(* and rights do not come back.                                            *)
LEMMA RightsGood ==
  ASSUME IInv, Activate \/ \E status \in {"soft", "hard"} : RevokeKey(status)
  PROVE  IInv'
<1>1. UNCHANGED <<now, deployed, closed, config, receipts, faults, done, twice>>
  BY DEF Activate, RevokeKey, settings, history
<1>2. key' \in {"active", "soft", "hard"} /\ activeEpoch' \in Nat /\ activeEpoch' <= deployed
      /\ activeEpoch <= activeEpoch'
  BY DEF Activate, RevokeKey, settings, IInv, TypeOK
<1>3. \A op \in Operation : ~Entitles(key, op) => ~Entitles(key', op)
  BY DEF Activate, RevokeKey, Entitles, IInv, TypeOK
<1>4. \A row \in Running : Lost(row) => Lost(row)'
  BY <1>2, <1>3 DEF Lost, Running, IInv, TypeOK
<1>5. \A d \in Delivery :
        \/ delivery'[d] = delivery[d]
        \/ /\ Undecided(d)
           /\ delivery'[d] = [delivery[d] EXCEPT !.barred = TRUE]
           /\ ~Entitles(key', delivery[d].op) \/ delivery[d].epoch # activeEpoch'
  BY DEF Activate, RevokeKey, Bar
<1>6. \A d \in Delivery : Undecided(d) =>
        delivery[d] \in Running /\ delivery[d].phase # "allowed"
  BY PhaseOfRow DEF Undecided, IInv, TypeOK, Row
<1>7. \A d \in Delivery : delivery'[d] # delivery[d] =>
        /\ delivery[d] \in Running /\ delivery'[d] \in Running
        /\ delivery'[d].phase # "allowed" /\ delivery'[d].existing = delivery[d].existing
        /\ delivery'[d].op = delivery[d].op /\ delivery'[d].epoch = delivery[d].epoch
        /\ ~Entitles(key', delivery[d].op) \/ delivery[d].epoch # activeEpoch'
  <2> SUFFICES ASSUME NEW d \in Delivery, delivery'[d] # delivery[d]
               PROVE  /\ delivery[d] \in Running /\ delivery'[d] \in Running
                      /\ delivery'[d].phase # "allowed"
                      /\ delivery'[d].existing = delivery[d].existing
                      /\ delivery'[d].op = delivery[d].op
                      /\ delivery'[d].epoch = delivery[d].epoch
                      /\ ~Entitles(key', delivery[d].op) \/ delivery[d].epoch # activeEpoch'
    OBVIOUS
  <2>1. /\ delivery'[d] = [delivery[d] EXCEPT !.barred = TRUE]
        /\ delivery[d] \in Running /\ delivery[d].phase # "allowed"
        /\ ~Entitles(key', delivery[d].op) \/ delivery[d].epoch # activeEpoch'
    BY <1>5, <1>6
  <2>2. \A row \in Running : LET barred == [row EXCEPT !.barred = TRUE] IN
          /\ barred \in Running /\ barred.phase = row.phase /\ barred.existing = row.existing
          /\ barred.op = row.op /\ barred.epoch = row.epoch
    BY DEF Running
  <2> QED BY <2>1, <2>2
<1>8. delivery' \in [Delivery -> Row]
  <2>1. DOMAIN delivery' = Delivery /\ delivery' = [d \in Delivery |-> delivery'[d]]
    BY DEF Activate, RevokeKey, Bar
  <2>2. \A d \in Delivery : delivery'[d] \in Row
    BY <1>7 DEF IInv, TypeOK, Row
  <2> QED BY <2>1, <2>2
<1>9. TypeOK'
  BY <1>1, <1>2, <1>8 DEF IInv, TypeOK, Row
<1>10. Kept' /\ Remembered' /\ AtMostOnce'
  BY <1>1 DEF IInv, Kept, Remembered, AtMostOnce, Stale
<1>11. \A r \in Receipt : Known(r) => Known(r)'
  BY <1>1 DEF Known, Stale
<1>12. \A d \in Delivery : GoodRow(delivery[d])'
  <2> TAKE d \in Delivery
  <2>1. PICK row \in Row : row = delivery[d] /\ GoodRow(row)
    BY DEF IInv, TypeOK, Row
  <2>2. GoodRow(row)'
    BY <1>1, <1>4, <1>11, <2>1, RowStays DEF IInv, TypeOK
  <2>3. PICK changed \in Row : changed = delivery'[d]
    BY <1>8
  <2>4. CASE changed = row
    BY <2>2, <2>3, <2>4 DEF GoodRow, GoodRunning, GoodAnswer, Known, Stale, Lost
  <2>5. CASE changed # row
    <3>1. /\ row \in Running /\ changed \in Running
          /\ changed.phase # "allowed" /\ changed.existing = row.existing
          /\ changed.op = row.op /\ changed.epoch = row.epoch
          /\ ~Entitles(key', row.op) \/ row.epoch # activeEpoch'
      BY <1>7, <2>1, <2>3, <2>5
    <3>2. row.epoch \in Nat /\ row.epoch <= deployed /\ GoodRunning(row)'
      BY <2>1, <2>2, <3>1 DEF GoodRow, GoodRunning, Running
    <3>3. row.epoch # activeEpoch' => row.epoch < activeEpoch' \/ Lost(row)'
      <4>1. CASE Activate
        BY <3>2, <4>1 DEF Activate, IInv, TypeOK
      <4>2. CASE ~Activate
        <5>1. PICK status \in {"soft", "hard"} : RevokeKey(status)
          BY <4>2
        <5>2. ~Entitles(key', delivery[d].op)
          BY <2>1, <2>3, <2>5, <5>1 DEF RevokeKey, Bar
        <5> QED BY <2>1, <5>2 DEF Lost
      <4> QED BY <4>1, <4>2
    <3>4. Lost(changed)'
      BY <3>1, <3>3 DEF Lost
    <3>5. GoodRunning(changed)'
      BY <3>1, <3>2, <3>4 DEF GoodRunning, Known, Stale
    <3>6. changed \notin Answered
      BY <3>1 DEF Running, Answered
    <3> QED BY <2>3, <3>1, <3>5, <3>6 DEF GoodRow, GoodRunning, Known, Stale, Lost
  <2> QED BY <2>4, <2>5
<1> QED BY <1>1, <1>2, <1>9, <1>10, <1>12 DEF IInv

\* No step leaves the invariant.
LEMMA StepGood == IInv /\ [ReceiptsNext]_vars => IInv'
<1> SUFFICES ASSUME IInv, [ReceiptsNext]_vars PROVE IInv'
  OBVIOUS
<1>1. ASSUME NEW d \in Delivery, NEW op \in Operation, Arrive(d, op) PROVE IInv'
  BY <1>1, ArriveGood
<1>2. ASSUME NEW d \in Delivery, Serve(d) PROVE IInv'
  BY <1>2, ReadGood, ReadFailsGood, CommitGood, AuthorizeGood, ReplayGood DEF Serve
<1>3. ASSUME NEW d \in Delivery, Lose(d) \/ Leave(d) PROVE IInv'
  BY <1>3, IdleGood
<1>4. CASE Administer
  BY <1>4, TablesGood, RightsGood DEF Administer
<1>5. CASE FaultElsewhere \/ Tick
  BY <1>5, TablesGood
<1>6. CASE UNCHANGED vars
  <2>1. TypeOK' /\ Kept' /\ Remembered' /\ AtMostOnce' /\ (activeEpoch <= deployed)'
    BY <1>6 DEF IInv, TypeOK, Kept, Remembered, AtMostOnce, Stale, vars, settings, history
  <2>2. \A d \in Delivery : GoodRow(delivery[d])'
    BY <1>6 DEF IInv, GoodRow, GoodRunning, GoodAnswer, Known, Stale, Lost, vars, settings, history
  <2> QED BY <2>1, <2>2 DEF IInv
<1> QED BY <1>1, <1>2, <1>3, <1>4, <1>5, <1>6 DEF ReceiptsNext

-----------------------------------------------------------------------------
\* The invariant holds throughout.
LEMMA Invariance == ReceiptsSpec => []IInv
BY InitGood, StepGood, PTL DEF ReceiptsSpec

(* An operation's batch commits at most once, for every FreshFor, Skew and *)
(* retention of at least their sum, however often it arrives and whatever  *)
(* prune removes.                                                          *)
THEOREM CommitsOnce == ReceiptsSpec => []AtMostOnce
<1>1. IInv => AtMostOnce
  BY DEF IInv
<1> QED BY <1>1, Invariance, PTL

(* A delivery that answers with a result answers with its own operation's. *)
THEOREM AnswersAlike == ReceiptsSpec => []AnsweredAlike
<1>1. IInv => AnsweredAlike
  <2> SUFFICES ASSUME IInv, NEW d \in Delivery, At(d, "answered"), delivery[d].answer = "ok"
               PROVE  /\ delivery[d].op \in done
                      /\ \/ delivery[d].told = delivery[d].op
                         \/ delivery[d].told = NULL /\ ~Fresh(delivery[d].op)
    BY DEF AnsweredAlike
  <2>1. delivery[d] \in Answered /\ GoodAnswer(delivery[d])
    BY PhaseOfRow DEF IInv, TypeOK, Row, At, GoodRow
  <2>2. Stale(delivery[d].op) => ~Fresh(delivery[d].op)
    BY <2>1, ReceiptAssumption DEF Stale, Fresh, Answered, Operation, IInv, TypeOK
  <2> QED BY <2>1, <2>2 DEF GoodAnswer
<1> QED BY <1>1, Invariance, PTL

(* No receipt, and no batch, gives a result to a key that lost the right to *)
(* it before the delivery was decided.                                      *)
THEOREM RightsStayLost == ReceiptsSpec => []NoRightRestored
<1>1. IInv => NoRightRestored
  BY PhaseOfRow DEF IInv, TypeOK, Row, At, GoodRow, GoodAnswer, NoRightRestored
<1> QED BY <1>1, Invariance, PTL

-----------------------------------------------------------------------------
(* The Python client.                                                      *)

\* What a batch counts as acknowledged is done, and its results are its own.
Acknowledged(b) ==
  \A j \in 1 .. b.next : b.results[j] = b.ops[j] /\ b.ops[j] \in done

\* A call is about something.
CallHasOperation ==
  /\ calling = "claim" => pending # NULL
  /\ calling = "batch" => batch # NULL

\* The client waits only during a call, and for the operation of the call.
AwaitsCurrent ==
  awaiting # NULL =>
    /\ calling # "none"
    /\ delivery[awaiting] # Idle
    /\ delivery[awaiting].op = Current

ClientInv ==
  /\ IInv
  /\ ClientTypeOK
  /\ CallHasOperation
  /\ AwaitsCurrent
  /\ batch # NULL => Acknowledged(batch)
  /\ saved # NULL => Acknowledged(saved)

-----------------------------------------------------------------------------
(* A client's step is a step of the service's environment in Receipts. *)

\* The operation of a call is an operation.
LEMMA CurrentTyped == ClientInv /\ calling # "none" => Current \in Operation
<1> SUFFICES ASSUME ClientInv, calling # "none" PROVE Current \in Operation
  OBVIOUS
<1>1. CASE calling = "claim"
  BY <1>1 DEF ClientInv, ClientTypeOK, CallHasOperation, Current
<1>2. CASE calling = "batch"
  <2>1. batch \in Batch
    BY <1>2 DEF ClientInv, ClientTypeOK, CallHasOperation
  <2>2. batch.ops \in Seq(Operation) /\ batch.next + 1 \in 1 .. Len(batch.ops)
    BY <2>1 DEF Batch
  <2>3. batch.ops[batch.next + 1] \in Operation
    BY <2>2
  <2> QED BY <1>2, <2>3 DEF Current
<1> QED BY <1>1, <1>2 DEF ClientInv, ClientTypeOK

\* Send is Arrive, Receive is Leave, a crash and a time-out are faults elsewhere,
\* and the client's other steps leave the service as it is.
LEMMA StepOfService == ClientInv /\ [ClientNext]_allVars => [ReceiptsNext]_vars
<1> SUFFICES ASSUME ClientInv, [ClientNext]_allVars PROVE [ReceiptsNext]_vars
  OBVIOUS
<1>1. CASE Service
  BY <1>1 DEF Service, ReceiptsNext
<1>2. ASSUME NEW d \in Delivery, Send(d) PROVE ReceiptsNext
  BY <1>2, CurrentTyped DEF Send, ReceiptsNext
<1>3. CASE Receive
  <2>1. awaiting \in Delivery /\ Leave(awaiting)
    BY <1>3 DEF Receive, ClientInv, ClientTypeOK
  <2> QED BY <2>1 DEF ReceiptsNext
<1>4. CASE Crash \/ TimeOut
  BY <1>4 DEF Crash, TimeOut, ReceiptsNext
<1>5. CASE NewClaim \/ RetryClaim \/ ClaimNamed \/ CompleteMany \/ RetryCompletions
             \/ Save \/ Restore \/ Exhausted
  BY <1>5 DEF NewClaim, RetryClaim, ClaimNamed, CompleteMany, RetryCompletions, Save,
              Restore, Exhausted
<1>6. CASE UNCHANGED allVars
  BY <1>6 DEF allVars
<1> QED BY <1>1, <1>2, <1>3, <1>4, <1>5, <1>6 DEF ClientNext, Client

\* What was done stays done.
LEMMA DoneGrows == [ReceiptsNext]_vars => done \subseteq done'
<1> SUFFICES ASSUME [ReceiptsNext]_vars PROVE done \subseteq done'
  OBVIOUS
<1>1. ASSUME NEW d \in Delivery, Commit(d) PROVE done \subseteq done'
  BY <1>1 DEF Commit, Execute
<1>2. ASSUME NEW d \in Delivery, Serve(d), ~Commit(d) PROVE done' = done
  BY <1>2 DEF Serve, Authenticate, Resolve, Begin, RollBack, Reread, GiveUp, ReadFails,
              Authorize, Replay, history
<1>3. ASSUME NEW d \in Delivery, Lose(d) \/ Leave(d) \/ \E op \in Operation : Arrive(d, op)
      PROVE  done' = done
  BY <1>3 DEF Lose, Leave, Arrive, history
<1>4. CASE Administer \/ FaultElsewhere \/ Tick
  BY <1>4 DEF Administer, Prune, SetMaintenance, Deploy, Activate, Reconfigure, RevokeKey,
              FaultElsewhere, Tick, history
<1>5. CASE UNCHANGED vars
  BY <1>5 DEF vars, history
<1> QED BY <1>1, <1>2, <1>3, <1>4, <1>5 DEF ReceiptsNext

-----------------------------------------------------------------------------
(* The service keeps the operation that a delivery carries. *)

\* A delivery that is served goes on carrying its operation.
LEMMA ServeCarries ==
  ASSUME IInv, NEW d \in Delivery, Serve(d), NEW e \in Delivery, delivery[e] # Idle
  PROVE  delivery'[e] # Idle /\ delivery'[e].op = delivery[e].op
<1>1. delivery \in [Delivery -> Row]
  BY DEF IInv, TypeOK, Row
<1>2. delivery[d] \in Running
  BY <1>1, PhaseOfRow DEF Serve, Authenticate, Resolve, Begin, Commit, RollBack, Reread, GiveUp,
       ReadFails, Authorize, Replay, At, Phase
<1>3. PICK row : Set(d, row) /\ row # Idle /\ row.op = delivery[d].op
  <2>1. ASSUME NEW answer, NEW told, Reply(d, answer, told)
        PROVE  \E row : Set(d, row) /\ row # Idle /\ row.op = delivery[d].op
    BY <2>1 DEF Reply, Idle
  <2>2. ASSUME NEW row, Set(d, row), row.phase # "idle", row.op = delivery[d].op
        PROVE  \E r : Set(d, r) /\ r # Idle /\ r.op = delivery[d].op
    BY <2>2 DEF Idle
  <2>3. CASE Authenticate(d)
    <3> DEFINE row == [delivery[d] EXCEPT !.phase = "authenticated", !.status = key]
    <3>1. row.phase # "idle" /\ row.op = delivery[d].op
      BY <1>2 DEF Running
    <3> QED BY <2>1, <2>2, <2>3, <3>1 DEF Authenticate, Refuse
  <2>4. CASE Resolve(d)
    <3> DEFINE old == receipts[delivery[d].op.id]
               row == [delivery[d] EXCEPT !.phase = "resolved", !.config = config.revision,
                         !.scope = IF old = NULL THEN config.home ELSE old.scope]
    <3>1. row.phase # "idle" /\ row.op = delivery[d].op
      BY <1>2 DEF Running
    <3>2. Set(d, row)
      BY <2>4 DEF Resolve
    <3> QED BY <2>2, <3>1, <3>2
  <2>5. CASE Begin(d)
    <3> DEFINE old == receipts[delivery[d].op.id]
               row == [delivery[d] EXCEPT !.phase = "begun", !.existing = old,
                         !.scope = IF old = NULL THEN delivery[d].scope ELSE old.scope]
    <3>1. row.phase # "idle" /\ row.op = delivery[d].op
      BY <1>2 DEF Running
    <3>2. Set(d, row) \/ Refuse(d)
      BY <2>5 DEF Begin
    <3> QED BY <2>1, <2>2, <3>1, <3>2 DEF Refuse
  <2>6. ASSUME NEW failure, Set(d, [delivery[d] EXCEPT !.phase = "failed", !.failure = failure])
        PROVE  \E r : Set(d, r) /\ r # Idle /\ r.op = delivery[d].op
    <3> DEFINE row == [delivery[d] EXCEPT !.phase = "failed", !.failure = failure]
    <3>1. row.phase # "idle" /\ row.op = delivery[d].op
      BY <1>2 DEF Running
    <3> QED BY <2>2, <2>6, <3>1
  <2>7. CASE Commit(d)
    BY <2>1, <2>6, <2>7 DEF Commit
  <2>8. CASE RollBack(d)
    BY <2>6, <2>8 DEF RollBack
  <2>9. CASE Reread(d)
    <3> DEFINE row == [delivery[d] EXCEPT !.phase = "begun",
                                          !.existing = receipts[delivery[d].op.id]]
    <3>1. row.phase # "idle" /\ row.op = delivery[d].op
      BY <1>2 DEF Running
    <3>2. Set(d, row)
      BY <2>9 DEF Reread
    <3> QED BY <2>2, <3>1, <3>2
  <2>10. CASE GiveUp(d)
    <3> DEFINE row == [delivery[d] EXCEPT !.phase = "authenticated", !.again = TRUE,
                                          !.failure = "none"]
    <3>1. row.phase # "idle" /\ row.op = delivery[d].op
      BY <1>2 DEF Running
    <3>2. Set(d, row) \/ Refuse(d) \/ Reply(d, "later", NULL)
      BY <2>10 DEF GiveUp
    <3> QED BY <2>1, <2>2, <3>1, <3>2 DEF Refuse
  <2>11. CASE Authorize(d)
    <3> DEFINE row == [delivery[d] EXCEPT !.phase = "allowed"]
    <3>1. row.phase # "idle" /\ row.op = delivery[d].op
      BY <1>2 DEF Running
    <3>2. Set(d, row) \/ Refuse(d)
      BY <2>11 DEF Authorize, Move
    <3> QED BY <2>1, <2>2, <3>1, <3>2 DEF Refuse
  <2>12. CASE ReadFails(d) \/ Replay(d)
    BY <2>1, <2>12 DEF ReadFails, Replay, Refuse
  <2> QED BY <2>3, <2>4, <2>5, <2>7, <2>8, <2>9, <2>10, <2>11, <2>12 DEF Serve
<1>4. delivery'[e] = IF e = d THEN row ELSE delivery[e]
  BY <1>1, <1>3 DEF Set
<1> QED BY <1>3, <1>4

\* Revocations and new epochs mark deliveries; everything else leaves them alone.
LEMMA OthersCarry ==
  ASSUME IInv, Administer \/ Tick \/ FaultElsewhere, NEW e \in Delivery, delivery[e] # Idle
  PROVE  delivery'[e] # Idle /\ delivery'[e].op = delivery[e].op
<1>1. delivery[e] \in Row
  BY DEF IInv, TypeOK, Row
<1>2. \/ delivery'[e] = delivery[e]
      \/ Undecided(e) /\ delivery'[e] = [delivery[e] EXCEPT !.barred = TRUE]
  <2>1. CASE UNCHANGED delivery
    BY <2>1
  <2>2. CASE Activate \/ \E status \in {"soft", "hard"} : RevokeKey(status)
    BY <2>2 DEF Activate, RevokeKey, Bar
  <2> QED BY <2>1, <2>2 DEF Administer, Prune, SetMaintenance, Deploy, Reconfigure, Tick,
                            FaultElsewhere
<1> DEFINE row == [delivery[e] EXCEPT !.barred = TRUE]
<1>3. Undecided(e) => row # Idle /\ row.op = delivery[e].op
  BY <1>1, PhaseOfRow DEF Undecided, Running, Idle
<1> QED BY <1>2, <1>3

-----------------------------------------------------------------------------
(* The client's invariant: the steps that leave its call as it is. *)

\* The results of a batch stay acknowledged, for nothing that was done is undone.
LEMMA AcknowledgedStays ==
  ASSUME NEW b, Acknowledged(b), done \subseteq done'
  PROVE  Acknowledged(b)'
BY DEF Acknowledged

\* While the client's own variables do not change, all that matters is that the
\* delivery it waits for goes on carrying its operation.
LEMMA WaitingGood ==
  ASSUME ClientInv, IInv', done \subseteq done', UNCHANGED clientVars,
         awaiting # NULL => delivery'[awaiting] # Idle
                              /\ delivery'[awaiting].op = delivery[awaiting].op
  PROVE  ClientInv'
<1>1. ClientTypeOK' /\ CallHasOperation'
  BY DEF ClientInv, IInv, ClientTypeOK, CallHasOperation, clientVars
<1>2. Current' = Current
  BY DEF Current, clientVars
<1>3. AwaitsCurrent'
  BY <1>2 DEF ClientInv, AwaitsCurrent, clientVars
<1>4. (batch # NULL => Acknowledged(batch))' /\ (saved # NULL => Acknowledged(saved))'
  BY DEF ClientInv, clientVars, Acknowledged
<1> QED BY <1>1, <1>3, <1>4 DEF ClientInv

\* The service runs, loses what nobody waits for, or is administered.
LEMMA ServiceGood == ClientInv /\ IInv' /\ done \subseteq done' /\ Service => ClientInv'
<1> SUFFICES ASSUME ClientInv, IInv', done \subseteq done', Service PROVE ClientInv'
  OBVIOUS
<1>1. UNCHANGED clientVars
  BY DEF Service
<1>2. ASSUME awaiting # NULL
      PROVE  delivery'[awaiting] # Idle /\ delivery'[awaiting].op = delivery[awaiting].op
  <2>1. awaiting \in Delivery /\ delivery[awaiting] # Idle /\ IInv
    BY <1>2 DEF ClientInv, ClientTypeOK, AwaitsCurrent
  <2>2. ASSUME NEW d \in Delivery, Serve(d)
        PROVE  delivery'[awaiting] # Idle /\ delivery'[awaiting].op = delivery[awaiting].op
    BY <2>1, <2>2, ServeCarries
  <2>3. ASSUME NEW d \in Delivery, awaiting # d, Lose(d) \/ Leave(d)
        PROVE  delivery'[awaiting] = delivery[awaiting]
    BY <2>1, <2>3 DEF Lose, Leave, Set, IInv, TypeOK
  <2>4. CASE Administer \/ Tick
    BY <2>1, <2>4, OthersCarry
  <2> QED BY <2>1, <2>2, <2>3, <2>4 DEF Service
<1> QED BY <1>1, <1>2, WaitingGood

-----------------------------------------------------------------------------
(* The client's own steps. *)

\* A new id is free, and what is prepared with it is an operation.
LEMMA PreparedTyped ==
  ASSUME IInv, NEW n \in Nat, NewIds(n) # {}, NEW j \in 1 .. n,
         NEW action \in {"claim", "report"}, NEW offset \in Offset, NEW lease \in Nat
  PROVE  Prepare(Uuids(n)[j], action, offset, lease) \in Operation
<1>1. Uuids(n) \in NewIds(n)
  BY DEF Uuids
<1>2. Uuids(n)[j] \in Id
  BY <1>1 DEF NewIds
<1>3. (CHOOSE body \in Body : TRUE) \in Body
  BY ClientAssumption
<1>4. now + offset \in Int
  BY ClientAssumption DEF IInv, TypeOK
<1> QED BY <1>2, <1>3, <1>4 DEF Prepare, Operation

\* A call that begins waits for nothing yet.
LEMMA NothingAwaited ==
  ASSUME ClientInv, NEW what, Call(what)
  PROVE  calling = "none" /\ awaiting = NULL /\ calling' = what /\ tried' = FALSE
BY DEF Call, ClientInv, AwaitsCurrent

\* A claim under a new identifier.
LEMMA NewClaimGood == ClientInv /\ IInv' /\ NewClaim => ClientInv'
<1> SUFFICES ASSUME ClientInv, IInv', NewClaim PROVE ClientInv'
  OBVIOUS
<1>1. calling' = "claim" /\ tried' = FALSE /\ awaiting' = NULL
  BY NothingAwaited DEF NewClaim
<1>2. pending' \in Operation
  <2>1. PICK offset \in Offset : pending' = Prepare(Uuids(1)[1], "claim", offset, 0)
    BY DEF NewClaim
  <2>2. NewIds(1) # {} /\ IInv
    BY DEF NewClaim, ClientInv
  <2> QED BY <2>1, <2>2, PreparedTyped
<1>3. prepared' \in [Id -> Operation \cup {NULL}]
  <2>1. prepared \in [Id -> Operation \cup {NULL}]
    BY DEF ClientInv, ClientTypeOK
  <2>2. prepared' = [prepared EXCEPT ![pending'.id] = pending']
    BY DEF NewClaim
  <2> QED BY <1>2, <2>1, <2>2
<1>4. UNCHANGED <<vars, batch, saved, forgotten>>
  BY DEF NewClaim
<1>5. ClientTypeOK'
  BY <1>1, <1>2, <1>3, <1>4 DEF ClientInv, IInv, ClientTypeOK
<1>6. pending' # NULL
  BY <1>2, ReceiptAssumption
<1>7. CallHasOperation' /\ AwaitsCurrent'
  BY <1>1, <1>6 DEF CallHasOperation, AwaitsCurrent
<1>8. (batch # NULL => Acknowledged(batch))' /\ (saved # NULL => Acknowledged(saved))'
  BY <1>4 DEF ClientInv, Acknowledged, vars, history
<1> QED BY <1>5, <1>7, <1>8 DEF ClientInv

\* A claim under the identifier the client was told to repeat.
LEMMA ClaimNamedGood == ClientInv /\ IInv' /\ ClaimNamed => ClientInv'
<1> SUFFICES ASSUME ClientInv, IInv', ClaimNamed PROVE ClientInv'
  OBVIOUS
<1>1. calling' = "claim" /\ tried' = FALSE /\ awaiting' = NULL
  BY NothingAwaited DEF ClaimNamed
<1>2. pending' \in Operation
  <2>1. PICK i \in Id, body \in Body :
          prepared[i] # NULL /\ pending' = [prepared[i] EXCEPT !.body = body]
    BY DEF ClaimNamed
  <2>2. prepared[i] \in Operation
    BY <2>1 DEF ClientInv, ClientTypeOK
  <2> QED BY <2>1, <2>2 DEF Operation
<1>3. UNCHANGED <<vars, prepared, batch, saved, forgotten>>
  BY DEF ClaimNamed
<1>4. ClientTypeOK'
  BY <1>1, <1>2, <1>3 DEF ClientInv, IInv, ClientTypeOK
<1>5. pending' # NULL
  BY <1>2, ReceiptAssumption
<1>6. CallHasOperation' /\ AwaitsCurrent'
  BY <1>1, <1>5 DEF CallHasOperation, AwaitsCurrent
<1>7. (batch # NULL => Acknowledged(batch))' /\ (saved # NULL => Acknowledged(saved))'
  BY <1>3 DEF ClientInv, Acknowledged, vars, history
<1> QED BY <1>4, <1>6, <1>7 DEF ClientInv

\* A new batch has no results yet.
LEMMA CompleteManyGood == ClientInv /\ IInv' /\ CompleteMany => ClientInv'
<1> SUFFICES ASSUME ClientInv, IInv', CompleteMany PROVE ClientInv'
  OBVIOUS
<1>1. calling' = "batch" /\ tried' = FALSE /\ awaiting' = NULL
  BY NothingAwaited DEF CompleteMany
<1>2. PICK n \in 1 .. MaxBatch, length \in Length, offset \in Offset :
        /\ NewIds(n) # {}
        /\ LET ops == [j \in 1 .. n |-> Prepare(Uuids(n)[j], "report", offset, now + length)]
           IN  /\ batch' = [ops |-> ops, next |-> 0, results |-> << >>]
               /\ prepared' = [i \in Id |->
                    IF \E j \in 1 .. n : ops[j].id = i
                      THEN ops[CHOOSE j \in 1 .. n : ops[j].id = i] ELSE prepared[i]]
  BY DEF CompleteMany
<1> DEFINE ops == [j \in 1 .. n |-> Prepare(Uuids(n)[j], "report", offset, now + length)]
<1>3. n \in Nat \ {0} /\ now + length \in Nat
  BY ClientAssumption DEF ClientInv, IInv, TypeOK
<1>4. ops \in [1 .. n -> Operation]
  <2> SUFFICES ASSUME NEW j \in 1 .. n
               PROVE  Prepare(Uuids(n)[j], "report", offset, now + length) \in Operation
    OBVIOUS
  <2> QED BY <1>2, <1>3, PreparedTyped DEF ClientInv
<1>5. ops \in Seq(Operation) /\ Len(ops) = n
  BY <1>3, <1>4
<1>6. /\ batch' = [ops |-> ops, next |-> 0, results |-> << >>]
      /\ prepared' = [i \in Id |->
           IF \E j \in 1 .. n : ops[j].id = i
             THEN ops[CHOOSE j \in 1 .. n : ops[j].id = i] ELSE prepared[i]]
  BY <1>2
<1> HIDE DEF ops
<1>7. batch' \in Batch
  <2>1. << >> \in Seq(Operation) /\ Len(<< >>) = 0
    OBVIOUS
  <2>2. batch' \in [ops : Seq(Operation), next : Nat, results : Seq(Operation)]
    BY <1>5, <1>6, <2>1
  <2> QED BY <1>3, <1>5, <1>6, <2>1, <2>2 DEF Batch
<1>8. prepared' \in [Id -> Operation \cup {NULL}]
  <2> SUFFICES ASSUME NEW i \in Id
               PROVE  (IF \E j \in 1 .. n : ops[j].id = i
                         THEN ops[CHOOSE j \in 1 .. n : ops[j].id = i] ELSE prepared[i])
                        \in Operation \cup {NULL}
    BY <1>6
  <2>1. prepared[i] \in Operation \cup {NULL}
    BY DEF ClientInv, ClientTypeOK
  <2> QED BY <1>4, <2>1
<1>9. UNCHANGED <<vars, pending, saved, forgotten>>
  BY DEF CompleteMany
<1>10. ClientTypeOK'
  BY <1>1, <1>7, <1>8, <1>9 DEF ClientInv, IInv, ClientTypeOK
<1>11. batch' # NULL
  BY <1>7, ClientAssumption
<1>12. CallHasOperation' /\ AwaitsCurrent'
  BY <1>1, <1>11 DEF CallHasOperation, AwaitsCurrent
<1>13. Acknowledged(batch)'
  BY <1>6 DEF Acknowledged
<1>14. (saved # NULL => Acknowledged(saved))'
  BY <1>9 DEF ClientInv, Acknowledged, vars, history
<1> QED BY <1>10, <1>12, <1>13, <1>14 DEF ClientInv

\* Calls that send again what is pending, and the recovery data.
LEMMA AgainGood ==
  ASSUME ClientInv, IInv', RetryClaim \/ RetryCompletions \/ Save \/ Restore \/ Exhausted
  PROVE  ClientInv'
<1>1. UNCHANGED vars /\ UNCHANGED <<prepared, pending, forgotten>>
  BY DEF RetryClaim, RetryCompletions, Save, Restore, Exhausted
<1>2. batch' \in {batch, saved} /\ saved' \in {batch, saved}
  BY DEF RetryClaim, RetryCompletions, Save, Restore, Exhausted
<1>3. calling' \in {"claim", "batch", "none"} /\ tried' \in BOOLEAN /\ awaiting' = awaiting
  BY DEF RetryClaim, RetryCompletions, Save, Restore, Exhausted, Call, ClientInv, ClientTypeOK
<1>4. ClientTypeOK'
  BY <1>1, <1>2, <1>3 DEF ClientInv, IInv, ClientTypeOK
<1>5. CallHasOperation'
  BY DEF RetryClaim, RetryCompletions, Save, Restore, Exhausted, Call, ClientInv,
         CallHasOperation
<1>6. AwaitsCurrent'
  <2>1. CASE Save
    <3>1. Current' = Current /\ calling' = calling
      BY <2>1 DEF Save, Current
    <3> QED BY <1>1, <1>3, <3>1 DEF ClientInv, AwaitsCurrent, vars
  <2>2. CASE ~Save
    <3>1. awaiting' = NULL
      BY <2>2, NothingAwaited DEF RetryClaim, RetryCompletions, Restore, Exhausted
    <3> QED BY <3>1 DEF AwaitsCurrent
  <2> QED BY <2>1, <2>2
<1>7. ASSUME NEW b \in {batch, saved}, b # NULL PROVE Acknowledged(b)'
  BY <1>1, <1>7 DEF ClientInv, Acknowledged, vars, history
<1>8. (batch # NULL => Acknowledged(batch))' /\ (saved # NULL => Acknowledged(saved))'
  BY <1>2, <1>7 DEF Acknowledged
<1> QED BY <1>4, <1>5, <1>6, <1>8 DEF ClientInv

\* A crash and a time-out wait for nothing any more.
LEMMA FaultGood ==
  ASSUME ClientInv, IInv', Crash \/ TimeOut
  PROVE  ClientInv'
<1>1. awaiting' = NULL /\ done' = done /\ UNCHANGED <<prepared, saved, forgotten>>
  BY DEF Crash, TimeOut, FaultElsewhere, history
<1>2. \/ pending' = NULL /\ batch' = NULL /\ calling' = "none" /\ tried' = FALSE
      \/ UNCHANGED <<pending, batch, calling, tried>>
  BY DEF Crash, TimeOut
<1>3. ClientTypeOK'
  BY <1>1, <1>2 DEF ClientInv, IInv, ClientTypeOK
<1>4. CallHasOperation' /\ AwaitsCurrent'
  BY <1>1, <1>2 DEF ClientInv, CallHasOperation, AwaitsCurrent
<1>5. (batch # NULL => Acknowledged(batch))' /\ (saved # NULL => Acknowledged(saved))'
  BY <1>1, <1>2 DEF ClientInv, Acknowledged
<1> QED BY <1>3, <1>4, <1>5 DEF ClientInv

\* The delivery that is sent carries the operation of the call.
LEMMA SendGood ==
  ASSUME ClientInv, IInv', NEW d \in Delivery, Send(d)
  PROVE  ClientInv'
<1>1. awaiting' = d /\ tried' = TRUE /\ calling # "none"
      /\ UNCHANGED <<prepared, pending, batch, saved, calling, forgotten>>
  BY DEF Send
<1>2. done' = done
  BY DEF Send, Arrive, history
<1>3. delivery'[d].op = Current /\ delivery'[d].phase = "arrived"
  BY DEF Send, Arrive, Set, ClientInv, IInv, TypeOK
<1>4. delivery'[d] # Idle
  BY <1>3 DEF Idle
<1>5. Current' = Current
  BY <1>1 DEF Current
<1>6. CallHasOperation' /\ AwaitsCurrent'
  BY <1>1, <1>3, <1>4, <1>5 DEF ClientInv, CallHasOperation, AwaitsCurrent
<1>7. ClientTypeOK'
  BY <1>1 DEF ClientInv, IInv, ClientTypeOK
<1>8. (batch # NULL => Acknowledged(batch))' /\ (saved # NULL => Acknowledged(saved))'
  BY <1>1, <1>2 DEF ClientInv, Acknowledged
<1> QED BY <1>6, <1>7, <1>8 DEF ClientInv

-----------------------------------------------------------------------------
(* Answers. *)

\* An answer to a request of a batch with results in it has the results of that
\* request, which has been done.
LEMMA AnswerIsDone ==
  ASSUME ClientInv, awaiting # NULL, At(awaiting, "answered"), calling = "batch",
         delivery[awaiting].answer = "ok"
  PROVE  /\ batch \in Batch /\ Acknowledged(batch)
         /\ batch.ops[batch.next + 1] \in Operation \cap done
         /\ delivery[awaiting].told \in {NULL, batch.ops[batch.next + 1]}
<1>1. batch \in Batch /\ Acknowledged(batch)
  BY DEF ClientInv, ClientTypeOK, CallHasOperation
<1>2. awaiting \in Delivery /\ delivery[awaiting].op = batch.ops[batch.next + 1]
  BY DEF ClientInv, ClientTypeOK, AwaitsCurrent, Current
<1>3. delivery[awaiting] \in Answered /\ GoodAnswer(delivery[awaiting])
  BY <1>2, PhaseOfRow DEF ClientInv, IInv, TypeOK, Row, At, GoodRow
<1> QED BY <1>1, <1>2, <1>3 DEF GoodAnswer, Answered

\* One more request of the batch is acknowledged, with its own results.
LEMMA BatchGoesOn ==
  ASSUME NEW b \in Batch, Acknowledged(b), NEW next, next = b.next + 1, next # Len(b.ops),
         NEW op, op = b.ops[next], op \in Operation \cap done,
         NEW further, further = [b EXCEPT !.next = next, !.results = Append(@, op)]
  PROVE  further \in Batch /\ Acknowledged(further)
<1>1. /\ b.ops \in Seq(Operation) /\ b.results \in Seq(Operation) /\ b.next \in Nat
      /\ b.next < Len(b.ops) /\ Len(b.results) = b.next /\ Len(b.ops) \in Nat
  BY DEF Batch
<1>2. further = [ops |-> b.ops, next |-> next, results |-> Append(b.results, op)]
  BY DEF Batch
<1>3. /\ Append(b.results, op) \in Seq(Operation)
      /\ Len(Append(b.results, op)) = next
      /\ Append(b.results, op)[next] = op
      /\ \A j \in 1 .. b.next : Append(b.results, op)[j] = b.results[j]
  BY <1>1
<1>4. further \in [ops : Seq(Operation), next : Nat, results : Seq(Operation)]
  <2>1. next \in Nat
    BY <1>1
  <2> QED BY <1>1, <1>2, <1>3, <2>1
<1>5. next < Len(b.ops)
  BY <1>1
<1>6. further \in Batch
  BY <1>2, <1>3, <1>4, <1>5 DEF Batch
<1>7. ASSUME NEW j \in 1 .. next
      PROVE  Append(b.results, op)[j] = b.ops[j] /\ b.ops[j] \in done
  <2>1. CASE j = next
    BY <1>3, <2>1
  <2>2. CASE j # next
    <3>1. j \in 1 .. b.next
      BY <1>1, <2>2
    <3> QED BY <1>3, <3>1 DEF Acknowledged
  <2> QED BY <2>1, <2>2
<1> QED BY <1>2, <1>6, <1>7 DEF Acknowledged

\* What is heard of a completion: nothing, the last results, or the next ones.
LEMMA HeardCompletion ==
  ASSUME ClientInv, awaiting # NULL, At(awaiting, "answered"), HearCompletion
  PROVE  /\ pending' = pending /\ forgotten' = forgotten
         /\ \/ calling' = "none" /\ batch' = batch
            \/ /\ calling' = "none" /\ batch' = NULL
               /\ Acknowledged(batch) /\ batch.ops[batch.next + 1] \in done
               /\ delivery[awaiting].told = batch.ops[batch.next + 1]
               /\ batch \in Batch /\ batch.next + 1 = Len(batch.ops)
            \/ calling' = "batch" /\ batch' \in Batch /\ Acknowledged(batch')
<1>1. calling = "batch" /\ delivery[awaiting].answer = "ok"
  BY DEF HearCompletion
<1>2. /\ batch \in Batch /\ Acknowledged(batch)
      /\ batch.ops[batch.next + 1] \in Operation \cap done
      /\ delivery[awaiting].told \in {NULL, batch.ops[batch.next + 1]}
  BY <1>1, AnswerIsDone
<1> DEFINE told == delivery[awaiting].told
           next == batch.next + 1
<1>3. CASE told = NULL
  BY <1>3 DEF HearCompletion
<1>4. CASE told # NULL /\ next = Len(batch.ops)
  BY <1>2, <1>4 DEF HearCompletion
<1>5. CASE told # NULL /\ next # Len(batch.ops)
  <2>1. calling' = "batch"
        /\ batch' = [batch EXCEPT !.next = next, !.results = Append(@, told)]
    BY <1>5 DEF HearCompletion
  <2>2. told = batch.ops[next] /\ told \in Operation \cap done
    BY <1>2, <1>5
  <2> HIDE DEF told, next
  <2>3. batch' \in Batch /\ Acknowledged(batch')
    BY <1>2, <1>5, <2>1, <2>2, BatchGoesOn DEF next
  <2> QED BY <2>1, <2>3 DEF HearCompletion
<1> QED BY <1>3, <1>4, <1>5

\* An answer that reaches the client.
LEMMA ReceiveGood == ClientInv /\ IInv' /\ Receive => ClientInv'
<1> SUFFICES ASSUME ClientInv, IInv', Receive PROVE ClientInv'
  OBVIOUS
<1>1. /\ awaiting # NULL /\ At(awaiting, "answered") /\ awaiting' = NULL /\ done' = done
      /\ UNCHANGED <<prepared, saved, tried>>
  BY DEF Receive, Leave, history
<1>2. calling # "none"
  BY <1>1 DEF ClientInv, AwaitsCurrent
<1>3. /\ pending' \in {pending, NULL}
      /\ forgotten' \subseteq forgotten \cup ({pending} \ {NULL})
      /\ calling' \in {"claim", "batch", "none"}
      /\ calling' = "claim" => pending' # NULL
      /\ calling' = "batch" => batch' # NULL
      /\ batch' = batch \/ batch' = NULL \/ (batch' \in Batch /\ Acknowledged(batch'))
  <2>1. CASE HearLater \/ HearClaim \/ HearRefusal \/ HearRejection
    BY <2>1 DEF HearLater, HearClaim, HearRefusal, HearRejection, ClientInv, ClientTypeOK,
                CallHasOperation
  <2>2. CASE HearCompletion
    <3>1. batch' \in Batch => batch' # NULL
      BY ClientAssumption
    <3> QED BY <1>1, <2>2, <3>1, HeardCompletion
  <2> QED BY <2>1, <2>2 DEF Receive
<1>4. forgotten' \subseteq Operation
  BY <1>3 DEF ClientInv, ClientTypeOK
<1>5. ClientTypeOK'
  BY <1>1, <1>3, <1>4 DEF ClientInv, IInv, ClientTypeOK
<1>6. CallHasOperation' /\ AwaitsCurrent'
  BY <1>1, <1>3 DEF CallHasOperation, AwaitsCurrent
<1>7. (batch # NULL => Acknowledged(batch))' /\ (saved # NULL => Acknowledged(saved))'
  BY <1>1, <1>3 DEF ClientInv, Acknowledged
<1> QED BY <1>5, <1>6, <1>7 DEF ClientInv

-----------------------------------------------------------------------------
\* The client and the broker start within the invariant.
LEMMA ClientInitGood == ClientInit => ClientInv
<1> SUFFICES ASSUME ClientInit PROVE ClientInv
  OBVIOUS
<1>1. IInv
  BY InitGood DEF ClientInit
<1>2. ClientTypeOK
  BY <1>1 DEF ClientInit, ClientTypeOK, IInv
<1> QED BY <1>1, <1>2 DEF ClientInit, ClientInv, CallHasOperation, AwaitsCurrent

\* No step of either leaves the invariant.
LEMMA ClientStepGood == ClientInv /\ [ClientNext]_allVars => ClientInv'
<1> SUFFICES ASSUME ClientInv, [ClientNext]_allVars PROVE ClientInv'
  OBVIOUS
<1>1. [ReceiptsNext]_vars
  BY StepOfService
<1>2. IInv' /\ done \subseteq done'
  BY <1>1, StepGood, DoneGrows DEF ClientInv
<1>3. CASE Service
  BY <1>2, <1>3, ServiceGood
<1>4. CASE NewClaim \/ ClaimNamed \/ CompleteMany
  BY <1>2, <1>4, NewClaimGood, ClaimNamedGood, CompleteManyGood
<1>5. CASE RetryClaim \/ RetryCompletions \/ Save \/ Restore \/ Exhausted
  BY <1>2, <1>5, AgainGood
<1>6. CASE Crash \/ TimeOut
  BY <1>2, <1>6, FaultGood
<1>7. CASE Receive
  BY <1>2, <1>7, ReceiveGood
<1>8. ASSUME NEW d \in Delivery, Send(d) PROVE ClientInv'
  BY <1>2, <1>8, SendGood
<1>9. CASE UNCHANGED allVars
  <2>1. UNCHANGED clientVars /\ delivery' = delivery
    BY <1>9 DEF allVars, vars
  <2>2. awaiting # NULL => delivery[awaiting] # Idle
    BY DEF ClientInv, AwaitsCurrent
  <2> QED BY <1>2, <2>1, <2>2, WaitingGood
<1> QED BY <1>3, <1>4, <1>5, <1>6, <1>7, <1>8, <1>9 DEF ClientNext, Client

\* The invariant holds throughout.
LEMMA ClientInvariance == ClientSafety => []ClientInv
BY ClientInitGood, ClientStepGood, PTL DEF ClientSafety

(* The client's variables keep their types: what it waits with is an       *)
(* operation, and a batch always has a next request and the results of     *)
(* exactly those before it, also when it was restored.  (from_dict.)       *)
THEOREM ClientTypes == ClientSpec => []ClientTypeOK
<1>1. ClientInv => ClientTypeOK
  BY DEF ClientInv
<1> QED BY <1>1, ClientInvariance, PTL DEF ClientSpec, ClientSafety

(* The client with the service is an implementation of Receipts: it sends  *)
(* only operations, to free deliveries, and takes only answers.            *)
THEOREM ClientSendsOperations == ClientSpec => ReceiptsSpec
<1>1. ClientInit => Init
  BY DEF ClientInit
<1> QED BY <1>1, StepOfService, ClientInvariance, PTL DEF ClientSpec, ClientSafety, ReceiptsSpec

(* Through the client too, with its retries, repeated names, crashes and   *)
(* restored batches, an operation commits at most once.                    *)
THEOREM ClientCommitsOnce == ClientSpec => []AtMostOnce
BY ClientSendsOperations, CommitsOnce, PTL

(* What a call of complete_many or retry_completions returns has been      *)
(* done, and the results are those of its requests, in order.              *)
THEOREM CompletedBatches == ClientSpec => CompletedIsDone
<1> DEFINE Returns == batch # NULL /\ batch' = NULL /\ UNCHANGED faults
           Done == /\ Range(batch.ops) \subseteq done
                   /\ Append(batch.results, delivery[awaiting].told) = batch.ops
<1>1. ClientInv /\ [ClientNext]_allVars => [Returns => Done]_allVars
  <2> SUFFICES ASSUME ClientInv, ClientNext, Returns PROVE Done
    OBVIOUS
  <2>1. Receive /\ HearCompletion
    <3>1. ~Crash /\ ~TimeOut
      BY DEF Crash, TimeOut, FaultElsewhere, ClientInv, IInv, TypeOK
    <3>2. ~CompleteMany
      BY ClientAssumption DEF CompleteMany
    <3>3. batch' # batch
      OBVIOUS
    <3> QED BY <3>1, <3>2, <3>3 DEF ClientNext, Client, Service, clientVars, NewClaim,
          RetryClaim, ClaimNamed, CompleteMany, RetryCompletions, Save, Restore, Exhausted,
          Send, Receive, HearLater, HearClaim, HearRefusal, HearRejection
  <2>2. /\ Acknowledged(batch) /\ batch.ops[batch.next + 1] \in done
        /\ delivery[awaiting].told = batch.ops[batch.next + 1]
        /\ batch \in Batch /\ batch.next + 1 = Len(batch.ops)
    <3>1. awaiting # NULL /\ At(awaiting, "answered") /\ batch' \notin Batch
      BY <2>1, ClientAssumption DEF Receive
    <3>2. batch' # batch
      OBVIOUS
    <3> QED BY <2>1, <3>1, <3>2, HeardCompletion
  <2>3. /\ batch.ops \in Seq(Operation) /\ batch.results \in Seq(Operation)
        /\ Len(batch.results) = batch.next /\ batch.next \in Nat
    BY <2>2 DEF Batch
  <2>4. \A j \in 1 .. Len(batch.ops) : batch.ops[j] \in done
    BY <2>2, <2>3 DEF Acknowledged
  <2>5. Range(batch.ops) \subseteq done
    BY <2>3, <2>4 DEF Range
  <2>6. Append(batch.results, delivery[awaiting].told) = batch.ops
    <3> DEFINE all == Append(batch.results, batch.ops[batch.next + 1])
    <3>1. all \in Seq(Operation) /\ Len(all) = Len(batch.ops)
      BY <2>2, <2>3
    <3>2. \A j \in 1 .. Len(batch.ops) : all[j] = batch.ops[j]
      BY <2>2, <2>3 DEF Acknowledged
    <3> HIDE DEF all
    <3>3. all = batch.ops
      BY <2>3, <3>1, <3>2
    <3> QED BY <2>2, <3>3 DEF all
  <2> QED BY <2>5, <2>6
<1> QED BY <1>1, ClientInvariance, PTL DEF ClientSpec, ClientSafety, CompletedIsDone
=============================================================================
