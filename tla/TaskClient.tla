----------------------------- MODULE TaskClient -----------------------------
(***************************************************************************)
(* The Python client of task_pool.py against the service of Receipts: the  *)
(* pending claim, the pending completions, the retries of _request, and    *)
(* the recovery data a program saves and restores after a crash.           *)
(*                                                                         *)
(* The client waits for one delivery at a time.  A delivery it no longer   *)
(* waits for goes on at the service, is lost on its way there, or answers  *)
(* nobody.                                                                 *)
(***************************************************************************)
EXTENDS Receipts, Sequences, Functions

CONSTANTS
  Offset,      \* errors of the client's clock
  Length,      \* how long leases have still to run when they are reported on
  MaxBatch     \* requests of one complete_many

\* What from_dict validates: the progress lies within the batch, and there are
\* results for exactly the acknowledged requests.
Batch ==
  {b \in [ops : Seq(Operation), next : Nat, results : Seq(Operation)] :
     b.next < Len(b.ops) /\ Len(b.results) = b.next}

ASSUME ClientAssumption ==
  /\ Body # {}
  /\ Offset \subseteq Int /\ Length \subseteq Nat
  /\ MaxBatch \in Nat
  /\ NULL \notin Batch

VARIABLES
  prepared,    \* ids in use, and the operation each was prepared for
  pending,     \* TaskClient.pending_claim
  batch,       \* TaskClient.pending_completions
  saved,       \* recovery data of a batch, written by the program at some time
  calling,     \* the call in progress: "claim", "batch" or "none"
  tried,       \* whether the call has sent its request since it began
  awaiting,    \* the delivery whose answer _transport waits for
  forgotten    \* history: claims dropped for a definite error

clientVars == <<prepared, pending, batch, saved, calling, tried, awaiting, forgotten>>
allVars == <<vars, clientVars>>

-----------------------------------------------------------------------------
ClientTypeOK ==
  /\ TypeOK
  /\ prepared \in [Id -> Operation \cup {NULL}]
  /\ pending \in Operation \cup {NULL}
  /\ batch \in Batch \cup {NULL} /\ saved \in Batch \cup {NULL}
  /\ calling \in {"claim", "batch", "none"} /\ tried \in BOOLEAN
  /\ awaiting \in Delivery \cup {NULL}
  /\ forgotten \subseteq Operation

ClientInit ==
  /\ Init
  /\ prepared = [i \in Id |-> NULL]
  /\ pending = NULL /\ batch = NULL /\ saved = NULL
  /\ calling = "none" /\ tried = FALSE /\ awaiting = NULL
  /\ forgotten = {}

\* The operation that the call in progress sends.
Current == IF calling = "claim" THEN pending ELSE batch.ops[batch.next + 1]

(* prepare: new ids, whichever they are, the client's idea of the time,    *)
(* and what the caller asks for: a claim of another body comes with        *)
(* ClaimNamed, and requests of a batch differ by their items.              *)
NewIds(n) ==
  {ids \in [1 .. n -> {i \in Id : prepared[i] = NULL}] : IsInjective(ids)}

Uuids(n) == CHOOSE ids \in NewIds(n) : TRUE

Prepare(i, action, offset, lease) ==
  [id |-> i, action |-> action, body |-> CHOOSE body \in Body : TRUE, created |-> now + offset, lease |-> lease]

\* Bound of the model: a behaviour is about claims or about completions, which
\* meet nowhere but in the service's tables.
Only(action) == \A i \in Id : prepared[i] # NULL => prepared[i].action = action

\* Bound of the model: a behaviour with administration in it is about one id.
Bounded == Kinds = {} \/ Cardinality({i \in Id : prepared[i] # NULL}) <= 1

Call(what) == calling = "none" /\ calling' = what /\ tried' = FALSE

-----------------------------------------------------------------------------
(* claim while none is pending. *)
NewClaim ==
  /\ Call("claim")
  /\ pending = NULL /\ NewIds(1) # {} /\ Only("claim")
  /\ \E offset \in Offset : pending' = Prepare(Uuids(1)[1], "claim", offset, 0)
  /\ prepared' = [prepared EXCEPT ![pending'.id] = pending']
  /\ UNCHANGED <<vars, batch, saved, awaiting, forgotten>>
  /\ Bounded'

(* claim while one is pending: that one is sent again.  Other parameters   *)
(* are refused as long as it is unresolved.                                *)
RetryClaim ==
  /\ Call("claim")
  /\ pending # NULL
  /\ UNCHANGED <<vars, prepared, pending, batch, saved, awaiting, forgotten>>

(* claim with request_id: the caller names an id that it has logged, and   *)
(* may get the rest wrong.  It takes the place of any pending claim.       *)
ClaimNamed ==
  /\ Call("claim")
  /\ \E i \in Id, body \in Body :
       /\ prepared[i] # NULL /\ prepared[i].action = "claim"
       /\ pending' = [prepared[i] EXCEPT !.body = body]
  /\ UNCHANGED <<vars, prepared, batch, saved, awaiting, forgotten>>

(* complete_many: every request is prepared before the first is sent.  The *)
(* leases end at some time of their own.                                   *)
CompleteMany ==
  /\ Call("batch")
  /\ batch = NULL /\ Only("report")
  /\ \E n \in 1 .. MaxBatch, length \in Length, offset \in Offset :
       /\ NewIds(n) # {}
       /\ LET ops == [j \in 1 .. n |-> Prepare(Uuids(n)[j], "report", offset, now + length)]
          IN  /\ batch' = [ops |-> ops, next |-> 0, results |-> << >>]
              /\ prepared' = [i \in Id |->
                   IF \E j \in 1 .. n : ops[j].id = i
                     THEN ops[CHOOSE j \in 1 .. n : ops[j].id = i] ELSE prepared[i]]
  /\ UNCHANGED <<vars, pending, saved, awaiting, forgotten>>
  /\ Bounded'

\* retry_completions, or complete_many repeated with the same input.
RetryCompletions ==
  /\ Call("batch")
  /\ batch # NULL
  /\ UNCHANGED <<vars, prepared, pending, batch, saved, awaiting, forgotten>>

\* PendingCompletions.to_dict, kept by the program.
Save ==
  /\ batch # NULL /\ saved # batch
  /\ saved' = batch
  /\ UNCHANGED <<vars, prepared, pending, batch, calling, tried, awaiting, forgotten>>

(* The program dies; the next one has what was saved, which may be older   *)
(* than what was done, and the ids in its log.                             *)
Crash ==
  /\ FaultElsewhere
  /\ pending' = NULL /\ batch' = NULL
  /\ calling' = "none" /\ tried' = FALSE /\ awaiting' = NULL
  /\ UNCHANGED <<prepared, saved, forgotten>>

\* PendingCompletions.from_dict, and retry_completions with its result.
Restore ==
  /\ Call("batch")
  /\ batch = NULL /\ saved # NULL
  /\ batch' = saved
  /\ UNCHANGED <<vars, prepared, pending, saved, awaiting, forgotten>>

-----------------------------------------------------------------------------
(* _transport posts the exact body of the pending operation. *)
Free == {d \in Delivery : At(d, "idle")}

Send(d) ==
  /\ calling # "none" /\ awaiting = NULL
  /\ Free # {} /\ d = CHOOSE free \in Free : TRUE
  /\ Arrive(d, Current)
  /\ awaiting' = d /\ tried' = TRUE
  /\ UNCHANGED <<prepared, pending, batch, saved, calling, forgotten>>

(* The connection fails or times out. *)
TimeOut ==
  /\ awaiting # NULL
  /\ FaultElsewhere
  /\ awaiting' = NULL
  /\ UNCHANGED <<prepared, pending, batch, saved, calling, tried, forgotten>>

(* The retry budget is used up: UncertainOperation, and what is pending    *)
(* stays so.                                                               *)
Exhausted ==
  /\ calling # "none" /\ tried /\ awaiting = NULL
  /\ calling' = "none"
  /\ UNCHANGED <<vars, prepared, pending, batch, saved, tried, awaiting, forgotten>>

\* An answer that claims to be retryable: _request sleeps and goes on.
HearLater ==
  /\ delivery[awaiting].answer = "later"
  /\ UNCHANGED <<pending, batch, calling, forgotten>>

\* claim returns its tasks.
HearClaim ==
  /\ calling = "claim" /\ delivery[awaiting].answer = "ok"
  /\ pending' = NULL /\ calling' = "none"
  /\ UNCHANGED <<batch, forgotten>>

\* Mutation: the pending claim is kept, whatever the error.
HearRefusalAndKeep ==
  /\ calling = "claim" /\ delivery[awaiting].answer = "refused"
  /\ calling' = "none"
  /\ UNCHANGED <<pending, batch, forgotten>>

\* A TaskError that is not uncertain: claim forgets the operation.
HearRefusal ==
  /\ calling = "claim" /\ delivery[awaiting].answer = "refused"
  /\ forgotten' = forgotten \cup {pending}
  /\ pending' = NULL /\ calling' = "none"
  /\ UNCHANGED batch

\* Mutation: the response is not compared with the request.
HearCompletionUnchecked ==
  /\ calling = "batch" /\ delivery[awaiting].answer = "ok"
  /\ LET next == batch.next + 1
     IN  IF next = Len(batch.ops)
           THEN batch' = NULL /\ calling' = "none"
           ELSE /\ batch' = [batch EXCEPT !.next = next, !.results = Append(@, delivery[awaiting].told)]
                /\ calling' = "batch"
  /\ UNCHANGED <<pending, forgotten>>

\* Mutation: the request is counted and its results are not kept.
HearCompletionWithoutResults ==
  /\ calling = "batch" /\ delivery[awaiting].answer = "ok"
  /\ LET next == batch.next + 1
     IN  IF next = Len(batch.ops)
           THEN batch' = NULL /\ calling' = "none"
           ELSE batch' = [batch EXCEPT !.next = next] /\ calling' = "batch"
  /\ UNCHANGED <<pending, forgotten>>

\* retry_completions checks the response item by item and counts the request.
HearCompletion ==
  /\ calling = "batch" /\ delivery[awaiting].answer = "ok"
  /\ IF delivery[awaiting].told = NULL
       THEN calling' = "none" /\ UNCHANGED batch
       ELSE LET next == batch.next + 1
            IN  IF next = Len(batch.ops)
                  THEN batch' = NULL /\ calling' = "none"
                  ELSE /\ batch' = [batch EXCEPT !.next = next,
                            !.results = Append(@, delivery[awaiting].told)]
                       /\ calling' = "batch"
  /\ UNCHANGED <<pending, forgotten>>

\* The error of a completion leaves all that is pending in place.
HearRejection ==
  /\ calling = "batch" /\ delivery[awaiting].answer = "refused"
  /\ calling' = "none"
  /\ UNCHANGED <<pending, batch, forgotten>>

Receive ==
  /\ awaiting # NULL /\ At(awaiting, "answered")
  /\ HearLater \/ HearClaim \/ HearRefusal \/ HearCompletion \/ HearRejection
  /\ Leave(awaiting)
  /\ awaiting' = NULL
  /\ UNCHANGED <<prepared, saved, tried>>

-----------------------------------------------------------------------------
Service ==
  /\ UNCHANGED clientVars
  /\ \/ \E d \in Delivery : Serve(d) \/ (awaiting # d /\ (Lose(d) \/ Leave(d)))
     \/ Administer /\ Bounded'
     \/ Tick

Client ==
  \/ NewClaim \/ RetryClaim \/ ClaimNamed
  \/ CompleteMany \/ RetryCompletions \/ Save \/ Crash \/ Restore
  \/ TimeOut \/ Exhausted \/ Receive
  \/ \E d \in Delivery : Send(d)

ClientNext == Service \/ Client

(* Workers of the service and the client's own loop go on running; the     *)
(* program repeats a claim that is pending.  Lost answers and failing      *)
(* queries are bounded by MaxFaults.                                       *)
ClientFairness ==
  /\ \A d \in Delivery :
       /\ WF_allVars((Serve(d) \/ (awaiting # d /\ Leave(d))) /\ UNCHANGED clientVars)
       /\ WF_allVars(Send(d))
  /\ WF_allVars(Receive)
  /\ WF_allVars(Exhausted)
  /\ SF_allVars(RetryClaim)

ClientSafety == ClientInit /\ [][ClientNext]_allVars

ClientSpec == ClientInit /\ [][ClientNext]_allVars /\ ClientFairness

-----------------------------------------------------------------------------
(* CompletedIsDone: when complete_many or retry_completions returns, each  *)
(* of its requests has been done, and the results it returns are theirs,   *)
(* in order, whatever was lost, refused, repeated or restored from an      *)
(* older snapshot before.  (next_batch and results of retry_completions.)  *)
CompletedIsDone ==
  [][batch # NULL /\ batch' = NULL /\ UNCHANGED faults =>
       /\ Range(batch.ops) \subseteq done
       /\ Append(batch.results, delivery[awaiting].told) = batch.ops]_allVars

(* PendingClaimResolves: a claim whose outcome is uncertain does not stay  *)
(* so for ever: repeated, it is answered with its result or refused for    *)
(* good.  (UncertainOperation and pending_claim.)                          *)
PendingClaimResolves == pending # NULL ~> pending = NULL

(* ForgottenIsDead: a claim that the client has forgotten, so that its     *)
(* next claim takes a new id, has not been done and will not be.           *)
(* (SPECIFICATION: never replace a claim id to hide an uncertain result.)  *)
ForgottenIsDead == forgotten \cap done = {}
=============================================================================
