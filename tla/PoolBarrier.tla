----------------------------- MODULE PoolBarrier -----------------------------
(***************************************************************************)
(* What a change of a pool's schema promises, without operations, items,   *)
(* reviews and requests.  The pool is a barrier: while it is open, all     *)
(* that happens in it happens under the one contract in force; to change   *)
(* the contract it closes, every task crosses to the new contract, once    *)
(* and without a lease, and it opens again behind the last of them.        *)
(***************************************************************************)
CONSTANTS
  Task,
  Contract,
  First,       \* the contract the pool began with
  NULL

VARIABLES
  status,      \* "ready" or "migrating"
  contract,    \* the contract in force
  target,      \* the contract of the migration, NULL in an open pool
  inputs,      \* the contract a task's inputs follow, NULL when there is no task
  leased       \* the contract an attempt at a task was leased under, or NULL

barrierVars == <<status, contract, target, inputs, leased>>

Init ==
  /\ status = "ready" /\ contract = First /\ target = NULL
  /\ inputs \in [Task -> {First, NULL}]
  /\ leased = [t \in Task |-> NULL]

\* Tasks are created, edited and leased, all under the contract in force.
Serve ==
  /\ status = "ready"
  /\ DOMAIN inputs' = Task /\ DOMAIN leased' = Task
  /\ \A t \in Task :
       /\ inputs'[t] = inputs[t] \/ inputs'[t] = contract
       /\ leased'[t] \in {leased[t], contract, NULL}
       /\ leased'[t] # NULL => inputs'[t] # NULL
  /\ UNCHANGED <<status, contract, target>>

\* Leases may be lost at any time.
GiveUp ==
  /\ DOMAIN leased' = Task
  /\ \A t \in Task : leased'[t] \in {leased[t], NULL}
  /\ UNCHANGED <<status, contract, target, inputs>>

Close(next) ==
  /\ status = "ready" /\ next # contract
  /\ status' = "migrating" /\ target' = next
  /\ UNCHANGED <<contract, inputs, leased>>

\* Tasks cross to the new contract, and what was leased is fenced off.
Cross(S) ==
  /\ status = "migrating"
  /\ \A t \in S : inputs[t] = contract
  /\ inputs' = [t \in Task |-> IF t \in S THEN target ELSE inputs[t]]
  /\ leased' = [t \in Task |-> IF t \in S THEN NULL ELSE leased[t]]
  /\ UNCHANGED <<status, contract, target>>

\* Every task has crossed, and nobody holds one.
Open ==
  /\ status = "migrating"
  /\ \A t \in Task : inputs[t] \in {target, NULL} /\ leased[t] = NULL
  /\ status' = "ready" /\ contract' = target /\ target' = NULL
  /\ UNCHANGED <<inputs, leased>>

Next ==
  \/ Serve
  \/ GiveUp
  \/ \E next \in Contract : Close(next)
  \/ \E S \in SUBSET Task : Cross(S)
  \/ Open

Spec == Init /\ [][Next]_barrierVars
=============================================================================
