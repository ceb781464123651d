--------------------------- MODULE TaskAuthority ---------------------------
(***************************************************************************)
(* What the broker promises for each task, without tables, clocks, keys or *)
(* epochs.  Attempts are numbered in the order they are granted; at most   *)
(* one of them, the last one granted, has the authority to decide the      *)
(* task, and it loses it for good: by its one outcome, by a later grant or *)
(* by being fenced off.  A task is open until a success is accepted, and   *)
(* only the attempt in authority over an open task can have one accepted.  *)
(***************************************************************************)
EXTENDS Naturals

CONSTANT Task

VARIABLE lease    \* for each task, a record of LeaseState

LeaseState ==
  [issued : Nat,            \* attempts granted so far
   authority : Nat,         \* the attempt that may decide the task, or 0
   accepted : SUBSET Nat,   \* the attempts whose success was accepted
   open : BOOLEAN]

\* A worker is given the next attempt; an earlier one is superseded.
Grant(old, new) ==
  /\ old.open
  /\ new = [issued |-> old.issued + 1, authority |-> old.issued + 1,
            accepted |-> old.accepted, open |-> TRUE]

\* The attempt in authority has its success accepted, which closes the task.
Succeed(old, new) ==
  /\ old.authority # 0
  /\ old.open
  /\ new = [issued |-> old.issued, authority |-> 0,
            accepted |-> old.accepted \cup {old.authority}, open |-> FALSE]

\* The authority ends without a success: the attempt releases the task or
\* fails for good, or an administrator, a revoked key or a new epoch takes it
\* away.  An administrator who takes it away may open the task again.
Fence(old, new) ==
  \E open \in {old.open, TRUE} :
    new = [issued |-> old.issued, authority |-> 0,
           accepted |-> old.accepted, open |-> open]

TaskStep(old, new) ==
  \/ Grant(old, new)
  \/ Succeed(old, new)
  \/ Fence(old, new)

Init ==
  lease = [t \in Task |-> [issued |-> 0, authority |-> 0, accepted |-> {}, open |-> TRUE]]

\* One claim grants several tasks, one revoked key fences several.
Next ==
  /\ DOMAIN lease' = Task
  /\ \A t \in Task : lease'[t] = lease[t] \/ TaskStep(lease[t], lease'[t])

Spec == Init /\ [][Next]_lease
=============================================================================
