--------------------------- MODULE MCLeaseBroker ---------------------------
(* Instances of LeaseBroker for model checking. *)
EXTENDS LeaseBroker, TLC

CONSTANTS t1, t2, t3, p1, p2, p3, q1, q2, f1, f2, w1, w2, k1, k2

From(p, w, k) == [profile |-> p, worker |-> w, key |-> k]

\* One pool, shared by the two profiles of a family.
OnePool == [t \in Task |-> q1]
OneProfilePool == [p \in Profile |-> q1]
OneFamily == [p \in Profile |-> f1]
OneWorker == {From(p, w1, k1) : p \in Profile}
TwoKeys == {From(p1, w1, k1), From(p2, w2, k2)}

\* Pool q1 is shared by two families, family f1 works in two pools, and
\* worker w1 in both of these.
Pools == [t \in Task |-> IF t = t3 THEN q2 ELSE q1]
ProfilePools == [p \in Profile |-> IF p = p2 THEN q2 ELSE q1]
Families == [p \in Profile |-> IF p = p3 THEN f2 ELSE f1]
Crowd == {From(p1, w1, k1), From(p2, w1, k1), From(p2, w2, k1),
          From(p3, w2, k1)}

\* t1 and t2 are alike; nothing distinguishes them in any of the constants.
SameTasks == Permutations({t1, t2})

Edit(kind, input, scope, mode, revoke) ==
  [kind |-> kind, input |-> input, limit |-> "kept", max_attempts |-> NULL,
   scope |-> scope, profile |-> p1, mode |-> mode, revoke |-> revoke]

Limit(limit, n) ==
  [Edit("edit", FALSE, "all", "soft", FALSE) EXCEPT !.limit = limit, !.max_attempts = n]

\* One change of each sort; the resets in both scopes and modes.  The task's
\* own limit is set beneath what p1's policy allows, switched off, and handed
\* back to the policies.
AllChanges ==
  {Edit(k, FALSE, "all", "soft", FALSE) : k \in {"enable", "disable", "restore"}}
    \cup {Edit("edit", TRUE, "all", "soft", FALSE),
          Edit("delete", FALSE, "all", "soft", FALSE),
          Edit("revoke", FALSE, "all", "soft", TRUE),
          Edit("revoke_edit", TRUE, "all", "soft", TRUE)}
    \cup {Edit("reset", FALSE, s, m, TRUE) :
            s \in {"profile", "all"}, m \in {"soft", "full"}}
    \cup {Edit("reset_edit", TRUE, "all", "soft", TRUE),
          Edit("reset_edit", TRUE, "profile", "soft", TRUE)}
    \cup {Limit("own", 1), Limit("own", NULL), Limit("inherit", NULL)}

NoChanges == {}
Revocation == {Edit("revoke", FALSE, "all", "soft", TRUE)}

AttemptLimits == [p \in Profile |-> IF p = p1 THEN 2 ELSE 1]
TwoInPool == [q \in Pool |-> 2]
OneInPool == [q \in Pool |-> IF q = q1 THEN 1 ELSE 2]
TwoInProfile == [p \in Profile |-> 2]
OneInProfile == [p \in Profile |-> 1]
TwoInFamily == [f \in Family |-> 2]
OneInFamily == [f \in Family |-> IF f = f1 THEN 1 ELSE 2]
=============================================================================
