---------------------------- MODULE RWLockTable ----------------------------
(***************************************************************************)
(* What the lock tables of common-runtime (vpcSPLock, sgSPLock, ...)        *)
(* promise to a manager: a table of readers-writer locks, one per resource *)
(* name.  grant[p] is the lock that goroutine p holds, <<key, kind>>, or   *)
(* None.  SPLock.tla is shown to implement this specification.             *)
(***************************************************************************)
CONSTANTS Procs, Keys, None

VARIABLE grant

Kinds == {"R", "W"}

\* Two grants that may not be held together: same key and not both readers.
Conflict(g, h) == g[1] = h[1] /\ (g[2] = "W" \/ h[2] = "W")

Init == grant = [p \in Procs |-> None]

\* A lock is granted when no conflicting one is held.
Acquire(p, g) ==
  /\ grant[p] = None
  /\ \A q \in Procs : grant[q] # None => ~Conflict(grant[q], g)
  /\ grant' = [grant EXCEPT ![p] = g]

Release(p) ==
  /\ grant[p] # None
  /\ grant' = [grant EXCEPT ![p] = None]

Next == \E p \in Procs : Release(p) \/ \E g \in Keys \X Kinds : Acquire(p, g)

Spec == Init /\ [][Next]_grant
=============================================================================
