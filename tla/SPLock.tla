------------------------------- MODULE SPLock -------------------------------
(***************************************************************************)
(* One SPLOCK of api-runtime/common-runtime/sp-lock/splock.go: a map from  *)
(* LockKey{connection, resource id} to reference-counted LockValue         *)
(* objects, each with a sync.RWMutex.  A goroutine first takes rwMutex to  *)
(* find or create the LockValue and to count itself, leaves rwMutex, and   *)
(* only then locks the LockValue; on the way out it first uncounts itself  *)
(* (deleting the map entry at zero) and unlocks the LockValue after that.  *)
(* So for a moment an old LockValue, already out of the map but still      *)
(* locked, and a fresh one for the same key can both exist.                *)
(*                                                                         *)
(* A member of Procs is one Lock ... Unlock or RLock ... RUnlock session;  *)
(* a goroutine that nests several locks is several sessions.               *)
(***************************************************************************)
EXTENDS Integers, FiniteSets

CONSTANTS
  Procs,           \* lock sessions
  Conns,           \* connection names
  Ids,             \* resource names
  Objs,            \* heap addresses of LockValue objects
  None,            \* nil, nobody, no lock
  PermissionMode   \* the value of PERMISSION_BASED_CONTROL_MODE, or None

ASSUME ProcsAssumption == IsFiniteSet(Procs) /\ None \notin Procs
ASSUME ObjsAssumption == None \notin Objs

VARIABLES
  rwMutex,    \* the session that holds SPLOCK.rwMutex for writing, or None
  statusIn,   \* TRUE while GetSPLockMapStatus holds rwMutex for reading
  lockMap,    \* SPLOCK.lockMap: LockKey -> LockValue or None (nil)
  count,      \* LockValue.count
  lock,       \* LockValue.lock
  pc,         \* where each session is
  req,        \* the session's request [conn, id, kind], None when idle
  lockValue   \* the local variable lockValue

vars == <<rwMutex, statusIn, lockMap, count, lock, pc, req, lockValue>>

Mu == INSTANCE GoRWMutex WITH NoOwner <- None

\* PERMISSION_BASED_CONTROL_MODE, when set, stands for every connection.
overrideConnection(conn) == IF PermissionMode # None THEN PermissionMode ELSE conn

LockKey(r) == <<overrideConnection(r.conn), r.id>>

Keys == (Conns \cup {PermissionMode}) \X Ids
Requests == [conn : Conns, id : Ids, kind : {"R", "W"}]

Key(p) == LockKey(req[p])

ASSUME GrantsAssumption == None \notin Keys \X {"R", "W"}

Init ==
  /\ rwMutex = None
  /\ statusIn = FALSE
  /\ lockMap = [k \in Keys |-> None]
  /\ count = [o \in Objs |-> 0]
  /\ lock = [o \in Objs |-> Mu!FreeMutex]
  /\ pc = [p \in Procs |-> "idle"]
  /\ req = [p \in Procs |-> None]
  /\ lockValue = [p \in Procs |-> None]

Goto(p, from, to) == pc[p] = from /\ pc' = [pc EXCEPT ![p] = to]

\* A manager calls Lock or RLock for a resource of a connection.
Call(p, r) ==
  /\ Goto(p, "idle", "enter")
  /\ req' = [req EXCEPT ![p] = r]
  /\ UNCHANGED <<rwMutex, statusIn, lockMap, count, lock, lockValue>>

\* Faulty: rwMutex is taken for reading only.
FaultyTakeMap(p, from, to) ==
  /\ Goto(p, from, to)
  /\ rwMutex' = p
  /\ UNCHANGED <<statusIn, lockMap, count, lock, req, lockValue>>

\* spLock.rwMutex.Lock(), on the way in and on the way out.
TakeMap(p, from, to) ==
  /\ rwMutex = None /\ ~statusIn
  /\ Goto(p, from, to)
  /\ rwMutex' = p
  /\ UNCHANGED <<statusIn, lockMap, count, lock, req, lockValue>>

EnterMap(p) == TakeMap(p, "enter", "lookup")
ReenterMap(p) == TakeMap(p, "uenter", "ulookup")

\* An address no map entry and no local variable refers to.
Unreferenced(o) == (\A k \in Keys : lockMap[k] # o) /\ (\A q \in Procs : lockValue[q] # o)

\* Faulty: the nil check is missing, every call puts a new LockValue in the map.
FaultyFindOrCreate(p) ==
  /\ Goto(p, "lookup", "count")
  /\ \E o \in Objs :
       /\ Unreferenced(o)
       /\ lockMap' = [lockMap EXCEPT ![Key(p)] = o]
       /\ lockValue' = [lockValue EXCEPT ![p] = o]
       /\ count' = [count EXCEPT ![o] = 0]
       /\ lock' = [lock EXCEPT ![o] = Mu!FreeMutex]
  /\ UNCHANGED <<rwMutex, statusIn, req>>

\* The entry of the key, or a new LockValue{} put in the map.
FindOrCreate(p) ==
  /\ Goto(p, "lookup", "count")
  /\ \/ /\ lockMap[Key(p)] # None
        /\ lockValue' = [lockValue EXCEPT ![p] = lockMap[Key(p)]]
        /\ UNCHANGED <<lockMap, count, lock>>
     \/ /\ lockMap[Key(p)] = None
        /\ \E o \in Objs :
             /\ Unreferenced(o)
             /\ lockMap' = [lockMap EXCEPT ![Key(p)] = o]
             /\ lockValue' = [lockValue EXCEPT ![p] = o]
             /\ count' = [count EXCEPT ![o] = 0]
             /\ lock' = [lock EXCEPT ![o] = Mu!FreeMutex]
  /\ UNCHANGED <<rwMutex, statusIn, req>>

\* Faulty: lockValue.count++ is forgotten.
FaultyCountIn(p) ==
  /\ Goto(p, "count", "lock")
  /\ rwMutex' = None
  /\ UNCHANGED <<statusIn, lockMap, count, lock, req, lockValue>>

\* lockValue.count++ and rwMutex.Unlock().
CountIn(p) ==
  /\ Goto(p, "count", "lock")
  /\ count' = [count EXCEPT ![lockValue[p]] = @ + 1]
  /\ rwMutex' = None
  /\ UNCHANGED <<statusIn, lockMap, lock, req, lockValue>>

\* lockValue.lock.Lock(): announce, then wait for the readers to leave.
\* lockValue.lock.RLock(): arrive, then wait behind an announced writer.
Ask(p) ==
  /\ Goto(p, "lock", "wait")
  /\ \/ req[p].kind = "W" /\ Mu!CanAnnounce(lock[lockValue[p]])
        /\ lock' = [lock EXCEPT ![lockValue[p]] = Mu!Announce(@, p)]
     \/ req[p].kind = "R"
        /\ lock' = [lock EXCEPT ![lockValue[p]] = Mu!Arrive(@, p)]
  /\ UNCHANGED <<rwMutex, statusIn, lockMap, count, req, lockValue>>

\* Faulty: a writer does not wait for the readers that came first.
FaultyGranted(p) == req[p].kind = "W" \/ Mu!ReaderIn(lock[lockValue[p]], p)

Granted(p) == IF req[p].kind = "W" THEN Mu!WriterIn(lock[lockValue[p]], p)
                                   ELSE Mu!ReaderIn(lock[lockValue[p]], p)

\* Lock or RLock returns: the manager is in its critical section.
Return(p) ==
  /\ Goto(p, "wait", "held")
  /\ Granted(p)
  /\ UNCHANGED <<rwMutex, statusIn, lockMap, count, lock, req, lockValue>>

\* The deferred Unlock or RUnlock of the manager starts.
CallUnlock(p) ==
  /\ Goto(p, "held", "uenter")
  /\ UNCHANGED <<rwMutex, statusIn, lockMap, count, lock, req, lockValue>>

\* The entry of the key.  A nil one is dereferenced: the goroutine panics and
\* rwMutex stays locked.
Find(p) ==
  /\ Goto(p, "ulookup", IF lockMap[Key(p)] = None THEN "panic" ELSE "uncount")
  /\ lockValue' = [lockValue EXCEPT ![p] = lockMap[Key(p)]]
  /\ UNCHANGED <<rwMutex, statusIn, lockMap, count, lock, req>>

\* lockValue.count--
Uncount(p) ==
  /\ Goto(p, "uncount", "udelete")
  /\ count' = [count EXCEPT ![lockValue[p]] = @ - 1]
  /\ UNCHANGED <<rwMutex, statusIn, lockMap, lock, req, lockValue>>

\* Faulty: the entry is deleted whatever the count.
FaultyDeleteAlways(p) ==
  /\ Goto(p, "udelete", "unlock")
  /\ lockMap' = [lockMap EXCEPT ![Key(p)] = None]
  /\ rwMutex' = None
  /\ UNCHANGED <<statusIn, count, lock, req, lockValue>>

\* Faulty: the entry is never deleted.
FaultyDeleteNever(p) ==
  /\ Goto(p, "udelete", "unlock")
  /\ rwMutex' = None
  /\ UNCHANGED <<statusIn, lockMap, count, lock, req, lockValue>>

\* Faulty: rwMutex stays locked when the entry is deleted.
FaultyDeleteKeepsMap(p) ==
  /\ Goto(p, "udelete", "unlock")
  /\ lockMap' = IF count[lockValue[p]] = 0 THEN [lockMap EXCEPT ![Key(p)] = None]
                                           ELSE lockMap
  /\ rwMutex' = IF count[lockValue[p]] = 0 THEN rwMutex ELSE None
  /\ UNCHANGED <<statusIn, count, lock, req, lockValue>>

\* Delete the entry when the count is zero, and rwMutex.Unlock().
DeleteAtZero(p) ==
  /\ Goto(p, "udelete", "unlock")
  /\ lockMap' = IF count[lockValue[p]] = 0 THEN [lockMap EXCEPT ![Key(p)] = None]
                                           ELSE lockMap
  /\ rwMutex' = None
  /\ UNCHANGED <<statusIn, count, lock, req, lockValue>>

\* lockValue.lock.Unlock() or lockValue.lock.RUnlock().
Leave(p) ==
  /\ Goto(p, "unlock", "idle")
  /\ lock' = [lock EXCEPT ![lockValue[p]] =
                IF req[p].kind = "W" THEN Mu!WriterOut(@) ELSE Mu!ReaderOut(@, p)]
  /\ lockValue' = [lockValue EXCEPT ![p] = None]
  /\ req' = [req EXCEPT ![p] = None]
  /\ UNCHANGED <<rwMutex, statusIn, lockMap, count>>

\* GetSPLockMapStatus walks the map between rwMutex.RLock() and RUnlock().
StatusBegin ==
  /\ rwMutex = None /\ ~statusIn
  /\ statusIn' = TRUE
  /\ UNCHANGED <<rwMutex, lockMap, count, lock, pc, req, lockValue>>

StatusEnd ==
  /\ statusIn
  /\ statusIn' = FALSE
  /\ UNCHANGED <<rwMutex, lockMap, count, lock, pc, req, lockValue>>

\* The steps of Lock and RLock, and those of Unlock and RUnlock.
LockStep(p) == EnterMap(p) \/ FindOrCreate(p) \/ CountIn(p) \/ Ask(p) \/ Return(p)
UnlockStep(p) == ReenterMap(p) \/ Find(p) \/ Uncount(p) \/ DeleteAtZero(p) \/ Leave(p)

Next ==
  \/ \E p \in Procs : \/ \E r \in Requests : Call(p, r)
                      \/ LockStep(p)
                      \/ CallUnlock(p)
                      \/ UnlockStep(p)
  \/ StatusBegin
  \/ StatusEnd

Spec == Init /\ [][Next]_vars

(***************************************************************************)
(* Fairness.  Goroutines are scheduled fairly and the managers' critical   *)
(* sections end (the Unlock is deferred and driver calls return).  The     *)
(* strong fairness is that of sync.Mutex, whose starvation mode hands the  *)
(* mutex to the longest waiting goroutine: a goroutine that waits in       *)
(* rwMutex.Lock() or for the announcement of lock.Lock() gets its turn     *)
(* when the mutex becomes free again and again.                            *)
(***************************************************************************)
Fairness ==
  /\ \A p \in Procs : SF_vars(LockStep(p) \/ CallUnlock(p) \/ UnlockStep(p))
  /\ WF_vars(StatusEnd)

FairSpec == Spec /\ Fairness

-----------------------------------------------------------------------------
Pcs == {"idle", "enter", "lookup", "count", "lock", "wait", "held",
        "uenter", "ulookup", "uncount", "udelete", "unlock", "panic"}

Mutexes == [w : Procs \cup {None}, readers : SUBSET Procs, rwait : SUBSET Procs]

\* The values each variable takes: req and lockValue are set outside "idle".
TypeOK ==
  /\ rwMutex \in Procs \cup {None}
  /\ statusIn \in BOOLEAN
  /\ lockMap \in [Keys -> Objs \cup {None}]
  /\ count \in [Objs -> Nat]
  /\ lock \in [Objs -> Mutexes]
  /\ pc \in [Procs -> Pcs]
  /\ req \in [Procs -> Requests \cup {None}]
  /\ lockValue \in [Procs -> Objs \cup {None}]

\* The session owns its critical section: from the return of Lock until its
\* Unlock has uncounted it.
Holding(p) == pc[p] \in {"held", "uenter", "ulookup", "uncount"}

\* Two sessions are about the same resource.  The permission based mode makes
\* resource names unique across connections.
SameResource(p, q) ==
  /\ req[p].id = req[q].id
  /\ req[p].conn = req[q].conn \/ PermissionMode # None

\* Mutual exclusion per resource name: a manager operation that holds the
\* write lock of a resource is alone with it, although the LockValue objects
\* are created, deleted and created again by the sessions that come and go.
MutualExclusion ==
  \A p, q \in Procs :
    p # q /\ Holding(p) /\ Holding(q) /\ SameResource(p, q) =>
      req[p].kind = "R" /\ req[q].kind = "R"

\* The sessions that are counted in LockValue.count.
Counted(p) == pc[p] \in {"lock", "wait", "held", "uenter", "ulookup", "uncount"}

\* LockValue.count is the number of sessions counted in it.  A count that
\* drifts makes Unlock delete an entry in use, or keep one for ever.
CountIsReferences ==
  \A o \in Objs : count[o] = Cardinality({p \in Procs : Counted(p) /\ lockValue[p] = o})

\* A counted session finds its own LockValue in the map: Unlock decrements the
\* counter that Lock incremented and unlocks the mutex that Lock locked.
CountedIsInMap == \A p \in Procs : Counted(p) => lockMap[Key(p)] = lockValue[p]

\* Unlock and RUnlock never dereference a nil entry (splock.go:70 and 99),
\* which would leave rwMutex locked for every other resource of the table.
NoPanic == \A p \in Procs : pc[p] # "panic"

\* No entry outlives its users: when nobody is inside rwMutex, a name is in
\* the map exactly if some session is counted for it.
NoLeakedEntry ==
  rwMutex = None =>
    \A k \in Keys : lockMap[k] # None <=> \E p \in Procs : Counted(p) /\ Key(p) = k

\* GetSPLockMapStatus never reports an entry without references.
StatusShowsLiveEntries ==
  statusIn => \A k \in Keys : lockMap[k] # None => count[lockMap[k]] > 0

\* Every Lock and RLock call eventually returns: no session is lost between
\* the map and the LockValue, and a waiting writer is not starved by readers.
LockReturns == \A p \in Procs : pc[p] = "enter" ~> pc[p] = "held"

\* The table of readers-writer locks that the managers rely on: a session
\* holds a grant from the return of Lock until Unlock has uncounted it.
Grant == [p \in Procs |-> IF Holding(p) THEN <<Key(p), req[p].kind>> ELSE None]

RW == INSTANCE RWLockTable WITH grant <- Grant

\* The SPLOCK implements the abstract lock table.
ImplementsRWLockTable == RW!Spec
=============================================================================
