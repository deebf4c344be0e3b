---------------------------- MODULE SPLockProofs ----------------------------
(***************************************************************************)
(* Proofs about SPLock, for any finite set of sessions, any connections,   *)
(* resource names and addresses, and either permission mode.               *)
(*                                                                         *)
(* The inductive invariant IInv says why the transient second LockValue of *)
(* a name is harmless: whoever is counted in a LockValue is counted in the *)
(* one the map holds (InMapInv), because an entry is deleted only when its *)
(* count is zero and the count is exactly the number of counted sessions   *)
(* (CountInv).  So two sessions that hold the same name hold one           *)
(* sync.RWMutex, whose state is tied to their program counters (LockInv).  *)
(***************************************************************************)
EXTENDS SPLock, FiniteSetTheorems, TLAPS

\* The program counters of a session that holds rwMutex.
MapPcs == {"lookup", "count", "ulookup", "uncount", "udelete", "panic"}

\* The program counters of a session that was granted its LockValue's mutex.
GrantedPcs == {"held", "uenter", "ulookup", "uncount", "udelete", "unlock"}

\* A session whose local lockValue is the map's entry.
InMap(p) == Counted(p) \/ pc[p] \in {"count", "udelete"}

TypeInv ==
  /\ rwMutex \in Procs \cup {None}
  /\ statusIn \in BOOLEAN
  /\ lockMap \in [Keys -> Objs \cup {None}]
  /\ count \in [Objs -> Int]
  /\ lock \in [Objs -> Mutexes]
  /\ pc \in [Procs -> Pcs]
  /\ req \in [Procs -> Requests \cup {None}]
  /\ lockValue \in [Procs -> Objs \cup {None}]

RequestInv == \A p \in Procs : pc[p] # "idle" => req[p] \in Requests

MapMutexInv == \A p \in Procs : pc[p] \in MapPcs => rwMutex = p

InMapInv ==
  \A p \in Procs :
    /\ InMap(p) => lockMap[Key(p)] = lockValue[p] /\ lockValue[p] \in Objs
    /\ pc[p] = "unlock" => lockValue[p] \in Objs

Refs(o) == {p \in Procs : Counted(p) /\ lockValue[p] = o}

CountInv == \A o \in Objs : count[o] = Cardinality(Refs(o))

LockInv ==
  \A p \in Procs :
    /\ pc[p] \in GrantedPcs /\ req[p].kind = "W" =>
         lock[lockValue[p]].w = p /\ lock[lockValue[p]].readers = {}
    /\ pc[p] \in GrantedPcs /\ req[p].kind = "R" => p \in lock[lockValue[p]].readers
    /\ pc[p] = "wait" /\ req[p].kind = "W" => lock[lockValue[p]].w = p

IInv ==
  /\ TypeInv
  /\ RequestInv
  /\ MapMutexInv
  /\ InMapInv
  /\ NoPanic
  /\ CountInv
  /\ LockInv

\* A step of session p.
Step(p) == (\E r \in Requests : Call(p, r)) \/ LockStep(p) \/ CallUnlock(p) \/ UnlockStep(p)

-----------------------------------------------------------------------------
(* What is needed to know that entries do not outlive their users.         *)

\* While the map is read, no session changes it.
StatusInv == statusIn => rwMutex = None

\* Two names never share a LockValue.
OneNameInv == \A k, l \in Keys : lockMap[k] # None /\ lockMap[k] = lockMap[l] => k = l

\* Every entry has a session that is counted, or just before or after that.
LiveInv == \A k \in Keys : lockMap[k] # None => \E p \in Procs : InMap(p) /\ Key(p) = k

EntriesInv ==
  /\ StatusInv
  /\ OneNameInv
  /\ LiveInv

-----------------------------------------------------------------------------
\* A request names a key of the map.
LEMMA KeyInKeys ==
  ASSUME NEW r \in Requests
  PROVE  LockKey(r) \in Keys
BY DEF Requests, LockKey, Keys, overrideConnection

\* The references of an object are a finite set.
LEMMA RefsFinite ==
  ASSUME NEW o
  PROVE  IsFiniteSet(Refs(o))
BY ProcsAssumption, FS_Subset DEF Refs

\* The operations of a sync.RWMutex stay within its type.
LEMMA MutexTypes ==
  ASSUME NEW m \in Mutexes, NEW p \in Procs
  PROVE  /\ Mu!Announce(m, p) \in Mutexes
         /\ Mu!Arrive(m, p) \in Mutexes
         /\ Mu!ReaderOut(m, p) \in Mutexes
         /\ Mu!WriterOut(m) \in Mutexes
<1>2. Mu!Announce(m, p) \in Mutexes
  BY DEF Mu!Announce, Mutexes
<1>3. Mu!Arrive(m, p) \in Mutexes
  BY DEF Mu!Arrive, Mutexes
<1>4. Mu!ReaderOut(m, p) \in Mutexes
  BY DEF Mu!ReaderOut, Mutexes
<1>5. Mu!WriterOut(m) \in Mutexes
  BY DEF Mu!WriterOut, Mutexes
<1> QED
  BY <1>2, <1>3, <1>4, <1>5

\* A fresh mutex is of the type, whether or not there is a session.
LEMMA FreeMutexType == Mu!FreeMutex \in Mutexes
BY DEF Mu!FreeMutex, Mutexes

\* The initial state satisfies the inductive invariant.
LEMMA InitIInv == Init => IInv
<1> SUFFICES ASSUME Init PROVE IInv
  OBVIOUS
<1>1. TypeInv
  <2>1. lockMap \in [Keys -> Objs \cup {None}]
    BY DEF Init
  <2>2. count \in [Objs -> Int]
    BY DEF Init
  <2>3. lock \in [Objs -> Mutexes]
    BY FreeMutexType DEF Init
  <2>4. pc \in [Procs -> Pcs]
    BY DEF Init, Pcs
  <2>5. req \in [Procs -> Requests \cup {None}] /\ lockValue \in [Procs -> Objs \cup {None}]
    BY DEF Init
  <2> QED
    BY <2>1, <2>2, <2>3, <2>4, <2>5 DEF Init, TypeInv
<1>2. RequestInv /\ MapMutexInv /\ InMapInv /\ NoPanic /\ LockInv
  BY DEF Init, RequestInv, MapMutexInv, MapPcs, InMapInv, InMap, Counted, NoPanic, LockInv,
         GrantedPcs
<1>3. CountInv
  <2> SUFFICES ASSUME NEW o \in Objs PROVE count[o] = Cardinality(Refs(o))
    BY DEF CountInv
  <2>1. Refs(o) = {}
    BY DEF Refs, Counted, Init
  <2> QED
    BY <2>1, FS_EmptySet DEF Init
<1> QED
  BY <1>1, <1>2, <1>3 DEF IInv

\* Every step of a session keeps the types.
LEMMA TypeStep ==
  ASSUME IInv, NEW p \in Procs, Step(p)
  PROVE  TypeInv'
<1> USE DEF IInv, TypeInv, Goto, Pcs
<1>1. ASSUME NEW r \in Requests, Call(p, r) PROVE TypeInv'
  BY <1>1 DEF Call
<1>2. CASE EnterMap(p)
  BY <1>2 DEF EnterMap, TakeMap
<1>3. CASE FindOrCreate(p)
  <2>1. Key(p) \in Keys
    BY <1>3, KeyInKeys DEF FindOrCreate, RequestInv, Key
  <2> QED
    BY <1>3, <2>1, FreeMutexType DEF FindOrCreate
<1>4. CASE CountIn(p)
  BY <1>4 DEF CountIn, InMapInv, InMap
<1>5. CASE Ask(p)
  <2>1. lockValue[p] \in Objs
    BY <1>5 DEF Ask, InMapInv, InMap, Counted
  <2>2. lock[lockValue[p]] \in Mutexes
    BY <2>1
  <2>3. lock' \in [Objs -> Mutexes]
    BY <1>5, <2>1, <2>2, MutexTypes DEF Ask
  <2> QED
    BY <1>5, <2>3 DEF Ask
<1>6. CASE Return(p)
  BY <1>6 DEF Return
<1>7. CASE CallUnlock(p)
  BY <1>7 DEF CallUnlock
<1>8. CASE ReenterMap(p)
  BY <1>8 DEF ReenterMap, TakeMap
<1>9. CASE Find(p)
  <2>1. Key(p) \in Keys
    BY <1>9, KeyInKeys DEF Find, RequestInv, Key
  <2> QED
    BY <1>9, <2>1 DEF Find
<1>10. CASE Uncount(p)
  BY <1>10 DEF Uncount, InMapInv, InMap, Counted
<1>11. CASE DeleteAtZero(p)
  <2>1. Key(p) \in Keys
    BY <1>11, KeyInKeys DEF DeleteAtZero, RequestInv, Key
  <2> QED
    BY <1>11, <2>1 DEF DeleteAtZero
<1>12. CASE Leave(p)
  <2>1. lockValue[p] \in Objs
    BY <1>12 DEF Leave, InMapInv
  <2> QED
    BY <1>12, <2>1, MutexTypes DEF Leave
<1> QED
  BY <1>1, <1>2, <1>3, <1>4, <1>5, <1>6, <1>7, <1>8, <1>9, <1>10, <1>11, <1>12
     DEF Step, LockStep, UnlockStep

\* A session that is not idle has a request, and rwMutex has one owner.
LEMMA RequestStep ==
  ASSUME IInv, NEW p \in Procs, Step(p)
  PROVE  RequestInv' /\ MapMutexInv'
<1> USE ProcsAssumption DEF IInv, TypeInv, RequestInv, MapMutexInv, MapPcs, Goto
<1>1. ASSUME NEW r \in Requests, Call(p, r) PROVE RequestInv' /\ MapMutexInv'
  BY <1>1 DEF Call
<1>2. CASE EnterMap(p)
  BY <1>2 DEF EnterMap, TakeMap
<1>3. CASE FindOrCreate(p)
  BY <1>3 DEF FindOrCreate
<1>4. CASE CountIn(p)
  BY <1>4 DEF CountIn
<1>5. CASE Ask(p)
  BY <1>5 DEF Ask
<1>6. CASE Return(p)
  BY <1>6 DEF Return
<1>7. CASE CallUnlock(p)
  BY <1>7 DEF CallUnlock
<1>8. CASE ReenterMap(p)
  BY <1>8 DEF ReenterMap, TakeMap
<1>9. CASE Find(p)
  BY <1>9 DEF Find
<1>10. CASE Uncount(p)
  BY <1>10 DEF Uncount
<1>11. CASE DeleteAtZero(p)
  BY <1>11 DEF DeleteAtZero
<1>12. CASE Leave(p)
  BY <1>12 DEF Leave
<1> QED
  BY <1>1, <1>2, <1>3, <1>4, <1>5, <1>6, <1>7, <1>8, <1>9, <1>10, <1>11, <1>12
     DEF Step, LockStep, UnlockStep

\* The map's entry of a counted session stays its LockValue: entries are added
\* for names that have none, and deleted when nobody is counted.
LEMMA InMapStep ==
  ASSUME IInv, NEW p \in Procs, Step(p)
  PROVE  InMapInv' /\ NoPanic'
<1> USE DEF IInv, TypeInv, InMapInv, NoPanic, InMap, Counted, Goto, Key
<1>1. ASSUME NEW r \in Requests, Call(p, r) PROVE InMapInv' /\ NoPanic'
  BY <1>1 DEF Call
<1>2. CASE EnterMap(p)
  BY <1>2 DEF EnterMap, TakeMap
<1>3. CASE FindOrCreate(p)
  <2>1. Key(p) \in Keys
    BY <1>3, KeyInKeys DEF FindOrCreate, RequestInv
  <2>2. ASSUME NEW q \in Procs, q # p, InMap(q)
        PROVE  lockMap'[Key(q)] = lockMap[Key(q)] /\ lockMap[Key(q)] # None
    <3>1. lockMap[Key(q)] # None
      BY <2>2, ObjsAssumption
    <3>2. lockMap[Key(p)] # None => lockMap' = lockMap
      BY <1>3 DEF FindOrCreate
    <3>3. lockMap[Key(p)] = None => \E o \in Objs : lockMap' = [lockMap EXCEPT ![Key(p)] = o]
      BY <1>3 DEF FindOrCreate
    <3>4. Key(q) \in Keys
      BY <2>2, KeyInKeys DEF RequestInv
    <3> QED
      BY <3>1, <3>2, <3>3, <3>4, <2>1
  <2>3. lockMap'[Key(p)] = lockValue'[p] /\ lockValue'[p] \in Objs
    BY <1>3, <2>1 DEF FindOrCreate
  <2> QED
    BY <1>3, <2>2, <2>3 DEF FindOrCreate
<1>4. CASE CountIn(p)
  BY <1>4 DEF CountIn
<1>5. CASE Ask(p)
  BY <1>5 DEF Ask
<1>6. CASE Return(p)
  BY <1>6 DEF Return
<1>7. CASE CallUnlock(p)
  BY <1>7 DEF CallUnlock
<1>8. CASE ReenterMap(p)
  BY <1>8 DEF ReenterMap, TakeMap
<1>9. CASE Find(p)
  BY <1>9, ObjsAssumption DEF Find
<1>10. CASE Uncount(p)
  BY <1>10 DEF Uncount
<1>11. CASE DeleteAtZero(p)
  <2>1. Key(p) \in Keys
    BY <1>11, KeyInKeys DEF DeleteAtZero, RequestInv
  <2>2. ASSUME NEW q \in Procs, q # p, InMap(q), Key(q) = Key(p)
        PROVE  count[lockValue[p]] # 0
    <3>1. Counted(q) /\ lockValue[q] = lockValue[p] /\ lockValue[p] \in Objs
      BY <1>11, <2>2 DEF DeleteAtZero, MapMutexInv, MapPcs
    <3>2. q \in Refs(lockValue[p])
      BY <3>1 DEF Refs
    <3>3. Cardinality(Refs(lockValue[p])) # 0
      BY <3>2, RefsFinite, FS_EmptySet
    <3> QED
      BY <3>1, <3>3 DEF CountInv
  <2>3. ASSUME NEW q \in Procs, q # p, InMap(q)
        PROVE  lockMap'[Key(q)] = lockMap[Key(q)]
    BY <1>11, <2>1, <2>2, <2>3 DEF DeleteAtZero
  <2> QED
    BY <1>11, <2>3 DEF DeleteAtZero
<1>12. CASE Leave(p)
  BY <1>12 DEF Leave
<1> QED
  BY <1>1, <1>2, <1>3, <1>4, <1>5, <1>6, <1>7, <1>8, <1>9, <1>10, <1>11, <1>12
     DEF Step, LockStep, UnlockStep

\* A step that changes neither who is counted nor the counters keeps CountInv.
LEMMA SameCounts ==
  ASSUME CountInv, UNCHANGED count,
         \A q \in Procs : Counted(q)' <=> Counted(q),
         \A q \in Procs : Counted(q) => lockValue'[q] = lockValue[q]
  PROVE  CountInv'
<1>1. \A o \in Objs : Refs(o)' = Refs(o)
  BY DEF Refs
<1> QED
  BY <1>1 DEF CountInv

\* LockValue.count stays the number of sessions counted.
LEMMA CountStep ==
  ASSUME IInv, NEW p \in Procs, Step(p)
  PROVE  CountInv'
<1> USE DEF IInv, TypeInv, Goto
<1>1. ASSUME NEW r \in Requests, Call(p, r) PROVE CountInv'
  BY <1>1, SameCounts DEF Call, Counted
<1>2. CASE EnterMap(p)
  BY <1>2, SameCounts DEF EnterMap, TakeMap, Counted
<1>3. CASE FindOrCreate(p)
  <2>1. \A q \in Procs : Counted(q)' <=> Counted(q)
    BY <1>3 DEF FindOrCreate, Counted
  <2>2. \A q \in Procs : Counted(q) => lockValue'[q] = lockValue[q]
    BY <1>3 DEF FindOrCreate, Counted
  <2>3. \A o \in Objs : Refs(o)' = Refs(o)
    BY <2>1, <2>2 DEF Refs
  <2>4. ASSUME NEW o \in Objs PROVE count'[o] = Cardinality(Refs(o))
    <3>1. CASE Unreferenced(o)
      <4>1. Refs(o) = {}
        BY <3>1 DEF Unreferenced, Refs
      <4>2. count[o] = 0
        BY <4>1, FS_EmptySet DEF CountInv
      <4> QED
        BY <1>3, <4>1, <4>2, FS_EmptySet DEF FindOrCreate
    <3>2. CASE ~Unreferenced(o)
      <4>1. count'[o] = count[o]
        BY <1>3, <3>2 DEF FindOrCreate
      <4> QED
        BY <4>1 DEF CountInv
    <3> QED
      BY <3>1, <3>2
  <2> QED
    BY <2>3, <2>4 DEF CountInv
<1>4. CASE CountIn(p)
  <2>1. lockValue[p] \in Objs
    BY <1>4 DEF CountIn, InMapInv, InMap
  <2>2. Refs(lockValue[p])' = Refs(lockValue[p]) \cup {p} /\ p \notin Refs(lockValue[p])
    BY <1>4 DEF CountIn, Refs, Counted
  <2>3. \A o \in Objs : o # lockValue[p] => Refs(o)' = Refs(o)
    BY <1>4 DEF CountIn, Refs, Counted
  <2>4. Cardinality(Refs(lockValue[p])') = Cardinality(Refs(lockValue[p])) + 1
    BY <2>2, RefsFinite, FS_AddElement
  <2> QED
    BY <1>4, <2>1, <2>3, <2>4 DEF CountIn, CountInv
<1>5. CASE Ask(p)
  BY <1>5, SameCounts DEF Ask, Counted
<1>6. CASE Return(p)
  BY <1>6, SameCounts DEF Return, Counted
<1>7. CASE CallUnlock(p)
  BY <1>7, SameCounts DEF CallUnlock, Counted
<1>8. CASE ReenterMap(p)
  BY <1>8, SameCounts DEF ReenterMap, TakeMap, Counted
<1>9. CASE Find(p)
  <2>1. lockMap[Key(p)] = lockValue[p] /\ lockValue[p] # None
    BY <1>9, ObjsAssumption DEF Find, InMapInv, InMap, Counted
  <2> QED
    BY <1>9, <2>1, SameCounts DEF Find, Counted
<1>10. CASE Uncount(p)
  <2>1. lockValue[p] \in Objs
    BY <1>10 DEF Uncount, InMapInv, InMap, Counted
  <2>2. Refs(lockValue[p])' = Refs(lockValue[p]) \ {p} /\ p \in Refs(lockValue[p])
    BY <1>10 DEF Uncount, Refs, Counted
  <2>3. \A o \in Objs : o # lockValue[p] => Refs(o)' = Refs(o)
    BY <1>10 DEF Uncount, Refs, Counted
  <2>4. Cardinality(Refs(lockValue[p])') = Cardinality(Refs(lockValue[p])) - 1
    <3>1. Cardinality(Refs(lockValue[p]) \ {p}) = Cardinality(Refs(lockValue[p])) - 1
      BY <2>2, RefsFinite, FS_RemoveElement
    <3> QED
      BY <2>2, <3>1
  <2> QED
    BY <1>10, <2>1, <2>3, <2>4 DEF Uncount, CountInv
<1>11. CASE DeleteAtZero(p)
  BY <1>11, SameCounts DEF DeleteAtZero, Counted
<1>12. CASE Leave(p)
  BY <1>12, SameCounts DEF Leave, Counted
<1> QED
  BY <1>1, <1>2, <1>3, <1>4, <1>5, <1>6, <1>7, <1>8, <1>9, <1>10, <1>11, <1>12
     DEF Step, LockStep, UnlockStep

\* Whoever was granted a mutex is recorded in it: an announced writer stays
\* announced, a writer inside is alone, a reader inside stays a reader.
LEMMA MutexStep ==
  ASSUME IInv, NEW p \in Procs, Step(p)
  PROVE  LockInv'
<1> USE DEF IInv, TypeInv, LockInv, GrantedPcs, Goto
<1>1. ASSUME NEW r \in Requests, Call(p, r) PROVE LockInv'
  BY <1>1 DEF Call
<1>2. CASE EnterMap(p)
  BY <1>2 DEF EnterMap, TakeMap
<1>3. CASE FindOrCreate(p)
  <2>1. ASSUME NEW q \in Procs, q # p, lockValue[q] \in Objs
        PROVE  lock'[lockValue[q]] = lock[lockValue[q]] /\ lockValue'[q] = lockValue[q]
    BY <1>3, <2>1 DEF FindOrCreate, Unreferenced
  <2>2. ASSUME NEW q \in Procs, pc[q] \in GrantedPcs \cup {"wait"}
        PROVE  lockValue[q] \in Objs
    BY <2>2 DEF InMapInv, InMap, Counted
  <2> QED
    BY <1>3, <2>1, <2>2 DEF FindOrCreate
<1>4. CASE CountIn(p)
  BY <1>4 DEF CountIn
<1>5. CASE Ask(p)
  <2>1. lockValue[p] \in Objs
    BY <1>5 DEF Ask, InMapInv, InMap, Counted
  <2>2. lock[lockValue[p]] \in Mutexes
    BY <2>1
  <2>3. CASE req[p].kind = "W" /\ Mu!CanAnnounce(lock[lockValue[p]])
             /\ lock' = [lock EXCEPT ![lockValue[p]] = Mu!Announce(@, p)]
    BY <1>5, <2>1, <2>2, <2>3, ProcsAssumption DEF Ask, Mu!Announce, Mu!CanAnnounce, Mutexes
  <2>4. CASE req[p].kind = "R" /\ lock' = [lock EXCEPT ![lockValue[p]] = Mu!Arrive(@, p)]
    BY <1>5, <2>1, <2>2, <2>4, ProcsAssumption DEF Ask, Mu!Arrive, Mutexes
  <2> QED
    BY <1>5, <2>3, <2>4 DEF Ask
<1>6. CASE Return(p)
  BY <1>6 DEF Return, Granted, Mu!WriterIn, Mu!ReaderIn
<1>7. CASE CallUnlock(p)
  BY <1>7 DEF CallUnlock
<1>8. CASE ReenterMap(p)
  BY <1>8 DEF ReenterMap, TakeMap
<1>9. CASE Find(p)
  <2>1. lockMap[Key(p)] = lockValue[p]
    BY <1>9 DEF Find, InMapInv, InMap, Counted
  <2> QED
    BY <1>9, <2>1 DEF Find
<1>10. CASE Uncount(p)
  BY <1>10 DEF Uncount
<1>11. CASE DeleteAtZero(p)
  BY <1>11 DEF DeleteAtZero
<1>12. CASE Leave(p)
  <2>1. lockValue[p] \in Objs /\ lock[lockValue[p]] \in Mutexes
    BY <1>12 DEF Leave, InMapInv
  <2>2. req[p] \in Requests /\ (req[p].kind = "W" \/ req[p].kind = "R")
    BY <1>12 DEF Leave, RequestInv, Requests
  <2>3. CASE req[p].kind = "W"
    BY <1>12, <2>1, <2>3, ProcsAssumption DEF Leave, Mu!WriterOut, Mutexes
  <2>4. CASE req[p].kind = "R"
    BY <1>12, <2>1, <2>4, ProcsAssumption DEF Leave, Mu!ReaderOut, Mutexes
  <2> QED
    BY <2>2, <2>3, <2>4
<1> QED
  BY <1>1, <1>2, <1>3, <1>4, <1>5, <1>6, <1>7, <1>8, <1>9, <1>10, <1>11, <1>12
     DEF Step, LockStep, UnlockStep

\* The status reader and stuttering change nothing the invariant talks about.
LEMMA OtherSteps ==
  ASSUME IInv, StatusBegin \/ StatusEnd \/ UNCHANGED vars
  PROVE  IInv'
<1>1. TypeInv'
  BY DEF IInv, TypeInv, StatusBegin, StatusEnd, vars
<1>2. (RequestInv /\ MapMutexInv /\ InMapInv /\ NoPanic /\ LockInv)'
  BY DEF IInv, RequestInv, MapMutexInv, InMapInv, InMap, Counted, Key, NoPanic, LockInv,
         StatusBegin, StatusEnd, vars
<1>3. CountInv'
  BY SameCounts DEF IInv, Counted, StatusBegin, StatusEnd, vars
<1> QED
  BY <1>1, <1>2, <1>3 DEF IInv

-----------------------------------------------------------------------------
\* IInv is an invariant of the specification.
THEOREM Invariance == Spec => []IInv
<1>1. ASSUME IInv, [Next]_vars PROVE IInv'
  <2>1. ASSUME NEW p \in Procs, Step(p) PROVE IInv'
    BY <1>1, <2>1, TypeStep, RequestStep, InMapStep, CountStep, MutexStep DEF IInv
  <2>2. ASSUME StatusBegin \/ StatusEnd \/ UNCHANGED vars PROVE IInv'
    BY <1>1, <2>2, OtherSteps
  <2> QED
    BY <1>1, <2>1, <2>2 DEF Next, Step
<1> QED
  BY <1>1, InitIInv, PTL DEF Spec

\* The variables of every SPLOCK keep their types; in particular the
\* reference counter never becomes negative.
THEOREM TypeCorrect == Spec => []TypeOK
<1>1. IInv => TypeOK
  <2>1. ASSUME IInv PROVE count \in [Objs -> Nat]
    BY <2>1, RefsFinite, FS_CardinalityType DEF IInv, TypeInv, CountInv
  <2> QED
    BY <2>1 DEF IInv, TypeInv, TypeOK
<1> QED
  BY <1>1, Invariance, PTL

\* The lock tables give mutual exclusion per resource name, for any number of
\* goroutines and names, also while a name has two LockValues.
THEOREM MutualExclusionHolds == Spec => []MutualExclusion
<1>1. IInv => MutualExclusion
  <2> SUFFICES ASSUME IInv, NEW p \in Procs, NEW q \in Procs, p # q,
                      Holding(p), Holding(q), SameResource(p, q)
               PROVE  req[p].kind = "R" /\ req[q].kind = "R"
    BY DEF MutualExclusion
  <2>1. Key(p) = Key(q)
    BY DEF SameResource, Key, LockKey, overrideConnection
  <2>2. lockValue[p] = lockValue[q]
    BY <2>1 DEF IInv, InMapInv, InMap, Counted, Holding
  <2>3. req[p].kind \in {"R", "W"} /\ req[q].kind \in {"R", "W"}
    BY DEF IInv, RequestInv, Requests, Holding
  <2> QED
    BY <2>2, <2>3 DEF IInv, LockInv, GrantedPcs, Holding
<1> QED
  BY <1>1, Invariance, PTL

\* Unlock and RUnlock never dereference a nil map entry.
THEOREM NoPanicHolds == Spec => []NoPanic
<1>1. IInv => NoPanic
  BY DEF IInv
<1> QED
  BY <1>1, Invariance, PTL

\* LockValue.count is the number of sessions counted in it, and a counted
\* session finds its own LockValue in the map.
THEOREM CountsHold == Spec => [](CountIsReferences /\ CountedIsInMap)
<1>1. IInv => CountIsReferences /\ CountedIsInMap
  BY DEF IInv, CountInv, Refs, CountIsReferences, InMapInv, InMap, CountedIsInMap
<1> QED
  BY <1>1, Invariance, PTL

-----------------------------------------------------------------------------
\* A step that leaves the map alone, and every session at its entry with its
\* request, keeps every entry alive.
LEMMA SameEntries ==
  ASSUME EntriesInv, UNCHANGED <<lockMap, statusIn>>, statusIn => rwMutex' = None,
         \A q \in Procs : InMap(q) => InMap(q)' /\ req'[q] = req[q]
  PROVE  EntriesInv'
BY DEF EntriesInv, StatusInv, OneNameInv, LiveInv, Key, LockKey, overrideConnection

\* Entries are made for one name, with the session that makes them, and deleted
\* with the last session of theirs.
LEMMA EntriesStep ==
  ASSUME IInv, EntriesInv, NEW p \in Procs, Step(p)
  PROVE  EntriesInv'
<1> USE DEF IInv, TypeInv, Goto, InMap, Counted
<1>1. ASSUME NEW r \in Requests, Call(p, r) PROVE EntriesInv'
  BY <1>1, SameEntries DEF Call, EntriesInv, StatusInv
<1>2. CASE EnterMap(p)
  BY <1>2, SameEntries DEF EnterMap, TakeMap
<1>3. CASE FindOrCreate(p)
  <2>1. Key(p) \in Keys
    BY <1>3, KeyInKeys DEF FindOrCreate, RequestInv, Key
  <2>2. StatusInv'
    BY <1>3 DEF FindOrCreate, EntriesInv, StatusInv
  <2>3. OneNameInv'
    BY <1>3, <2>1, ObjsAssumption DEF FindOrCreate, Unreferenced, EntriesInv, OneNameInv
  <2>4. LiveInv'
    <3> SUFFICES ASSUME NEW k \in Keys, lockMap'[k] # None
                 PROVE  \E q \in Procs : InMap(q)' /\ Key(q)' = k
      BY DEF LiveInv
    <3>1. \A q \in Procs : Key(q)' = Key(q)
      BY <1>3 DEF FindOrCreate, Key, LockKey, overrideConnection
    <3>2. CASE k = Key(p)
      BY <1>3, <3>1, <3>2 DEF FindOrCreate
    <3>3. CASE k # Key(p)
      <4>1. lockMap[k] # None
        BY <1>3, <2>1, <3>3 DEF FindOrCreate
      <4>2. PICK q \in Procs : InMap(q) /\ Key(q) = k
        BY <4>1 DEF EntriesInv, LiveInv
      <4> QED
        BY <1>3, <3>1, <4>2 DEF FindOrCreate
    <3> QED
      BY <3>2, <3>3
  <2> QED
    BY <2>2, <2>3, <2>4 DEF EntriesInv
<1>4. CASE CountIn(p)
  BY <1>4, SameEntries DEF CountIn
<1>5. CASE Ask(p)
  BY <1>5, SameEntries DEF Ask, EntriesInv, StatusInv
<1>6. CASE Return(p)
  BY <1>6, SameEntries DEF Return, EntriesInv, StatusInv
<1>7. CASE CallUnlock(p)
  BY <1>7, SameEntries DEF CallUnlock, EntriesInv, StatusInv
<1>8. CASE ReenterMap(p)
  BY <1>8, SameEntries DEF ReenterMap, TakeMap
<1>9. CASE Find(p)
  <2>1. lockMap[Key(p)] # None
    BY <1>9, ObjsAssumption DEF Find, InMapInv
  <2> QED
    BY <1>9, <2>1, SameEntries DEF Find, EntriesInv, StatusInv
<1>10. CASE Uncount(p)
  BY <1>10, SameEntries DEF Uncount, EntriesInv, StatusInv
<1>11. CASE DeleteAtZero(p)
  <2>1. Key(p) \in Keys /\ lockMap[Key(p)] = lockValue[p] /\ lockValue[p] \in Objs
    BY <1>11, KeyInKeys DEF DeleteAtZero, RequestInv, Key, InMapInv
  <2>2. StatusInv'
    BY <1>11 DEF DeleteAtZero, StatusInv
  <2>3. OneNameInv'
    BY <1>11, <2>1 DEF DeleteAtZero, EntriesInv, OneNameInv
  <2>4. \A q \in Procs : Key(q)' = Key(q)
    BY <1>11 DEF DeleteAtZero, Key, LockKey, overrideConnection
  <2>5. LiveInv'
    <3> SUFFICES ASSUME NEW k \in Keys, lockMap'[k] # None
                 PROVE  \E q \in Procs : InMap(q)' /\ Key(q)' = k
      BY DEF LiveInv
    <3>1. CASE k # Key(p)
      <4>1. PICK q \in Procs : InMap(q) /\ Key(q) = k
        BY <1>11, <2>1, <3>1 DEF DeleteAtZero, EntriesInv, LiveInv
      <4> QED
        BY <1>11, <2>4, <3>1, <4>1 DEF DeleteAtZero
    <3>2. CASE k = Key(p)
      <4>1. count[lockValue[p]] # 0
        BY <1>11, <2>1, <3>2 DEF DeleteAtZero
      <4>2. Refs(lockValue[p]) # {}
        BY <2>1, <4>1, FS_EmptySet DEF CountInv
      <4>3. PICK q \in Procs : Counted(q) /\ lockValue[q] = lockValue[p]
        BY <4>2 DEF Refs
      <4>4. Key(q) \in Keys
        BY <4>3, KeyInKeys DEF RequestInv, Key
      <4>5. lockMap[Key(q)] = lockMap[Key(p)] /\ lockMap[Key(p)] # None
        BY <2>1, <4>3, ObjsAssumption DEF InMapInv
      <4>6. Key(q) = Key(p)
        BY <2>1, <4>4, <4>5 DEF EntriesInv, OneNameInv
      <4>7. q # p
        BY <1>11, <4>3 DEF DeleteAtZero
      <4> QED
        BY <1>11, <2>4, <3>2, <4>3, <4>6, <4>7 DEF DeleteAtZero
    <3> QED
      BY <3>1, <3>2
  <2> QED
    BY <2>2, <2>3, <2>5 DEF EntriesInv
<1>12. CASE Leave(p)
  BY <1>12, SameEntries DEF Leave, EntriesInv, StatusInv
<1> QED
  BY <1>1, <1>2, <1>3, <1>4, <1>5, <1>6, <1>7, <1>8, <1>9, <1>10, <1>11, <1>12
     DEF Step, LockStep, UnlockStep

\* Both invariants together are one of the specification.
THEOREM EntriesInvariance == Spec => [](IInv /\ EntriesInv)
<1>1. Init => EntriesInv
  BY DEF Init, EntriesInv, StatusInv, OneNameInv, LiveInv
<1>2. ASSUME IInv, EntriesInv, [Next]_vars PROVE EntriesInv'
  <2>1. ASSUME NEW p \in Procs, Step(p) PROVE EntriesInv'
    BY <1>2, <2>1, EntriesStep
  <2>2. CASE StatusBegin
    BY <1>2, <2>2, SameEntries DEF StatusBegin, EntriesInv, StatusInv, OneNameInv, LiveInv, InMap, Counted, Key
  <2>3. CASE StatusEnd
    BY <1>2, <2>3 DEF StatusEnd, EntriesInv, StatusInv, OneNameInv, LiveInv, InMap, Counted, Key
  <2>4. CASE UNCHANGED vars
    BY <1>2, <2>4 DEF vars, EntriesInv, StatusInv, OneNameInv, LiveInv, InMap, Counted, Key
  <2> QED
    BY <1>2, <2>1, <2>2, <2>3, <2>4 DEF Next, Step
<1> QED
  BY <1>1, <1>2, Invariance, PTL DEF Spec

\* No entry of the map outlives its users, and none is missing: the tables do not
\* grow with the names that were ever used.
THEOREM NoLeakedEntryHolds == Spec => []NoLeakedEntry
<1>1. IInv /\ EntriesInv => NoLeakedEntry
  <2> SUFFICES ASSUME IInv, EntriesInv, rwMutex = None, NEW k \in Keys
               PROVE  lockMap[k] # None <=> \E p \in Procs : Counted(p) /\ Key(p) = k
    BY DEF NoLeakedEntry
  <2>1. \A p \in Procs : InMap(p) => Counted(p)
    BY ProcsAssumption DEF IInv, MapMutexInv, MapPcs, InMap
  <2>2. \A p \in Procs : Counted(p) => lockMap[Key(p)] # None
    BY ObjsAssumption DEF IInv, InMapInv, InMap
  <2> QED
    BY <2>1, <2>2 DEF EntriesInv, LiveInv
<1> QED
  BY <1>1, EntriesInvariance, PTL

\* GetSPLockMapStatus never reports an entry without references.
THEOREM StatusShowsLiveEntriesHolds == Spec => []StatusShowsLiveEntries
<1>1. IInv /\ EntriesInv => StatusShowsLiveEntries
  <2> SUFFICES ASSUME IInv, EntriesInv, statusIn, NEW k \in Keys, lockMap[k] # None
               PROVE  count[lockMap[k]] > 0
    BY DEF StatusShowsLiveEntries
  <2>1. PICK p \in Procs : InMap(p) /\ Key(p) = k
    BY DEF EntriesInv, LiveInv
  <2>2. Counted(p) /\ lockValue[p] = lockMap[k] /\ lockMap[k] \in Objs
    BY <2>1, ProcsAssumption DEF EntriesInv, StatusInv, IInv, MapMutexInv, MapPcs, InMapInv, InMap
  <2>3. p \in Refs(lockMap[k])
    BY <2>2 DEF Refs
  <2>4. Cardinality(Refs(lockMap[k])) \in Nat /\ Cardinality(Refs(lockMap[k])) # 0
    BY <2>3, RefsFinite, FS_CardinalityType, FS_EmptySet
  <2> QED
    BY <2>2, <2>4 DEF IInv, CountInv
<1> QED
  BY <1>1, EntriesInvariance, PTL

-----------------------------------------------------------------------------
\* What a session holds, as the abstract table sees it.
LEMMA GrantIsHolding ==
  ASSUME IInv, NEW p \in Procs
  PROVE  /\ ~Holding(p) => Grant[p] = None
         /\ Holding(p) => Grant[p] = <<Key(p), req[p].kind>> /\ Grant[p] # None
                          /\ <<Key(p), req[p].kind>> \in Keys \X {"R", "W"}
<1>1. Holding(p) => Key(p) \in Keys /\ req[p].kind \in {"R", "W"}
  BY KeyInKeys DEF IInv, RequestInv, Holding, Key, Requests
<1> QED
  BY <1>1, GrantsAssumption DEF Grant

\* A step that changes neither who holds nor what a holder asked for is not seen.
LEMMA SameGrant ==
  ASSUME \A q \in Procs : Holding(q)' <=> Holding(q),
         \A q \in Procs : Holding(q) => req'[q] = req[q]
  PROVE  Grant' = Grant
BY DEF Grant, Key, LockKey, overrideConnection

\* A session that is granted its lock acquires it in the table.
LEMMA ReturnAcquires ==
  ASSUME IInv, IInv', NEW p \in Procs, Return(p)
  PROVE  RW!Next
<1>1. ~Holding(p) /\ Holding(p)' /\ req' = req /\ pc' = [pc EXCEPT ![p] = "held"]
  BY DEF Return, Goto, Holding, IInv, TypeInv
<1>2. <<Key(p), req[p].kind>> \in Keys \X {"R", "W"}
  BY <1>1, KeyInKeys DEF IInv, RequestInv, Return, Goto, Key, Requests
<1>3. ASSUME NEW q \in Procs, Grant[q] # None
      PROVE  ~RW!Conflict(Grant[q], <<Key(p), req[p].kind>>)
  <2>1. Holding(q) /\ Grant[q] = <<Key(q), req[q].kind>> /\ q # p
    BY <1>1, <1>3, GrantIsHolding
  <2>2. Holding(q)'
    BY <1>1, <2>1 DEF Holding, IInv, TypeInv
  <2> SUFFICES ASSUME Key(q) = Key(p)
               PROVE  req[q].kind = "R" /\ req[p].kind = "R"
    BY <2>1, <1>2 DEF RW!Conflict
  <2>3. lockValue'[q] = lockValue'[p]
    BY <1>1, <2>1, <2>2 DEF IInv, InMapInv, InMap, Counted, Holding, Key, LockKey, overrideConnection
  <2>4. req'[p].kind \in {"R", "W"} /\ req'[q].kind \in {"R", "W"}
    BY <1>1, <2>2 DEF IInv, RequestInv, Requests, Holding
  <2> QED
    BY <1>1, <2>1, <2>2, <2>3, <2>4 DEF IInv, LockInv, GrantedPcs, Holding
<1>4. Grant' = [Grant EXCEPT ![p] = <<Key(p), req[p].kind>>]
  BY <1>1 DEF Grant, Holding, Key, LockKey, overrideConnection, IInv, TypeInv
<1>5. RW!Acquire(p, <<Key(p), req[p].kind>>)
  BY <1>1, <1>3, <1>4, GrantIsHolding DEF RW!Acquire
<1> QED
  BY <1>2, <1>5 DEF RW!Next, RW!Kinds

\* A session that is uncounted releases its lock in the table.
LEMMA UncountReleases ==
  ASSUME IInv, NEW p \in Procs, Uncount(p)
  PROVE  RW!Next
<1>1. Holding(p) /\ req' = req /\ pc' = [pc EXCEPT ![p] = "udelete"]
  BY DEF Uncount, Goto, Holding
<1>2. Grant' = [Grant EXCEPT ![p] = None]
  BY <1>1 DEF Grant, Holding, Key, LockKey, overrideConnection, IInv, TypeInv
<1>3. RW!Release(p)
  BY <1>1, <1>2, GrantIsHolding DEF RW!Release
<1> QED
  BY <1>3 DEF RW!Next

\* Every other step leaves the table as it is.
LEMMA OthersStutter ==
  ASSUME IInv, [Next]_vars, \A p \in Procs : ~Return(p) /\ ~Uncount(p)
  PROVE  Grant' = Grant
<1> USE DEF IInv, TypeInv, Goto, Holding
<1>1. ASSUME NEW p \in Procs, NEW r \in Requests, Call(p, r) PROVE Grant' = Grant
  BY <1>1, SameGrant DEF Call
<1>2. ASSUME NEW p \in Procs, LockStep(p) PROVE Grant' = Grant
  BY <1>2, SameGrant DEF LockStep, EnterMap, TakeMap, FindOrCreate, CountIn, Ask
<1>3. ASSUME NEW p \in Procs, CallUnlock(p) PROVE Grant' = Grant
  BY <1>3, SameGrant DEF CallUnlock
<1>4. ASSUME NEW p \in Procs, UnlockStep(p) PROVE Grant' = Grant
  <2>1. CASE ReenterMap(p)
    BY <2>1, SameGrant DEF ReenterMap, TakeMap
  <2>2. CASE Find(p)
    <3>1. lockMap[Key(p)] # None
      BY <2>2, ObjsAssumption DEF Find, InMapInv, InMap, Counted
    <3> QED
      BY <2>2, <3>1, SameGrant DEF Find
  <2>3. CASE DeleteAtZero(p)
    BY <2>3, SameGrant DEF DeleteAtZero
  <2>4. CASE Leave(p)
    BY <2>4, SameGrant DEF Leave
  <2> QED
    BY <1>4, <2>1, <2>2, <2>3, <2>4 DEF UnlockStep
<1>5. CASE StatusBegin \/ StatusEnd \/ UNCHANGED vars
  BY <1>5, SameGrant DEF StatusBegin, StatusEnd, vars
<1> QED
  BY <1>1, <1>2, <1>3, <1>4, <1>5 DEF Next

\* The map of LockValues implements the abstract table of readers-writer locks,
\* on which the modules of the managers rely.
THEOREM ImplementsRWLockTableHolds == Spec => ImplementsRWLockTable
<1>1. Init => RW!Init
  BY DEF Init, RW!Init, Grant, Holding
<1>2. ASSUME IInv, IInv', [Next]_vars PROVE [RW!Next]_Grant
  <2>1. ASSUME NEW p \in Procs, Return(p) PROVE RW!Next
    BY <1>2, <2>1, ReturnAcquires
  <2>2. ASSUME NEW p \in Procs, Uncount(p) PROVE RW!Next
    BY <1>2, <2>2, UncountReleases
  <2> QED
    BY <1>2, <2>1, <2>2, OthersStutter
<1> QED
  BY <1>1, <1>2, Invariance, PTL DEF Spec, RW!Spec, ImplementsRWLockTable
=============================================================================
