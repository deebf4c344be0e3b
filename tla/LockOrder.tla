----------------------------- MODULE LockOrder -----------------------------
(***************************************************************************)
(* How the managers of common-runtime nest the lock tables vpcSPLock,       *)
(* sgSPLock, keySPLock, vmSPLock, diskSPLock, clusterSPLock, nlbSPLock,     *)
(* fsSPLock and rdbmsSPLock; no call holds a lock of another table together *)
(* with a second lock.                                                     *)
(*                                                                         *)
(* A call takes its locks one after another, holds all of them, and gives  *)
(* them back, last one first, when its deferred Unlocks run: at its end or *)
(* at any of its early returns.  What it does between two locks is of no   *)
(* interest here, so that a call is its plan: the sequence of the locks it *)
(* takes.  Each lock is the sync.RWMutex of one LockValue; SPLock.tla has   *)
(* the map around it.  As the mutexes are not reentrant, every element of  *)
(* a plan is a lock session of its own.                                    *)
(***************************************************************************)
EXTENDS Naturals, Sequences

CONSTANTS
  Procs,      \* goroutines serving calls
  Vpcs, Sgs, Keys, Vms, Disks, Clusters, Nlbs, FileSystems, Dbs,  \* the names in each table
  SgLists,    \* the lists of security groups that a request may name
  RowLists,   \* the lists that the rows of a VPC's security groups may form
  KeyLists,   \* the key pairs of a request's node groups, in order
  None

ASSUME ListsAssumption ==
  SgLists \subseteq Seq(Sgs) /\ RowLists \subseteq Seq(Sgs) /\ KeyLists \subseteq Seq(Keys)
ASSUME NoneAssumption == None \notin Procs \X Nat

VARIABLES
  mutex,   \* the readers-writer lock of each name of each table
  plan,    \* the locks the call of each goroutine takes
  next,    \* the position in the plan; the locks before it are held
  pc       \* idle, run, lock (in Lock), wait (behind others), unlock

vars == <<mutex, plan, next, pc>>

Mu == INSTANCE GoRWMutex WITH NoOwner <- None

Names(t) == CASE t = "vpc" -> Vpcs
              [] t = "sg" -> Sgs
              [] t = "key" -> Keys
              [] t = "vm" -> Vms
              [] t = "disk" -> Disks
              [] t = "cluster" -> Clusters
              [] t = "nlb" -> Nlbs
              [] t = "fs" -> FileSystems
              [] t = "rdbms" -> Dbs
Tables == {"vpc", "sg", "key", "vm", "disk", "cluster", "nlb", "fs", "rdbms"}
Locks == UNION {{t} \X Names(t) : t \in Tables}

R(t, n) == <<<<t, n>>, "R">>
W(t, n) == <<<<t, n>>, "W">>
RAll(t, list) == [i \in 1 .. Len(list) |-> R(t, list[i])]

-----------------------------------------------------------------------------
(* The plans.                                                              *)

\* Faulty: the cluster is locked first.
FaultyCreateCluster(v, sgs, keys, c) ==
  <<W("cluster", c), R("vpc", v)>> \o RAll("sg", sgs) \o RAll("key", keys)

\* The security groups in the order of the request, then the key pair of each
\* node group.
CreateCluster(v, sgs, keys, c) ==
  <<R("vpc", v)>> \o RAll("sg", sgs) \o RAll("key", keys) \o <<W("cluster", c)>>
RegisterCluster(v, c) == <<R("vpc", v), W("cluster", c)>>
AddNodeGroup(k, c) == <<R("key", k), W("cluster", c)>>

CreateNLB(v, n) == <<R("vpc", v), W("nlb", n)>>
RegisterNLB(v, n) == <<R("vpc", v), W("nlb", n)>>

CreateFileSystem(v, f) == <<R("vpc", v), W("fs", f)>>

CreateRDBMS(v, sgs, d) == <<R("vpc", v)>> \o RAll("sg", sgs) \o <<W("rdbms", d)>>
RegisterRDBMS(v, d) == <<R("vpc", v), W("rdbms", d)>>

CreateSecurity(v, g) == <<W("vpc", v), W("sg", g)>>
\* A VM made from an image of its own brings its data disks, which StartVM
\* registers by RegisterDisk, under their locks.  Each is given back before the
\* next is taken, so that each disk of a call is a plan here.
StartVM(m, d) == <<W("vm", m), W("disk", d)>>

\* Some clouds' security groups have no VPC.
RegisterSecurity(v, g) == <<W("vpc", v), W("sg", g)>>
RegisterSecurityNoVPC(g) == <<W("sg", g)>>

\* The RUnlocks of the loop are deferred to the end of the call.
ListVpcSecurity(sgs) == RAll("sg", sgs)

\* Every other call holds one lock at a time, for reading or writing.
Single == {<<R(l[1], l[2])>> : l \in Locks} \cup {<<W(l[1], l[2])>> : l \in Locks}

Plans ==
  {CreateCluster(v, sgs, keys, c) : v \in Vpcs, sgs \in SgLists, keys \in KeyLists, c \in Clusters}
  \cup {RegisterCluster(v, c) : v \in Vpcs, c \in Clusters}
  \cup {AddNodeGroup(k, c) : k \in Keys, c \in Clusters}
  \cup {CreateNLB(v, n) : v \in Vpcs, n \in Nlbs}
  \cup {RegisterNLB(v, n) : v \in Vpcs, n \in Nlbs}
  \cup {CreateFileSystem(v, f) : v \in Vpcs, f \in FileSystems}
  \cup {CreateRDBMS(v, sgs, d) : v \in Vpcs, sgs \in SgLists, d \in Dbs}
  \cup {RegisterRDBMS(v, d) : v \in Vpcs, d \in Dbs}
  \cup {CreateSecurity(v, g) : v \in Vpcs, g \in Sgs}
  \cup {RegisterSecurity(v, g) : v \in Vpcs, g \in Sgs}
  \cup {RegisterSecurityNoVPC(g) : g \in Sgs}
  \cup {StartVM(m, d) : m \in Vms, d \in Disks}
  \cup {ListVpcSecurity(sgs) : sgs \in RowLists}
  \cup Single

-----------------------------------------------------------------------------
Init ==
  /\ mutex = [l \in Locks |-> Mu!FreeMutex]
  /\ plan = [p \in Procs |-> <<>>]
  /\ next = [p \in Procs |-> 1]
  /\ pc = [p \in Procs |-> "idle"]

\* The lock and the kind of the i-th session of p, and of the next one.
LockOf(p, i) == plan[p][i][1]
KindOf(p, i) == plan[p][i][2]
Want(p) == LockOf(p, next[p])
Kind(p) == KindOf(p, next[p])
Me(p) == <<p, next[p]>>

Begin(p) ==
  /\ pc[p] = "idle"
  /\ \E pl \in Plans : plan' = [plan EXCEPT ![p] = pl]
  /\ next' = [next EXCEPT ![p] = 1]
  /\ pc' = [pc EXCEPT ![p] = "run"]
  /\ UNCHANGED mutex

\* The call comes to its next Lock or RLock.
Call(p) ==
  /\ pc[p] = "run" /\ next[p] <= Len(plan[p])
  /\ pc' = [pc EXCEPT ![p] = "lock"]
  /\ UNCHANGED <<mutex, plan, next>>

\* A writer announces itself when no other has; a reader arrives.
Ask(p) ==
  /\ pc[p] = "lock"
  /\ \/ /\ Kind(p) = "W" /\ Mu!CanAnnounce(mutex[Want(p)])
        /\ mutex' = [mutex EXCEPT ![Want(p)] = Mu!Announce(@, Me(p))]
     \/ /\ Kind(p) = "R"
        /\ mutex' = [mutex EXCEPT ![Want(p)] = Mu!Arrive(@, Me(p))]
  /\ pc' = [pc EXCEPT ![p] = "wait"]
  /\ UNCHANGED <<plan, next>>

Granted(p) == IF Kind(p) = "W" THEN Mu!WriterIn(mutex[Want(p)], Me(p))
                               ELSE Mu!ReaderIn(mutex[Want(p)], Me(p))

Enter(p) ==
  /\ pc[p] = "wait" /\ Granted(p)
  /\ next' = [next EXCEPT ![p] = @ + 1]
  /\ pc' = [pc EXCEPT ![p] = "run"]
  /\ UNCHANGED <<mutex, plan>>

\* Faulty: an early return forgets the locks.
FaultyReturn(p) ==
  /\ pc[p] = "run"
  /\ pc' = [pc EXCEPT ![p] = IF next[p] > Len(plan[p]) THEN "unlock" ELSE "idle"]
  /\ UNCHANGED <<mutex, plan, next>>

\* The call returns, at its end or with an error before it.
Return(p) ==
  /\ pc[p] = "run"
  /\ pc' = [pc EXCEPT ![p] = "unlock"]
  /\ UNCHANGED <<mutex, plan, next>>

\* Faulty: the end of the call counts a lock given back, too.
FaultyUnlock(p) ==
  /\ pc[p] = "unlock"
  /\ \/ /\ next[p] > 1
        /\ LET i == next[p] - 1
           IN mutex' = [mutex EXCEPT ![LockOf(p, i)] =
                          IF KindOf(p, i) = "W" THEN Mu!WriterOut(@) ELSE Mu!ReaderOut(@, <<p, i>>)]
        /\ UNCHANGED <<plan, pc>>
     \/ /\ next[p] = 1
        /\ pc' = [pc EXCEPT ![p] = "idle"]
        /\ plan' = [plan EXCEPT ![p] = <<>>]
        /\ UNCHANGED mutex
  /\ next' = [next EXCEPT ![p] = @ - 1]

\* The next deferred Unlock or RUnlock runs, and after the last the call ends.
Unlock(p) ==
  /\ pc[p] = "unlock"
  /\ \/ /\ next[p] > 1
        /\ LET i == next[p] - 1
           IN mutex' = [mutex EXCEPT ![LockOf(p, i)] =
                          IF KindOf(p, i) = "W" THEN Mu!WriterOut(@) ELSE Mu!ReaderOut(@, <<p, i>>)]
        /\ next' = [next EXCEPT ![p] = @ - 1]
        /\ UNCHANGED <<plan, pc>>
     \/ /\ next[p] = 1
        /\ pc' = [pc EXCEPT ![p] = "idle"]
        /\ plan' = [plan EXCEPT ![p] = <<>>]
        /\ UNCHANGED <<mutex, next>>

Serve(p) == Call(p) \/ Ask(p) \/ Enter(p) \/ Return(p) \/ Unlock(p)

Next == \E p \in Procs : Begin(p) \/ Serve(p)

Spec == Init /\ [][Next]_vars

\* Goroutines are scheduled, drivers answer, and sync.Mutex, which writers
\* queue in, starves nobody.
Fairness == \A p \in Procs : WF_vars(Serve(p)) /\ SF_vars(Ask(p))

FairSpec == Spec /\ Fairness

-----------------------------------------------------------------------------
TypeOK ==
  /\ \A l \in Locks :
       /\ mutex[l].w \in (Procs \X Nat) \cup {None}
       /\ mutex[l].readers \subseteq Procs \X Nat
       /\ mutex[l].rwait \subseteq Procs \X Nat
  /\ plan \in [Procs -> Plans \cup {<<>>}]
  /\ next \in [Procs -> Nat \ {0}]
  /\ pc \in [Procs -> {"idle", "run", "lock", "wait", "unlock"}]

\* The goroutines that p cannot go on without: a writer needs the announced
\* writer, and then every reader, to leave; a reader the announced writer.
WaitsFor(p) ==
  LET m == mutex[Want(p)]
      owners == CASE pc[p] = "lock" /\ Kind(p) = "W" -> {m.w}
                  [] pc[p] = "wait" /\ Kind(p) = "W" -> m.readers
                  [] pc[p] = "wait" /\ Kind(p) = "R" /\ Me(p) \in m.rwait -> {m.w}
                  [] OTHER -> {}
  IN {s[1] : s \in owners \ {None}}

\* No goroutines wait for each other in a circle (nor one for itself): the
\* calls that hold locks can finish.
NoDeadlock ==
  ~\E S \in SUBSET Procs : S # {} /\ \A p \in S : WaitsFor(p) \cap S # {}

\* Every request that is being served is answered.
CallsReturn == \A p \in Procs : pc[p] = "run" ~> pc[p] = "idle"
=============================================================================
