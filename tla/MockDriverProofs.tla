-------------------------- MODULE MockDriverProofs --------------------------
(***************************************************************************)
(* The mock driver, for any number of calls, VMs and disks: the types, the *)
(* only circular wait there is, and that a VM lists the disks it owns.     *)
(*                                                                         *)
(* The step of each goroutine tells what a mutex knows of it (MutexFits).  *)
(* From that alone a wait can be followed from call to call, and ends at a *)
(* TerminateVM or at a call on a disk (StuckOnlyByTerminateVM).  That a    *)
(* disk's owner and its VM's list agree needs, for each disk in the hands  *)
(* of a call, which lists still name it (Cleared, Clearing): none but that *)
(* of a VM that TerminateVM is about to remove (Handled).  TerminateVM in  *)
(* turn knows that nobody attaches the disk whose owner it clears          *)
(* (TermFits).                                                             *)
(***************************************************************************)
EXTENDS MockDriver, TLAPS

\* TerminateVM has vmMapLock and detaches the VM's disks one by one.
Emptying == {"term.next", "just.detach", "just.free", "just.clear"}

\* The steps at which a call has announced itself as the writer of mutex l; has
\* become its only user; has arrived as a reader; is one.
Writers(l) ==
  IF l = "vm" THEN {"start.insert", "term.find", "control.in"} \cup Emptying
              ELSE {"create.in", "delete.find", "delete.remove", "delete.detach"}
Holders(l) == IF l = "vm" THEN Emptying ELSE {"delete.remove", "delete.detach"}
Readers(l) ==
  IF l = "vm" THEN {"getvm.in", "attach.list", "detach.list", "delete.detach"}
              ELSE {"start.validate", "just.check", "just.status", "just.owner", "just.detach", "just.free",
                    "just.clear", "getdisk.in",
                    "attach.check", "attach.owner", "attach.status", "attach.list", "detach.check",
                    "detach.list", "detach.status", "detach.owner"}
Inside(l) ==
  IF l = "vm" THEN {}
              ELSE {"just.status", "just.owner", "just.free", "just.clear", "attach.owner", "attach.status",
                    "attach.list", "detach.list", "detach.status", "detach.owner"}

Mutexes == [w : Procs \cup {None}, readers : SUBSET Procs, rwait : SUBSET Procs]

\* What the mutex x, named l, knows of a goroutine at k.
Knows(l, x, p, k) ==
  /\ x.w = p <=> k \in Writers(l)
  /\ p \in x.readers \cup x.rwait <=> k \in Readers(l)
  /\ ~(p \in x.readers /\ p \in x.rwait)
  /\ k \in Inside(l) => p \in x.readers
  /\ k \in Holders(l) => x.readers = {}

\* The same of all goroutines, at pcs.
FitsAt(l, x, pcs) ==
  /\ x \in Mutexes
  /\ x.rwait # {} => x.w # None
  /\ \A p \in Procs : Knows(l, x, p, pcs[p])

MutexFits == mutex \in [Locks -> Mutexes] /\ \A l \in Locks : FitsAt(l, mutex[l], pc)

StartPcs == {"StartVM", "start.validate", "start.attach", "just.check", "just.status", "just.owner", "start.insert"}
TermPcs == {"TerminateVM", "term.find"} \cup Emptying
AttachPcs == {"AttachDisk", "attach.check", "attach.owner", "attach.status", "attach.list"}
DetachPcs == {"DetachDisk", "detach.check", "detach.list", "detach.status", "detach.owner"}
DeletePcs == {"DeleteDisk", "delete.find", "delete.remove", "delete.detach"}
CreatePcs == {"CreateDisk", "create.in"}
OtherPcs == {"idle", "ControlVM", "control.in", "GetVM", "getvm.in", "GetDisk", "getdisk.in"}
Pcs == StartPcs \cup TermPcs \cup AttachPcs \cup DetachPcs \cup DeletePcs \cup CreatePcs \cup OtherPcs

\* The steps that read or write the disk of the call, and find it in the map.
FindsDisk == {"just.status", "just.owner", "just.free", "just.clear", "attach.owner", "attach.status", "attach.list", "detach.list",
              "detach.status", "detach.owner", "delete.detach", "delete.remove"}

Jobs == [op : VMOps \cup DiskOps \cup ReadOps \cup {"none"}, m : VMs \cup {None}, d : Disks \cup {None},
         todo : SUBSET Disks, done : SUBSET Disks]

\* The call j of a goroutine at k, which belongs to one operation, with the maps
\* disk and misused at infos and mis.
Fits(k, j, infos, mis) ==
  /\ k \in StartPcs => j.op = "StartVM" /\ j.m \in VMs
  /\ k \in {"just.check", "just.status", "just.owner", "just.detach", "just.free", "just.clear"} => j.d \in Disks
  /\ k \in TermPcs => j.op = "TerminateVM" /\ j.m \in VMs
  /\ k \in AttachPcs => j.op = "AttachDisk" /\ j.m \in VMs /\ j.d \in Disks
  /\ k \in DetachPcs => j.op = "DetachDisk" /\ j.m \in VMs /\ j.d \in Disks
  /\ k \in DeletePcs => j.op = "DeleteDisk" /\ j.d \in Disks
  /\ k = "delete.detach" => j.m \in VMs
  /\ k \in CreatePcs => j.op = "CreateDisk" /\ j.d \in Disks
  /\ k \in FindsDisk => infos[j.d] # None
  /\ k \in {"just.status", "just.owner"} => j.d \in mis
  /\ j.done \subseteq mis

CallsFit ==
  /\ pc \in [Procs -> Pcs] /\ job \in [Procs -> Jobs]
  /\ \A p \in Procs : Fits(pc[p], job[p], disk, misused)
  \* diskSPLock: one call at a time uses a disk's name.
  /\ \A p, q \in Procs : job[p].op \in DiskOps /\ job[q].op \in DiskOps /\ p # q => job[p].d # job[q].d

Typed ==
  /\ vm \in [VMs -> (SUBSET Disks) \cup {None}]
  /\ disk \in [Disks -> DiskInfos \cup {None}]
  /\ misused \subseteq Disks

InUse(m) == [status |-> "Attached", owner |-> m]
Lists(m, d) == vm[m] # None /\ d \in vm[m]

\* TerminateVM has detached d, if it was to be, from m that it will now remove.
HandledBy(p, m, d) ==
  /\ pc[p] \in Emptying /\ job[p].m = m
  /\ d \notin job[p].todo /\ ~(pc[p] \in {"just.detach", "just.free"} /\ job[p].d = d)
Handled(m, d) == \E p \in Procs : HandledBy(p, m, d)

\* No list names d but one that goes; none but that of m.
Cleared(d) == \A m \in VMs : Lists(m, d) => Handled(m, d)
Clearing(d, own) == \A m \in VMs \ {own} : Lists(m, d) => Handled(m, d)

ClearedPcs == {"CreateDisk", "create.in", "attach.owner", "attach.status", "attach.list", "detach.status",
               "detach.owner", "delete.remove"}

\* The owner of a disk and the list that names it agree, but for VMs that go.
OwnersFit ==
  \A m \in VMs, d \in Disks \ misused : Lists(m, d) => disk[d] = InUse(m) \/ Handled(m, d)

\* The disk in the hands of p.
HandFits(p) ==
  LET m == job[p].m  d == job[p].d IN
  d \notin misused =>
    /\ pc[p] \in ClearedPcs => Cleared(d)
    /\ pc[p] \in {"detach.list", "delete.detach"} => Clearing(d, m)
    /\ At(p, "attach.status") => disk[d].owner = m
    /\ At(p, "attach.list") => disk[d] = InUse(m)

\* AttachDisk has found d available.
Attaching(q, d) == pc[q] \in {"attach.owner", "attach.status", "attach.list"} /\ job[q].d = d

\* What TerminateVM has still to detach is on the VM's list; and the disk whose
\* owner it is about to clear has no list and no AttachDisk.
TermFits(p) ==
  LET m == job[p].m  d == job[p].d IN
  /\ pc[p] \in Emptying => \A e \in job[p].todo : Lists(m, e)
  /\ pc[p] \in {"just.detach", "just.free", "just.clear"} => d \notin job[p].todo
  /\ pc[p] \in {"just.detach", "just.free"} => Lists(m, d)
  /\ At(p, "just.clear") /\ d \notin misused => Cleared(d) /\ \A q \in Procs : ~Attaching(q, d)

ListsFit == OwnersFit /\ \A p \in Procs : HandFits(p) /\ TermFits(p)

IInv == Typed /\ MutexFits /\ CallsFit /\ ListsFit

-----------------------------------------------------------------------------
(* What the operations of a mutex do to what it knows.                     *)

USE DEF Mu!FreeMutex, Mu!CanAnnounce, Mu!Announce, Mu!WriterIn, Mu!Arrive, Mu!ReaderIn, Mu!ReaderOut, Mu!WriterOut

\* A step from i to k at which a call arrives at mutex l, announces itself as the
\* writer, or leaves.
Arrives(l, i, k) ==
  /\ i \notin Readers(l) /\ k \in Readers(l) /\ (i \in Writers(l) <=> k \in Writers(l))
  /\ k \notin Inside(l) \cup Holders(l)
Announces(l, i, k) ==
  k \in Writers(l) /\ (i \in Readers(l) <=> k \in Readers(l)) /\ k \notin Inside(l) \cup Holders(l)
ReaderLeaves(l, i, k) ==
  k \notin Readers(l) /\ (i \in Writers(l) <=> k \in Writers(l)) /\ k \notin Inside(l) \cup Holders(l)
WriterLeaves(l, i, k) ==
  k \notin Writers(l) /\ (i \in Readers(l) <=> k \in Readers(l)) /\ k \notin Inside(l) \cup Holders(l)

\* The step of p to k does nothing to the mutex x, named l; a reader or the writer
\* finds that it is in.
Passes(l, x, p, i, k) ==
  /\ i \in Writers(l) <=> k \in Writers(l)
  /\ i \in Readers(l) <=> k \in Readers(l)
  /\ k \in Inside(l) => i \in Inside(l) \/ Mu!ReaderIn(x, p)
  /\ k \in Holders(l) => i \in Holders(l) \/ x.readers = {}

LEMMA MutexTyped ==
  ASSUME NEW x \in Mutexes, NEW p \in Procs
  PROVE  /\ Mu!Arrive(x, p) \in Mutexes /\ Mu!Announce(x, p) \in Mutexes
         /\ Mu!ReaderOut(x, p) \in Mutexes /\ Mu!WriterOut(x) \in Mutexes
  BY DEF Mutexes

LEMMA ArriveFits ==
  ASSUME NEW l \in Locks, NEW x, NEW pcs \in [Procs -> Pcs], FitsAt(l, x, pcs), NEW p \in Procs, NEW k \in Pcs,
         Arrives(l, pcs[p], k)
  PROVE  FitsAt(l, Mu!Arrive(x, p), [pcs EXCEPT ![p] = k])
<1> DEFINE y == Mu!Arrive(x, p)
           f == [pcs EXCEPT ![p] = k]
<1>1. x \in Mutexes /\ y \in Mutexes  BY MutexTyped DEF FitsAt
<1>2. y.w = x.w /\ y.readers \cup y.rwait = x.readers \cup x.rwait \cup {p}  BY <1>1 DEF Mutexes
<1>3. y.rwait # {} => y.w # None  BY <1>1 DEF Mutexes, FitsAt
<1>4. ASSUME NEW q \in Procs  PROVE Knows(l, y, q, f[q])
  <2>1. Knows(l, x, q, pcs[q])  BY DEF FitsAt
  <2>2. pcs[q] \in Holders(l) => pcs[q] \in Writers(l)  BY DEF Holders, Writers
  <2>3. CASE q = p  BY <1>1, <1>2, <2>1, <2>3, MockAssumption DEF Knows, Arrives, Mutexes
  <2>4. CASE q # p  BY <1>1, <1>2, <2>1, <2>2, <2>4, MockAssumption DEF Knows, Arrives, Mutexes
  <2> QED  BY <2>3, <2>4
<1> QED  BY <1>1, <1>3, <1>4 DEF FitsAt

LEMMA AnnounceFits ==
  ASSUME NEW l \in Locks, NEW x, NEW pcs \in [Procs -> Pcs], FitsAt(l, x, pcs), NEW p \in Procs, NEW k \in Pcs,
         Mu!CanAnnounce(x), Announces(l, pcs[p], k)
  PROVE  FitsAt(l, Mu!Announce(x, p), [pcs EXCEPT ![p] = k])
<1> DEFINE y == Mu!Announce(x, p)
           f == [pcs EXCEPT ![p] = k]
<1>1. x \in Mutexes /\ y \in Mutexes  BY MutexTyped DEF FitsAt
<1>2. y.w = p /\ x.w = None /\ y.readers = x.readers /\ y.rwait = x.rwait  BY <1>1 DEF Mutexes
<1>3. y.rwait # {} => y.w # None  BY <1>1, <1>2, MockAssumption DEF FitsAt
<1>4. ASSUME NEW q \in Procs  PROVE Knows(l, y, q, f[q])
  <2>1. Knows(l, x, q, pcs[q])  BY DEF FitsAt
  <2>3. CASE q = p  BY <1>1, <1>2, <2>1, <2>3, MockAssumption DEF Knows, Announces, Mutexes
  <2>4. CASE q # p  BY <1>1, <1>2, <2>1, <2>4, MockAssumption DEF Knows, Announces, Mutexes
  <2> QED  BY <2>3, <2>4
<1> QED  BY <1>1, <1>3, <1>4 DEF FitsAt

LEMMA ReaderOutFits ==
  ASSUME NEW l \in Locks, NEW x, NEW pcs \in [Procs -> Pcs], FitsAt(l, x, pcs), NEW p \in Procs, NEW k \in Pcs,
         Mu!ReaderIn(x, p), ReaderLeaves(l, pcs[p], k)
  PROVE  FitsAt(l, Mu!ReaderOut(x, p), [pcs EXCEPT ![p] = k])
<1> DEFINE y == Mu!ReaderOut(x, p)
           f == [pcs EXCEPT ![p] = k]
<1>1. x \in Mutexes /\ y \in Mutexes  BY MutexTyped DEF FitsAt
<1>2. y.w = x.w /\ y.readers = x.readers \ {p} /\ y.rwait = x.rwait  BY <1>1 DEF Mutexes
<1>3. y.rwait # {} => y.w # None  BY <1>1, <1>2, MockAssumption DEF FitsAt
<1>4. ASSUME NEW q \in Procs  PROVE Knows(l, y, q, f[q])
  <2>1. Knows(l, x, q, pcs[q])  BY DEF FitsAt
  <2>3. CASE q = p  BY <1>1, <1>2, <2>1, <2>3, MockAssumption DEF Knows, ReaderLeaves, Mutexes
  <2>4. CASE q # p  BY <1>1, <1>2, <2>1, <2>4, MockAssumption DEF Knows, ReaderLeaves, Mutexes
  <2> QED  BY <2>3, <2>4
<1> QED  BY <1>1, <1>3, <1>4 DEF FitsAt

\* The writer leaves: the readers that waited are in.
LEMMA WriterOutFits ==
  ASSUME NEW l \in Locks, NEW x, NEW pcs \in [Procs -> Pcs], FitsAt(l, x, pcs), NEW p \in Procs, NEW k \in Pcs,
         x.w = p, x.readers = {}, WriterLeaves(l, pcs[p], k)
  PROVE  FitsAt(l, Mu!WriterOut(x), [pcs EXCEPT ![p] = k])
<1> DEFINE y == Mu!WriterOut(x)
           f == [pcs EXCEPT ![p] = k]
<1>1. x \in Mutexes /\ y \in Mutexes  BY MutexTyped DEF FitsAt
<1>2. y.w = None /\ y.readers = x.rwait /\ y.rwait = {}  BY <1>1 DEF Mutexes
<1>3. y.rwait # {} => y.w # None  BY <1>2
<1>4. ASSUME NEW q \in Procs  PROVE Knows(l, y, q, f[q])
  <2>1. Knows(l, x, q, pcs[q])  BY DEF FitsAt
  <2>2. pcs[q] \in Holders(l) => pcs[q] \in Writers(l)  BY DEF Holders, Writers
  <2>3. CASE q = p  BY <1>1, <1>2, <2>1, <2>3, MockAssumption DEF Knows, WriterLeaves, Mutexes
  <2>4. CASE q # p  BY <1>1, <1>2, <2>1, <2>2, <2>4, MockAssumption DEF Knows, WriterLeaves, Mutexes
  <2> QED  BY <2>3, <2>4
<1> QED  BY <1>1, <1>3, <1>4 DEF FitsAt

\* Another step with the mutex as it is.
LEMMA SameFits ==
  ASSUME NEW l \in Locks, NEW x, NEW pcs \in [Procs -> Pcs], FitsAt(l, x, pcs), NEW p \in Procs, NEW k \in Pcs,
         Passes(l, x, p, pcs[p], k)
  PROVE  FitsAt(l, x, [pcs EXCEPT ![p] = k])
<1> DEFINE f == [pcs EXCEPT ![p] = k]
<1>4. ASSUME NEW q \in Procs  PROVE Knows(l, x, q, f[q])
  <2>1. Knows(l, x, q, pcs[q])  BY DEF FitsAt
  <2>3. CASE q = p  BY <2>1, <2>3 DEF Knows, Passes
  <2>4. CASE q # p  BY <2>1, <2>4 DEF Knows
  <2> QED  BY <2>3, <2>4
<1> QED  BY <1>4 DEF FitsAt

\* The same of the state: a step of p to k that works mutex l, or none, and
\* that the other mutex does not notice.
Moves(p, k) == pc' = [pc EXCEPT ![p] = k]

LEMMA MutexChanges ==
  ASSUME MutexFits, pc \in [Procs -> Pcs], NEW p \in Procs, NEW k \in Pcs, Moves(p, k), NEW l \in Locks,
         NEW y, mutex' = [mutex EXCEPT ![l] = y], FitsAt(l, y, [pc EXCEPT ![p] = k]),
         \A x \in Locks \ {l} : Passes(x, mutex[x], p, pc[p], k)
  PROVE  MutexFits'
<1>1. mutex' \in [Locks -> Mutexes]  BY DEF MutexFits, FitsAt
<1>2. ASSUME NEW x \in Locks \ {l}  PROVE FitsAt(x, mutex[x], [pc EXCEPT ![p] = k])
  <2>1. FitsAt(x, mutex[x], pc)  BY DEF MutexFits
  <2> QED  BY <2>1, SameFits
<1>3. ASSUME NEW x \in Locks  PROVE FitsAt(x, mutex'[x], pc')
  BY <1>2 DEF MutexFits, Moves
<1> QED  BY <1>1, <1>3 DEF MutexFits

LEMMA RLockFits ==
  ASSUME MutexFits, pc \in [Procs -> Pcs], NEW p \in Procs, NEW k \in Pcs, Moves(p, k), NEW l \in Locks,
         mutex' = [mutex EXCEPT ![l] = Mu!Arrive(mutex[l], p)],
         Arrives(l, pc[p], k),
         \A x \in Locks \ {l} : Passes(x, mutex[x], p, pc[p], k)
  PROVE  MutexFits'
<1>1. FitsAt(l, Mu!Arrive(mutex[l], p), [pc EXCEPT ![p] = k])
  <2>1. FitsAt(l, mutex[l], pc)  BY DEF MutexFits
  <2> QED  BY <2>1, ArriveFits
<1> QED  BY <1>1, MutexChanges

LEMMA WLockFits ==
  ASSUME MutexFits, pc \in [Procs -> Pcs], NEW p \in Procs, NEW k \in Pcs, Moves(p, k), NEW l \in Locks,
         mutex' = [mutex EXCEPT ![l] = Mu!Announce(mutex[l], p)], Mu!CanAnnounce(mutex[l]),
         Announces(l, pc[p], k),
         \A x \in Locks \ {l} : Passes(x, mutex[x], p, pc[p], k)
  PROVE  MutexFits'
<1>1. FitsAt(l, Mu!Announce(mutex[l], p), [pc EXCEPT ![p] = k])
  <2>1. FitsAt(l, mutex[l], pc)  BY DEF MutexFits
  <2> QED  BY <2>1, AnnounceFits
<1> QED  BY <1>1, MutexChanges

LEMMA RUnlockFits ==
  ASSUME MutexFits, pc \in [Procs -> Pcs], NEW p \in Procs, NEW k \in Pcs, Moves(p, k), NEW l \in Locks,
         mutex' = [mutex EXCEPT ![l] = Mu!ReaderOut(mutex[l], p)], Mu!ReaderIn(mutex[l], p),
         ReaderLeaves(l, pc[p], k),
         \A x \in Locks \ {l} : Passes(x, mutex[x], p, pc[p], k)
  PROVE  MutexFits'
<1>1. FitsAt(l, Mu!ReaderOut(mutex[l], p), [pc EXCEPT ![p] = k])
  <2>1. FitsAt(l, mutex[l], pc)  BY DEF MutexFits
  <2> QED  BY <2>1, ReaderOutFits
<1> QED  BY <1>1, MutexChanges

LEMMA WUnlockFits ==
  ASSUME MutexFits, pc \in [Procs -> Pcs], NEW p \in Procs, NEW k \in Pcs, Moves(p, k), NEW l \in Locks,
         mutex' = [mutex EXCEPT ![l] = Mu!WriterOut(mutex[l])], mutex[l].w = p, mutex[l].readers = {},
         WriterLeaves(l, pc[p], k),
         \A x \in Locks \ {l} : Passes(x, mutex[x], p, pc[p], k)
  PROVE  MutexFits'
<1>1. FitsAt(l, Mu!WriterOut(mutex[l]), [pc EXCEPT ![p] = k])
  <2>1. FitsAt(l, mutex[l], pc)  BY DEF MutexFits
  <2> QED  BY <2>1, WriterOutFits
<1> QED  BY <1>1, MutexChanges

LEMMA KeepFits ==
  ASSUME MutexFits, pc \in [Procs -> Pcs], NEW p \in Procs, NEW k \in Pcs, Moves(p, k), UNCHANGED mutex,
         \A l \in Locks : Passes(l, mutex[l], p, pc[p], k)
  PROVE  MutexFits'
<1>1. mutex' \in [Locks -> Mutexes]  BY DEF MutexFits
<1>2. ASSUME NEW l \in Locks  PROVE FitsAt(l, mutex'[l], pc')
  <2>1. FitsAt(l, mutex[l], pc)  BY DEF MutexFits
  <2>2. FitsAt(l, mutex[l], [pc EXCEPT ![p] = k])  BY <2>1, SameFits
  <2> QED  BY <2>2 DEF Moves
<1> QED  BY <1>1, <1>2 DEF MutexFits

\* What a call at its step knows of a mutex.
LEMMA MutexKnows ==
  ASSUME MutexFits, NEW p \in Procs, NEW l \in Locks
  PROVE  /\ pc[p] \in Writers(l) => mutex[l].w = p
         /\ pc[p] \in Holders(l) => mutex[l].w = p /\ mutex[l].readers = {}
         /\ pc[p] \in Inside(l) => Mu!ReaderIn(mutex[l], p)
  BY DEF MutexFits, FitsAt, Knows, Holders, Writers

-----------------------------------------------------------------------------
(* Each step keeps MutexFits: p goes from a step to the next and has       *)
(* arrived at a mutex, left one, or neither.                               *)

USE DEF Emptying, StartPcs, TermPcs, AttachPcs, DetachPcs, DeletePcs, CreatePcs, OtherPcs, Pcs, Goto, Over, Keep

LEMMA StartVM_Mutex ==
  ASSUME MutexFits, pc \in [Procs -> Pcs], NEW p \in Procs, StartVM(p)
  PROVE  MutexFits'
<1>1. CASE StartVM_listDisk(p)
  <2>1. /\ pc[p] = "StartVM" /\ Moves(p, "start.validate")
        /\ mutex' = [mutex EXCEPT !["disk"] = Mu!Arrive(mutex["disk"], p)]
    BY <1>1 DEF At, Moves, StartVM_listDisk, RLock
  <2>2. /\ Arrives("disk", "StartVM", "start.validate")
        /\ \A x \in Locks \ {"disk"} : Passes(x, mutex[x], p, "StartVM", "start.validate")
    BY DEF Locks, Readers, Writers, Inside, Holders, Passes, Arrives
  <2> QED  BY <2>1, <2>2, RLockFits DEF Locks
<1>2. CASE StartVM_validate(p) /\ Moves(p, "start.attach")
  <2>1. /\ pc[p] = "start.validate" /\ Moves(p, "start.attach")
        /\ mutex' = [mutex EXCEPT !["disk"] = Mu!ReaderOut(mutex["disk"], p)]
        /\ Mu!ReaderIn(mutex["disk"], p)
    BY <1>2 DEF At, Moves, StartVM_validate, RUnlock, Reading
  <2>2. /\ ReaderLeaves("disk", "start.validate", "start.attach")
        /\ \A x \in Locks \ {"disk"} : Passes(x, mutex[x], p, "start.validate", "start.attach")
    BY DEF Locks, Readers, Writers, Inside, Holders, Passes, ReaderLeaves
  <2> QED  BY <2>1, <2>2, RUnlockFits DEF Locks
<1>3. CASE StartVM_validate(p) /\ Moves(p, "idle")
  <2>1. /\ pc[p] = "start.validate" /\ Moves(p, "idle")
        /\ mutex' = [mutex EXCEPT !["disk"] = Mu!ReaderOut(mutex["disk"], p)]
        /\ Mu!ReaderIn(mutex["disk"], p)
    BY <1>3 DEF At, Moves, StartVM_validate, RUnlock, Reading
  <2>2. /\ ReaderLeaves("disk", "start.validate", "idle")
        /\ \A x \in Locks \ {"disk"} : Passes(x, mutex[x], p, "start.validate", "idle")
    BY DEF Locks, Readers, Writers, Inside, Holders, Passes, ReaderLeaves
  <2> QED  BY <2>1, <2>2, RUnlockFits DEF Locks
<1>4. CASE StartVM_attach(p) /\ Moves(p, "just.check")
  <2>1. /\ pc[p] = "start.attach" /\ Moves(p, "just.check")
        /\ mutex' = [mutex EXCEPT !["disk"] = Mu!Arrive(mutex["disk"], p)]
    BY <1>4 DEF At, Moves, StartVM_attach, WLock
  <2>2. /\ Arrives("disk", "start.attach", "just.check")
        /\ \A x \in Locks \ {"disk"} : Passes(x, mutex[x], p, "start.attach", "just.check")
    BY DEF Locks, Readers, Writers, Inside, Holders, Passes, Arrives
  <2> QED  BY <2>1, <2>2, RLockFits DEF Locks
<1>5. CASE StartVM_attach(p) /\ Moves(p, "start.insert")
  <2>1. /\ pc[p] = "start.attach" /\ Moves(p, "start.insert")
        /\ mutex' = [mutex EXCEPT !["vm"] = Mu!Announce(mutex["vm"], p)]
        /\ Mu!CanAnnounce(mutex["vm"])
    BY <1>5 DEF At, Moves, StartVM_attach, WLock
  <2>2. /\ Announces("vm", "start.attach", "start.insert")
        /\ \A x \in Locks \ {"vm"} : Passes(x, mutex[x], p, "start.attach", "start.insert")
    BY DEF Locks, Readers, Writers, Inside, Holders, Passes, Announces
  <2> QED  BY <2>1, <2>2, WLockFits DEF Locks
<1>6. CASE StartVM_check(p) /\ Moves(p, "just.status")
  <2>1. pc[p] = "just.check" /\ Moves(p, "just.status") /\ Mu!ReaderIn(mutex["disk"], p) /\ UNCHANGED mutex
    BY <1>6 DEF At, Moves, StartVM_check, RUnlock, Reading
  <2>2. \A x \in Locks : Passes(x, mutex[x], p, "just.check", "just.status")
    BY <2>1 DEF Locks, Readers, Writers, Inside, Holders, Passes
  <2> QED  BY <2>1, <2>2, KeepFits DEF Locks
<1>7. CASE StartVM_check(p) /\ Moves(p, "idle")
  <2>1. /\ pc[p] = "just.check" /\ Moves(p, "idle")
        /\ mutex' = [mutex EXCEPT !["disk"] = Mu!ReaderOut(mutex["disk"], p)]
        /\ Mu!ReaderIn(mutex["disk"], p)
    BY <1>7 DEF At, Moves, StartVM_check, RUnlock, Reading
  <2>2. /\ ReaderLeaves("disk", "just.check", "idle")
        /\ \A x \in Locks \ {"disk"} : Passes(x, mutex[x], p, "just.check", "idle")
    BY DEF Locks, Readers, Writers, Inside, Holders, Passes, ReaderLeaves
  <2> QED  BY <2>1, <2>2, RUnlockFits DEF Locks
<1>8. CASE StartVM_status(p)
  <2>1. pc[p] = "just.status" /\ Moves(p, "just.owner") /\ UNCHANGED mutex
    BY <1>8 DEF At, Moves, StartVM_status
  <2>2. \A x \in Locks : Passes(x, mutex[x], p, "just.status", "just.owner")
    BY DEF Locks, Readers, Writers, Inside, Holders, Passes
  <2> QED  BY <2>1, <2>2, KeepFits DEF Locks
<1>9. CASE StartVM_owner(p)
  <2>1. /\ pc[p] = "just.owner" /\ Moves(p, "start.attach")
        /\ mutex' = [mutex EXCEPT !["disk"] = Mu!ReaderOut(mutex["disk"], p)]
        /\ Mu!ReaderIn(mutex["disk"], p)
    BY <1>9, MutexKnows DEF At, Moves, StartVM_owner, RUnlock, Holders, Inside, Locks
  <2>2. /\ ReaderLeaves("disk", "just.owner", "start.attach")
        /\ \A x \in Locks \ {"disk"} : Passes(x, mutex[x], p, "just.owner", "start.attach")
    BY DEF Locks, Readers, Writers, Inside, Holders, Passes, ReaderLeaves
  <2> QED  BY <2>1, <2>2, RUnlockFits DEF Locks
<1>10. CASE StartVM_insert(p)
  <2>1. /\ pc[p] = "start.insert" /\ Moves(p, "idle")
        /\ mutex' = [mutex EXCEPT !["vm"] = Mu!WriterOut(mutex["vm"])]
        /\ mutex["vm"].w = p /\ mutex["vm"].readers = {}
    BY <1>10 DEF At, Moves, StartVM_insert, WUnlock, Writing
  <2>2. /\ WriterLeaves("vm", "start.insert", "idle")
        /\ \A x \in Locks \ {"vm"} : Passes(x, mutex[x], p, "start.insert", "idle")
    BY DEF Locks, Readers, Writers, Inside, Holders, Passes, WriterLeaves
  <2> QED  BY <2>1, <2>2, WUnlockFits DEF Locks
<1> QED
  BY <1>1, <1>2, <1>3, <1>4, <1>5, <1>6, <1>7, <1>8, <1>9, <1>10
     DEF StartVM, StartVM_validate, StartVM_attach, StartVM_check, WLock, Moves

LEMMA TerminateVM_Mutex ==
  ASSUME MutexFits, pc \in [Procs -> Pcs], NEW p \in Procs, TerminateVM(p)
  PROVE  MutexFits'
<1>1. CASE TerminateVM_lock(p)
  <2>1. /\ pc[p] = "TerminateVM" /\ Moves(p, "term.find")
        /\ mutex' = [mutex EXCEPT !["vm"] = Mu!Announce(mutex["vm"], p)]
        /\ Mu!CanAnnounce(mutex["vm"])
    BY <1>1 DEF At, Moves, TerminateVM_lock, WLock
  <2>2. /\ Announces("vm", "TerminateVM", "term.find")
        /\ \A x \in Locks \ {"vm"} : Passes(x, mutex[x], p, "TerminateVM", "term.find")
    BY DEF Locks, Readers, Writers, Inside, Holders, Passes, Announces
  <2> QED  BY <2>1, <2>2, WLockFits DEF Locks
<1>2. CASE TerminateVM_find(p)
  <2>1. pc[p] = "term.find" /\ Moves(p, "term.next") /\ mutex["vm"].readers = {} /\ UNCHANGED mutex
    BY <1>2 DEF At, Moves, TerminateVM_find, Writing
  <2>2. \A x \in Locks : Passes(x, mutex[x], p, "term.find", "term.next")
    BY <2>1 DEF Locks, Readers, Writers, Inside, Holders, Passes
  <2> QED  BY <2>1, <2>2, KeepFits DEF Locks
<1>3. CASE TerminateVM_next(p) /\ Moves(p, "just.detach")
  <2>1. /\ pc[p] = "term.next" /\ Moves(p, "just.detach")
        /\ mutex' = [mutex EXCEPT !["disk"] = Mu!Arrive(mutex["disk"], p)]
    BY <1>3 DEF At, Moves, TerminateVM_next, WUnlock
  <2>2. /\ Arrives("disk", "term.next", "just.detach")
        /\ \A x \in Locks \ {"disk"} : Passes(x, mutex[x], p, "term.next", "just.detach")
    BY DEF Locks, Readers, Writers, Inside, Holders, Passes, Arrives
  <2> QED  BY <2>1, <2>2, RLockFits DEF Locks
<1>4. CASE TerminateVM_next(p) /\ Moves(p, "idle")
  <2>1. /\ pc[p] = "term.next" /\ Moves(p, "idle")
        /\ mutex' = [mutex EXCEPT !["vm"] = Mu!WriterOut(mutex["vm"])]
        /\ mutex["vm"].w = p /\ mutex["vm"].readers = {}
    BY <1>4, MutexKnows DEF At, Moves, TerminateVM_next, WUnlock, Holders, Inside, Locks
  <2>2. /\ WriterLeaves("vm", "term.next", "idle")
        /\ \A x \in Locks \ {"vm"} : Passes(x, mutex[x], p, "term.next", "idle")
    BY DEF Locks, Readers, Writers, Inside, Holders, Passes, WriterLeaves
  <2> QED  BY <2>1, <2>2, WUnlockFits DEF Locks
<1>5. CASE TerminateVM_detach(p) /\ Moves(p, "term.next")
  <2>1. /\ pc[p] = "just.detach" /\ Moves(p, "term.next")
        /\ mutex' = [mutex EXCEPT !["disk"] = Mu!ReaderOut(mutex["disk"], p)]
        /\ Mu!ReaderIn(mutex["disk"], p)
    BY <1>5 DEF At, Moves, TerminateVM_detach, RUnlock, Reading
  <2>2. /\ ReaderLeaves("disk", "just.detach", "term.next")
        /\ \A x \in Locks \ {"disk"} : Passes(x, mutex[x], p, "just.detach", "term.next")
    BY DEF Locks, Readers, Writers, Inside, Holders, Passes, ReaderLeaves
  <2> QED  BY <2>1, <2>2, RUnlockFits DEF Locks
<1>6. CASE TerminateVM_detach(p) /\ Moves(p, "just.free")
  <2>1. pc[p] = "just.detach" /\ Moves(p, "just.free") /\ Mu!ReaderIn(mutex["disk"], p) /\ UNCHANGED mutex
    BY <1>6 DEF At, Moves, TerminateVM_detach, RUnlock, Reading
  <2>2. \A x \in Locks : Passes(x, mutex[x], p, "just.detach", "just.free")
    BY <2>1 DEF Locks, Readers, Writers, Inside, Holders, Passes
  <2> QED  BY <2>1, <2>2, KeepFits DEF Locks
<1>7. CASE TerminateVM_status(p)
  <2>1. pc[p] = "just.free" /\ Moves(p, "just.clear") /\ UNCHANGED mutex
    BY <1>7 DEF At, Moves, TerminateVM_status
  <2>2. \A x \in Locks : Passes(x, mutex[x], p, "just.free", "just.clear")
    BY DEF Locks, Readers, Writers, Inside, Holders, Passes
  <2> QED  BY <2>1, <2>2, KeepFits DEF Locks
<1>8. CASE TerminateVM_owner(p)
  <2>1. /\ pc[p] = "just.clear" /\ Moves(p, "term.next")
        /\ mutex' = [mutex EXCEPT !["disk"] = Mu!ReaderOut(mutex["disk"], p)]
        /\ Mu!ReaderIn(mutex["disk"], p)
    BY <1>8, MutexKnows DEF At, Moves, TerminateVM_owner, RUnlock, Holders, Inside, Locks
  <2>2. /\ ReaderLeaves("disk", "just.clear", "term.next")
        /\ \A x \in Locks \ {"disk"} : Passes(x, mutex[x], p, "just.clear", "term.next")
    BY DEF Locks, Readers, Writers, Inside, Holders, Passes, ReaderLeaves
  <2> QED  BY <2>1, <2>2, RUnlockFits DEF Locks
<1> QED
  BY <1>1, <1>2, <1>3, <1>4, <1>5, <1>6, <1>7, <1>8
     DEF TerminateVM, TerminateVM_next, TerminateVM_detach, Moves

LEMMA ControlVM_Mutex ==
  ASSUME MutexFits, pc \in [Procs -> Pcs], NEW p \in Procs, ControlVM(p)
  PROVE  MutexFits'
<1>1. CASE Moves(p, "control.in")
  <2>1. /\ pc[p] = "ControlVM" /\ Moves(p, "control.in")
        /\ mutex' = [mutex EXCEPT !["vm"] = Mu!Announce(mutex["vm"], p)]
        /\ Mu!CanAnnounce(mutex["vm"])
    BY <1>1 DEF At, Moves, ControlVM, WLock, WUnlock, Writing
  <2>2. /\ Announces("vm", "ControlVM", "control.in")
        /\ \A x \in Locks \ {"vm"} : Passes(x, mutex[x], p, "ControlVM", "control.in")
    BY DEF Locks, Readers, Writers, Inside, Holders, Passes, Announces
  <2> QED  BY <2>1, <2>2, WLockFits DEF Locks
<1>2. CASE Moves(p, "idle")
  <2>1. /\ pc[p] = "control.in" /\ Moves(p, "idle")
        /\ mutex' = [mutex EXCEPT !["vm"] = Mu!WriterOut(mutex["vm"])]
        /\ mutex["vm"].w = p /\ mutex["vm"].readers = {}
    BY <1>2 DEF At, Moves, ControlVM, WLock, WUnlock, Writing
  <2>2. /\ WriterLeaves("vm", "control.in", "idle")
        /\ \A x \in Locks \ {"vm"} : Passes(x, mutex[x], p, "control.in", "idle")
    BY DEF Locks, Readers, Writers, Inside, Holders, Passes, WriterLeaves
  <2> QED  BY <2>1, <2>2, WUnlockFits DEF Locks
<1> QED  BY <1>1, <1>2 DEF ControlVM, WLock, Moves

LEMMA GetVM_Mutex ==
  ASSUME MutexFits, pc \in [Procs -> Pcs], NEW p \in Procs, GetVM(p)
  PROVE  MutexFits'
<1>1. CASE Moves(p, "getvm.in")
  <2>1. pc[p] = "GetVM" /\ Moves(p, "getvm.in") /\ mutex' = [mutex EXCEPT !["vm"] = Mu!Arrive(mutex["vm"], p)]
    BY <1>1 DEF At, Moves, GetVM, RLock, RUnlock, Reading
  <2>2. /\ Arrives("vm", "GetVM", "getvm.in")
        /\ \A x \in Locks \ {"vm"} : Passes(x, mutex[x], p, "GetVM", "getvm.in")
    BY DEF Locks, Readers, Writers, Inside, Holders, Passes, Arrives
  <2> QED  BY <2>1, <2>2, RLockFits DEF Locks
<1>2. CASE Moves(p, "idle")
  <2>1. /\ pc[p] = "getvm.in" /\ Moves(p, "idle")
        /\ mutex' = [mutex EXCEPT !["vm"] = Mu!ReaderOut(mutex["vm"], p)]
        /\ Mu!ReaderIn(mutex["vm"], p)
    BY <1>2 DEF At, Moves, GetVM, RLock, RUnlock, Reading
  <2>2. /\ ReaderLeaves("vm", "getvm.in", "idle")
        /\ \A x \in Locks \ {"vm"} : Passes(x, mutex[x], p, "getvm.in", "idle")
    BY DEF Locks, Readers, Writers, Inside, Holders, Passes, ReaderLeaves
  <2> QED  BY <2>1, <2>2, RUnlockFits DEF Locks
<1> QED  BY <1>1, <1>2 DEF GetVM, RLock, Moves

LEMMA CreateDisk_Mutex ==
  ASSUME MutexFits, pc \in [Procs -> Pcs], NEW p \in Procs, CreateDisk(p)
  PROVE  MutexFits'
<1>1. CASE Moves(p, "create.in")
  <2>1. /\ pc[p] = "CreateDisk" /\ Moves(p, "create.in")
        /\ mutex' = [mutex EXCEPT !["disk"] = Mu!Announce(mutex["disk"], p)]
        /\ Mu!CanAnnounce(mutex["disk"])
    BY <1>1 DEF At, Moves, CreateDisk, WLock, WUnlock, Writing
  <2>2. /\ Announces("disk", "CreateDisk", "create.in")
        /\ \A x \in Locks \ {"disk"} : Passes(x, mutex[x], p, "CreateDisk", "create.in")
    BY DEF Locks, Readers, Writers, Inside, Holders, Passes, Announces
  <2> QED  BY <2>1, <2>2, WLockFits DEF Locks
<1>2. CASE Moves(p, "idle")
  <2>1. /\ pc[p] = "create.in" /\ Moves(p, "idle")
        /\ mutex' = [mutex EXCEPT !["disk"] = Mu!WriterOut(mutex["disk"])]
        /\ mutex["disk"].w = p /\ mutex["disk"].readers = {}
    BY <1>2 DEF At, Moves, CreateDisk, WLock, WUnlock, Writing
  <2>2. /\ WriterLeaves("disk", "create.in", "idle")
        /\ \A x \in Locks \ {"disk"} : Passes(x, mutex[x], p, "create.in", "idle")
    BY DEF Locks, Readers, Writers, Inside, Holders, Passes, WriterLeaves
  <2> QED  BY <2>1, <2>2, WUnlockFits DEF Locks
<1> QED  BY <1>1, <1>2 DEF CreateDisk, WLock, Moves

LEMMA GetDisk_Mutex ==
  ASSUME MutexFits, pc \in [Procs -> Pcs], NEW p \in Procs, GetDisk(p)
  PROVE  MutexFits'
<1>1. CASE Moves(p, "getdisk.in")
  <2>1. /\ pc[p] = "GetDisk" /\ Moves(p, "getdisk.in")
        /\ mutex' = [mutex EXCEPT !["disk"] = Mu!Arrive(mutex["disk"], p)]
    BY <1>1 DEF At, Moves, GetDisk, RLock, RUnlock, Reading
  <2>2. /\ Arrives("disk", "GetDisk", "getdisk.in")
        /\ \A x \in Locks \ {"disk"} : Passes(x, mutex[x], p, "GetDisk", "getdisk.in")
    BY DEF Locks, Readers, Writers, Inside, Holders, Passes, Arrives
  <2> QED  BY <2>1, <2>2, RLockFits DEF Locks
<1>2. CASE Moves(p, "idle")
  <2>1. /\ pc[p] = "getdisk.in" /\ Moves(p, "idle")
        /\ mutex' = [mutex EXCEPT !["disk"] = Mu!ReaderOut(mutex["disk"], p)]
        /\ Mu!ReaderIn(mutex["disk"], p)
    BY <1>2 DEF At, Moves, GetDisk, RLock, RUnlock, Reading
  <2>2. /\ ReaderLeaves("disk", "getdisk.in", "idle")
        /\ \A x \in Locks \ {"disk"} : Passes(x, mutex[x], p, "getdisk.in", "idle")
    BY DEF Locks, Readers, Writers, Inside, Holders, Passes, ReaderLeaves
  <2> QED  BY <2>1, <2>2, RUnlockFits DEF Locks
<1> QED  BY <1>1, <1>2 DEF GetDisk, RLock, Moves

LEMMA DeleteDisk_Mutex ==
  ASSUME MutexFits, pc \in [Procs -> Pcs], NEW p \in Procs, DeleteDisk(p)
  PROVE  MutexFits'
<1>1. CASE DeleteDisk_lock(p)
  <2>1. /\ pc[p] = "DeleteDisk" /\ Moves(p, "delete.find")
        /\ mutex' = [mutex EXCEPT !["disk"] = Mu!Announce(mutex["disk"], p)]
        /\ Mu!CanAnnounce(mutex["disk"])
    BY <1>1 DEF At, Moves, DeleteDisk_lock, WLock
  <2>2. /\ Announces("disk", "DeleteDisk", "delete.find")
        /\ \A x \in Locks \ {"disk"} : Passes(x, mutex[x], p, "DeleteDisk", "delete.find")
    BY DEF Locks, Readers, Writers, Inside, Holders, Passes, Announces
  <2> QED  BY <2>1, <2>2, WLockFits DEF Locks
<1>2. CASE DeleteDisk_find(p) /\ Moves(p, "idle")
  <2>1. /\ pc[p] = "delete.find" /\ Moves(p, "idle")
        /\ mutex' = [mutex EXCEPT !["disk"] = Mu!WriterOut(mutex["disk"])]
        /\ mutex["disk"].w = p /\ mutex["disk"].readers = {}
    BY <1>2 DEF At, Moves, DeleteDisk_find, WUnlock, Writing
  <2>2. /\ WriterLeaves("disk", "delete.find", "idle")
        /\ \A x \in Locks \ {"disk"} : Passes(x, mutex[x], p, "delete.find", "idle")
    BY DEF Locks, Readers, Writers, Inside, Holders, Passes, WriterLeaves
  <2> QED  BY <2>1, <2>2, WUnlockFits DEF Locks
<1>3. CASE DeleteDisk_find(p) /\ Moves(p, "delete.remove")
  <2>1. pc[p] = "delete.find" /\ Moves(p, "delete.remove") /\ mutex["disk"].readers = {} /\ UNCHANGED mutex
    BY <1>3 DEF At, Moves, DeleteDisk_find, Writing
  <2>2. \A x \in Locks : Passes(x, mutex[x], p, "delete.find", "delete.remove")
    BY <2>1 DEF Locks, Readers, Writers, Inside, Holders, Passes
  <2> QED  BY <2>1, <2>2, KeepFits DEF Locks
<1>4. CASE DeleteDisk_find(p) /\ Moves(p, "delete.detach")
  <2>1. /\ pc[p] = "delete.find" /\ Moves(p, "delete.detach")
        /\ mutex["disk"].readers = {}
        /\ mutex' = [mutex EXCEPT !["vm"] = Mu!Arrive(mutex["vm"], p)]
    BY <1>4 DEF At, Moves, DeleteDisk_find, Writing
  <2>2. /\ Arrives("vm", "delete.find", "delete.detach")
        /\ \A x \in Locks \ {"vm"} : Passes(x, mutex[x], p, "delete.find", "delete.detach")
    BY <2>1 DEF Locks, Readers, Writers, Inside, Holders, Passes, Arrives
  <2> QED  BY <2>1, <2>2, RLockFits DEF Locks
<1>5. CASE DeleteDisk_remove(p)
  <2>1. /\ pc[p] = "delete.remove" /\ Moves(p, "idle")
        /\ mutex' = [mutex EXCEPT !["disk"] = Mu!WriterOut(mutex["disk"])]
        /\ mutex["disk"].w = p /\ mutex["disk"].readers = {}
    BY <1>5, MutexKnows DEF At, Moves, DeleteDisk_remove, WUnlock, Holders, Inside, Locks
  <2>2. /\ WriterLeaves("disk", "delete.remove", "idle")
        /\ \A x \in Locks \ {"disk"} : Passes(x, mutex[x], p, "delete.remove", "idle")
    BY DEF Locks, Readers, Writers, Inside, Holders, Passes, WriterLeaves
  <2> QED  BY <2>1, <2>2, WUnlockFits DEF Locks
<1> QED  BY <1>1, <1>2, <1>3, <1>4, <1>5 DEF DeleteDisk, DeleteDisk_find, Moves

LEMMA AttachDisk_Mutex ==
  ASSUME MutexFits, pc \in [Procs -> Pcs], NEW p \in Procs, AttachDisk(p)
  PROVE  MutexFits'
<1>1. CASE AttachDisk_lock(p)
  <2>1. /\ pc[p] = "AttachDisk" /\ Moves(p, "attach.check")
        /\ mutex' = [mutex EXCEPT !["disk"] = Mu!Arrive(mutex["disk"], p)]
    BY <1>1 DEF At, Moves, AttachDisk_lock, RLock
  <2>2. /\ Arrives("disk", "AttachDisk", "attach.check")
        /\ \A x \in Locks \ {"disk"} : Passes(x, mutex[x], p, "AttachDisk", "attach.check")
    BY DEF Locks, Readers, Writers, Inside, Holders, Passes, Arrives
  <2> QED  BY <2>1, <2>2, RLockFits DEF Locks
<1>2. CASE AttachDisk_check(p) /\ Moves(p, "attach.owner")
  <2>1. pc[p] = "attach.check" /\ Moves(p, "attach.owner") /\ Mu!ReaderIn(mutex["disk"], p) /\ UNCHANGED mutex
    BY <1>2 DEF At, Moves, AttachDisk_check, RUnlock, Reading
  <2>2. \A x \in Locks : Passes(x, mutex[x], p, "attach.check", "attach.owner")
    BY <2>1 DEF Locks, Readers, Writers, Inside, Holders, Passes
  <2> QED  BY <2>1, <2>2, KeepFits DEF Locks
<1>3. CASE AttachDisk_check(p) /\ Moves(p, "idle")
  <2>1. /\ pc[p] = "attach.check" /\ Moves(p, "idle")
        /\ mutex' = [mutex EXCEPT !["disk"] = Mu!ReaderOut(mutex["disk"], p)]
        /\ Mu!ReaderIn(mutex["disk"], p)
    BY <1>3 DEF At, Moves, AttachDisk_check, RUnlock, Reading
  <2>2. /\ ReaderLeaves("disk", "attach.check", "idle")
        /\ \A x \in Locks \ {"disk"} : Passes(x, mutex[x], p, "attach.check", "idle")
    BY DEF Locks, Readers, Writers, Inside, Holders, Passes, ReaderLeaves
  <2> QED  BY <2>1, <2>2, RUnlockFits DEF Locks
<1>4. CASE AttachDisk_owner(p)
  <2>1. pc[p] = "attach.owner" /\ Moves(p, "attach.status") /\ UNCHANGED mutex
    BY <1>4 DEF At, Moves, AttachDisk_owner
  <2>2. \A x \in Locks : Passes(x, mutex[x], p, "attach.owner", "attach.status")
    BY DEF Locks, Readers, Writers, Inside, Holders, Passes
  <2> QED  BY <2>1, <2>2, KeepFits DEF Locks
<1>5. CASE AttachDisk_status(p)
  <2>1. /\ pc[p] = "attach.status" /\ Moves(p, "attach.list")
        /\ mutex' = [mutex EXCEPT !["vm"] = Mu!Arrive(mutex["vm"], p)]
    BY <1>5 DEF At, Moves, AttachDisk_status
  <2>2. /\ Arrives("vm", "attach.status", "attach.list")
        /\ \A x \in Locks \ {"vm"} : Passes(x, mutex[x], p, "attach.status", "attach.list")
    BY DEF Locks, Readers, Writers, Inside, Holders, Passes, Arrives
  <2> QED  BY <2>1, <2>2, RLockFits DEF Locks
<1> QED  BY <1>1, <1>2, <1>3, <1>4, <1>5 DEF AttachDisk, AttachDisk_check, Moves

LEMMA DetachDisk_Mutex ==
  ASSUME MutexFits, pc \in [Procs -> Pcs], NEW p \in Procs, DetachDisk(p)
  PROVE  MutexFits'
<1>1. CASE DetachDisk_lock(p)
  <2>1. /\ pc[p] = "DetachDisk" /\ Moves(p, "detach.check")
        /\ mutex' = [mutex EXCEPT !["disk"] = Mu!Arrive(mutex["disk"], p)]
    BY <1>1 DEF At, Moves, DetachDisk_lock, RLock
  <2>2. /\ Arrives("disk", "DetachDisk", "detach.check")
        /\ \A x \in Locks \ {"disk"} : Passes(x, mutex[x], p, "DetachDisk", "detach.check")
    BY DEF Locks, Readers, Writers, Inside, Holders, Passes, Arrives
  <2> QED  BY <2>1, <2>2, RLockFits DEF Locks
<1>2. CASE DetachDisk_check(p) /\ Moves(p, "detach.list")
  <2>1. /\ pc[p] = "detach.check" /\ Moves(p, "detach.list")
        /\ Mu!ReaderIn(mutex["disk"], p)
        /\ mutex' = [mutex EXCEPT !["vm"] = Mu!Arrive(mutex["vm"], p)]
    BY <1>2 DEF At, Moves, DetachDisk_check, RUnlock, Reading
  <2>2. /\ Arrives("vm", "detach.check", "detach.list")
        /\ \A x \in Locks \ {"vm"} : Passes(x, mutex[x], p, "detach.check", "detach.list")
    BY <2>1 DEF Locks, Readers, Writers, Inside, Holders, Passes, Arrives
  <2> QED  BY <2>1, <2>2, RLockFits DEF Locks
<1>3. CASE DetachDisk_check(p) /\ Moves(p, "idle")
  <2>1. /\ pc[p] = "detach.check" /\ Moves(p, "idle")
        /\ mutex' = [mutex EXCEPT !["disk"] = Mu!ReaderOut(mutex["disk"], p)]
        /\ Mu!ReaderIn(mutex["disk"], p)
    BY <1>3 DEF At, Moves, DetachDisk_check, RUnlock, Reading
  <2>2. /\ ReaderLeaves("disk", "detach.check", "idle")
        /\ \A x \in Locks \ {"disk"} : Passes(x, mutex[x], p, "detach.check", "idle")
    BY DEF Locks, Readers, Writers, Inside, Holders, Passes, ReaderLeaves
  <2> QED  BY <2>1, <2>2, RUnlockFits DEF Locks
<1>4. CASE DetachDisk_status(p)
  <2>1. pc[p] = "detach.status" /\ Moves(p, "detach.owner") /\ UNCHANGED mutex
    BY <1>4 DEF At, Moves, DetachDisk_status
  <2>2. \A x \in Locks : Passes(x, mutex[x], p, "detach.status", "detach.owner")
    BY DEF Locks, Readers, Writers, Inside, Holders, Passes
  <2> QED  BY <2>1, <2>2, KeepFits DEF Locks
<1>5. CASE DetachDisk_owner(p)
  <2>1. /\ pc[p] = "detach.owner" /\ Moves(p, "idle")
        /\ mutex' = [mutex EXCEPT !["disk"] = Mu!ReaderOut(mutex["disk"], p)]
        /\ Mu!ReaderIn(mutex["disk"], p)
    BY <1>5, MutexKnows DEF At, Moves, DetachDisk_owner, RUnlock, Holders, Inside, Locks
  <2>2. /\ ReaderLeaves("disk", "detach.owner", "idle")
        /\ \A x \in Locks \ {"disk"} : Passes(x, mutex[x], p, "detach.owner", "idle")
    BY DEF Locks, Readers, Writers, Inside, Holders, Passes, ReaderLeaves
  <2> QED  BY <2>1, <2>2, RUnlockFits DEF Locks
<1> QED  BY <1>1, <1>2, <1>3, <1>4, <1>5 DEF DetachDisk, DetachDisk_check, Moves

LEMMA diskDetach_Mutex ==
  ASSUME MutexFits, pc \in [Procs -> Pcs], NEW p \in Procs, diskDetach(p)
  PROVE  MutexFits'
<1>1. CASE At(p, "detach.list")
  <2>1. /\ pc[p] = "detach.list" /\ Moves(p, "detach.status")
        /\ mutex' = [mutex EXCEPT !["vm"] = Mu!ReaderOut(mutex["vm"], p)]
        /\ Mu!ReaderIn(mutex["vm"], p)
    BY <1>1 DEF At, Moves, diskDetach, RUnlock, Reading
  <2>2. /\ ReaderLeaves("vm", "detach.list", "detach.status")
        /\ \A x \in Locks \ {"vm"} : Passes(x, mutex[x], p, "detach.list", "detach.status")
    BY DEF Locks, Readers, Writers, Inside, Holders, Passes, ReaderLeaves
  <2> QED  BY <2>1, <2>2, RUnlockFits DEF Locks
<1>2. CASE ~At(p, "detach.list")
  <2>1. /\ pc[p] = "delete.detach" /\ Moves(p, "delete.remove")
        /\ mutex' = [mutex EXCEPT !["vm"] = Mu!ReaderOut(mutex["vm"], p)]
        /\ Mu!ReaderIn(mutex["vm"], p)
    BY <1>2 DEF At, Moves, diskDetach, RUnlock, Reading
  <2>2. /\ ReaderLeaves("vm", "delete.detach", "delete.remove")
        /\ \A x \in Locks \ {"vm"} : Passes(x, mutex[x], p, "delete.detach", "delete.remove")
    BY DEF Locks, Readers, Writers, Inside, Holders, Passes, ReaderLeaves
  <2> QED  BY <2>1, <2>2, RUnlockFits DEF Locks
<1> QED  BY <1>1, <1>2 DEF diskDetach, Moves

\* AttachDisk leaves both mutexes: the VMs' first, then its own.
LEMMA diskAttach_Mutex ==
  ASSUME MutexFits, pc \in [Procs -> Pcs], NEW p \in Procs, diskAttach(p)
  PROVE  MutexFits'
<1> DEFINE f == [pc EXCEPT ![p] = "idle"]
<1>1. pc[p] = "attach.list" /\ pc' = f /\ Mu!ReaderIn(mutex["vm"], p)  BY DEF diskAttach, At, Reading
<1>2. Mu!ReaderIn(mutex["disk"], p)  BY <1>1, MutexKnows DEF Inside, Locks
<1>3. ASSUME NEW l \in Locks  PROVE mutex'[l] = Mu!ReaderOut(mutex[l], p) /\ Mu!ReaderIn(mutex[l], p)
  BY <1>1, <1>2 DEF diskAttach, Locks, MutexFits
<1>4. \A l \in Locks : ReaderLeaves(l, "attach.list", "idle")
  BY DEF Locks, Readers, Writers, Inside, Holders, ReaderLeaves
<1>5. ASSUME NEW l \in Locks  PROVE FitsAt(l, mutex'[l], pc')
  <2>1. FitsAt(l, mutex[l], pc)  BY DEF MutexFits
  <2>2. FitsAt(l, Mu!ReaderOut(mutex[l], p), [pc EXCEPT ![p] = "idle"])
    BY <2>1, <1>1, <1>3, <1>4, ReaderOutFits
  <2> QED  BY <2>2, <1>1, <1>3
<1>6. mutex' \in [Locks -> Mutexes]  BY <1>5 DEF diskAttach, MutexFits, FitsAt
<1> QED  BY <1>5, <1>6 DEF MutexFits

LEMMA Begin_Mutex ==
  ASSUME MutexFits, pc \in [Procs -> Pcs], NEW p \in Procs, Begin(p)
  PROVE  MutexFits'
<1> DEFINE Ops == VMOps \cup DiskOps \cup ReadOps
<1>1. PICK op \in Ops : pc[p] = "idle" /\ Moves(p, op) /\ UNCHANGED mutex
  BY DEF Begin, Call, At, Moves, VMOps, DiskOps, ReadOps
<1>2. op \in Pcs /\ \A x \in Locks : Passes(x, mutex[x], p, "idle", op)
  BY DEF VMOps, DiskOps, ReadOps, Locks, Readers, Writers, Inside, Holders, Passes
<1> QED  BY <1>1, <1>2, KeepFits

LEMMA Serve_Mutex ==
  ASSUME MutexFits, pc \in [Procs -> Pcs], NEW p \in Procs, Serve(p)
  PROVE  MutexFits'
  BY StartVM_Mutex, TerminateVM_Mutex, ControlVM_Mutex, GetVM_Mutex, CreateDisk_Mutex, GetDisk_Mutex,
     DeleteDisk_Mutex, AttachDisk_Mutex, DetachDisk_Mutex, diskAttach_Mutex, diskDetach_Mutex DEF Serve

-----------------------------------------------------------------------------
(* The calls and the types.  Most steps change no map.                     *)

MapSteps(p) ==
  \/ StartVM_check(p) \/ StartVM_status(p) \/ StartVM_owner(p) \/ StartVM_insert(p)
  \/ TerminateVM_next(p) \/ TerminateVM_status(p) \/ TerminateVM_owner(p)
  \/ (At(p, "create.in") /\ CreateDisk(p))
  \/ DeleteDisk_remove(p) \/ AttachDisk_check(p) \/ AttachDisk_owner(p) \/ AttachDisk_status(p)
  \/ DetachDisk_check(p) \/ DetachDisk_status(p) \/ DetachDisk_owner(p) \/ diskAttach(p) \/ diskDetach(p)

LEMMA OtherStepsKeepMaps ==
  ASSUME NEW p \in Procs, Begin(p) \/ Serve(p)
  PROVE  UNCHANGED maps \/ MapSteps(p)
<1>1. CASE Begin(p)  BY <1>1 DEF Begin, Call
<1>2. CASE StartVM(p)
  BY <1>2 DEF StartVM, StartVM_listDisk, StartVM_validate, StartVM_attach, RLock, WLock, maps, MapSteps
<1>3. CASE TerminateVM(p)
  BY <1>3 DEF TerminateVM, TerminateVM_lock, TerminateVM_find, TerminateVM_detach, WLock, maps, MapSteps
<1>4. CASE ControlVM(p) \/ GetVM(p) \/ GetDisk(p)
  BY <1>4 DEF ControlVM, GetVM, GetDisk, RLock, WLock, maps
<1>5. CASE CreateDisk(p)  BY <1>5 DEF CreateDisk, WLock, maps, MapSteps
<1>6. CASE DeleteDisk(p)
  BY <1>6 DEF DeleteDisk, DeleteDisk_lock, DeleteDisk_find, WLock, maps, MapSteps
<1>7. CASE AttachDisk(p)
  BY <1>7 DEF AttachDisk, AttachDisk_lock, RLock, maps, MapSteps
<1>8. CASE DetachDisk(p)  BY <1>8 DEF DetachDisk, DetachDisk_lock, RLock, maps, MapSteps
<1>9. CASE diskAttach(p) \/ diskDetach(p)  BY <1>9 DEF MapSteps
<1> QED  BY <1>1, <1>2, <1>3, <1>4, <1>5, <1>6, <1>7, <1>8, <1>9 DEF Serve

LEMMA OwnCallFits ==
  ASSUME CallsFit, NEW p \in Procs
  PROVE  /\ pc[p] \in Pcs /\ job[p] \in Jobs /\ Fits(pc[p], job[p], disk, misused)
         /\ job[p].op \in VMOps \cup DiskOps \cup ReadOps \cup {"none"} /\ job[p].m \in VMs \cup {None}
         /\ job[p].d \in Disks \cup {None} /\ job[p].todo \subseteq Disks /\ job[p].done \subseteq Disks
  BY DEF CallsFit, Jobs

\* The part of the maps' steps that writes a disk the call has found.
LEMMA WritesDisk ==
  ASSUME Typed, NEW d \in Disks, NEW i \in DiskInfos, disk' = [disk EXCEPT ![d] = i]
  PROVE  disk' \in [Disks -> DiskInfos \cup {None}] /\ \A e \in Disks : disk[e] # None => disk'[e] # None
  BY MockAssumption DEF Typed

LEMMA FoundDisk ==
  ASSUME Typed, CallsFit, NEW p \in Procs, pc[p] \in FindsDisk
  PROVE  /\ job[p].d \in Disks /\ disk[job[p].d] \in DiskInfos
         /\ \A s \in {"Available", "Attached"} : [disk[job[p].d] EXCEPT !.status = s] \in DiskInfos
         /\ \A m \in VMs \cup {None} : [disk[job[p].d] EXCEPT !.owner = m] \in DiskInfos
<1>1. job[p].d \in Disks /\ disk[job[p].d] # None  BY OwnCallFits DEF Fits, FindsDisk
<1> QED  BY <1>1 DEF Typed, DiskInfos

\* The maps keep their types, and a disk goes only by the hand of DeleteDisk.
LEMMA MapsStep ==
  ASSUME Typed, CallsFit, NEW p \in Procs, Begin(p) \/ Serve(p)
  PROVE  /\ Typed'
         /\ misused \subseteq misused'
         /\ \A d \in Disks : disk[d] # None => disk'[d] # None \/ (At(p, "delete.remove") /\ d = job[p].d)
<1>1. CASE UNCHANGED maps  BY <1>1 DEF Typed, maps
<1>2. CASE StartVM_check(p)
  <2>1. job[p].d \in Disks  BY <1>2, OwnCallFits DEF StartVM_check, At, Fits
  <2> QED  BY <1>2, <2>1 DEF StartVM_check, Typed
<1>3. CASE StartVM_status(p)
  <2>1. disk' = [disk EXCEPT ![job[p].d] = [disk[job[p].d] EXCEPT !.status = "Attached"]] /\ UNCHANGED <<vm, misused>>
    BY <1>3 DEF StartVM_status
  <2>2. pc[p] = "just.status"  BY <1>3 DEF StartVM_status, At
  <2>3. job[p].d \in Disks /\ [disk[job[p].d] EXCEPT !.status = "Attached"] \in DiskInfos
    BY <2>2, FoundDisk DEF FindsDisk
  <2> QED  BY <2>1, <2>3, WritesDisk DEF Typed
<1>4. CASE StartVM_owner(p)
  <2>1. disk' = [disk EXCEPT ![job[p].d] = [disk[job[p].d] EXCEPT !.owner = job[p].m]] /\ UNCHANGED <<vm, misused>>
    BY <1>4 DEF StartVM_owner
  <2>2. pc[p] = "just.owner"  BY <1>4 DEF StartVM_owner, At
  <2>3. job[p].d \in Disks /\ [disk[job[p].d] EXCEPT !.owner = job[p].m] \in DiskInfos
    BY <2>2, FoundDisk, OwnCallFits DEF FindsDisk
  <2> QED  BY <2>1, <2>3, WritesDisk DEF Typed
<1>5. CASE StartVM_insert(p)
  BY <1>5, OwnCallFits DEF StartVM_insert, Typed
<1>6. CASE TerminateVM_next(p)  BY <1>6 DEF TerminateVM_next, Typed, maps
<1>7. CASE TerminateVM_status(p)
  <2>1. /\ disk' = [disk EXCEPT ![job[p].d] = [disk[job[p].d] EXCEPT !.status = "Available"]]
        /\ UNCHANGED <<vm, misused>>
    BY <1>7 DEF TerminateVM_status
  <2>2. pc[p] = "just.free"  BY <1>7 DEF TerminateVM_status, At
  <2>3. job[p].d \in Disks /\ [disk[job[p].d] EXCEPT !.status = "Available"] \in DiskInfos
    BY <2>2, FoundDisk DEF FindsDisk
  <2> QED  BY <2>1, <2>3, WritesDisk DEF Typed
<1>17. CASE TerminateVM_owner(p)
  <2>1. disk' = [disk EXCEPT ![job[p].d] = [disk[job[p].d] EXCEPT !.owner = None]] /\ UNCHANGED <<vm, misused>>
    BY <1>17 DEF TerminateVM_owner
  <2>2. pc[p] = "just.clear"  BY <1>17 DEF TerminateVM_owner, At
  <2>3. job[p].d \in Disks /\ [disk[job[p].d] EXCEPT !.owner = None] \in DiskInfos
    BY <2>2, FoundDisk DEF FindsDisk
  <2> QED  BY <2>1, <2>3, WritesDisk DEF Typed
<1>18. CASE AttachDisk_check(p)
  <2>1. job[p].d \in Disks  BY <1>18, OwnCallFits DEF AttachDisk_check, At, Fits
  <2> QED  BY <1>18, <2>1 DEF AttachDisk_check, Typed
<1>8. CASE At(p, "create.in") /\ CreateDisk(p)
  <2>1. job[p].d \in Disks /\ [status |-> "Available", owner |-> None] \in DiskInfos
    BY <1>8, OwnCallFits DEF CreateDisk, At, Fits, DiskInfos
  <2> QED  BY <1>8, <2>1, WritesDisk DEF CreateDisk, WLock, At, Typed
<1>9. CASE DeleteDisk_remove(p)  BY <1>9 DEF DeleteDisk_remove, Typed
<1>10. CASE AttachDisk_owner(p)
  <2>1. disk' = [disk EXCEPT ![job[p].d] = [disk[job[p].d] EXCEPT !.owner = job[p].m]] /\ UNCHANGED <<vm, misused>>
    BY <1>10 DEF AttachDisk_owner
  <2>2. pc[p] = "attach.owner"  BY <1>10 DEF AttachDisk_owner, At
  <2>3. job[p].d \in Disks /\ [disk[job[p].d] EXCEPT !.owner = job[p].m] \in DiskInfos
    BY <2>2, FoundDisk, OwnCallFits DEF FindsDisk
  <2> QED  BY <2>1, <2>3, WritesDisk DEF Typed
<1>11. CASE AttachDisk_status(p)
  <2>1. disk' = [disk EXCEPT ![job[p].d] = [disk[job[p].d] EXCEPT !.status = "Attached"]] /\ UNCHANGED <<vm, misused>>
    BY <1>11 DEF AttachDisk_status
  <2>2. pc[p] = "attach.status"  BY <1>11 DEF AttachDisk_status, At
  <2>3. job[p].d \in Disks /\ [disk[job[p].d] EXCEPT !.status = "Attached"] \in DiskInfos
    BY <2>2, FoundDisk DEF FindsDisk
  <2> QED  BY <2>1, <2>3, WritesDisk DEF Typed
<1>12. CASE DetachDisk_check(p)
  <2>1. job[p].d \in Disks  BY <1>12, OwnCallFits DEF DetachDisk_check, At, Fits
  <2> QED  BY <1>12, <2>1 DEF DetachDisk_check, Typed
<1>13. CASE DetachDisk_status(p)
  <2>1. /\ disk' = [disk EXCEPT ![job[p].d] = [disk[job[p].d] EXCEPT !.status = "Available"]]
        /\ UNCHANGED <<vm, misused>>
    BY <1>13 DEF DetachDisk_status
  <2>2. pc[p] = "detach.status"  BY <1>13 DEF DetachDisk_status, At
  <2>3. job[p].d \in Disks /\ [disk[job[p].d] EXCEPT !.status = "Available"] \in DiskInfos
    BY <2>2, FoundDisk DEF FindsDisk
  <2> QED  BY <2>1, <2>3, WritesDisk DEF Typed
<1>14. CASE DetachDisk_owner(p)
  <2>1. disk' = [disk EXCEPT ![job[p].d] = [disk[job[p].d] EXCEPT !.owner = None]] /\ UNCHANGED <<vm, misused>>
    BY <1>14 DEF DetachDisk_owner
  <2>2. pc[p] = "detach.owner"  BY <1>14 DEF DetachDisk_owner, At
  <2>3. job[p].d \in Disks /\ [disk[job[p].d] EXCEPT !.owner = None] \in DiskInfos
    BY <2>2, FoundDisk DEF FindsDisk
  <2> QED  BY <2>1, <2>3, WritesDisk DEF Typed
<1>15. CASE diskAttach(p)
  <2>1. job[p].d \in Disks  BY <1>15, OwnCallFits DEF diskAttach, At, Fits
  <2> QED  BY <1>15, <2>1 DEF diskAttach, AddToList, Typed
<1>16. CASE diskDetach(p)  BY <1>16 DEF diskDetach, RemoveFromList, Typed
<1> QED
  BY <1>1, <1>2, <1>3, <1>4, <1>5, <1>6, <1>7, <1>8, <1>9, <1>10, <1>11, <1>12, <1>13, <1>14, <1>15, <1>16,
     <1>17, <1>18, OtherStepsKeepMaps DEF MapSteps

\* The others do not notice.
LEMMA OnlyOwnChanges ==
  ASSUME CallsFit, NEW p \in Procs, Begin(p) \/ Serve(p)
  PROVE  pc' = [pc EXCEPT ![p] = pc'[p]] /\ job' = [job EXCEPT ![p] = job'[p]]
<1> USE DEF CallsFit
<1>1. CASE Begin(p)  BY <1>1 DEF Begin, Call
<1>2. CASE StartVM(p)
  BY <1>2 DEF StartVM, StartVM_listDisk, StartVM_validate, StartVM_attach, StartVM_check, StartVM_status,
     StartVM_owner, StartVM_insert, RLock, WLock
<1>3. CASE TerminateVM(p)
  BY <1>3 DEF TerminateVM, TerminateVM_lock, TerminateVM_find, TerminateVM_next, TerminateVM_detach,
     TerminateVM_status, TerminateVM_owner, WLock
<1>4. CASE ControlVM(p) \/ GetVM(p) \/ GetDisk(p) \/ CreateDisk(p)
  BY <1>4 DEF ControlVM, GetVM, GetDisk, CreateDisk, RLock, WLock
<1>5. CASE DeleteDisk(p)
  BY <1>5 DEF DeleteDisk, DeleteDisk_lock, DeleteDisk_find, DeleteDisk_remove, WLock
<1>6. CASE AttachDisk(p)
  BY <1>6 DEF AttachDisk, AttachDisk_lock, AttachDisk_check, AttachDisk_owner, AttachDisk_status, RLock
<1>7. CASE DetachDisk(p)
  BY <1>7 DEF DetachDisk, DetachDisk_lock, DetachDisk_check, DetachDisk_status, DetachDisk_owner, RLock
<1>8. CASE diskAttach(p) \/ diskDetach(p)  BY <1>8 DEF diskAttach, diskDetach
<1> QED  BY <1>1, <1>2, <1>3, <1>4, <1>5, <1>6, <1>7, <1>8 DEF Serve

LEMMA OthersStay ==
  ASSUME CallsFit, NEW p \in Procs, Begin(p) \/ Serve(p), NEW q \in Procs, q # p
  PROVE  pc'[q] = pc[q] /\ job'[q] = job[q]
  BY OnlyOwnChanges DEF CallsFit

LEMMA NoJobFits ==
  ASSUME NEW infos, NEW mis
  PROVE  NoJob \in Jobs /\ Fits("idle", NoJob, infos, mis) /\ NoJob.op \notin DiskOps
  BY DEF NoJob, Jobs, Fits, FindsDisk, DiskOps

\* StartVM and TerminateVM turn to the next disk.
LEMMA NextDiskFits ==
  ASSUME CallsFit, NEW p \in Procs, NEW d \in job[p].todo,
         job' = [job EXCEPT ![p].d = d, ![p].todo = job[p].todo \ {d}]
  PROVE  /\ job'[p] \in Jobs /\ job'[p].op = job[p].op /\ job'[p].m = job[p].m /\ job'[p].done = job[p].done
         /\ job'[p].d = d /\ d \in Disks /\ job'[p].todo = job[p].todo \ {d}
  BY DEF CallsFit, Jobs

\* The call of p after the step.
FitsNext(p) ==
  /\ pc'[p] \in Pcs /\ job'[p] \in Jobs /\ Fits(pc'[p], job'[p], disk', misused')
  /\ job'[p].op \in DiskOps => job'[p].op = job[p].op /\ job'[p].d = job[p].d

LEMMA ServeFits ==
  ASSUME Typed, CallsFit, NEW p \in Procs, Serve(p)
  PROVE  FitsNext(p)
<1> DEFINE i == pc[p]
           j == job[p]
<1>0. /\ i \in Pcs /\ j \in Jobs /\ Fits(i, j, disk, misused)
      /\ i \in FindsDisk /\ i # "delete.remove" => disk'[j.d] # None
      /\ misused \subseteq misused'
  <2>1. i \in FindsDisk => j.d \in Disks /\ disk[j.d] # None  BY OwnCallFits DEF Fits, FindsDisk
  <2> QED  BY <2>1, OwnCallFits, MapsStep DEF At
<1>1. \A k \in Pcs : /\ pc' = [pc EXCEPT ![p] = k] => pc'[p] = k
                     /\ pc' = pc => pc'[p] = i
  BY DEF CallsFit
<1>2. /\ job' = job => job'[p] = j
      /\ job' = [job EXCEPT ![p] = NoJob] => job'[p] = NoJob
  BY DEF CallsFit
<1>3. job'[p] = NoJob /\ pc'[p] = "idle" => FitsNext(p)  BY NoJobFits DEF FitsNext
<1> HIDE DEF i, j
<1>10. CASE StartVM_listDisk(p)
  BY <1>10, <1>0, <1>1, <1>2 DEF StartVM_listDisk, RLock, At, Fits, FindsDisk, i, FitsNext
<1>11. CASE StartVM_validate(p)
  BY <1>11, <1>0, <1>1, <1>2, <1>3 DEF StartVM_validate, At, Fits, FindsDisk, i, j, FitsNext
<1>12. CASE StartVM_attach(p)
  <2>1. CASE \E d \in j.todo : job' = [job EXCEPT ![p].d = d, ![p].todo = job[p].todo \ {d}] /\ Goto(p, "just.check")
    <3>1. PICK d \in job[p].todo : job' = [job EXCEPT ![p].d = d, ![p].todo = job[p].todo \ {d}]
      BY <2>1 DEF j
    <3>2. /\ job'[p] \in Jobs /\ job'[p].op = j.op /\ job'[p].m = j.m /\ job'[p].d \in Disks
          /\ job'[p].done = j.done
      BY <3>1, NextDiskFits DEF j
    <3> QED
      BY <1>12, <2>1, <3>2, <1>0, <1>1 DEF StartVM_attach, At, Fits, FindsDisk, i, FitsNext, DiskOps
  <2>2. CASE WLock(p, "vm", "start.insert")
    BY <1>12, <2>2, <1>0, <1>1, <1>2 DEF StartVM_attach, WLock, At, Fits, FindsDisk, i, j, FitsNext
  <2> QED  BY <1>12, <2>1, <2>2 DEF StartVM_attach, j
<1>13. CASE StartVM_check(p)
  BY <1>13, <1>0, <1>1, <1>2, <1>3 DEF StartVM_check, At, Fits, FindsDisk, i, j, FitsNext, Exists, Typed, CallsFit
<1>14. CASE StartVM_status(p)
  BY <1>14, <1>0, <1>1, <1>2, <1>3 DEF StartVM_status, At, Fits, FindsDisk, i, j, FitsNext, CallsFit
<1>15. CASE StartVM_owner(p)
  <2>1. /\ job'[p] \in Jobs /\ job'[p].op = j.op /\ job'[p].m = j.m
        /\ job'[p].d = None /\ job'[p].done = j.done \cup {j.d}
    <3>1. job' = [job EXCEPT ![p].d = None, ![p].done = job[p].done \cup {job[p].d}]  BY <1>15 DEF StartVM_owner
    <3>2. j.d \in Disks  BY <1>15, <1>0 DEF StartVM_owner, At, Fits, i
    <3> QED  BY <1>0, <3>1, <3>2 DEF j, Jobs, CallsFit
  <2> QED  BY <1>15, <2>1, <1>0, <1>1 DEF StartVM_owner, At, Fits, FindsDisk, i, FitsNext, DiskOps
<1>16. CASE StartVM_insert(p)
  BY <1>16, <1>0, <1>1, <1>2, <1>3 DEF StartVM_insert
<1>17. CASE TerminateVM_lock(p)
  BY <1>17, <1>0, <1>1, <1>2, <1>3
     DEF TerminateVM_lock, WLock, At, Fits, FindsDisk, i, j, FitsNext
<1>18. CASE TerminateVM_find(p)
  <2>1. j.m \in VMs  BY <1>18, <1>0 DEF TerminateVM_find, At, Fits, i
  <2>2. /\ job'[p] \in Jobs /\ job'[p].op = j.op /\ job'[p].m = j.m /\ job'[p].d = j.d
        /\ job'[p].done = j.done
    BY <1>18, <1>0, <2>1 DEF TerminateVM_find, j, Jobs, CallsFit, Typed
  <2> QED  BY <1>18, <2>2, <1>0, <1>1 DEF TerminateVM_find, At, Fits, FindsDisk, i, j, FitsNext
<1>19. CASE TerminateVM_next(p)
  <2>1. CASE \E d \in j.todo : job' = [job EXCEPT ![p].d = d, ![p].todo = job[p].todo \ {d}] /\ Goto(p, "just.detach")
    <3>1. PICK d \in job[p].todo : job' = [job EXCEPT ![p].d = d, ![p].todo = job[p].todo \ {d}]
      BY <2>1 DEF j
    <3>2. /\ job'[p] \in Jobs /\ job'[p].op = j.op /\ job'[p].m = j.m /\ job'[p].d \in Disks
          /\ job'[p].done = j.done
      BY <3>1, NextDiskFits DEF j
    <3> QED
      BY <1>19, <2>1, <3>2, <1>0, <1>1 DEF TerminateVM_next, At, Fits, FindsDisk, i, FitsNext, DiskOps
  <2>2. CASE Over(p)  BY <2>2, <1>1, <1>2, <1>3
  <2> QED  BY <1>19, <2>1, <2>2 DEF TerminateVM_next, j
<1>20. CASE TerminateVM_detach(p)
  BY <1>20, <1>0, <1>1, <1>2, <1>3
     DEF TerminateVM_detach, Exists, maps, At, Fits, FindsDisk, i, j, FitsNext
<1>35. CASE TerminateVM_status(p) \/ TerminateVM_owner(p)
  BY <1>35, <1>0, <1>1, <1>2, <1>3
     DEF TerminateVM_status, TerminateVM_owner, At, Fits, FindsDisk, i, j, FitsNext
<1>21. CASE ControlVM(p) \/ GetVM(p) \/ GetDisk(p)
  BY <1>21, <1>0, <1>1, <1>2, <1>3
     DEF ControlVM, GetVM, GetDisk, WLock, RLock, At, Fits, FindsDisk, i, j, FitsNext
<1>22. CASE CreateDisk(p)
  BY <1>22, <1>0, <1>1, <1>2, <1>3
     DEF CreateDisk, WLock, At, Fits, FindsDisk, i, j, FitsNext
<1>23. CASE DeleteDisk_lock(p)
  BY <1>23, <1>0, <1>1, <1>2, <1>3
     DEF DeleteDisk_lock, WLock, At, Fits, FindsDisk, i, j, FitsNext
<1>24. CASE DeleteDisk_find(p)
  <2>0. i = "delete.find" /\ j.d \in Disks /\ j.op = "DeleteDisk"  BY <1>24, <1>0 DEF DeleteDisk_find, At, Fits, i
  <2>1. CASE Over(p)  BY <2>1, <1>1, <1>2, <1>3
  <2>2. CASE Exists(j.d) /\ Goto(p, "delete.remove") /\ UNCHANGED <<job, disk>>
    BY <2>0, <2>2, <1>0, <1>1, <1>2 DEF Exists, Fits, FindsDisk, FitsNext
  <2>3. CASE /\ Exists(j.d) /\ disk[j.d].owner # None /\ UNCHANGED disk
             /\ job' = [job EXCEPT ![p].m = disk[j.d].owner] /\ Goto(p, "delete.detach")
    <3>1. disk[j.d].owner \in VMs  BY <2>0, <2>3 DEF Exists, Typed, DiskInfos
    <3>2. /\ job'[p] \in Jobs /\ job'[p].op = j.op /\ job'[p].m \in VMs /\ job'[p].d = j.d
          /\ job'[p].done = j.done
      BY <1>0, <2>3, <3>1 DEF j, Jobs, CallsFit
    <3> QED  BY <2>0, <2>3, <3>2, <1>0, <1>1 DEF Exists, Fits, FindsDisk, FitsNext
  <2> QED  BY <1>24, <2>1, <2>2, <2>3 DEF DeleteDisk_find, maps, j
<1>25. CASE DeleteDisk_remove(p) \/ diskAttach(p)
  BY <1>25, <1>0, <1>1, <1>2, <1>3
     DEF DeleteDisk_remove, diskAttach
<1>26. CASE AttachDisk_lock(p)
  BY <1>26, <1>0, <1>1, <1>2, <1>3
     DEF AttachDisk_lock, RLock, At, Fits, FindsDisk, i, j, FitsNext
<1>27. CASE AttachDisk_check(p)
  BY <1>27, <1>0, <1>1, <1>2, <1>3
     DEF AttachDisk_check, maps, Exists, At, Fits, FindsDisk, i, j, FitsNext
<1>28. CASE AttachDisk_owner(p)
  BY <1>28, <1>0, <1>1, <1>2, <1>3
     DEF AttachDisk_owner, At, Fits, FindsDisk, i, j, FitsNext
<1>29. CASE AttachDisk_status(p)
  BY <1>29, <1>0, <1>1, <1>2, <1>3
     DEF AttachDisk_status, At, Fits, FindsDisk, i, j, FitsNext
<1>30. CASE DetachDisk_lock(p)
  BY <1>30, <1>0, <1>1, <1>2, <1>3
     DEF DetachDisk_lock, RLock, At, Fits, FindsDisk, i, j, FitsNext
<1>31. CASE DetachDisk_check(p)
  BY <1>31, <1>0, <1>1, <1>2, <1>3
     DEF DetachDisk_check, Exists, At, Fits, FindsDisk, i, j, FitsNext
<1>32. CASE DetachDisk_status(p)
  BY <1>32, <1>0, <1>1, <1>2, <1>3
     DEF DetachDisk_status, At, Fits, FindsDisk, i, j, FitsNext
<1>33. CASE DetachDisk_owner(p)
  BY <1>33, <1>0, <1>1, <1>2, <1>3
     DEF DetachDisk_owner
<1>34. CASE diskDetach(p)
  BY <1>34, <1>0, <1>1, <1>2, <1>3
     DEF diskDetach, At, Fits, FindsDisk, i, j, FitsNext
<1> QED
  BY <1>10, <1>11, <1>12, <1>13, <1>14, <1>15, <1>16, <1>17, <1>18, <1>19, <1>20,
     <1>21, <1>22, <1>23, <1>24, <1>25, <1>26, <1>27, <1>28, <1>29, <1>30, <1>31, <1>32, <1>33, <1>34, <1>35
     DEF Serve, StartVM, TerminateVM, DeleteDisk, AttachDisk, DetachDisk

\* A call begins with a disk that no other call on a disk has.
LEMMA BeginFits ==
  ASSUME Typed, CallsFit, NEW p \in Procs, Begin(p)
  PROVE  /\ pc'[p] \in Pcs /\ job'[p] \in Jobs /\ Fits(pc'[p], job'[p], disk', misused')
         /\ job'[p].op \in DiskOps => DiskFree(job'[p].d)
<1>1. PICK op \in VMOps \cup DiskOps \cup ReadOps, m \in VMs \cup {None}, d \in Disks \cup {None}, ds \in SUBSET Disks :
         /\ Call(p, op, m, d, ds)
         /\ op \in VMOps => m \in VMs
         /\ op \in DiskOps => d \in Disks /\ DiskFree(d)
         /\ op \in {"AttachDisk", "DetachDisk"} => m \in VMs
  BY DEF Begin, VMOps, DiskOps, ReadOps
<1>2. /\ job'[p].op = op /\ job'[p].m = m /\ job'[p].d = d /\ job'[p].done = {} /\ job'[p].todo = ds
      /\ job'[p] \in Jobs /\ pc'[p] = op
  BY <1>1 DEF Call, NoJob, Jobs, CallsFit
<1>3. op \in Pcs  BY DEF VMOps, DiskOps, ReadOps
<1>4. Fits(op, job'[p], disk', misused')
  BY <1>1, <1>2 DEF Fits, FindsDisk, VMOps, DiskOps, ReadOps
<1> QED  BY <1>1, <1>2, <1>3, <1>4

\* Steps keep CallsFit: a disk that DeleteDisk removes is in nobody else's hands.
LEMMA CallsStep ==
  ASSUME Typed, MutexFits, CallsFit, NEW p \in Procs, Begin(p) \/ Serve(p)
  PROVE  CallsFit'
<1>1. /\ pc'[p] \in Pcs /\ job'[p] \in Jobs /\ Fits(pc'[p], job'[p], disk', misused')
      /\ job'[p].op \in DiskOps => DiskFree(job'[p].d) \/ (job'[p].op = job[p].op /\ job'[p].d = job[p].d)
  BY BeginFits, ServeFits DEF FitsNext
<1>2. ASSUME NEW q \in Procs, q # p
      PROVE  pc'[q] = pc[q] /\ job'[q] = job[q] /\ Fits(pc[q], job[q], disk', misused')
  <2>1. pc'[q] = pc[q] /\ job'[q] = job[q]  BY <1>2, OthersStay
  <2>2. Fits(pc[q], job[q], disk, misused)  BY OwnCallFits
  <2>3. pc[q] \in FindsDisk => disk'[job[q].d] # None
    <3>1. pc[q] \in FindsDisk => job[q].d \in Disks /\ disk[job[q].d] # None  BY <2>2 DEF Fits, FindsDisk
    <3>2. ASSUME At(p, "delete.remove"), pc[q] \in FindsDisk  PROVE job[q].d # job[p].d
      <4>1. job[p].op = "DeleteDisk"  BY <3>2, OwnCallFits DEF At, Fits
      <4>2. mutex["disk"].w = p /\ mutex["disk"].readers = {}  BY <3>2, MutexKnows DEF At, Holders, Locks
      <4>3. pc[q] \notin Inside("disk") /\ pc[q] \notin Writers("disk")
        BY <1>2, <4>2, MutexKnows DEF Locks
      <4> QED  BY <3>2, <4>3 DEF FindsDisk, Inside, Writers
    <3> QED  BY <3>1, <3>2, MapsStep
  <2> QED  BY <2>1, <2>2, <2>3, MapsStep DEF Fits
<1>3. pc' \in [Procs -> Pcs] /\ job' \in [Procs -> Jobs]  BY <1>1, OnlyOwnChanges DEF CallsFit
<1>4. ASSUME NEW q \in Procs  PROVE Fits(pc'[q], job'[q], disk', misused')
  BY <1>1, <1>2
<1>5. ASSUME NEW q \in Procs, NEW r \in Procs, job'[q].op \in DiskOps, job'[r].op \in DiskOps, q # r
      PROVE  job'[q].d # job'[r].d
  BY <1>1, <1>2, <1>5 DEF CallsFit, DiskFree
<1> QED  BY <1>3, <1>4, <1>5 DEF CallsFit

-----------------------------------------------------------------------------
(* The owners and the lists.  What is said of a disk stays true of it: a   *)
(* list that may name it still may, or its VM has gone.                    *)

LEMMA TermAlone ==
  ASSUME MutexFits, NEW p \in Procs, NEW q \in Procs,
         pc[p] \in Emptying, pc[q] \in Emptying
  PROVE  p = q
  BY MutexKnows DEF Holders, Locks

LEMMA HandledStays ==
  ASSUME CallsFit, Typed, NEW p \in Procs, Begin(p) \/ Serve(p), NEW m \in VMs, NEW d, Handled(m, d)
  PROVE  Handled(m, d)' \/ vm'[m] = None
<1>1. PICK q \in Procs : HandledBy(q, m, d)  BY DEF Handled
<1>2. CASE q # p
  <2>1. pc'[q] = pc[q] /\ job'[q] = job[q]  BY <1>2, OthersStay
  <2> QED  BY <1>1, <2>1 DEF Handled, HandledBy, At
<1>3. CASE q = p
  <2>1. CASE TerminateVM_next(p)
    <3>1. CASE \E e \in job[p].todo : job' = [job EXCEPT ![p].d = e, ![p].todo = job[p].todo \ {e}] /\ Goto(p, "just.detach")
      <4>1. PICK e \in job[p].todo : job' = [job EXCEPT ![p].d = e, ![p].todo = job[p].todo \ {e}]  BY <3>1
      <4>2. job'[p].m = m /\ job'[p].d = e /\ job'[p].todo = job[p].todo \ {e}
        BY <1>1, <1>3, <4>1, NextDiskFits DEF HandledBy
      <4>3. pc'[p] = "just.detach" /\ d \notin job[p].todo  BY <1>1, <1>3, <3>1 DEF HandledBy, CallsFit
      <4> QED  BY <4>1, <4>2, <4>3 DEF Handled, HandledBy, At
    <3>2. CASE vm' = [vm EXCEPT ![job[p].m] = None]
      BY <1>1, <1>3, <3>2 DEF HandledBy, Typed
    <3> QED  BY <2>1, <3>1, <3>2 DEF TerminateVM_next
  <2>2. CASE TerminateVM_detach(p) \/ TerminateVM_status(p) \/ TerminateVM_owner(p)
    BY <1>1, <1>3, <2>2
       DEF TerminateVM_detach, TerminateVM_status, TerminateVM_owner, Handled, HandledBy, At, CallsFit
  <2>3. pc[p] \in Emptying  BY <1>1, <1>3 DEF HandledBy
  <2>4. ~Begin(p)  BY <2>3 DEF Begin, Call, At
  <2>5. TerminateVM(p)
    <3>1. /\ ~StartVM(p) /\ ~ControlVM(p) /\ ~GetVM(p) /\ ~CreateDisk(p) /\ ~GetDisk(p) /\ ~DeleteDisk(p)
          /\ ~AttachDisk(p) /\ ~DetachDisk(p) /\ ~diskAttach(p) /\ ~diskDetach(p)
      BY <2>3 DEF At, StartVM, StartVM_listDisk, StartVM_validate, StartVM_attach, StartVM_check, StartVM_status,
        StartVM_owner, StartVM_insert, ControlVM, GetVM, GetDisk, CreateDisk, DeleteDisk, DeleteDisk_lock,
        DeleteDisk_find, DeleteDisk_remove, AttachDisk, AttachDisk_lock, AttachDisk_check, AttachDisk_owner,
        AttachDisk_status, DetachDisk, DetachDisk_lock, DetachDisk_check, DetachDisk_status, DetachDisk_owner,
        diskAttach, diskDetach
    <3> QED  BY <2>4, <3>1 DEF Serve
  <2> QED  BY <2>1, <2>2, <2>3, <2>5 DEF TerminateVM, TerminateVM_lock, TerminateVM_find, At
<1> QED  BY <1>2, <1>3

LEMMA ListsStay ==
  ASSUME CallsFit, Typed, NEW p \in Procs, Begin(p) \/ Serve(p), NEW m \in VMs, NEW d \in Disks, Lists(m, d)'
  PROVE  Lists(m, d) \/ d \in misused \/ (At(p, "attach.list") /\ m = job[p].m /\ d = job[p].d)
<1>1. CASE UNCHANGED vm  BY <1>1 DEF Lists
<1>2. CASE StartVM_insert(p)
  <2>1. job[p].done \subseteq misused  BY OwnCallFits DEF Fits
  <2> QED  BY <1>2, <2>1 DEF StartVM_insert, Lists, Typed
<1>3. CASE TerminateVM_next(p)  BY <1>3 DEF TerminateVM_next, maps, Lists, Typed
<1>4. CASE diskAttach(p)  BY <1>4 DEF diskAttach, AddToList, Lists, Typed
<1>5. CASE diskDetach(p)  BY <1>5 DEF diskDetach, RemoveFromList, Lists, Typed
<1> QED
  BY <1>1, <1>2, <1>3, <1>4, <1>5, OtherStepsKeepMaps
     DEF maps, MapSteps, StartVM_check, StartVM_status, StartVM_owner, TerminateVM_status, TerminateVM_owner,
     CreateDisk, WLock, DeleteDisk_remove, AttachDisk_check, AttachDisk_owner, AttachDisk_status,
     DetachDisk_check, DetachDisk_status, DetachDisk_owner

LEMMA ClearedStays ==
  ASSUME CallsFit, Typed, NEW p \in Procs, Begin(p) \/ Serve(p), NEW d \in Disks \ misused,
         ~(At(p, "attach.list") /\ d = job[p].d)
  PROVE  /\ Cleared(d) => Cleared(d)'
         /\ \A m : Clearing(d, m) => Clearing(d, m)'
<1>1. ASSUME NEW m \in VMs, Lists(m, d) => Handled(m, d), Lists(m, d)'  PROVE Handled(m, d)'
  BY <1>1, ListsStay, HandledStays DEF Lists
<1> QED  BY <1>1 DEF Cleared, Clearing

\* Who writes a disk: a call with the disk in its hands, or TerminateVM.
LEMMA DiskStays ==
  ASSUME CallsFit, Typed, NEW p \in Procs, Begin(p) \/ Serve(p), NEW d \in Disks \ misused, disk'[d] # disk[d]
  PROVE  d = job[p].d /\ (pc[p] \in ClearedPcs \/ TerminateVM_status(p) \/ TerminateVM_owner(p))
<1> USE DEF ClearedPcs, At, Typed
<1>1. CASE StartVM_status(p) \/ StartVM_owner(p)
  <2>1. job[p].d \in misused  BY <1>1, OwnCallFits DEF StartVM_status, StartVM_owner, Fits
  <2> QED  BY <1>1, <2>1 DEF StartVM_status, StartVM_owner
<1>2. CASE TerminateVM_status(p) \/ TerminateVM_owner(p)  BY <1>2 DEF TerminateVM_status, TerminateVM_owner
<1>3. CASE At(p, "create.in") /\ CreateDisk(p)  BY <1>3 DEF CreateDisk
<1>4. CASE DeleteDisk_remove(p)  BY <1>4 DEF DeleteDisk_remove
<1>5. CASE AttachDisk_owner(p) \/ AttachDisk_status(p)  BY <1>5 DEF AttachDisk_owner, AttachDisk_status
<1>6. CASE DetachDisk_status(p) \/ DetachDisk_owner(p)  BY <1>6 DEF DetachDisk_status, DetachDisk_owner
<1> QED
  BY <1>1, <1>2, <1>3, <1>4, <1>5, <1>6, OtherStepsKeepMaps
     DEF maps, MapSteps, StartVM_check, StartVM_insert, TerminateVM_next, AttachDisk_check, DetachDisk_check,
     diskAttach, diskDetach

\* TerminateVM gives up only disks of its own VM, and none that a call changes.
LEMMA DetachesOwn ==
  ASSUME MutexFits, CallsFit, Typed, ListsFit, NEW p \in Procs, TerminateVM_status(p), job[p].d \notin misused
  PROVE  disk[job[p].d] = InUse(job[p].m) /\ \A q \in Procs : ~Attaching(q, job[p].d)
<1>1. /\ pc[p] = "just.free" /\ job[p].m \in VMs /\ job[p].d \in Disks
      /\ Lists(job[p].m, job[p].d)
  BY OwnCallFits DEF TerminateVM_status, At, Fits, ListsFit, TermFits
<1>2. ~Handled(job[p].m, job[p].d)
  <2>1. ASSUME NEW q \in Procs, HandledBy(q, job[p].m, job[p].d)  PROVE FALSE
    <3>1. q = p  BY <1>1, <2>1, TermAlone DEF HandledBy
    <3> QED  BY <1>1, <2>1, <3>1 DEF HandledBy, At
  <2> QED  BY <2>1 DEF Handled
<1>3. disk[job[p].d] = InUse(job[p].m)  BY <1>1, <1>2 DEF ListsFit, OwnersFit
<1>4. ASSUME NEW q \in Procs, Attaching(q, job[p].d)  PROVE FALSE
  BY <1>1, <1>2, <1>4 DEF Attaching, ListsFit, HandFits, ClearedPcs, Cleared
<1> QED  BY <1>3, <1>4

\* And then no list names the disk but one that goes.
LEMMA StatusClears ==
  ASSUME MutexFits, CallsFit, Typed, ListsFit, NEW p \in Procs, TerminateVM_status(p), job[p].d \notin misused
  PROVE  Cleared(job[p].d)'
<1>1. /\ pc[p] = "just.free" /\ pc'[p] = "just.clear" /\ job' = job /\ vm' = vm
      /\ job[p].m \in VMs /\ job[p].d \in Disks /\ job[p].d \notin job[p].todo
  BY OwnCallFits DEF TerminateVM_status, At, Fits, ListsFit, TermFits, CallsFit
<1>2. SUFFICES ASSUME NEW n \in VMs, Lists(n, job[p].d)'  PROVE Handled(n, job[p].d)'
  BY <1>1 DEF Cleared, Handled, HandledBy, Lists
<1>3. Lists(n, job[p].d)  BY <1>1, <1>2 DEF Lists
<1>4. CASE Handled(n, job[p].d)
  <2>1. Begin(p) \/ Serve(p)  BY DEF Serve, TerminateVM
  <2>2. \A d : Handled(n, d) => Handled(n, d)' \/ vm'[n] = None  BY <2>1, HandledStays
  <2> QED  BY <1>1, <1>2, <1>4, <2>2 DEF Lists, Handled, HandledBy
<1>5. CASE disk[job[p].d] = InUse(n)
  <2>1. n = job[p].m
    <3>1. InUse(n) = InUse(job[p].m)  BY <1>5, DetachesOwn
    <3> QED  BY <3>1 DEF InUse
  <2> QED  BY <1>1, <2>1 DEF Handled, HandledBy
<1> QED  BY <1>1, <1>3, <1>4, <1>5 DEF ListsFit, OwnersFit

LEMMA OwnersStep ==
  ASSUME MutexFits, CallsFit, Typed, ListsFit, NEW p \in Procs, Begin(p) \/ Serve(p)
  PROVE  OwnersFit'
<1> SUFFICES ASSUME NEW m \in VMs, NEW d \in Disks \ misused', Lists(m, d)'
             PROVE  disk'[d] = InUse(m) \/ Handled(m, d)'
  BY DEF OwnersFit, InUse
<1>1. d \in Disks \ misused  BY MapsStep
<1>2. CASE ~Lists(m, d)
  <2>1. At(p, "attach.list") /\ m = job[p].m /\ d = job[p].d  BY <1>1, <1>2, ListsStay
  <2>2. disk[d] = InUse(m)  BY <1>1, <2>1 DEF ListsFit, HandFits
  <2>3. diskAttach(p) => UNCHANGED disk  BY DEF diskAttach
  <2>4. disk'[d] = disk[d]
    <3>1. ~TerminateVM_status(p) /\ ~TerminateVM_owner(p)
      BY <2>1 DEF TerminateVM_status, TerminateVM_owner, At
    <3>2. /\ ~StartVM_status(p) /\ ~StartVM_owner(p) /\ ~(At(p, "create.in") /\ CreateDisk(p))
          /\ ~DeleteDisk_remove(p) /\ ~AttachDisk_owner(p) /\ ~AttachDisk_status(p)
          /\ ~DetachDisk_status(p) /\ ~DetachDisk_owner(p)
      BY <2>1 DEF StartVM_status, StartVM_owner, DeleteDisk_remove, AttachDisk_owner, AttachDisk_status,
         DetachDisk_status, DetachDisk_owner, At
    <3> QED
      BY <3>1, <3>2, OtherStepsKeepMaps
         DEF maps, MapSteps, StartVM_check, StartVM_insert, TerminateVM_next, AttachDisk_check, DetachDisk_check,
         diskAttach, diskDetach
  <2> QED  BY <2>2, <2>4
<1>3. CASE Lists(m, d) /\ Handled(m, d)  BY <1>3, HandledStays DEF Lists
<1>4. CASE Lists(m, d) /\ ~Handled(m, d)
  <2>1. disk[d] = InUse(m)  BY <1>1, <1>4 DEF ListsFit, OwnersFit
  <2>2. CASE disk'[d] = disk[d]  BY <2>1, <2>2
  <2>3. CASE d = job[p].d /\ pc[p] \in ClearedPcs
    BY <1>1, <1>4, <2>3 DEF ListsFit, HandFits, Cleared
  <2>5. CASE d = job[p].d /\ TerminateVM_owner(p)
    BY <1>1, <1>4, <2>5 DEF ListsFit, TermFits, TerminateVM_owner, Cleared
  <2>4. CASE d = job[p].d /\ TerminateVM_status(p)
    <3>0. InUse(m) = InUse(job[p].m) /\ \A n : InUse(n).owner = n  BY <1>1, <2>1, <2>4, DetachesOwn DEF InUse
    <3>1. m = job[p].m  BY <3>0
    <3>2. d \notin job[p].todo  BY <2>4 DEF ListsFit, TermFits, TerminateVM_status, At
    <3>3. pc'[p] = "just.clear" /\ job'[p] = job[p]  BY <2>4 DEF TerminateVM_status, CallsFit
    <3> QED  BY <3>1, <3>2, <3>3 DEF Handled, HandledBy, At
  <2> QED  BY <1>1, <2>2, <2>3, <2>4, <2>5, DiskStays
<1> QED  BY <1>2, <1>3, <1>4

\* The disks in the hands of the others.
LEMMA OtherHandsStep ==
  ASSUME MutexFits, CallsFit, Typed, ListsFit, NEW p \in Procs, Begin(p) \/ Serve(p), NEW q \in Procs, q # p
  PROVE  HandFits(q)'
<1>1. pc'[q] = pc[q] /\ job'[q] = job[q] /\ Fits(pc[q], job[q], disk, misused)  BY OthersStay, OwnCallFits
<1> DEFINE Hand == ClearedPcs \cup {"detach.list", "delete.detach", "attach.status", "attach.list"}
<1>2. SUFFICES ASSUME pc[q] \in Hand, NEW d, NEW m, d = job[q].d, m = job[q].m, d \notin misused'
               PROVE  /\ pc[q] \in ClearedPcs => Cleared(d)'
                      /\ pc[q] \in {"detach.list", "delete.detach"} => Clearing(d, m)'
                      /\ pc[q] = "attach.status" => disk'[d].owner = m
                      /\ pc[q] = "attach.list" => disk'[d] = InUse(m)
  BY <1>1 DEF HandFits, ClearedPcs, At, Clearing, Cleared, InUse
<1>3. /\ d \in Disks \ misused /\ job[q].op \in DiskOps
      /\ pc[q] \in {"detach.list", "delete.detach", "attach.status", "attach.list"} => m \in VMs
  BY <1>1, <1>2, MapsStep DEF Fits, ClearedPcs, DiskOps
<1>4. job[p].op \in DiskOps => job[p].d # d  BY <1>2, <1>3 DEF CallsFit
<1>5. pc[p] \in ClearedPcs => job[p].op \in DiskOps  BY OwnCallFits DEF Fits, ClearedPcs, DiskOps
<1>6. ~(At(p, "attach.list") /\ d = job[p].d)  BY <1>4, <1>5 DEF At, ClearedPcs
<1>7. pc[q] \in ClearedPcs => Cleared(d)'
  BY <1>2, <1>3, <1>6, ClearedStays DEF ListsFit, HandFits
<1>8. pc[q] \in {"detach.list", "delete.detach"} => Clearing(d, m)'
  BY <1>2, <1>3, <1>6, ClearedStays DEF ListsFit, HandFits
<1>9. pc[q] \in {"attach.status", "attach.list"} => disk'[d] = disk[d]
  <2>1. ASSUME pc[q] \in {"attach.status", "attach.list"}, TerminateVM_status(p) \/ TerminateVM_owner(p),
               d = job[p].d
        PROVE  FALSE
    <3>1. Attaching(q, d)  BY <1>2, <2>1 DEF Attaching
    <3> QED  BY <1>3, <2>1, <3>1, DetachesOwn DEF ListsFit, TermFits, TerminateVM_owner
  <2> QED  BY <1>2, <1>3, <1>4, <1>5, <2>1, DiskStays
<1> QED  BY <1>2, <1>3, <1>7, <1>8, <1>9 DEF ListsFit, HandFits, At

\* How a call comes to hold a disk that no list names, or one VM's only.
LEMMA IntoCleared ==
  ASSUME CallsFit, Typed, NEW p \in Procs, Begin(p) \/ Serve(p), pc'[p] \in ClearedPcs, job'[p].d \notin misused'
  PROVE  \/ pc[p] \in ClearedPcs \ {"attach.list"} /\ job'[p] = job[p]
         \/ /\ pc[p] \in {"idle", "attach.check", "delete.find"}
            /\ job'[p].d \in Disks /\ \A m \in VMs : disk[job'[p].d] # InUse(m)
         \/ diskDetach(p) /\ job'[p] = job[p]
<1> USE DEF ClearedPcs, At, CallsFit
<1>1. CASE Begin(p)
  <2>1. PICK d \in Disks : ~Exists(d) /\ Call(p, "CreateDisk", None, d, {})
    BY <1>1 DEF Begin, Call, VMOps, DiskOps, ReadOps
  <2>2. job'[p].d = d /\ pc[p] = "idle"  BY <2>1 DEF Call, NoJob
  <2>3. \A m \in VMs : InUse(m) # None  BY MockAssumption DEF InUse, DiskInfos
  <2> QED  BY <2>1, <2>2, <2>3 DEF Exists
<1>2. CASE StartVM(p)
  BY <1>2 DEF StartVM, StartVM_listDisk, StartVM_validate, StartVM_attach, StartVM_check, StartVM_status,
     StartVM_owner, StartVM_insert, RLock, WLock
<1>3. CASE TerminateVM(p)
  BY <1>3 DEF TerminateVM, TerminateVM_lock, TerminateVM_find, TerminateVM_next, TerminateVM_detach,
     TerminateVM_status, TerminateVM_owner, WLock
<1>4. CASE ControlVM(p) \/ GetVM(p) \/ GetDisk(p) \/ CreateDisk(p)
  BY <1>4 DEF ControlVM, GetVM, GetDisk, CreateDisk, RLock, WLock
<1>5. CASE DeleteDisk(p)
  <2>1. CASE DeleteDisk_find(p) /\ disk[job[p].d].owner = None /\ Goto(p, "delete.remove") /\ UNCHANGED job
    <3>1. job[p].d \in Disks  BY <1>5, <2>1, OwnCallFits DEF DeleteDisk_find, Fits
    <3>2. \A m \in VMs : InUse(m).owner # None  BY MockAssumption DEF InUse
    <3> QED  BY <2>1, <3>1, <3>2 DEF DeleteDisk_find
  <2> QED  BY <1>5, <2>1 DEF DeleteDisk, DeleteDisk_lock, DeleteDisk_find, DeleteDisk_remove, WLock
<1>6. CASE AttachDisk(p)
  <2>1. CASE AttachDisk_check(p) /\ ~Attached(job[p].d) /\ Goto(p, "attach.owner") /\ UNCHANGED job
    <3>1. job[p].d \in Disks  BY <1>6, <2>1, OwnCallFits DEF AttachDisk_check, Fits
    <3>2. \A m \in VMs : InUse(m).status = "Attached"  BY DEF InUse
    <3> QED  BY <2>1, <3>1, <3>2 DEF AttachDisk_check, Attached
  <2> QED
    BY <1>6, <2>1 DEF AttachDisk, AttachDisk_lock, AttachDisk_check, AttachDisk_owner, AttachDisk_status, RLock
<1>7. CASE DetachDisk(p)
  BY <1>7 DEF DetachDisk, DetachDisk_lock, DetachDisk_check, DetachDisk_status, DetachDisk_owner, RLock
<1>8. CASE diskAttach(p)  BY <1>8 DEF diskAttach
<1>9. CASE diskDetach(p)  BY <1>9 DEF diskDetach
<1> QED  BY <1>1, <1>2, <1>3, <1>4, <1>5, <1>6, <1>7, <1>8, <1>9 DEF Serve

LEMMA IntoClearing ==
  ASSUME CallsFit, Typed, NEW p \in Procs, Begin(p) \/ Serve(p), pc'[p] \in {"detach.list", "delete.detach"},
         job'[p].d \notin misused'
  PROVE  /\ pc[p] \in {"detach.check", "delete.find"} /\ job'[p].d \in Disks
         /\ \A m \in VMs \ {job'[p].m} : disk[job'[p].d] # InUse(m)
<1> USE DEF At, CallsFit
<1>0. \A m : InUse(m).owner = m  BY DEF InUse
<1>1. DetachDisk_check(p) \/ DeleteDisk_find(p)
  <2>1. ~Begin(p)  BY DEF Begin, Call, VMOps, DiskOps, ReadOps
  <2>2. ~StartVM(p)
    BY DEF StartVM, StartVM_listDisk, StartVM_validate, StartVM_attach, StartVM_check, StartVM_status,
       StartVM_owner, StartVM_insert, RLock, WLock
  <2>3. ~TerminateVM(p)
    BY DEF TerminateVM, TerminateVM_lock, TerminateVM_find, TerminateVM_next, TerminateVM_detach,
     TerminateVM_status, TerminateVM_owner, WLock
  <2>4. ~ControlVM(p) /\ ~GetVM(p) /\ ~GetDisk(p) /\ ~CreateDisk(p)
    BY DEF ControlVM, GetVM, GetDisk, CreateDisk, RLock, WLock
  <2>5. ~AttachDisk(p)
    BY DEF AttachDisk, AttachDisk_lock, AttachDisk_check, AttachDisk_owner, AttachDisk_status, RLock
  <2>6. ~diskAttach(p) /\ ~diskDetach(p)  BY DEF diskAttach, diskDetach
  <2> QED
    BY <2>1, <2>2, <2>3, <2>4, <2>5, <2>6
       DEF Serve, DeleteDisk, DeleteDisk_lock, DeleteDisk_remove, DetachDisk, DetachDisk_lock, DetachDisk_status,
       DetachDisk_owner, RLock, WLock
<1>2. CASE DetachDisk_check(p)
  <2>1. job'[p] = job[p] /\ disk[job[p].d].owner = job[p].m  BY <1>2 DEF DetachDisk_check
  <2>2. job[p].d \in Disks  BY <1>2, OwnCallFits DEF DetachDisk_check, Fits
  <2> QED  BY <1>0, <1>2, <2>1, <2>2 DEF DetachDisk_check
<1>3. CASE DeleteDisk_find(p)
  <2>1. job' = [job EXCEPT ![p].m = disk[job[p].d].owner]  BY <1>3 DEF DeleteDisk_find
  <2>2. job'[p].m = disk[job[p].d].owner /\ job'[p].d = job[p].d  BY <2>1 DEF Jobs
  <2>3. job[p].d \in Disks  BY <1>3, OwnCallFits DEF DeleteDisk_find, Fits
  <2> QED  BY <1>0, <1>3, <2>2, <2>3 DEF DeleteDisk_find
<1> QED  BY <1>1, <1>2, <1>3

LEMMA IntoAttaching ==
  ASSUME CallsFit, NEW p \in Procs, Begin(p) \/ Serve(p), pc'[p] \in {"attach.owner", "attach.status", "attach.list"}
  PROVE  \/ pc'[p] = "attach.owner" /\ AttachDisk_check(p)
         \/ (pc'[p] = "attach.status" /\ AttachDisk_owner(p)) \/ (pc'[p] = "attach.list" /\ AttachDisk_status(p))
<1> USE DEF At, CallsFit
<1>1. ~Begin(p)  BY DEF Begin, Call, VMOps, DiskOps, ReadOps
<1>2. ~StartVM(p)
  BY DEF StartVM, StartVM_listDisk, StartVM_validate, StartVM_attach, StartVM_check, StartVM_status,
     StartVM_owner, StartVM_insert, RLock, WLock
<1>3. ~TerminateVM(p)
  BY DEF TerminateVM, TerminateVM_lock, TerminateVM_find, TerminateVM_next, TerminateVM_detach,
     TerminateVM_status, TerminateVM_owner, WLock
<1>4. ~ControlVM(p) /\ ~GetVM(p) /\ ~GetDisk(p) /\ ~CreateDisk(p)
  BY DEF ControlVM, GetVM, GetDisk, CreateDisk, RLock, WLock
<1>5. ~DeleteDisk(p)  BY DEF DeleteDisk, DeleteDisk_lock, DeleteDisk_find, DeleteDisk_remove, WLock
<1>6. ~DetachDisk(p)
  BY DEF DetachDisk, DetachDisk_lock, DetachDisk_check, DetachDisk_status, DetachDisk_owner, RLock
<1>7. ~diskAttach(p) /\ ~diskDetach(p)  BY DEF diskAttach, diskDetach
<1>8. AttachDisk(p)  BY <1>1, <1>2, <1>3, <1>4, <1>5, <1>6, <1>7 DEF Serve
<1> QED
  BY <1>8 DEF AttachDisk, AttachDisk_lock, AttachDisk_check, AttachDisk_owner, AttachDisk_status, RLock

\* The disk in the hands of the one who steps.
LEMMA OwnHandStep ==
  ASSUME MutexFits, CallsFit, Typed, ListsFit, NEW p \in Procs, Begin(p) \/ Serve(p)
  PROVE  HandFits(p)'
<1> SUFFICES ASSUME NEW d, NEW m, d = job'[p].d, m = job'[p].m, d \notin misused'
             PROVE  /\ pc'[p] \in ClearedPcs => Cleared(d)'
                    /\ pc'[p] \in {"detach.list", "delete.detach"} => Clearing(d, m)'
                    /\ pc'[p] = "attach.status" => disk'[d].owner = m
                    /\ pc'[p] = "attach.list" => disk'[d] = InUse(m)
  BY DEF HandFits, ClearedPcs, At, Clearing, Cleared, InUse
<1>0. d \notin misused  BY MapsStep
<1>1. ASSUME pc'[p] \in ClearedPcs  PROVE Cleared(d)'
  <2>1. CASE pc[p] \in ClearedPcs \ {"attach.list"} /\ job'[p] = job[p]
    <3>1. d \in Disks /\ Cleared(d)
      BY <1>0, <2>1, OwnCallFits DEF ListsFit, HandFits, Fits, ClearedPcs
    <3> QED  BY <1>0, <2>1, <3>1, ClearedStays DEF At
  <2>2. CASE pc[p] \in {"idle", "attach.check", "delete.find"} /\ d \in Disks /\ \A n \in VMs : disk[d] # InUse(n)
    <3>1. Cleared(d)  BY <1>0, <2>2 DEF ListsFit, OwnersFit, Cleared
    <3> QED  BY <1>0, <2>2, <3>1, ClearedStays DEF At
  <2>3. CASE diskDetach(p) /\ job'[p] = job[p]
    <3>1. d \in Disks /\ m \in VMs /\ pc[p] \in {"detach.list", "delete.detach"}
      BY <2>3, OwnCallFits DEF diskDetach, Fits
    <3>2. Clearing(d, m)'  BY <1>0, <2>3, <3>1, ClearedStays DEF ListsFit, HandFits, At
    <3>3. ~Lists(m, d)'  BY <2>3, <3>1 DEF diskDetach, RemoveFromList, Lists, Typed
    <3> QED  BY <3>2, <3>3 DEF Clearing, Cleared
  <2> QED  BY <1>1, <2>1, <2>2, <2>3, IntoCleared
<1>2. ASSUME pc'[p] \in {"detach.list", "delete.detach"}  PROVE Clearing(d, m)'
  <2>1. pc[p] \in {"detach.check", "delete.find"} /\ d \in Disks /\ \A n \in VMs \ {m} : disk[d] # InUse(n)
    BY <1>2, IntoClearing
  <2>2. Clearing(d, m)  BY <1>0, <2>1 DEF ListsFit, OwnersFit, Clearing
  <2> QED  BY <1>0, <2>1, <2>2, ClearedStays DEF At, Clearing
<1>3. ASSUME pc'[p] = "attach.status"  PROVE disk'[d].owner = m
  <2>1. AttachDisk_owner(p)  BY <1>3, IntoAttaching
  <2>2. d = job[p].d /\ m = job[p].m /\ d \in Disks /\ disk[d] \in DiskInfos
    BY <2>1, FoundDisk DEF AttachDisk_owner, At, FindsDisk
  <2> QED  BY <2>1, <2>2 DEF AttachDisk_owner, Typed, DiskInfos
<1>4. ASSUME pc'[p] = "attach.list"  PROVE disk'[d] = InUse(m)
  <2>1. AttachDisk_status(p)  BY <1>4, IntoAttaching
  <2>2. d = job[p].d /\ m = job[p].m /\ d \in Disks /\ disk[d] \in DiskInfos
    BY <2>1, FoundDisk DEF AttachDisk_status, At, FindsDisk
  <2>3. disk[d].owner = m  BY <1>0, <2>1, <2>2 DEF ListsFit, HandFits, AttachDisk_status
  <2>4. disk' = [disk EXCEPT ![d] = [disk[d] EXCEPT !.status = "Attached"]]  BY <2>1, <2>2 DEF AttachDisk_status
  <2>5. [disk[d] EXCEPT !.status = "Attached"] = InUse(m)  BY <2>2, <2>3 DEF DiskInfos, InUse
  <2> QED  BY <2>2, <2>4, <2>5 DEF Typed
<1> QED  BY <1>1, <1>2, <1>3, <1>4

LEMMA IntoDetaching ==
  ASSUME CallsFit, NEW p \in Procs, Begin(p) \/ Serve(p), pc'[p] \in Emptying
  PROVE  \/ TerminateVM_find(p) \/ TerminateVM_next(p) \/ TerminateVM_detach(p)
         \/ TerminateVM_status(p) \/ TerminateVM_owner(p)
<1> USE DEF At, CallsFit
<1>1. ~Begin(p)  BY DEF Begin, Call, VMOps, DiskOps, ReadOps
<1>2. ~StartVM(p)
  BY DEF StartVM, StartVM_listDisk, StartVM_validate, StartVM_attach, StartVM_check, StartVM_status,
     StartVM_owner, StartVM_insert, RLock, WLock
<1>3. ~ControlVM(p) /\ ~GetVM(p) /\ ~GetDisk(p) /\ ~CreateDisk(p)
  BY DEF ControlVM, GetVM, GetDisk, CreateDisk, RLock, WLock
<1>4. ~DeleteDisk(p)  BY DEF DeleteDisk, DeleteDisk_lock, DeleteDisk_find, DeleteDisk_remove, WLock
<1>5. ~AttachDisk(p)
  BY DEF AttachDisk, AttachDisk_lock, AttachDisk_check, AttachDisk_owner, AttachDisk_status, RLock
<1>6. ~DetachDisk(p)
  BY DEF DetachDisk, DetachDisk_lock, DetachDisk_check, DetachDisk_status, DetachDisk_owner, RLock
<1>7. ~diskAttach(p) /\ ~diskDetach(p)  BY DEF diskAttach, diskDetach
<1>8. TerminateVM(p)  BY <1>1, <1>2, <1>3, <1>4, <1>5, <1>6, <1>7 DEF Serve
<1> QED  BY <1>8 DEF TerminateVM, TerminateVM_lock, WLock

\* The disks that TerminateVM has still to detach: nobody else writes the lists,
\* and an AttachDisk that finds one half detached is remembered.
LEMMA OtherTermsStep ==
  ASSUME MutexFits, CallsFit, Typed, ListsFit, NEW p \in Procs, Begin(p) \/ Serve(p), NEW q \in Procs, q # p
  PROVE  TermFits(q)'
<1>1. pc'[q] = pc[q] /\ job'[q] = job[q]  BY OthersStay
<1>2. ASSUME pc[q] \in Emptying  PROVE UNCHANGED vm
  <2>1. mutex["vm"].w = q /\ mutex["vm"].readers = {}  BY <1>2, MutexKnows DEF Holders, Locks
  <2>2. ~StartVM_insert(p) /\ ~diskAttach(p) /\ ~diskDetach(p)
    BY <2>1 DEF StartVM_insert, Writing, diskAttach, diskDetach, Reading
  <2>3. pc[p] \notin Emptying  BY <1>2, TermAlone
  <2> QED
    BY <2>2, <2>3, OtherStepsKeepMaps
       DEF maps, MapSteps, StartVM_check, StartVM_status, StartVM_owner, TerminateVM_next, TerminateVM_status,
       TerminateVM_owner, At, CreateDisk, WLock, DeleteDisk_remove, AttachDisk_check, AttachDisk_owner,
       AttachDisk_status, DetachDisk_check, DetachDisk_status, DetachDisk_owner
<1>3. ASSUME At(q, "just.clear"), NEW d, d = job[q].d, d \notin misused'
      PROVE  Cleared(d)' /\ \A r \in Procs : ~Attaching(r, d)'
  <2>1. d \in Disks \ misused  BY <1>3, OwnCallFits, MapsStep DEF At, Fits
  <2>2. Cleared(d) /\ \A r \in Procs : ~Attaching(r, d)  BY <1>3, <2>1 DEF ListsFit, TermFits
  <2>3. ~(At(p, "attach.list") /\ d = job[p].d)  BY <2>2 DEF Attaching, At
  <2>4. Cleared(d)'  BY <2>1, <2>2, <2>3, ClearedStays
  <2>5. ~Attaching(p, d)'
    <3>1. SUFFICES ASSUME pc'[p] \in {"attach.owner", "attach.status", "attach.list"}, job'[p].d = d  PROVE FALSE
      BY DEF Attaching
    <3>2. CASE AttachDisk_check(p) /\ pc'[p] = "attach.owner"
      <4>1. job' = job /\ HalfDetached(job[p].d)
        BY <1>3, <3>1, <3>2 DEF AttachDisk_check, HalfDetached, CallsFit
      <4> QED  BY <1>3, <3>1, <3>2, <4>1 DEF AttachDisk_check, CallsFit
    <3>3. CASE AttachDisk_owner(p) \/ AttachDisk_status(p)
      BY <2>2, <3>1, <3>3 DEF AttachDisk_owner, AttachDisk_status, Attaching, At
    <3> QED  BY <3>1, <3>2, <3>3, IntoAttaching
  <2>6. ASSUME NEW r \in Procs, r # p  PROVE ~Attaching(r, d)'
    <3>1. pc'[r] = pc[r] /\ job'[r] = job[r]  BY <2>6, OthersStay
    <3> QED  BY <2>2, <3>1 DEF Attaching
  <2> QED  BY <2>4, <2>5, <2>6
<1>5. pc[q] \in Emptying => \A e \in job'[q].todo : Lists(job[q].m, e)'
  BY <1>1, <1>2 DEF ListsFit, TermFits, Lists
<1>6. pc[q] \in {"just.detach", "just.free"} => Lists(job[q].m, job[q].d)'
  BY <1>1, <1>2 DEF ListsFit, TermFits, Lists
<1>7. pc[q] \in {"just.detach", "just.free", "just.clear"} => job'[q].d \notin job'[q].todo
  BY <1>1 DEF ListsFit, TermFits
<1>8. At(q, "just.clear") /\ job'[q].d \notin misused' =>
        Cleared(job[q].d)' /\ \A r \in Procs : ~Attaching(r, job[q].d)'
  <2>1. SUFFICES ASSUME NEW d, d = job[q].d, At(q, "just.clear"), d \notin misused'
                 PROVE  Cleared(d)' /\ \A r \in Procs : ~Attaching(r, d)'
    BY <1>1 DEF Cleared, Attaching, Handled, HandledBy, Lists
  <2> QED  BY <1>3, <2>1
<1> QED  BY <1>1, <1>5, <1>6, <1>7, <1>8 DEF TermFits, At

LEMMA OwnTermStep ==
  ASSUME MutexFits, CallsFit, Typed, ListsFit, NEW p \in Procs, Begin(p) \/ Serve(p)
  PROVE  TermFits(p)'
<1>1. SUFFICES ASSUME pc'[p] \in Emptying  PROVE TermFits(p)'
  BY DEF TermFits, At
<1>2. \/ TerminateVM_find(p) \/ TerminateVM_next(p) \/ TerminateVM_detach(p)
      \/ TerminateVM_status(p) \/ TerminateVM_owner(p)
  BY <1>1, IntoDetaching
<1>3. CASE TerminateVM_find(p)
  <2>1. job[p].m \in VMs  BY <1>3, OwnCallFits DEF TerminateVM_find, At, Fits
  <2>2. /\ pc'[p] = "term.next" /\ job'[p].m = job[p].m
        /\ job'[p].todo = IF vm[job[p].m] = None THEN {} ELSE vm[job[p].m]
        /\ UNCHANGED vm
    BY <1>3 DEF TerminateVM_find, maps, CallsFit, Jobs
  <2> QED  BY <2>1, <2>2 DEF TermFits, Lists, At
<1>4. CASE TerminateVM_next(p)
  <2>1. PICK d \in job[p].todo : job' = [job EXCEPT ![p].d = d, ![p].todo = job[p].todo \ {d}]
    BY <1>1, <1>4 DEF TerminateVM_next, CallsFit
  <2>2. job'[p].m = job[p].m /\ job'[p].d = d /\ job'[p].todo = job[p].todo \ {d}  BY <2>1, NextDiskFits
  <2>3. UNCHANGED vm /\ pc'[p] = "just.detach"  BY <1>1, <1>4 DEF TerminateVM_next, maps, CallsFit
  <2>4. \A e \in job[p].todo : Lists(job[p].m, e)  BY <1>4 DEF ListsFit, TermFits, TerminateVM_next, At
  <2> QED  BY <2>2, <2>3, <2>4 DEF TermFits, Lists, At
<1>5. CASE TerminateVM_detach(p) \/ TerminateVM_owner(p)
  BY <1>5 DEF TerminateVM_detach, TerminateVM_owner, maps, ListsFit, TermFits, Lists, At, CallsFit
<1>6. CASE TerminateVM_status(p)
  <2>1. pc[p] = "just.free" /\ pc'[p] = "just.clear" /\ UNCHANGED <<vm, misused, job>>
    BY <1>6 DEF TerminateVM_status, At, CallsFit
  <2>2. \A r \in Procs : pc'[r] \in {"attach.owner", "attach.status", "attach.list"} => pc'[r] = pc[r]
    BY <1>6 DEF TerminateVM_status, CallsFit
  <2>3. job[p].d \notin misused => \A r \in Procs : ~Attaching(r, job[p].d)'
    BY <1>6, <2>1, <2>2, DetachesOwn DEF Attaching
  <2>4. job[p].d \notin misused => Cleared(job[p].d)'  BY <1>6, StatusClears
  <2>5. (\A e \in job[p].todo : Lists(job[p].m, e)') /\ job[p].d \notin job[p].todo
    BY <2>1 DEF ListsFit, TermFits, Lists
  <2> QED  BY <2>1, <2>3, <2>4, <2>5 DEF TermFits, At, Cleared, Attaching, Lists, Handled, HandledBy
<1> QED  BY <1>2, <1>3, <1>4, <1>5, <1>6

-----------------------------------------------------------------------------
LEMMA InitIInv == Init => IInv
<1> SUFFICES ASSUME Init PROVE IInv
  OBVIOUS
<1>1. Typed  BY DEF Init, Typed
<1>2. MutexFits
  BY MockAssumption DEF Init, MutexFits, FitsAt, Knows, Mutexes, Locks, Writers, Readers, Inside, Holders
<1>3. CallsFit
  <2>1. \A p \in Procs : Fits(pc[p], job[p], disk, misused) /\ job[p].op \notin DiskOps
    BY NoJobFits DEF Init
  <2>2. pc \in [Procs -> Pcs] /\ job \in [Procs -> Jobs]  BY NoJobFits DEF Init
  <2> QED  BY <2>1, <2>2 DEF CallsFit
<1>4. ListsFit
  BY DEF Init, ListsFit, OwnersFit, HandFits, TermFits, Lists, ClearedPcs, At
<1> QED  BY <1>1, <1>2, <1>3, <1>4 DEF IInv

LEMMA NextIInv == IInv /\ [Next]_vars => IInv'
<1> SUFFICES ASSUME IInv, [Next]_vars PROVE IInv'
  OBVIOUS
<1>1. CASE UNCHANGED vars
  <2>1. Typed'  BY <1>1 DEF IInv, Typed, vars
  <2>2. MutexFits'  BY <1>1 DEF IInv, MutexFits, vars
  <2>3. CallsFit'  BY <1>1 DEF IInv, CallsFit, vars
  <2>4. ListsFit'
    BY <1>1 DEF IInv, ListsFit, OwnersFit, HandFits, TermFits, Lists, Handled, HandledBy, Cleared, Clearing, Attaching, At, vars
  <2> QED  BY <2>1, <2>2, <2>3, <2>4 DEF IInv
<1>2. ASSUME NEW p \in Procs, Begin(p) \/ Serve(p)  PROVE IInv'
  <2>1. Typed /\ MutexFits /\ CallsFit /\ ListsFit /\ pc \in [Procs -> Pcs]  BY DEF IInv, CallsFit
  <2>2. Typed'  BY <1>2, <2>1, MapsStep
  <2>3. MutexFits'  BY <1>2, <2>1, Begin_Mutex, Serve_Mutex
  <2>4. CallsFit'  BY <1>2, <2>1, CallsStep
  <2>5. OwnersFit'  BY <1>2, <2>1, OwnersStep
  <2>6. \A q \in Procs : HandFits(q)'  BY <1>2, <2>1, OwnHandStep, OtherHandsStep
  <2>7. \A q \in Procs : TermFits(q)'  BY <1>2, <2>1, OwnTermStep, OtherTermsStep
  <2> QED  BY <2>2, <2>3, <2>4, <2>5, <2>6, <2>7 DEF IInv, ListsFit
<1> QED  BY <1>1, <1>2 DEF Next

\* What each step of a handler tells of the mutexes, of its call, and of the
\* lists that may name its disk.
THEOREM Invariance == Spec => []IInv
  BY InitIInv, NextIInv, PTL DEF Spec

\* vmInfoMap and diskInfoMap keep their types, and a handler that goes on with a
\* disk after its check finds it in the map: DeleteDisk cannot remove it meanwhile.
THEOREM TypeCorrect == Spec => []TypeOK
<1>1. IInv => TypeOK
  <2> SUFFICES ASSUME IInv PROVE TypeOK
    OBVIOUS
  <2>1. \A p \in Procs : Fits(pc[p], job[p], disk, misused)  BY DEF IInv, CallsFit
  <2> QED  BY <2>1 DEF IInv, Typed, TypeOK, Fits, FindsDisk
<1> QED  BY <1>1, Invariance, PTL

\* Each VM's DataDiskIIDs holds only disks whose OwnerVM it is, so that no disk is
\* on two VMs, but for disks that StartVM brought, DetachDisk took from another VM
\* than their owner, or AttachDisk found half detached by TerminateVM.
THEOREM ListedByOwnerHolds == Spec => []ListedByOwner
<1>1. IInv => ListedByOwner
  <2> SUFFICES ASSUME IInv, NEW m \in VMs, NEW d \in Disks \ misused, Lists(m, d), VMFree(m)
               PROVE  disk[d] = InUse(m)
    BY DEF ListedByOwner, OwnsIfListed, Lists, InUse
  <2>1. ~Handled(m, d)
    <3>1. ASSUME NEW q \in Procs, HandledBy(q, m, d)  PROVE job[q].op = "TerminateVM"
      BY <3>1, OwnCallFits DEF IInv, HandledBy, Fits
    <3> QED  BY <3>1 DEF Handled, HandledBy, VMFree, VMOps
  <2> QED  BY <2>1 DEF IInv, ListsFit, OwnersFit
<1> QED  BY <1>1, Invariance, PTL

-----------------------------------------------------------------------------
(* Everyone waits: from one who waits for a mutex to the one it waits for. *)

\* A goroutine that waits for l knows of a writer of l; and those it waits for.
LEMMA WaitsForVM ==
  ASSUME IInv, NEW p \in Procs, "vm" \in WaitsFor(p)
  PROVE  mutex["vm"].w # None
<1>1. /\ FitsAt("vm", mutex["vm"], pc) /\ Knows("vm", mutex["vm"], p, pc[p])
      /\ mutex["vm"].rwait # {} => mutex["vm"].w # None
  BY DEF IInv, MutexFits, FitsAt, Locks
<1>2. p # None  BY MockAssumption
<1>3. CASE pc[p] \in {"TerminateVM", "ControlVM"} \/ At(p, "start.attach")
  BY <1>3 DEF WaitsFor, At
<1>4. CASE pc[p] \in {"start.insert", "term.find", "control.in"}
  BY <1>1, <1>2, <1>4 DEF Knows, Writers
<1>5. CASE pc[p] \in {"getvm.in", "attach.list", "detach.list", "delete.detach"}
  BY <1>1, <1>5 DEF Knows, Readers, WaitsFor, Reading, At
<1> QED  BY <1>3, <1>4, <1>5 DEF WaitsFor, At

LEMMA WaitsForDisk ==
  ASSUME IInv, NEW p \in Procs, "disk" \in WaitsFor(p)
  PROVE  mutex["disk"].w # None
<1>1. /\ FitsAt("disk", mutex["disk"], pc) /\ Knows("disk", mutex["disk"], p, pc[p])
      /\ mutex["disk"].rwait # {} => mutex["disk"].w # None
  BY DEF IInv, MutexFits, FitsAt, Locks
<1>2. p # None  BY MockAssumption
<1>3. CASE pc[p] \in {"CreateDisk", "DeleteDisk"}  BY <1>3 DEF WaitsFor, At
<1>4. CASE pc[p] \in {"create.in", "delete.find"}  BY <1>1, <1>2, <1>4 DEF Knows, Writers
<1>5. CASE pc[p] \in {"start.validate", "just.check", "just.detach", "getdisk.in", "attach.check", "detach.check"}
  BY <1>1, <1>5 DEF Knows, Readers, WaitsFor, Reading, At
<1> QED  BY <1>3, <1>4, <1>5 DEF WaitsFor, At

\* In a deadlock with somebody waiting for vmMapLock, TerminateVM has it.
LEMMA StuckAtVM ==
  ASSUME IInv, Stuck, mutex["vm"].w # None
  PROVE  \E q \in Procs : At(q, "just.detach") /\ "disk" \in WaitsFor(q)
<1>1. /\ mutex["vm"] \in Mutexes /\ \A q \in Procs : Knows("vm", mutex["vm"], q, pc[q])
  BY DEF IInv, MutexFits, FitsAt, Locks
<1>2. PICK q \in Procs : mutex["vm"].w = q  BY <1>1 DEF Mutexes
<1>3. pc[q] \in Writers("vm")  BY <1>1, <1>2 DEF Knows
<1>4. mutex["vm"].readers = {}
  <2>1. ASSUME NEW r \in mutex["vm"].readers  PROVE FALSE
    <3>1. r \in Procs /\ pc[r] \in Readers("vm")  BY <1>1 DEF Mutexes, Knows
    <3>2. WaitsFor(r) = {}  BY <3>1 DEF WaitsFor, Readers, Reading, At
    <3> QED  BY <3>1, <3>2 DEF Stuck, Busy, At, Readers
  <2> QED  BY <2>1
<1>5. WaitsFor(q) # {}  BY <1>3 DEF Stuck, Busy, At, Writers
<1>6. pc[q] \notin {"start.insert", "term.find", "control.in"}
  BY <1>2, <1>4, <1>5 DEF WaitsFor, Writing, At
<1>7. pc[q] \notin {"term.next", "just.free", "just.clear"}  BY <1>5 DEF WaitsFor, At
<1>8. pc[q] = "just.detach"  BY <1>3, <1>6, <1>7 DEF Writers
<1> QED  BY <1>5, <1>8 DEF WaitsFor, At

\* And with somebody waiting for diskMapLock, a call that waits for vmMapLock has it.
LEMMA StuckAtDisk ==
  ASSUME IInv, Stuck, mutex["disk"].w # None
  PROVE  \E q \in Procs : pc[q] \in {"attach.list", "detach.list", "delete.detach"} /\ "vm" \in WaitsFor(q)
<1>1. /\ mutex["disk"] \in Mutexes /\ \A q \in Procs : Knows("disk", mutex["disk"], q, pc[q])
  BY DEF IInv, MutexFits, FitsAt, Locks
<1>2. CASE mutex["disk"].readers # {}
  <2>1. PICK r \in Procs : r \in mutex["disk"].readers  BY <1>1, <1>2 DEF Mutexes
  <2>2. pc[r] \in Readers("disk")  BY <1>1, <2>1 DEF Knows
  <2>3. WaitsFor(r) # {}  BY <2>2 DEF Stuck, Busy, At, Readers
  <2>4. pc[r] \in {"attach.list", "detach.list"}  BY <2>1, <2>2, <2>3 DEF WaitsFor, Readers, Reading, At
  <2> QED  BY <2>3, <2>4 DEF WaitsFor, At
<1>3. CASE mutex["disk"].readers = {}
  <2>1. PICK q \in Procs : mutex["disk"].w = q  BY <1>1 DEF Mutexes
  <2>2. pc[q] \in Writers("disk")  BY <1>1, <2>1 DEF Knows
  <2>3. WaitsFor(q) # {}  BY <2>2 DEF Stuck, Busy, At, Writers
  <2>4. pc[q] = "delete.detach"  BY <1>3, <2>1, <2>2, <2>3 DEF WaitsFor, Writers, Writing, At
  <2> QED  BY <2>3, <2>4 DEF WaitsFor, At
<1> QED  BY <1>2, <1>3

\* The two mutexes are taken in both orders, and nothing else can block the
\* driver for good: in every deadlock, with any number of calls, a TerminateVM has
\* vmMapLock and a call on a disk, waiting for it, diskMapLock.
THEOREM StuckOnlyByTerminateVMHolds == Spec => []StuckOnlyByTerminateVM
<1>1. IInv => StuckOnlyByTerminateVM
  <2> SUFFICES ASSUME IInv, Stuck  PROVE StuckOnlyByTerminateVM
    BY DEF StuckOnlyByTerminateVM
  <2>1. PICK p \in Procs : "vm" \in WaitsFor(p) \/ "disk" \in WaitsFor(p)
    <3>1. PICK p \in Procs : WaitsFor(p) # {}  BY DEF Stuck, Busy
    <3> QED  BY <3>1 DEF WaitsFor
  <2>2. CASE "vm" \in WaitsFor(p)
    <3>1. PICK q \in Procs : At(q, "just.detach") /\ "disk" \in WaitsFor(q)  BY <2>2, WaitsForVM, StuckAtVM
    <3>2. \E r \in Procs : pc[r] \in {"attach.list", "detach.list", "delete.detach"}
      BY <3>1, WaitsForDisk, StuckAtDisk
    <3> QED  BY <3>1, <3>2 DEF StuckOnlyByTerminateVM
  <2>3. CASE "disk" \in WaitsFor(p)
    <3>1. PICK q \in Procs : pc[q] \in {"attach.list", "detach.list", "delete.detach"} /\ "vm" \in WaitsFor(q)
      BY <2>3, WaitsForDisk, StuckAtDisk
    <3>2. \E r \in Procs : At(r, "just.detach")  BY <3>1, WaitsForVM, StuckAtVM
    <3> QED  BY <3>1, <3>2 DEF StuckOnlyByTerminateVM
  <2> QED  BY <2>1, <2>2, <2>3
<1> QED  BY <1>1, Invariance, PTL

=============================================================================
