----------------------------- MODULE MockDriver -----------------------------
(***************************************************************************)
(* The VMs and data disks of the mock driver                               *)
(* (drivers/mock/resources/VMHandler.go and DiskHandler.go), for one mock  *)
(* region.  vmInfoMap and diskInfoMap have a sync.RWMutex each, and calls  *)
(* of one handler reach into the other's map.                              *)
(*                                                                         *)
(* Taking a mutex is two steps: the call arrives at it, and it goes on     *)
(* when the mutex is its own.  What a call does to a map is one step, but  *)
(* the handlers of disks write under a read lock: there the check of the   *)
(* status and the writes of the two fields are steps of their own.         *)
(*                                                                         *)
(* Callers are the managers of common-runtime, which hold the lock of the  *)
(* VM's or the disk's name (vmSPLock, diskSPLock) during the call.  Images, *)
(* networks and keys are validated before the first lock and left out.     *)
(***************************************************************************)
EXTENDS Naturals, FiniteSets

CONSTANTS
  Procs,   \* goroutines calling the driver
  VMs,
  Disks,
  None

\* What diskInfoMap keeps of a disk.
DiskInfos == [status : {"Available", "Attached"}, owner : VMs \cup {None}]

ASSUME MockAssumption == None \notin Procs \cup VMs \cup Disks \cup DiskInfos

VARIABLES
  mutex,   \* vmMapLock and diskMapLock
  vm,      \* vmInfoMap: the VM's DataDiskIIDs, or None
  disk,    \* diskInfoMap: status and OwnerVM, or None
  misused, \* history: disks that StartVM brought along, that were detached from
           \* a VM that is not their owner, or that were found available by
           \* AttachDisk before TerminateVM had cleared their owner
  pc,
  job      \* the call of each goroutine

vars == <<mutex, vm, disk, misused, pc, job>>
maps == <<vm, disk, misused>>

Mu == INSTANCE GoRWMutex WITH NoOwner <- None

Locks == {"vm", "disk"}

\* todo, done: disks of the VM still to attach or detach, and attached.
NoJob == [op |-> "none", m |-> None, d |-> None, todo |-> {}, done |-> {}]

Init ==
  /\ mutex = [l \in Locks |-> Mu!FreeMutex]
  /\ vm = [m \in VMs |-> None]
  /\ disk = [d \in Disks |-> None]
  /\ misused = {}
  /\ pc = [p \in Procs |-> "idle"]
  /\ job = [p \in Procs |-> NoJob]

Exists(d) == disk[d] # None
Attached(d) == disk[d].status = "Attached"

-----------------------------------------------------------------------------
At(p, label) == pc[p] = label
Goto(p, label) == pc' = [pc EXCEPT ![p] = label]

\* RLock() and Lock(): arrive, go on at the label of the protected part.
RLock(p, l, label) ==
  mutex' = [mutex EXCEPT ![l] = Mu!Arrive(@, p)] /\ Goto(p, label) /\ UNCHANGED <<vm, disk, misused, job>>
WLock(p, l, label) ==
  /\ Mu!CanAnnounce(mutex[l])
  /\ mutex' = [mutex EXCEPT ![l] = Mu!Announce(@, p)]
  /\ Goto(p, label) /\ UNCHANGED <<vm, disk, misused, job>>

Reading(p, l) == Mu!ReaderIn(mutex[l], p)
Writing(p, l) == Mu!WriterIn(mutex[l], p)
RUnlock(p, l) == mutex' = [mutex EXCEPT ![l] = Mu!ReaderOut(@, p)]
WUnlock(l) == mutex' = [mutex EXCEPT ![l] = Mu!WriterOut(@)]
Keep == UNCHANGED mutex

\* The call is over.
Over(p) == Goto(p, "idle") /\ job' = [job EXCEPT ![p] = NoJob]

-----------------------------------------------------------------------------
(* The calls.  vmSPLock and diskSPLock let one call at a time use a name.  *)

VMOps == {"StartVM", "TerminateVM", "ControlVM"}
DiskOps == {"CreateDisk", "DeleteDisk", "AttachDisk", "DetachDisk"}
ReadOps == {"GetVM", "GetDisk"}

VMFree(m) == \A q \in Procs : job[q].op \in VMOps => job[q].m # m
DiskFree(d) == \A q \in Procs : job[q].op \in DiskOps => job[q].d # d

Call(p, op, m, d, ds) ==
  /\ At(p, "idle")
  /\ job' = [job EXCEPT ![p] = [NoJob EXCEPT !.op = op, !.m = m, !.d = d, !.todo = ds]]
  /\ Goto(p, op)
  /\ UNCHANGED <<mutex, maps>>

\* Spider has no row of a VM or disk that it starts or creates.
Begin(p) ==
  \/ \E m \in VMs, ds \in SUBSET Disks :
       VMFree(m) /\ vm[m] = None /\ Call(p, "StartVM", m, None, ds)
  \/ \E m \in VMs, op \in {"TerminateVM", "ControlVM"} : VMFree(m) /\ Call(p, op, m, None, {})
  \/ \E d \in Disks : DiskFree(d) /\ ~Exists(d) /\ Call(p, "CreateDisk", None, d, {})
  \/ \E d \in Disks : DiskFree(d) /\ Call(p, "DeleteDisk", None, d, {})
  \/ \E d \in Disks, m \in VMs, op \in {"AttachDisk", "DetachDisk"} :
       DiskFree(d) /\ Call(p, op, m, d, {})
  \/ \E op \in ReadOps : Call(p, op, None, None, {})

-----------------------------------------------------------------------------
(* VMHandler.go                                                            *)

\* ListDisk: the disks must exist; whether they are free is not asked.
StartVM_listDisk(p) == At(p, "StartVM") /\ RLock(p, "disk", "start.validate")
StartVM_validate(p) ==
  /\ At(p, "start.validate") /\ Reading(p, "disk")
  /\ RUnlock(p, "disk")
  /\ IF \A d \in job[p].todo : Exists(d) THEN Goto(p, "start.attach") /\ UNCHANGED job
                                         ELSE Over(p)
  /\ UNCHANGED maps

\* Attach the disks one by one, then take vmMapLock for the VM.
StartVM_attach(p) ==
  /\ At(p, "start.attach")
  /\ \/ \E d \in job[p].todo :
          /\ mutex' = [mutex EXCEPT !["disk"] = Mu!Arrive(@, p)]
          /\ job' = [job EXCEPT ![p].d = d, ![p].todo = @ \ {d}]
          /\ Goto(p, "just.check") /\ UNCHANGED maps
     \/ job[p].todo = {} /\ WLock(p, "vm", "start.insert")

\* Faulty: the read lock covers the check only.
FaultyStartVM_check(p) ==
  /\ At(p, "just.check") /\ Reading(p, "disk")
  /\ RUnlock(p, "disk")
  /\ IF Exists(job[p].d) /\ ~Attached(job[p].d)
     THEN /\ Goto(p, "just.status") /\ UNCHANGED job
          /\ misused' = misused \cup {job[p].d}
     ELSE Over(p) /\ UNCHANGED misused
  /\ UNCHANGED <<vm, disk>>

\* justAttachDisk: a disk that is not available ends StartVM; the disks before
\* it stay attached.
StartVM_check(p) ==
  /\ At(p, "just.check") /\ Reading(p, "disk")
  /\ IF Exists(job[p].d) /\ ~Attached(job[p].d)
     THEN /\ Goto(p, "just.status") /\ UNCHANGED <<mutex, job>>
          /\ misused' = misused \cup {job[p].d}
     ELSE RUnlock(p, "disk") /\ Over(p) /\ UNCHANGED misused
  /\ UNCHANGED <<vm, disk>>
StartVM_status(p) ==
  /\ At(p, "just.status")
  /\ disk' = [disk EXCEPT ![job[p].d].status = "Attached"]
  /\ Goto(p, "just.owner")
  /\ UNCHANGED <<mutex, vm, misused, job>>
StartVM_owner(p) ==
  /\ At(p, "just.owner")
  /\ disk' = [disk EXCEPT ![job[p].d].owner = job[p].m]
  /\ RUnlock(p, "disk")
  /\ job' = [job EXCEPT ![p].d = None, ![p].done = @ \cup {job[p].d}]
  /\ Goto(p, "start.attach")
  /\ UNCHANGED <<vm, misused>>

StartVM_insert(p) ==
  /\ At(p, "start.insert") /\ Writing(p, "vm")
  /\ vm' = [vm EXCEPT ![job[p].m] = job[p].done]
  /\ WUnlock("vm") /\ Over(p)
  /\ UNCHANGED <<disk, misused>>

StartVM(p) ==
  \/ StartVM_listDisk(p) \/ StartVM_validate(p) \/ StartVM_attach(p) \/ StartVM_check(p)
  \/ StartVM_status(p) \/ StartVM_owner(p) \/ StartVM_insert(p)

\* TerminateVM detaches the VM's disks with vmMapLock held; what justDetachDisk
\* returns is ignored, and so is a VM that does not exist.
TerminateVM_lock(p) == At(p, "TerminateVM") /\ WLock(p, "vm", "term.find")
TerminateVM_find(p) ==
  /\ At(p, "term.find") /\ Writing(p, "vm")
  /\ job' = [job EXCEPT ![p].todo = IF vm[job[p].m] = None THEN {} ELSE vm[job[p].m]]
  /\ Goto(p, "term.next")
  /\ Keep /\ UNCHANGED maps
TerminateVM_next(p) ==
  /\ At(p, "term.next")
  /\ \/ \E d \in job[p].todo :
          /\ mutex' = [mutex EXCEPT !["disk"] = Mu!Arrive(@, p)]
          /\ job' = [job EXCEPT ![p].d = d, ![p].todo = @ \ {d}]
          /\ Goto(p, "just.detach") /\ UNCHANGED maps
     \/ /\ job[p].todo = {}
        /\ vm' = [vm EXCEPT ![job[p].m] = None]
        /\ WUnlock("vm") /\ Over(p)
        /\ UNCHANGED <<disk, misused>>
\* justDetachDisk.
TerminateVM_detach(p) ==
  /\ At(p, "just.detach") /\ Reading(p, "disk")
  /\ IF Exists(job[p].d) /\ Attached(job[p].d)
     THEN Goto(p, "just.free") /\ Keep
     ELSE Goto(p, "term.next") /\ RUnlock(p, "disk")
  /\ UNCHANGED <<maps, job>>
TerminateVM_status(p) ==
  /\ At(p, "just.free")
  /\ disk' = [disk EXCEPT ![job[p].d].status = "Available"]
  /\ Goto(p, "just.clear")
  /\ Keep /\ UNCHANGED <<vm, misused, job>>
TerminateVM_owner(p) ==
  /\ At(p, "just.clear")
  /\ disk' = [disk EXCEPT ![job[p].d].owner = None]
  /\ RUnlock(p, "disk")
  /\ Goto(p, "term.next")
  /\ UNCHANGED <<vm, misused, job>>

TerminateVM(p) ==
  \/ TerminateVM_lock(p) \/ TerminateVM_find(p) \/ TerminateVM_next(p) \/ TerminateVM_detach(p)
  \/ TerminateVM_status(p) \/ TerminateVM_owner(p)

\* Faulty: the Unlock is forgotten.
FaultyControlVM(p) ==
  \/ At(p, "ControlVM") /\ WLock(p, "vm", "control.in")
  \/ At(p, "control.in") /\ Writing(p, "vm") /\ Keep /\ Over(p) /\ UNCHANGED maps

\* SuspendVM, ResumeVM and RebootVM write the VM's status, which no other call
\* asks for; their locking is what matters here.
ControlVM(p) ==
  \/ At(p, "ControlVM") /\ WLock(p, "vm", "control.in")
  \/ At(p, "control.in") /\ Writing(p, "vm") /\ WUnlock("vm") /\ Over(p) /\ UNCHANGED maps

\* GetVM, ListVM, GetVMStatus.
GetVM(p) ==
  \/ At(p, "GetVM") /\ RLock(p, "vm", "getvm.in")
  \/ At(p, "getvm.in") /\ Reading(p, "vm") /\ RUnlock(p, "vm") /\ Over(p) /\ UNCHANGED maps

-----------------------------------------------------------------------------
(* DiskHandler.go                                                          *)

CreateDisk(p) ==
  \/ At(p, "CreateDisk") /\ WLock(p, "disk", "create.in")
  \/ /\ At(p, "create.in") /\ Writing(p, "disk")
     /\ disk' = [disk EXCEPT ![job[p].d] = [status |-> "Available", owner |-> None]]
     /\ WUnlock("disk") /\ Over(p)
     /\ UNCHANGED <<vm, misused>>

\* GetDisk, ListDisk, ChangeDiskSize.
GetDisk(p) ==
  \/ At(p, "GetDisk") /\ RLock(p, "disk", "getdisk.in")
  \/ At(p, "getdisk.in") /\ Reading(p, "disk") /\ RUnlock(p, "disk") /\ Over(p) /\ UNCHANGED maps

\* A disk that has an owner is taken off the owner's list first, with
\* diskMapLock held.
DeleteDisk_lock(p) == At(p, "DeleteDisk") /\ WLock(p, "disk", "delete.find")
DeleteDisk_find(p) ==
  /\ At(p, "delete.find") /\ Writing(p, "disk")
  /\ LET d == job[p].d IN
     \/ ~Exists(d) /\ WUnlock("disk") /\ Over(p)
     \/ /\ Exists(d) /\ disk[d].owner = None
        /\ Goto(p, "delete.remove") /\ Keep /\ UNCHANGED job
     \/ /\ Exists(d) /\ disk[d].owner # None
        /\ mutex' = [mutex EXCEPT !["vm"] = Mu!Arrive(@, p)]
        /\ job' = [job EXCEPT ![p].m = disk[d].owner]
        /\ Goto(p, "delete.detach")
  /\ UNCHANGED maps
DeleteDisk_remove(p) ==
  /\ At(p, "delete.remove")
  /\ disk' = [disk EXCEPT ![job[p].d] = None]
  /\ WUnlock("disk") /\ Over(p)
  /\ UNCHANGED <<vm, misused>>

\* TerminateVM has made the disk available and is about to clear its owner.
HalfDetached(d) == \E q \in Procs : At(q, "just.clear") /\ job[q].d = d

\* Faulty: a disk in use is attached again.
FaultyAttachDisk_check(p) ==
  /\ At(p, "attach.check") /\ Reading(p, "disk")
  /\ IF Exists(job[p].d)
     THEN /\ Goto(p, "attach.owner") /\ UNCHANGED <<mutex, job>>
          /\ misused' = IF HalfDetached(job[p].d) THEN misused \cup {job[p].d} ELSE misused
     ELSE RUnlock(p, "disk") /\ Over(p) /\ UNCHANGED misused
  /\ UNCHANGED <<vm, disk>>

\* Whether the VM exists is not asked.
AttachDisk_lock(p) == At(p, "AttachDisk") /\ RLock(p, "disk", "attach.check")
AttachDisk_check(p) ==
  /\ At(p, "attach.check") /\ Reading(p, "disk")
  /\ IF Exists(job[p].d) /\ ~Attached(job[p].d)
     THEN /\ Goto(p, "attach.owner") /\ UNCHANGED <<mutex, job>>
          /\ misused' = IF HalfDetached(job[p].d) THEN misused \cup {job[p].d} ELSE misused
     ELSE RUnlock(p, "disk") /\ Over(p) /\ UNCHANGED misused
  /\ UNCHANGED <<vm, disk>>
AttachDisk_owner(p) ==
  /\ At(p, "attach.owner")
  /\ disk' = [disk EXCEPT ![job[p].d].owner = job[p].m]
  /\ Goto(p, "attach.status")
  /\ Keep /\ UNCHANGED <<vm, misused, job>>
AttachDisk_status(p) ==
  /\ At(p, "attach.status")
  /\ disk' = [disk EXCEPT ![job[p].d].status = "Attached"]
  /\ mutex' = [mutex EXCEPT !["vm"] = Mu!Arrive(@, p)]
  /\ Goto(p, "attach.list")
  /\ UNCHANGED <<vm, misused, job>>

DetachDisk_lock(p) == At(p, "DetachDisk") /\ RLock(p, "disk", "detach.check")
DetachDisk_check(p) ==
  /\ At(p, "detach.check") /\ Reading(p, "disk")
  /\ IF Exists(job[p].d) /\ Attached(job[p].d)
     THEN /\ mutex' = [mutex EXCEPT !["vm"] = Mu!Arrive(@, p)]
          /\ Goto(p, "detach.list") /\ UNCHANGED job
          /\ misused' = IF disk[job[p].d].owner = job[p].m THEN misused ELSE misused \cup {job[p].d}
     ELSE RUnlock(p, "disk") /\ Over(p) /\ UNCHANGED misused
  /\ UNCHANGED <<vm, disk>>
DetachDisk_status(p) ==
  /\ At(p, "detach.status")
  /\ disk' = [disk EXCEPT ![job[p].d].status = "Available"]
  /\ Goto(p, "detach.owner")
  /\ Keep /\ UNCHANGED <<vm, misused, job>>
DetachDisk_owner(p) ==
  /\ At(p, "detach.owner")
  /\ disk' = [disk EXCEPT ![job[p].d].owner = None]
  /\ RUnlock(p, "disk") /\ Over(p)
  /\ UNCHANGED <<vm, misused>>

\* diskAttach and diskDetach, in VMHandler.go: the list of the VM changes under
\* the read lock of vmMapLock.  A VM or disk that is not there is an error that
\* the callers ignore.
AddToList(m, d) == IF vm[m] = None THEN vm ELSE [vm EXCEPT ![m] = @ \cup {d}]
RemoveFromList(m, d) == IF vm[m] = None THEN vm ELSE [vm EXCEPT ![m] = @ \ {d}]

diskAttach(p) ==
  /\ At(p, "attach.list") /\ Reading(p, "vm")
  /\ vm' = AddToList(job[p].m, job[p].d)
  /\ mutex' = [mutex EXCEPT !["vm"] = Mu!ReaderOut(@, p), !["disk"] = Mu!ReaderOut(@, p)]
  /\ Over(p)
  /\ UNCHANGED <<disk, misused>>
diskDetach(p) ==
  /\ pc[p] \in {"detach.list", "delete.detach"} /\ Reading(p, "vm")
  /\ vm' = RemoveFromList(job[p].m, job[p].d)
  /\ RUnlock(p, "vm")
  /\ Goto(p, IF At(p, "detach.list") THEN "detach.status" ELSE "delete.remove")
  /\ UNCHANGED <<disk, misused, job>>

DeleteDisk(p) == DeleteDisk_lock(p) \/ DeleteDisk_find(p) \/ DeleteDisk_remove(p)
AttachDisk(p) ==
  AttachDisk_lock(p) \/ AttachDisk_check(p) \/ AttachDisk_owner(p) \/ AttachDisk_status(p)
DetachDisk(p) ==
  DetachDisk_lock(p) \/ DetachDisk_check(p) \/ DetachDisk_status(p) \/ DetachDisk_owner(p)

-----------------------------------------------------------------------------
Serve(p) ==
  \/ StartVM(p) \/ TerminateVM(p) \/ ControlVM(p) \/ GetVM(p) \/ CreateDisk(p) \/ GetDisk(p)
  \/ DeleteDisk(p) \/ AttachDisk(p) \/ DetachDisk(p) \/ diskAttach(p) \/ diskDetach(p)

Next == \E p \in Procs : Begin(p) \/ Serve(p)

Spec == Init /\ [][Next]_vars
-----------------------------------------------------------------------------
\* The maps, and the disks a VM lists, have their types; and the parts that
\* write or read a disk find it in the map.
TypeOK ==
  /\ vm \in [VMs -> (SUBSET Disks) \cup {None}]
  /\ disk \in [Disks -> DiskInfos \cup {None}]
  /\ misused \subseteq Disks
  /\ \A p \in Procs :
       pc[p] \in {"just.status", "just.owner", "just.free", "just.clear", "attach.owner", "attach.status",
                 "attach.list", "detach.list", "detach.status", "detach.owner", "delete.detach", "delete.remove"} =>
         disk[job[p].d] # None

\* The mutex at which a call waits, if it does.
WaitsFor(p) ==
  CASE pc[p] \in {"TerminateVM", "ControlVM"} \/ (At(p, "start.attach") /\ job[p].todo = {}) ->
         IF Mu!CanAnnounce(mutex["vm"]) THEN {} ELSE {"vm"}
    [] pc[p] \in {"CreateDisk", "DeleteDisk"} -> IF Mu!CanAnnounce(mutex["disk"]) THEN {} ELSE {"disk"}
    [] pc[p] \in {"start.insert", "term.find", "control.in"} -> IF Writing(p, "vm") THEN {} ELSE {"vm"}
    [] pc[p] \in {"create.in", "delete.find"} -> IF Writing(p, "disk") THEN {} ELSE {"disk"}
    [] pc[p] \in {"getvm.in", "attach.list", "detach.list", "delete.detach"} ->
         IF Reading(p, "vm") THEN {} ELSE {"vm"}
    [] pc[p] \in {"start.validate", "just.check", "just.detach", "getdisk.in", "attach.check",
                 "detach.check"} -> IF Reading(p, "disk") THEN {} ELSE {"disk"}
    [] OTHER -> {}

Busy == {p \in Procs : ~At(p, "idle")}
Stuck == Busy # {} /\ \A p \in Busy : WaitsFor(p) # {}

\* Every call of the driver returns: the mutexes are unlocked by defer.  With
\* vmMapLock held TerminateVM waits for diskMapLock, and with diskMapLock held
\* DeleteDisk waits for vmMapLock.
NoDeadlock == ~Stuck

\* That is the only way: in every deadlock a TerminateVM has vmMapLock and
\* waits for diskMapLock, and a call on a disk that waits for vmMapLock has it.
StuckOnlyByTerminateVM ==
  Stuck =>
    /\ \E p \in Procs : At(p, "just.detach")
    /\ \E p \in Procs : pc[p] \in {"attach.list", "detach.list", "delete.detach"}

\* A VM that lists a disk is the disk's owner, unless a call is changing one of
\* them.
OwnsIfListed(m, d) ==
  vm[m] # None /\ d \in vm[m] /\ VMFree(m) /\ DiskFree(d) =>
    disk[d] = [status |-> "Attached", owner |-> m]

\* Three uses of a disk break that: StartVM does not lock its name, DetachDisk does
\* not ask for its owner, and TerminateVM clears the owner after the disk is
\* available.  But for them a VM that lists a disk is its owner, so that no second
\* VM has it: the two maps are never locked together, disks change under read
\* locks, and calls on one disk and on two VMs meet at every step.
ListedByOwner == \A m \in VMs, d \in Disks \ misused : OwnsIfListed(m, d)

\* It is not so of all disks: one that AttachDisk gives to a VM between the two
\* writes of a TerminateVM keeps no owner.
AlwaysListedByOwner == \A m \in VMs, d \in Disks : OwnsIfListed(m, d)
=============================================================================
