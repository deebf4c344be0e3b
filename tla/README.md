# CB-Spider in TLA+

CB-Spider is a server that offers one REST API for the resources of many clouds. A request names a
*connection* (a cloud, a region, a credential) and a *resource* by the user's name; the server keeps,
in a relational meta database, which id the cloud (the CSP) gave to each name. Its own logic is
therefore the agreement of three things: the rows of the meta database, the resources in the cloud,
and the answers to the callers, while many goroutines serve requests at once and any call to the
database or to a cloud driver may fail.

This directory models that logic, checks it with TLC on small instances, and proves the parts that
matter for all instances with TLAPS. Two parts beside the server's managers have concurrency of their
own and are modelled too: the mock driver, and SpiderWatch, the tool that tests a server every day.
Source paths below are relative to `src/`; CR stands for `api-runtime/common-runtime`.

## 1. Inventory

A request passes through four layers: a REST handler (`api-runtime/rest-runtime`, one goroutine per
request) decodes it and calls a *manager* of CR; the manager takes the lock of the resource name,
reads and writes the meta database (`info-store`) and calls a *driver handler* obtained from
`cloud-control-manager`; the driver calls the CSP. Managers share the meta database, the lock tables
and the cloud, nothing else.

| component | state | operations | what is hard | what makes it correct | module |
|---|---|---|---|---|---|
| `CR/sp-lock/splock.go` | map from (connection, name) to a reference counted readers-writer lock | Lock, Unlock, RLock, RUnlock, GetSPLockMapStatus | entries are made and deleted by their users while others wait on them | mutual exclusion per name, no leaked and no lost entry, no nil dereference, every Lock returns | SPLock |
| `CR/VPC-SubnetManager.go` | rows of VPCs and of subnets; VPCs and subnets in the cloud | create, register, unregister, list, get, delete a VPC; add, remove, register, unregister a subnet | two tables without a transaction, rollbacks that fail half way, subnets locked by another name than their VPC, restarts | rows name existing resources, nothing made is lost, success means done, rows are never replaced, calls return | VPCManager |
| nesting of the lock tables (`ClusterManager`, `NLBManager`, `RDBMSManager`, `FileSystemManager`, `SecurityGroupManager`, `VMManager`) | the locks that each goroutine holds | calls that hold a lock while they take another | non-reentrant readers-writer locks, pending writers that block readers, lists of names from the request | no circular wait, every call returns | LockOrder |
| `CR/KeyPairManager.go`, `MyImageManager.go`, `NICManager.go`, `PublicIPManager.go`, `DiskManager.go`, `RDBMSManager.go`, `DNS-ZoneManager.go`, `FileSystemManager.go`, `SecurityGroupManager.go`, `NLBManager.go`, `ClusterManager.go` | one table each (two for zones and clusters), some with an owner: a VPC, a zone, a cluster | register, create, list, get, delete, unregister, and their own (attach, associate, resize, add a node group ...) | thirteen copies of one idea, each with other locks, checks, undoing and order of steps | nothing made is lost, rows name what exists, a name is not given twice, an owner does not go away under a create | ResourceManagers |
| `CR/VMManager.go` | rows of VMs | start, register, unregister, get, status, control, list, terminate | a VM terminates later than the call that asks for it, waiting with a limit, undoing a VM that was made, a list of goroutines | a VM that costs money is known to somebody, readers find it, calls return | VMManager |
| `CR/VMPublicIPManager.go` | none of its own | assign, unassign the default public IP; attach, detach one | sequences of other managers' calls without a lock around them; what "owned by" means differs from driver to driver | a public IP that a user made is never deleted | VMPublicIP |
| `CR/CommonManager.go` | rows of every type | UnregisterResource, DeleteCSPResource, ListAll*, Destroy, conversion of ids | one function for all types, retries, reports of what was left over | the row of the right table goes, Destroy reports what it left | part of the managers' modules |
| mock driver (`drivers/mock/resources`) | a map and a mutex for each type | the driver interface | two handlers take each other's mutex; writes under a read lock | no deadlock, the two maps agree | MockDriver |
| `spiderwatch/internal` | the run in progress, its result, the files of results, two containers, the schedule | scheduled, started and manual runs; stop, delete, file an issue, start and stop the containers; reload the configuration | runs, handlers, cron and the goroutine of each CSP share all of it; flags read after they were changed | one run at a time, each ends, what is stored says what was tested | SpiderWatch |
| `info-store` | SQLite tables; backup schedule | insert (upsert), list, get, delete; backup, restore | upsert, no transactions, a scheduler goroutine | a backup is a consistent state | its calls are steps of the managers' modules |
| `cloud-info-manager` | drivers, credentials, regions, connections | register, list, get, unregister | references between the four tables | a connection's parts exist | - |
| `cloud-control-manager` | loaded drivers, generated names | GetCloudDriver, GetCloudConnection, IID manager | names cut to a CSP's length | generated names are unique and legal | - |
| cloud drivers, REST runtime, admin web, cli, utils | none of their own | adapters and front ends | - | - | - |

PROJECT.json lists the same components with their status, and forty hazards, each at its line with the
properties about it, or with the reason why there is none.

## 2. Modules

How they depend on each other: `SPLock` uses `GoRWMutex` and implements `RWLockTable`; the managers'
modules (`VPCManager`, `ResourceManagers`, `VMManager`) use `RWLockTable` for their lock tables, and
`LockOrder` is about several tables at once; `VMPublicIP` composes calls of two managers; `MockDriver`
stands under the managers and uses `GoRWMutex`. A `MC` module gives a module small sets for TLC, and a
`Proofs` module has its theorems. Definitions whose names begin with `Faulty` are plausible mistakes;
each is used by a mutant of PROJECT.json to show that a property notices it, and by nothing else.

**`SPLock`** is `splock.go` of CR, statement by statement: the acts of a session between two points
at which another goroutine can run are one action. `lockMap`, `count`, `lock` are the map, the
counter and the mutex of each `LockValue`; `rwMutex` is the lock of the map (its readers,
`GetSPLockMapStatus`, only set `statusIn`). An object of `Objs` is an address of a `LockValue`, which
may be used again when neither the map nor a goroutine refers to it. `Call`/`CallUnlock` are the
manager's call; `EnterMap`, `FindOrCreate`, `CountIn`, `Ask`, `Return` are Lock and RLock;
`ReenterMap`, `Find`, `Uncount`, `DeleteAtZero`, `Leave` are Unlock and RUnlock. `Leave` releases the
entry's mutex and the map's together, because nothing can be done to the entry in between. A nil map
entry sends the session to the pc "panic".
**`GoRWMutex`** is what the Go library promises of a `sync.RWMutex` (external): an announced writer
stops later readers, and its Unlock lets in those that wait. **`RWLockTable`** is the abstract table
of readers-writer locks; `ImplementsRWLockTable` is the refinement.

**`VPCManager`** is VPC-SubnetManager.go, with UnregisterResource and DeleteCSPResource of
CommonManager.go for VPCs, on one connection. `vpcRow` and `subnetRow` are the tables `VPCIIDInfo`
and `SubnetIIDInfo`, whose key is (connection, name, owner VPC); `cspVpc` and `cspSubnet` are the
cloud; `grant` is vpcSPLock, which is an instance of `RWLockTable`; `pc` and `job` are the goroutine's
place and local variables. One action per call of the database, the driver or the lock, in the order
of the code, with its error branch: `CreateVPC_exists`, `CreateVPC_single`, `CreateVPC_csp`,
`CreateVPC_insertVPC`, `CreateVPC_undo` and so on. Rows of several subnets are inserted one by one.
`unmanaged` is a history variable: what the server left in the cloud on purpose (unregister, force)
or with an error in its answer. The constants `DBFails` and `CSPFaults` say which failures an
instance has: a driver's delete may be "refused" (false, nil), fail ("error"), or fail after it
removed the resource ("lost"). `Crash` loses the goroutines and the locks and keeps database and
cloud. Not in the model: the checks of the arguments, the capability checks, the lookup of rows in the
permission based mode, the contents of the answers, and that ListVPC gets the VPCs of its list in
parallel (it does so one after another here; its goroutines share nothing but the result's slots).

**`ResourceManagers`** is the thirteen managers of one table. Their functions are put together from the
same few steps ("lock the name", "the name is free", "make it", "insert the row or undo") in different
orders and with different guards, and the differences are what is worth checking; so a function is
written as the sequence of its steps (`CreateKey == Op("create", <<"lock", "free", "make",
"insertOrUndo">>)`) and a step is an action. The variable `mgr` says whose behaviour it is, so that one
run covers all. `row` is the table, `owners` the owners (VPCs, clusters, zones) that have a row, `csp` where
a resource is, `ownerGrant` and `grant` the two lock tables a call may use. `released` and `told` are
histories: ids that the driver was asked to delete or that a user unregistered, and ids whose row outlives them
by the doing of a call that failed or was forced, or that were registered twice (any id of the cloud may be
registered, as in the code).

A cluster's calls write two tables. For the manager CLUSTER the node groups' rows are steps without effect
on its own table ("insertOthers", "deleteOthers"); for NODEGROUP and DNSRECORD the same functions appear as
what they do to the node groups' or records' rows: `RegisterWithGroups`, `CreateWithGroups`,
`DeleteWithGroups`, `UnregisterWithoutGroups`, `RegisterWithRecords`, `DeleteWithRecords`, in the code's order,
with its locks, force, and every outcome of the driver's delete (`OwnerOutcomes`: done, refused, failed,
done and failed, not found). Their rows are inserted one by one and without a check (`InsertParts`), and an
unregistered cluster leaves them, as the code does. For VPCs as owners, `CreateOwner` and `DeleteOwner` are what
VPCManager does to the owner's row.

**`VMManager`** is VMManager.go for VMs of public images: `row`, and `vm`, the status in the cloud, where a VM
terminates in its own time (`Progress`). StartVM's check of access, its insert and its undoing,
DeleteVM's wait with a limited number of polls (`Polls` bounds a WAITER's sleeps, which the code bounds
by time), forced and not, ListVM's goroutines and the status polling are steps. RegisterVM takes any id, also
one that has a row or is ending. `told` is the history of what somebody has to account for, as pairs of an id
and a kind: "vm", the VM may run without a row (a failed StartVM said so, an unregister or a forced delete was
to leave it, or it is foreign), and "row", a row may be without its VM (a failed delete said so, a forced one could not delete the
row and answered true all the same, or RegisterVM took the VM in doubt: `Doubtful`).

**`VMPublicIP`** composes calls of the VM manager and the public IP manager, each of which is one step, as
each locks its one name; nothing is locked from one call to the next. `Drivers` are records of what the
drivers do with OwnedVM and with RemoveDefaultPublicIP, read from their handlers under
`cloud-control-manager/cloud-driver/drivers`.

**`MockDriver`** is the VMs and disks of the mock driver with their two mutexes; taking a mutex is two
steps (arrive, enter), and what is written under a read lock is written field by field: status and owner of a
disk are two writes in AttachDisk, DetachDisk, StartVM and TerminateVM (`just.free`, `just.clear`), and the
last two do not hold the disk's lock. `misused` remembers the disks that were used in one of the three ways
that break the agreement of the maps: StartVM brought the disk, DetachDisk took it off a VM that is not its
owner, AttachDisk found it between the two writes of a TerminateVM.

**`SpiderWatch`** is the runner, scheduler, result store and web handlers of SpiderWatch: `Run` and its
goroutine per CSP (`testCSP`), the flags `running`, `stopped`, the cancel function, the stored results (`file`),
the containers, and the requests of the page that write any of them. A run's id is the second in which it
begins (runner.go:138), a member of `Ids` chosen by `Run_check`: two runs may have the same, and then the same
file. `Cleanups` are the modes that the configuration may name, for cron and startup as for the page. The
configuration is public (`cron`, `cleanup`) a step before onChange calls Reconfigure (`reloading` in between),
and the old job may start a run there. Taking away and making the container of PostgreSQL are steps of their own.

**`LockOrder`** is about the calls that take a lock while they hold one. A call is its *plan*, the
sequence of its locks, `<<table, name>>` and kind; what happens between two locks is left out, except
that the call may end early at every point between them (`Return`), after which its deferred
unlocks run, last one first. The plans were collected from every function of CR that takes more than
one lock, itself or through a function it calls (StartVM through setNameId and RegisterDisk). Each
mutex is a `GoRWMutex`; each element of a plan is a session of its own, because the mutexes are not
reentrant. That the map around the mutexes can be left out is what `SPLock` shows.

## 3. Runs

| run | instance | distinct states | shows |
|---|---|---|---|
| splock | 3 sessions, 1 name, 3 LockValues, permission based mode | 33,675 | TypeOK, MutualExclusion, CountIsReferences, NoPanic, NoLeakedEntry, that SPLock implements RWLockTable, and that every Lock returns (LockReturns) |
| vpc_normal | 2 goroutines, 8 calls, 1 VPC name, 2 subnet names; drivers may refuse or fail | 118,460 | SubnetRowsOwned, RowsExistInCSP, NothingLost, ReadersFindResource, SuccessMeansCreated, DeleteRemovesSubnetRows, SubnetRowsNeverReplaced |
| vpc_faults | 2 goroutines, all 12 calls, all failures, restarts, single-VPC cloud, KT | 663,756 | TypeOK, DeleteRemovesVPCRow, VPCRowsNeverReplaced |
| vpc_live | 2 goroutines, 4 calls, 2 subnet names, database failures, no ID management | 29,330 | RollbackRemovesSubnetRows, CallsReturn |
| lockorder | 3 goroutines, the tables of VPCs and clusters | 42,820 | TypeOK, NoDeadlock, CallsReturn |
| resources | 13 managers, 2 goroutines, 1 owner, 1 name, 3 ids, all failures | @resources@ | TypeOK, NothingLost, RowsExistInCSP, RowsNeverReplaced, InsertedUnderOwner |
| vm | 2 goroutines, 2 names, 1 id, all 9 calls, all failures | @vm@ | TypeOK, VMsAreKnown, RowsHaveVMs, ReadersFindVM, CallsReturn |
| mock | 3 goroutines, 2 VMs, 1 disk | @mock@ | TypeOK, StuckOnlyByTerminateVM, ListedByOwner |
| sw_results | 2 runs in 2 seconds, 1 CSP with 2 resources and a cleanup, a user, time limit, 2 changes of the configuration among 2 expressions | @sw_results@ | DoneIsComplete, OnlyConfiguredRuns, FinalResultStays |
| sw_containers | 2 runs in one second, a user, the containers, failing docker commands | @sw_containers@ | OneRunAtATime, RunsEnd |
| lockorder_keys, vmpip | - | - | the disagreements of section 4 |

*Bounds.* Three sessions are the fewest with which an entry can be deleted by one, made anew by a
second and be waited for by a third; as a live LockValue is referenced by a session, three objects
suffice, and sessions of other names meet only at `rwMutex` (the proofs are about all names). In the
managers' modules a name's operations exclude each other except for the calls that lock another
name or none, so that two goroutines show every interleaving of two calls on a name, and the ids
are enough for each goroutine to make one resource while another's id is still in a row. Two subnet
names let a list of inserts fail in the middle. `ResourceManagers` has one owner and one name, so that every
call is about the same row; `Foreign` is a resource to register, and any other may be registered too. With two
names (and two ids) the same properties hold of every manager by itself, 4.6 million states for the largest, but
all thirteen together are too much for one run. In `VMManager` two names let RegisterVM give one VM two names;
one id, which the CSP may give out again when nobody remembers it, lets both meet, and one poll
distinguishes "in time" from "too late"; with two ids the 8.8 million states are too many for the liveness
property. `MockDriver` needs two VMs for a disk to be on the wrong one's list, and three
goroutines for a reader, a writer and the call that waits for both. In `SpiderWatch` a goroutine of
`Runs` runs once, so two runs are a run and whatever competes with it or follows it, in its second or in
another (`Ids` bounds the seconds). Two resources and a cleanup are needed for a run to be stopped between two
resources, and before its cleanup; two expressions and two reloads (`MaxReloads`) for one that replaces a job,
takes it out, or puts it back. In `LockOrder` a circular wait of single-name plans needs at most
one goroutine for each rank of table on the circle, and a pending writer; the theorem covers every size.

*What a run leaves out.* vpc_normal has no database failures, because with them `NothingLost`,
`RowsExistInCSP`, `SubnetRowsOwned` and `SuccessMeansCreated` are false in ways the code accepts (two
deletes without a transaction). It has no RegisterVPC, RegisterSubnet, RemoveCSPSubnet or DeleteCSPVPC, because
these work outside the VPC's lock or on purpose against the agreement (sections 4 and 5). vpc_faults puts
all of that back and checks what survives; which of the properties need which of the exclusions is what the
hypotheses of the theorems say. In `ResourceManagers`, `NothingLost` exempts the managers in `Careless`, whose
code loses a resource on some path, each named in the definition's comment, and what was there before Spider
(`Foreign`); `RowsNeverReplaced` exempts the rows that registering or creating a cluster or a zone writes of its
parts; `RowsExistInCSP` what `told` names. In `VMManager` the properties exempt, kind by kind, what `told` names.
In `MockDriver`, `ListedByOwner` exempts the disks in `misused`. In `SpiderWatch`,
`DoneIsComplete` exempts a run that ran into its time limit (it is reported DONE), and `FinalResultStays` a
result that a request of the page had read before the run's end and one whose id a second run has too;
`OnlyConfiguredRuns` says of the time between the publication of a configuration and Reconfigure only that
there are never two jobs. A change of the file between main's first read and the start of the scheduler is not
modelled: both would add a job then.

*Fairness.* Weak fairness of each goroutine once its call has begun (the Go scheduler runs runnable
goroutines, drivers and the database answer), and strong fairness of taking a lock that is free again
and again: in `SPLock` because `sync.Mutex`, in which the writers of a `sync.RWMutex` queue, hands over
to a waiter after one millisecond, elsewhere because SPLock's LockReturns holds. In `VMManager` the
cloud also ends what it has begun; in `SpiderWatch` docker commands and tests end (each HTTP call of a
test has a timeout). That a call arrives is never assumed, nor that it succeeds. `CallsReturn` of
`VMManager` names the three ways in which the code waits for ever (`NeverReturns`): StartVM for a VM that the
CSP does not show, a forced delete of a VM that stays, and ListVM for a goroutine that gave up without a word.

*Deadlock* is checked in every run but those of `VMManager` (the three ways above), `MockDriver` (its
deadlock is what StuckOnlyByTerminateVM is about) and `SpiderWatch` (when all runs have run, it may stop).

## 4. Disagreements found

Two are runs of their own:

1. **CreateCluster can block itself** (ClusterManager.go:488). It takes the read lock of a key pair
   once per node group and holds it; with two node groups of one key pair and a writer of the key that
   arrives in between, both wait for ever. Run lockorder_keys.
2. **A user's public IP is deleted** (VMPublicIPManager.go:174). UnassignVMDefaultPublicIP decides by the
   name in OwnedVM whether the address is the user's; on Azure that is the NIC's name, so that the
   address is taken for a default one and deleted. Run vmpip. The drivers of IBM, KT and NCP behave alike;
   with those of NHN and OpenStack (`NHN`) it needs a second goroutine that attaches the address between
   the list and the removal; with the drivers that delete nothing it is proved not to happen.

Others are not runs, but anyone can see them with a named property and a changed constant:

| what | property | instance |
|---|---|---|
| the rollback of CreateVPC deletes subnet rows by the driver's name of the VPC, which with ID management is a generated one (VPC-SubnetManager.go:665) | RollbackRemovesSubnetRows | vpc_live with IDMgmt = TRUE |
| a rolled back CreateVPC returns (nil, nil), as its error is shadowed (line 671) | SuccessMeansCreated | vpc_normal with DBFails = TRUE |
| two VPCs in a single-VPC cloud: the check is under the lock of the call's own name (line 525) | AtMostOneVPC | SingleVPC = TRUE and two VPC names |
| subnet rows without VPC: RegisterSubnet and UnregisterSubnet lock the subnet's name in the table of VPC names (line 260) | SubnetRowsOwned | Ops with RegisterVPC, RegisterSubnet, UnregisterVPC |
| two requests that name two security groups in opposite order, with a writer of each, wait in a circle (ClusterManager.go:455, RDBMSManager.go:447) | NoDeadlock of LockOrder | four goroutines, SgLists of two |
| two NLBs (RDBMSs) of two VPCs may get one name: it is checked under the VPC's lock (NLBManager.go:427) | NamesUnique | Managers = {"NLB"}, two owners |
| registering or creating a cluster puts its node groups into rows that an unregistered cluster of the name left (ClusterManager.go:329-348 and 656-666, CommonManager.go:699-707) | RowsNeverReplaced without its second disjunct | resources with Managers = {"NODEGROUP"} |
| a resource may be registered under two names; deleting one leaves the other's row without resource (KeyPairManager.go:105) | RowsExistInCSP without `told` | resources with two names |
| a forced delete of a VM, by its caller or because the VM is not found (VMManager.go:2382), ignores that the row could not be deleted and answers true (2433-2439, 2452) | DeleteRemovesRow of VMManager | as in run vm |
| an address that is attached between UnassignVMDefaultPublicIP's list and its removal is deleted, although the list names the VM (VMPublicIPManager.go:184) | UserIPKept | vmpip with Drivers = {NHN}, two goroutines |
| AttachDisk of the mock driver that finds a disk half detached by TerminateVM leaves it attached without an owner (DiskHandler.go:290-291) | AlwaysListedByOwner | as in run mock |
| TerminateVM of the mock driver and a disk's call wait for each other (DiskHandler.go:180, VMHandler.go:347) | NoDeadlock of MockDriver | as in run mock |
| a cron expression that was taken out and put back is not scheduled again (scheduler.go:50) | ScheduleFollowsConfig | sw_results with FirstCron = hourly |
| a run that begins in the second of one before it, which was stopped, puts its RUNNING over the final result (runner.go:138) | FinalIsFinal | as in sw_results |
| the issue number filed during a run is overwritten by the run's next Save (server.go:472) | IssueStays | as in sw_results |
| the page may stop the container of Spider under a run that starts (server.go:295) | SpiderStaysForRun | as in sw_containers |

## 5. Proofs

All of them are about any sets that meet the assumptions of the module (finite or not), and every action
of it, not the instances of section 3. Each has one inductive invariant `IInv`, a lemma per call or step
that it is kept, and the theorem `Invariance`; the properties follow from it.

`SPLockProofs`: `TypeCorrect`, `MutualExclusionHolds`, `NoPanicHolds`, `CountsHold` (`CountIsReferences` and
`CountedIsInMap`), `NoLeakedEntryHolds`, `StatusShowsLiveEntriesHolds` and the refinement
`ImplementsRWLockTableHolds`.
Mutual exclusion is not inductive: two sessions exclude each other because they use one mutex,
and they use one mutex because a counted session's LockValue is the one in the map, which needs that
an entry is deleted only at count zero, which needs that the counter is the number of counted
sessions. The one exception is the window in which the last session has deleted the entry and still
holds its mutex; `Holding` ends before it, and no other session is counted then. `IInv` is the
conjunction of these facts with types, the owner of `rwMutex` in each stage, and what the mutexes
know of each session. `EntriesInv` adds that an entry without counted session belongs to the
session that has `rwMutex`; from it come the two properties of entries, and with mutual exclusion every step
is one of `RWLockTable` or leaves its grants alone.

`LockOrderProofs`: if no request names two security groups or two
key pairs (`SingleLists`), then `TypeCorrect` and `NoDeadlockHolds`. Every plan then takes its locks in
strictly growing order of `Rank` (VPC and VM, security group, key pair, the rest), which is
`PlansOrdered`. The inductive invariant says where each goroutine is in its plan and that a mutex
knows only sessions that asked for it, in the part their kind allows. From it, a goroutine waits for one
that waits for a lock of a higher rank, or for an announced writer of the same lock, which itself waits
for a reader that waits one rank higher (`Climb`, `Higher`). So a circle would contain five growing
ranks, and there are four.

`VPCManagerProofs`: `TypeCorrect`, `DeleteRemovesVPCRowHolds` and `VPCRowsNeverReplacedHolds`, for all
calls, all failures and restarts. What the invariant adds to the types is what a goroutine knows of its VPC's row
from the lock it holds: from the check that the name is free until the insert, and from the delete until
the answer, there is no row (`Knows`); the steps that rely on it, and all five steps that write a
VPC's row, are taken with the write lock of the name (`Holds`), which no two goroutines have
(`Exclusive`). `Fits` says which call and which results of earlier steps belong to each step.

The other properties of the VPC manager are false of its code without a hypothesis on how it is used. There are
three, each stronger than the one before it, each with a layer of the invariant that rests on the earlier ones:

| hypothesis | says | layer | theorems |
|---|---|---|---|
| `NoRegisterSubnet` | RegisterSubnet is not called | `SubnetsKnown` | `DeleteRemovesSubnetRowsHolds` |
| `Undisturbed` | and the database does not fail, the server does not stop | `RowsKnown`, `CloudKnown` | `SubnetRowsOwnedHolds`, `SubnetRowsNeverReplacedHolds`, `NothingLostHolds` |
| `OnlyByName` | and RegisterVPC, RemoveCSPSubnet, DeleteCSPVPC are not called, a delete that fails has deleted nothing, the cloud is not KT | `Existence` | `RowsExistInCSPHolds`, `ReadersFindResourceHolds`, `SuccessMeansCreatedHolds` |

`SubnetsKnown` is `Knows` for the rows of subnets, which every call but RegisterSubnet writes under the lock of the
VPC's name. RegisterSubnet has the lock of the subnet's name only, and can put a row behind a delete that is about to
answer. Database failures and restarts do not matter here: a delete whose statement fails does not answer with
success. `RowsKnown` adds the other direction, what must still be there: a row of a subnet is without its VPC's
only while a call with the VPC's lock is about to delete it, and a row that a call has read is still the VPC's.
A failing statement between the two deletes, or a restart, leaves such a row for good. `CloudKnown` says of each id in the
cloud that it is settled (in a row, or left there with an answer that says so) or pending with the one call that
made it. `Existence` is about the other half of the agreement, that what a row names is there. For it an id must be in
one row, or with one call (`AloneV`, `AloneS`); then only the driver's delete of the call's own VPC or subnet makes
anything go (`OnlyDeletes`), and a row can dangle only from there to the row's delete, under the lock. The
excluded calls break exactly this: RegisterVPC can give one VPC two names, the two deletes by CSP id leave the rows behind,
and so does a driver that deletes and then fails, or KT's delete of the subnets before a VPC's delete that is refused.
vpc_normal is an instance of `OnlyByName`. That ids of VPCs and of subnets are different (`VPCAssumption`) is a
convention of the model, in which both are opaque.

`VMManagerProofs`: `TypeCorrect`, `VMsAreKnownHolds`, `RowsHaveVMsHolds`, `ReadersFindVMHolds`. The same
idea (`Knows`, `Holds`, `Exclusive`), with what is needed about VMs: a VM has two rows, or a row and a call that
will record it, only if RegisterVM took it in doubt (`OneRow`, `Claim`, `InDoubt`), so that a delete that
removes its row leaves no other; and what a row or a call's `made` names is a VM that runs or is ending, or
told of (`UsedRuns`). Nothing is assumed of the ids that RegisterVM is given.

`VMPublicIPProofs`: `TypeCorrect`, and `UserIPIsKept`: if the driver's list names the VM of an address (NHN,
OpenStack) or its RemoveDefaultPublicIP deletes nothing (AWS, GCP and those like them), calls that come one at
a time and do not fail delete no user's address, because what a driver that deletes then finds is what
AssignVMDefaultPublicIP made (`Spared`). Each hypothesis is needed: with a driver like Azure's (run vmpip), a second
goroutine, or an error of the list, TLC shows the address deleted.

`SpiderWatchProofs`: `TypeCorrect`, `OneRunAtATimeHolds`, `DoneIsCompleteHolds`, `OnlyConfiguredRunsHolds`
and `FinalResultStaysHolds`, with every failure and timeout. `Place` says of one run what its step tells of its
result, its goroutines and its context, and `Tested` how many entries a goroutine has made at each of its
steps; a run can only be cancelled by Stop, which says so before the status is chosen (`Stopping`), so that
DONE means tested. Of an id that one run alone has, there is no final result in the store, nor in the hands of
a user, before that run's goroutine is over, and all there ever are are alike (`Finals`), which is why a late
request writes the same result again.

`MockDriverProofs`: `TypeCorrect`, `ListedByOwnerHolds`, `StuckOnlyByTerminateVMHolds`. `MutexFits` says what
each mutex knows of a goroutine at each of its steps. From it alone a wait is followed from call to call: who
waits for `vmMapLock` waits for one that holds it, which goes on unless it waits for `diskMapLock` itself,
and only TerminateVM does; so every deadlock has a TerminateVM and a call on a disk. For
`ListedByOwner` the invariant says of each disk which VMs' lists may name it while a call is changing it
(`Cleared`, `Clearing`): none but that of its owner or of a VM that is about to be removed. That TerminateVM
clears the owner of a disk that nobody attaches is `TermFits`; it is what fails of a disk in `misused`.

`ResourceManagersProofs`: `TypeCorrect`, `RowsNeverReplacedHolds`, `InsertedUnderOwnerHolds` and
`NothingLostHolds`. The steps of a call are data in this module, so the argument is about the order of
steps in a sequence. `Ordered` and `Left` say what the functions of all thirteen managers have in common:
locks before checks, checks before what the driver makes, that before the insert. They are shown of every
function once (`OperationsFit`), and of the rest of it after each step (`TailFits`). `RowsInv` then says of a
call what it must hold and know for the steps it has left; two calls meet only where one has checked a name
and not yet inserted (`FreeFits`), and there they need the same lock (`GuardsExclude`); the rows that a cluster
or a zone comes with are written under its lock, by a call that has inserted its row. `KeptInv` adds what
`NothingLost` needs: what a careful call has read and will take from the table is still there, after the driver
made something only its insert, or its undoing, is left, and whatever is in the cloud, was not given up and has
no row is what such a call holds (`Held`).

Only model-checked are liveness (`LockReturns`, `CallsReturn`, `RunsEnd`), which under fairness is out of the
proof system's reach; `RowsExistInCSP` of `ResourceManagers`, whose exemptions (`told`) are too many for a
theorem to say much; and `RollbackRemovesSubnetRows`, which holds only without ID management. The
two properties of the runs that end in a violation are false.

## 6. Not modelled, and the plan

In this order:

1. VMs of MyImages: the disks that StartVM registers (setNameId, RegisterDisk) and DeleteVM removes.
2. `VPCManager`, `ResourceManagers` and `LockOrder` composed: a VPC's delete against the creates of what
   is in it. InsertedUnderOwner is the part of it that holds; that a deleted VPC's security groups keep
   their rows is known (the hazard at CommonManager.go:389).
3. CommonManager's Destroy with its retries and its report, and ListAll*.
4. The IID manager's names and the id conversions as pure functions, with a reference definition.
5. info-store's backup scheduler; the referential checks of cloud-info-manager.

Left out for good: the drivers (nearly three quarters of the Go lines: adapters of SDKs; their outcomes are the
environment of the models, and generated clients inside them are third-party code), the REST handlers and
the admin web (decoding and encoding), generated API documentation, S3 (a pass-through), queries without
state (prices, quotas, images, specifications, regions, monitoring), tools and clients.
