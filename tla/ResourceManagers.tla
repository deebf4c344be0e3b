--------------------------- MODULE ResourceManagers ---------------------------
(***************************************************************************)
(* The managers of api-runtime/common-runtime that keep one table of rows: *)
(* key pairs, MyImages, NICs, public IPs, disks, security groups, NLBs,    *)
(* RDBMSs, clusters and their node groups, DNS zones and their records,    *)
(* and file systems.  A behaviour is that of one of them, mgr.             *)
(*                                                                         *)
(* Their functions are put together from few steps, in different orders    *)
(* and with different guards, and that is where they differ: a function is *)
(* written as the sequence of its steps, and a step (a lock, a call to the *)
(* meta DB or to the driver) is an action.  Validation, permission mode    *)
(* and what only fills in the answer, after the last step that matters to  *)
(* others, are left out; so are the rows of other managers that a call     *)
(* reads before it does anything: if one is missing, the call ends as if   *)
(* the meta DB had failed.  The locks of other managers that some calls    *)
(* take are the subject of LockOrder.tla.                                  *)
(***************************************************************************)
EXTENDS Naturals, FiniteSets, Sequences

CONSTANTS
  Procs,     \* goroutines serving REST calls
  Managers,  \* the managers of this instance
  Owners,    \* VPC names; cluster or zone names for node groups and records
  Names,     \* names of the resources
  Ids,       \* ids of the resources in the CSP
  Foreign,   \* those that exist from the start, not made by Spider
  Conn,      \* owner of what has none but the connection
  None,
  DBFails,   \* may a meta DB operation fail?
  CSPFaults  \* subset of {"refused", "error", "lost"}, see VPCManager.tla

\* The managers that this module models.
ManagerNames ==
  {"KEY", "MYIMAGE", "NIC", "PUBLICIP", "DISK", "SG", "NLB", "RDBMS", "CLUSTER", "NODEGROUP", "DNSZONE",
   "DNSRECORD", "FILESYSTEM"}

ASSUME ManagersAssumption ==
  /\ Managers \subseteq ManagerNames
  /\ Conn \notin Owners
  /\ None \notin Ids \cup Owners \cup {Conn} \cup ((Owners \cup Names) \X {"R", "W"})
  /\ Foreign \subseteq Ids
  /\ DBFails \in BOOLEAN
  /\ CSPFaults \subseteq {"refused", "error", "lost"}

VARIABLES
  mgr,         \* the manager
  row,         \* its table: <<owner, name>> -> id, or None
  owners,      \* the owners that have a row
  csp,         \* where in the CSP a resource is: an owner, Conn, or None
  released,    \* history: ids in the CSP that the driver was asked to delete, or
               \* that the user put outside Spider
  told,        \* history: ids whose row outlives them by the doing of a call that
               \* failed or was forced, and ids that were registered twice
  ownerGrant,  \* vpcSPLock; clusterSPLock or dnsZoneSPLock
  grant,       \* the manager's own lock table
  job          \* the call a goroutine serves

table == <<row, owners>>
cloud == <<csp, released>>
locks == <<ownerGrant, grant>>
vars == <<mgr, table, cloud, told, locks, job>>

OwnerLock == INSTANCE RWLockTable WITH Keys <- Owners, grant <- ownerGrant
NameLock == INSTANCE RWLockTable WITH Keys <- Names

Homes == Owners \cup {Conn}

-----------------------------------------------------------------------------
(* The functions, as the sequences of their steps.                         *)

Op(kind, steps) == [kind |-> kind, steps |-> steps]

\* Faulty: the name is checked before its lock is taken.
FaultyCreateKey == Op("create", <<"free", "lock", "make", "insertOrUndo">>)

RegisterKey   == Op("register", <<"lock", "free", "find", "insert">>)
CreateKey     == Op("create", <<"lock", "free", "make", "insertOrUndo">>)
ListKey       == Op("list", <<"rows", "each">>)
GetKey        == Op("read", <<"rlock", "row", "call">>)
DeleteKey     == Op("delete", <<"lock", "row", "drop", "deleteRows">>)
UnregisterKey == Op("unregister", <<"lock", "row", "deleteRows">>)

RegisterMyImage   == Op("register", <<"lock", "free", "find", "insert">>)
SnapshotVM        == Op("create", <<"lock", "free", "make", "insertOrUndo">>)
ListMyImage       == Op("list", <<"rows", "each">>)
GetMyImage        == Op("read", <<"rlock", "row", "call">>)
DeleteMyImage     == Op("delete", <<"lock", "row", "drop", "deleteRows">>)
UnregisterMyImage == Op("unregister", <<"lock", "row", "deleteRows">>)

RegisterNIC == Op("register", <<"lock", "free", "find", "insert">>)
CreateNIC   == Op("create", <<"lock", "free", "make", "insertOrUndo">>)
ListNIC     == Op("list", <<"rows", "eachOrStub">>)
GetNIC      == Op("read", <<"rlock", "row", "call">>)
DeleteNIC   == Op("delete", <<"lock", "row", "drop", "deleteRowsOrError">>)
AttachNIC   == Op("change", <<"lock", "row", "call">>)
DetachNIC   == Op("change", <<"lock", "row", "call">>)

RegisterPublicIP     == Op("register", <<"lock", "free", "find", "insert">>)
CreatePublicIP       == Op("create", <<"lock", "freeOrSame", "make", "insertOrUndo">>)
ListPublicIP         == Op("list", <<"rows", "eachOrStub">>)
GetPublicIP          == Op("read", <<"rlock", "row", "call">>)
DeletePublicIP       == Op("delete", <<"lock", "row", "drop", "deleteRowsOrError">>)
AssociatePublicIP    == Op("change", <<"lock", "row", "call">>)
DisassociatePublicIP == Op("change", <<"lock", "row", "call">>)

RegisterDisk   == Op("register", <<"lock", "free", "find", "insert">>)
CreateDisk     == Op("create", <<"lock", "free", "make", "insertOrUndo">>)
ListDisk       == Op("list", <<"rows", "each">>)
GetDisk        == Op("read", <<"rlock", "row", "call">>)
ChangeDiskSize == Op("change", <<"lock", "row", "call">>)
AttachDisk     == Op("change", <<"lock", "row", "call">>)
DetachDisk     == Op("change", <<"lock", "row", "call">>)
DeleteDisk     == Op("delete", <<"lock", "row", "drop", "deleteRows">>)
UnregisterDisk == Op("unregister", <<"lock", "row", "deleteRows">>)

\* Faulty: the VPC's row is read before the VPC is locked.
FaultyCreateSecurity == Op("create", <<"owner", "ownerLock", "lock", "free", "make", "insertOrUndo">>)

\* A security group may be registered without a VPC.
RegisterSecurity   == Op("register", <<"ownerLock", "lock", "owner", "free", "find", "insert">>)
CreateSecurity     == Op("create", <<"ownerLock", "owner", "lock", "free", "make", "insertOrUndo">>)
ListSecurity       == Op("list", <<"rows", "each">>)
GetSecurity        == Op("read", <<"rlock", "row", "call">>)
AddRules           == Op("change", <<"lock", "row", "call">>)
RemoveRules        == Op("change", <<"lock", "row", "call">>)
DeleteSecurity     == Op("delete", <<"lock", "row", "drop", "deleteRow">>)
UnregisterSecurity == Op("unregister", <<"lock", "row", "deleteRow">>)

RegisterNLB          == Op("register", <<"ownerRLock", "lock", "owner", "free", "find", "insert">>)
CreateNLB            == Op("create", <<"ownerRLock", "owner", "lock", "freeInOwner", "make", "insertOrUndo">>)
ListNLB              == Op("list", <<"rows", "each">>)
GetNLB               == Op("read", <<"rlock", "row", "call">>)
AddNLBVMs            == Op("change", <<"lock", "row", "call">>)
RemoveNLBVMs         == Op("change", <<"lock", "row", "call">>)
ChangeListener       == Op("change", <<"lock", "row", "call">>)
ChangeVMGroup        == Op("change", <<"lock", "row", "call">>)
ChangeHealthChecker  == Op("change", <<"lock", "row", "call">>)
GetVMGroupHealthInfo == Op("change", <<"lock", "row", "call">>)
DeleteNLB            == Op("delete", <<"lock", "row", "drop", "deleteRows">>)
UnregisterNLB        == Op("unregister", <<"lock", "row", "deleteRow">>)

RegisterRDBMS   == Op("register", <<"ownerRLock", "lock", "owner", "free", "find", "insert">>)
CreateRDBMS     == Op("create", <<"ownerRLock", "owner", "lock", "freeInOwner", "make", "insertOrUndo">>)
ListRDBMS       == Op("list", <<"rows", "each">>)
GetRDBMS        == Op("read", <<"rlock", "row", "call">>)
DeleteRDBMS     == Op("delete", <<"lock", "row", "drop", "deleteRows">>)
UnregisterRDBMS == Op("unregister", <<"lock", "row", "deleteRow">>)

\* The rows of a cluster's node groups, or of a zone's records, are the "others".
RegisterCluster   == Op("register", <<"ownerRLock", "lock", "owner", "free", "find", "insert", "insertOthers">>)
CreateCluster     == Op("create", <<"ownerRLock", "owner", "lock", "free", "make", "await", "insertOrUndo",
                                    "insertOthersOrRollback">>)
ListCluster       == Op("list", <<"rows", "each">>)
GetCluster        == Op("read", <<"rlock", "row", "call">>)
UpgradeCluster    == Op("change", <<"lock", "row", "call">>)
DeleteCluster     == Op("delete", <<"lock", "row", "drop", "gone", "deleteOthers", "deleteRows">>)
UnregisterCluster == Op("unregister", <<"lock", "row", "deleteRow">>)

AddNodeGroup             == Op("create", <<"ownerLock", "owner", "freeInOwner", "make", "await",
                                           "insertOrUndo">>)
SetNodeGroupAutoScaling  == Op("change", <<"ownerLock", "owner", "rowInOwner", "call">>)
ChangeNodeGroupScaling   == Op("change", <<"ownerLock", "owner", "rowInOwner", "call">>)
RemoveNodeGroup          == Op("delete", <<"ownerLock", "owner", "rowInOwner", "drop", "deleteRow">>)
RemoveCSPNodeGroup       == Op("csp", <<"dropById">>)

\* What the calls on clusters do to the rows of their node groups.  Those that
\* RegisterCluster writes have generated names, those of CreateCluster the
\* request's; neither asks whether the name has a row.
RegisterWithGroups     == Op("owner", <<"ownerLock", "ownerFree", "findOwner", "insertOwner", "insertParts">>)
CreateWithGroups       == Op("owner", <<"ownerLock", "ownerFree", "makeOwner", "await", "insertOwnerOrUndo",
                                        "insertPartsOrRollback">>)
DeleteWithGroups       == Op("owner", <<"ownerLock", "owner", "dropOwner", "gone", "deleteRowsOfOwner",
                                        "deleteOwner">>)
UnregisterWithoutGroups == Op("owner", <<"ownerLock", "owner", "releaseOwner">>)

RegisterDNSZone == Op("register", <<"lock", "free", "find", "insert", "insertOthers">>)
CreateDNSZone   == Op("create", <<"lock", "free", "make", "insertOrUndo">>)
ListDNSZone     == Op("list", <<"rows", "eachUnlocked">>)
GetDNSZone      == Op("read", <<"rlock", "row", "call">>)
DeleteDNSZone   == Op("delete", <<"lock", "row", "drop", "deleteRows", "deleteOthers">>)

AddDNSRecord         == Op("create", <<"ownerLock", "freeInOwner", "owner", "make", "await", "insertOrUndo">>)
ChangeDNSRecord      == Op("change", <<"ownerLock", "rowInOwner", "owner", "replace", "deleteRow", "insert">>)
RemoveDNSRecord      == Op("delete", <<"ownerLock", "rowInOwner", "owner", "drop", "deleteRow">>)
RegisterWithRecords  == Op("owner", <<"ownerLock", "ownerFree", "findOwner", "insertOwner", "insertParts">>)
DeleteWithRecords    == Op("owner", <<"ownerLock", "owner", "dropOwner", "deleteOwner", "deleteRowsOfOwner">>)

\* A file system is read, changed and deleted without a lock.
CreateFileSystem   == Op("create", <<"ownerRLock", "owner", "lock", "free", "make", "insertOrUndo">>)
ListFileSystem     == Op("list", <<"rows", "eachUnlocked">>)
GetFileSystem      == Op("read", <<"row", "call">>)
AddAccessSubnet    == Op("change", <<"row", "call">>)
RemoveAccessSubnet == Op("change", <<"row", "call">>)
ListAccessSubnet   == Op("read", <<"row", "call">>)
DeleteFileSystem   == Op("delete", <<"row", "dropIgnoringFalse", "deleteRowsOrError">>)

\* What VPCManager.tla, or CreateDNSZone, does to the owner's row.
CreateOwner == Op("owner", <<"ownerLock", "ownerFree", "insertOwner">>)
DeleteOwner == Op("owner", <<"ownerLock", "owner", "deleteOwner">>)

Operations(m) ==
  CASE m = "KEY"      -> {RegisterKey, CreateKey, ListKey, GetKey, DeleteKey, UnregisterKey}
    [] m = "MYIMAGE"  -> {RegisterMyImage, SnapshotVM, ListMyImage, GetMyImage, DeleteMyImage, UnregisterMyImage}
    [] m = "NIC"      -> {RegisterNIC, CreateNIC, ListNIC, GetNIC, DeleteNIC, AttachNIC, DetachNIC}
    [] m = "PUBLICIP" -> {RegisterPublicIP, CreatePublicIP, ListPublicIP, GetPublicIP, DeletePublicIP,
                          AssociatePublicIP, DisassociatePublicIP}
    [] m = "DISK"     -> {RegisterDisk, CreateDisk, ListDisk, GetDisk, ChangeDiskSize, AttachDisk,
                          DetachDisk, DeleteDisk, UnregisterDisk}
    [] m = "SG"       -> {RegisterSecurity, CreateSecurity, ListSecurity, GetSecurity, AddRules,
                          RemoveRules, DeleteSecurity, UnregisterSecurity, CreateOwner, DeleteOwner}
    [] m = "NLB"      -> {RegisterNLB, CreateNLB, ListNLB, GetNLB, AddNLBVMs, RemoveNLBVMs, ChangeListener,
                          ChangeVMGroup, ChangeHealthChecker, GetVMGroupHealthInfo, DeleteNLB,
                          UnregisterNLB, CreateOwner, DeleteOwner}
    [] m = "RDBMS"    -> {RegisterRDBMS, CreateRDBMS, ListRDBMS, GetRDBMS, DeleteRDBMS, UnregisterRDBMS,
                          CreateOwner, DeleteOwner}
    [] m = "CLUSTER"  -> {RegisterCluster, CreateCluster, ListCluster, GetCluster, UpgradeCluster,
                          DeleteCluster, UnregisterCluster, CreateOwner, DeleteOwner}
    [] m = "NODEGROUP" -> {AddNodeGroup, SetNodeGroupAutoScaling, ChangeNodeGroupScaling, RemoveNodeGroup,
                           RemoveCSPNodeGroup, RegisterWithGroups, CreateWithGroups, DeleteWithGroups,
                           UnregisterWithoutGroups}
    [] m = "DNSZONE"  -> {RegisterDNSZone, CreateDNSZone, ListDNSZone, GetDNSZone, DeleteDNSZone}
    [] m = "DNSRECORD" -> {AddDNSRecord, ChangeDNSRecord, RemoveDNSRecord, CreateOwner, RegisterWithRecords,
                           DeleteWithRecords}
    [] m = "FILESYSTEM" -> {CreateFileSystem, ListFileSystem, GetFileSystem, AddAccessSubnet,
                            RemoveAccessSubnet, ListAccessSubnet, DeleteFileSystem, CreateOwner, DeleteOwner}

-----------------------------------------------------------------------------
\* kind and steps of the call, with what is left of the steps; its arguments;
\* row: the id read from the table; made: the id the driver returned;
\* todo: rows still to list, or to insert; resp: the answer ("kept": that a forced
\* delete gives although it failed to delete the row).
NoJob == [kind |-> "none", steps |-> <<>>, owner |-> None, name |-> None, id |-> None,
          force |-> FALSE, row |-> None, made |-> None, todo |-> {}, resp |-> "ok"]

Init ==
  /\ mgr \in Managers
  /\ row = [h \in Homes \X Names |-> None]
  /\ owners = Owners
  /\ csp \in [Ids -> {None, Conn}] /\ Foreign = {id \in Ids : csp[id] = Conn}
  /\ released = {} /\ told = {}
  /\ ownerGrant = [p \in Procs |-> None]
  /\ grant = [p \in Procs |-> None]
  /\ job = [p \in Procs |-> NoJob]

At(p, step) == job[p].steps # <<>> /\ Head(job[p].steps) = step

Exists(id) == csp[id] # None

\* What a call was deleting or making that failed, or that kept the row.
About(j) ==
  CASE j.kind = "csp" -> {j.id}
    [] j.resp \notin {"error", "kept"} -> {}
    [] j.kind = "owner" -> {row[<<j.owner, n>>] : n \in Names}
    [] j.kind \in {"create", "change", "delete"} -> {j.row, j.made}
    [] OTHER -> {}

\* What a call is about to insert.
InHand(j) == {j.made} \cup (IF j.kind = "owner" THEN {t[3] : t \in j.todo} ELSE {})

\* The answer is known; the deferred unlocks are still to run.  What is gone is
\* told of; that is forgotten with the row it is about.
Answered == [NoJob EXCEPT !.kind = "answered"]
End(p, j) ==
  /\ told' = {id \in told \cup {a \in About(j) \ {None} : ~Exists(a)'} :
               (\E h \in DOMAIN row : row'[h] = id) \/ (\E q \in Procs \ {p} : id \in InHand(job[q]))}
  /\ job' = [job EXCEPT ![p] = Answered]

\* The call goes on with its next step, or ends with an answer.
GoOnWith(p, j) ==
  IF Len(j.steps) = 1 THEN End(p, j)
  ELSE job' = [job EXCEPT ![p] = [j EXCEPT !.steps = Tail(@)]] /\ UNCHANGED told
GoOn(p) == GoOnWith(p, job[p])
Divert(p, steps) == job' = [job EXCEPT ![p].steps = steps] /\ UNCHANGED told
Answer(p, r) == End(p, [job[p] EXCEPT !.resp = r])

\* A step of the meta DB, or of the driver, fails, and the call returns the error.
DBError(p) == DBFails /\ UNCHANGED <<table, cloud>> /\ Answer(p, "error")
CSPError(p) == CSPFaults # {} /\ UNCHANGED <<table, cloud>> /\ Answer(p, "error")

\* Ids the CSP may give out: not in use, and not remembered by a row or a call.
Fresh(id) ==
  /\ ~Exists(id) /\ id \notin told
  /\ \A h \in DOMAIN row : row[h] # id
  /\ \A q \in Procs : id \notin {job[q].id, job[q].row, job[q].made} /\ \A t \in job[q].todo : t[3] # id

Outcomes(id) == IF Exists(id) THEN {"ok"} \cup CSPFaults ELSE {"notfound"}
Removes(out) == out \in {"ok", "lost"}

\* Registering S, a call finds ids that have a row or that another call is about to insert.
Twice(p, S) ==
  {id \in S : (\E h \in DOMAIN row : row[h] = id) \/ (\E q \in Procs \ {p} : id \in InHand(job[q]))}
Found(p, j, S) ==
  /\ job' = [job EXCEPT ![p] = [j EXCEPT !.steps = Tail(@)]]
  /\ told' = told \cup Twice(p, S)

\* The driver deletes id; asked: it stays only although Spider wanted it gone.
DriverDeletes(id, out, asked) ==
  /\ csp' = IF Removes(out) THEN [csp EXCEPT ![id] = None] ELSE csp
  /\ released' = IF Removes(out) THEN released \ {id}
                 ELSE IF asked /\ Exists(id) THEN released \cup {id} ELSE released

-----------------------------------------------------------------------------
(* Locks, and reads of the tables.                                         *)

TakeLock(p) ==
  /\ At(p, "lock") \/ At(p, "rlock")
  /\ NameLock!Acquire(p, <<job[p].name, IF At(p, "lock") THEN "W" ELSE "R">>)
  /\ GoOn(p)
  /\ UNCHANGED <<mgr, table, cloud, ownerGrant>>

TakeOwnerLock(p) ==
  /\ At(p, "ownerLock") \/ At(p, "ownerRLock")
  /\ IF job[p].owner = Conn THEN UNCHANGED ownerGrant
     ELSE OwnerLock!Acquire(p, <<job[p].owner, IF At(p, "ownerLock") THEN "W" ELSE "R">>)
  /\ GoOn(p)
  /\ UNCHANGED <<mgr, table, cloud, grant>>

\* A check that must hold for the call to go on.
Check(p, step, condition) ==
  /\ At(p, step)
  /\ UNCHANGED <<table, cloud>>
  /\ \/ condition /\ GoOn(p)
     \/ ~condition /\ Answer(p, "error")
     \/ DBError(p)

HomesOf(name) == {o \in Homes : row[<<o, name>>] # None}

\* The owner's row exists.
CheckOwner(p) == Check(p, "owner", job[p].owner \in owners \cup {Conn})

\* The owner's name is free, when the owner is made or registered.
CheckOwnerFree(p) == Check(p, "ownerFree", job[p].owner \notin owners)

\* The name is free in the connection; in the owner.
CheckFree(p) == Check(p, "free", HomesOf(job[p].name) = {})
CheckFreeInOwner(p) == Check(p, "freeInOwner", row[<<job[p].owner, job[p].name>>] = None)

\* A public IP that exists under the name is answered as if just made.
CheckFreeOrSame(p) ==
  /\ At(p, "freeOrSame")
  /\ UNCHANGED <<table, cloud>>
  /\ \/ HomesOf(job[p].name) = {} /\ GoOn(p)
     \/ /\ \E o \in HomesOf(job[p].name) : Exists(row[<<o, job[p].name>>])
        /\ Answer(p, "same")
     \/ HomesOf(job[p].name) # {} /\ Answer(p, "error")
     \/ DBError(p)

\* Faulty: that there is no such row goes unnoticed.
FaultyReadRow(p) ==
  /\ At(p, "row") \/ At(p, "rowInOwner")
  /\ UNCHANGED <<table, cloud>>
  /\ LET homes == {o \in HomesOf(job[p].name) : At(p, "rowInOwner") => o = job[p].owner}
     IN \/ \E o \in homes : GoOnWith(p, [job[p] EXCEPT !.owner = o, !.row = row[<<o, job[p].name>>]])
        \/ homes = {} /\ GoOn(p)
        \/ DBError(p)

\* The first row with the name, or the owner's, is read.
ReadRow(p) ==
  /\ At(p, "row") \/ At(p, "rowInOwner")
  /\ UNCHANGED <<table, cloud>>
  /\ LET homes == {o \in HomesOf(job[p].name) : At(p, "rowInOwner") => o = job[p].owner}
     IN \/ \E o \in homes : GoOnWith(p, [job[p] EXCEPT !.owner = o, !.row = row[<<o, job[p].name>>]])
        \/ homes = {} /\ Answer(p, "error")
        \/ DBError(p)

-----------------------------------------------------------------------------
(* Calls of the driver.                                                    *)

\* The CSP makes the resource, or fails, as it does when the quota is used up.
Make(p) ==
  /\ At(p, "make")
  /\ \/ \E id \in Ids :
          /\ Fresh(id)
          /\ csp' = [csp EXCEPT ![id] = job[p].owner]
          /\ UNCHANGED <<table, released>>
          /\ GoOnWith(p, [job[p] EXCEPT !.made = id])
     \/ (\A id \in Ids : ~Fresh(id)) /\ UNCHANGED <<table, cloud>> /\ Answer(p, "error")
     \/ CSPError(p)

\* What the driver returned is not yet what Spider needs, and stays so.
Await(p) ==
  /\ At(p, "await")
  /\ UNCHANGED <<table, cloud>>
  /\ GoOn(p) \/ CSPError(p)

\* The resource to register is looked up in the CSP.
Find(p) ==
  /\ At(p, "find")
  /\ UNCHANGED <<table, cloud>>
  /\ \/ Exists(job[p].id) /\ Found(p, [job[p] EXCEPT !.made = job[p].id], {job[p].id})
     \/ ~Exists(job[p].id) /\ Answer(p, "error")
     \/ CSPError(p)

\* A call that reads or changes the resource, but neither makes nor deletes it.
Call(p) ==
  /\ At(p, "call")
  /\ UNCHANGED <<table, cloud>>
  /\ \/ Exists(job[p].row) /\ GoOn(p)
     \/ ~Exists(job[p].row) /\ Answer(p, "error")
     \/ CSPError(p)

\* The driver replaces a record by one with another id, or keeps the id.
Replace(p) ==
  /\ At(p, "replace")
  /\ \/ \E id \in Ids :
          /\ Exists(job[p].row) /\ Fresh(id)
          /\ csp' = [csp EXCEPT ![job[p].row] = None, ![id] = job[p].owner]
          /\ released' = released \ {job[p].row}
          /\ UNCHANGED table
          /\ GoOnWith(p, [job[p] EXCEPT !.made = id])
     \/ Exists(job[p].row) /\ UNCHANGED <<table, cloud>> /\ Answer(p, "ok")
     \/ ~Exists(job[p].row) /\ UNCHANGED <<table, cloud>> /\ Answer(p, "error")
     \/ CSPError(p)

\* Faulty: a driver that answers (false, nil) is believed to have deleted.
FaultyDrop(p) ==
  /\ At(p, "drop") \/ At(p, "dropIgnoringFalse")
  /\ UNCHANGED table
  /\ \E out \in Outcomes(job[p].row) :
       /\ DriverDeletes(job[p].row, out, out = "error" \/ job[p].force)
       /\ IF out \in {"ok", "notfound", "refused"} \/ job[p].force
          THEN GoOnWith(p, [job[p] EXCEPT !.force = @ \/ out = "notfound",
                                          !.resp = IF out = "ok" THEN "ok" ELSE "false"])
          ELSE Answer(p, "error")

\* The rule of the deletes: an error of the driver ends the call unless the
\* delete is forced, "not found" forces it, and an unforced false ends it too;
\* only DeleteFileSystem goes on after a false.
Drop(p) ==
  /\ At(p, "drop") \/ At(p, "dropIgnoringFalse")
  /\ UNCHANGED table
  /\ \E out \in Outcomes(job[p].row) :
       /\ DriverDeletes(job[p].row, out, out = "error" \/ job[p].force)
       /\ IF \/ out \in {"ok", "notfound"} \/ job[p].force
             \/ out = "refused" /\ At(p, "dropIgnoringFalse")
          THEN GoOnWith(p, [job[p] EXCEPT !.force = @ \/ (out = "notfound" /\ At(p, "drop")),
                                          !.resp = IF out = "ok" THEN "ok" ELSE "false"])
          ELSE Answer(p, IF out = "refused" THEN "false" ELSE "error")

\* RemoveCSPNodeGroup: by its id in the CSP, without lock and rows.
DropById(p) ==
  /\ At(p, "dropById")
  /\ UNCHANGED table
  /\ \E out \in Outcomes(job[p].id) :
       /\ DriverDeletes(job[p].id, out, out = "error")
       /\ Answer(p, out)

\* A cluster or zone comes with some of S in it, each under a name of its own;
\* what was in the one that had the owner's name before is somewhere else.
PartsOf(o, S) ==
  {given \in SUBSET ({o} \X Names \X S) : \A t, u \in given : t[2] = u[2] \/ t[3] = u[3] => t = u}
Elsewhere(o) == [id \in Ids |-> IF csp[id] = o THEN Conn ELSE csp[id]]

\* RegisterCluster and RegisterDNSZone look up one that is in the CSP.
FindOwner(p) ==
  /\ At(p, "findOwner")
  /\ UNCHANGED <<table, cloud>>
  /\ \/ \E given \in PartsOf(job[p].owner, {id \in Ids : csp[id] \in {Conn, job[p].owner}}) :
          Found(p, [job[p] EXCEPT !.todo = given], {t[3] : t \in given})
     \/ CSPError(p)

\* CreateCluster makes one, with its node groups.
MakeOwner(p) ==
  /\ At(p, "makeOwner")
  /\ UNCHANGED <<table, released>>
  /\ \/ \E given \in PartsOf(job[p].owner, {id \in Ids : Fresh(id)}) :
          /\ csp' = [id \in Ids |-> IF \E t \in given : t[3] = id THEN job[p].owner ELSE Elsewhere(job[p].owner)[id]]
          /\ GoOnWith(p, [job[p] EXCEPT !.todo = given])
     \/ CSPError(p)

\* The driver deletes the cluster or the zone with all that is in it.  It may be
\* gone already if nothing is.
InOwner(o) == {id \in Ids : csp[id] = o}
OwnerOutcomes(o) == {"ok"} \cup CSPFaults \cup (IF InOwner(o) = {} THEN {"notfound"} ELSE {})
OwnerDeleted(o, out, asked) ==
  /\ csp' = IF Removes(out) THEN [id \in Ids |-> IF csp[id] = o THEN None ELSE csp[id]] ELSE csp
  /\ released' = IF Removes(out) THEN released \ InOwner(o)
                 ELSE IF asked THEN released \cup InOwner(o) ELSE released

\* DeleteCluster and DeleteDNSZone, by the rule of the deletes.
DropOwner(p) ==
  /\ At(p, "dropOwner")
  /\ UNCHANGED table
  /\ \E out \in OwnerOutcomes(job[p].owner) :
       /\ OwnerDeleted(job[p].owner, out, out = "error" \/ job[p].force)
       /\ IF out \in {"ok", "notfound"} \/ job[p].force
          THEN GoOnWith(p, [job[p] EXCEPT !.force = @ \/ out = "notfound",
                                          !.resp = IF out = "ok" THEN "ok" ELSE "false"])
          ELSE Answer(p, IF out = "refused" THEN "false" ELSE "error")

\* CreateCluster takes back the cluster; see Undo and Rollback.
UndoOwner(p) ==
  /\ At(p, "undoOwner")
  /\ UNCHANGED table
  /\ \E out \in OwnerOutcomes(job[p].owner) \ {"refused", "notfound"} :
       /\ OwnerDeleted(job[p].owner, out, TRUE)
       /\ IF out = "ok" THEN GoOn(p) ELSE Answer(p, "error")

\* DeleteCluster waits until the cluster is gone; only a forced one goes on
\* after an error or ten minutes.
Gone(p) ==
  /\ At(p, "gone")
  /\ UNCHANGED <<table, cloud>>
  /\ \/ GoOn(p)
     \/ ~job[p].force /\ CSPError(p)

\* A create whose insert failed deletes the resource again and returns the
\* error.  (A driver that refuses is not modelled: what was just made is unused.)
Undo(p) ==
  /\ At(p, "undo")
  /\ UNCHANGED table
  /\ \E out \in Outcomes(job[p].made) \ {"refused"} : DriverDeletes(job[p].made, out, TRUE)
  /\ Answer(p, "error")

\* CreateCluster goes on from here to the rows, and returns (nil, nil).
Rollback(p) ==
  /\ At(p, "rollback")
  /\ UNCHANGED table
  /\ \E out \in Outcomes(job[p].made) \ {"refused"} :
       /\ DriverDeletes(job[p].made, out, TRUE)
       /\ IF out = "ok" THEN GoOn(p) ELSE Answer(p, "error")

-----------------------------------------------------------------------------
(* Writes of the meta DB.  infostore.Insert is an upsert.                  *)

Insert(p) ==
  /\ At(p, "insert")
  /\ \/ /\ row' = [row EXCEPT ![<<job[p].owner, job[p].name>>] = job[p].made]
        /\ UNCHANGED <<owners, cloud>>
        /\ GoOnWith(p, [job[p] EXCEPT !.row = job[p].made])
     \/ DBError(p)

InsertOrUndo(p) ==
  /\ At(p, "insertOrUndo")
  /\ UNCHANGED <<owners, cloud>>
  /\ \/ /\ row' = [row EXCEPT ![<<job[p].owner, job[p].name>>] = job[p].made]
        /\ GoOn(p)
     \/ DBFails /\ Divert(p, <<"undo">>) /\ UNCHANGED row

\* The rows of the new cluster's node groups.
InsertOthersOrRollback(p) ==
  /\ At(p, "insertOthersOrRollback")
  /\ UNCHANGED <<table, cloud>>
  /\ GoOn(p) \/ (DBFails /\ Divert(p, <<"rollback", "deleteRowsOrError", "deleteOthers">>))

\* RegisterCluster and RegisterDNSZone leave what they wrote.
InsertOthers(p) ==
  /\ At(p, "insertOthers")
  /\ UNCHANGED <<table, cloud>>
  /\ GoOn(p) \/ (DBFails /\ Answer(p, "error"))

\* The same rows, in the table of the node groups or records: one by one, and
\* without a look at what is there.
InsertParts(p) ==
  /\ At(p, "insertParts") \/ At(p, "insertPartsOrRollback")
  /\ UNCHANGED <<owners, cloud>>
  /\ \/ job[p].todo = {} /\ UNCHANGED row /\ GoOn(p)
     \/ \E t \in job[p].todo :
          /\ row' = [row EXCEPT ![<<t[1], t[2]>>] = t[3]]
          /\ job' = [job EXCEPT ![p].todo = @ \ {t}]
          /\ UNCHANGED told
     \/ /\ job[p].todo # {} /\ DBFails /\ UNCHANGED row
        /\ IF At(p, "insertParts") THEN Answer(p, "error")
           ELSE Divert(p, <<"undoOwner", "deleteOwner", "deleteRowsOfOwner">>)

\* What an unregister takes out of the table stays in the CSP on purpose.
Release(p) ==
  /\ UNCHANGED csp
  /\ released' = IF job[p].kind = "unregister" /\ Exists(job[p].row)
                 THEN released \cup {job[p].row} ELSE released

\* Faulty: as if every row were one without an owner.
FaultyDeletes(p, h) == h = <<Conn, job[p].name>>

\* DeleteRows and DeleteRowsOrError delete by connection and name, DeleteRow by
\* the owner too.
Deletes(p, h) == h[2] = job[p].name /\ (At(p, "deleteRow") => h[1] = job[p].owner)

\* A failure ends the call unless it is forced; for NICs, public IPs and file
\* systems it always does.
DeleteRows(p) ==
  /\ At(p, "deleteRows") \/ At(p, "deleteRow") \/ At(p, "deleteRowsOrError")
  /\ UNCHANGED owners
  /\ \/ /\ row' = [h \in DOMAIN row |-> IF Deletes(p, h) THEN None ELSE row[h]]
        /\ Release(p)
        /\ GoOn(p)
     \/ /\ DBFails /\ UNCHANGED <<row, cloud>>
        /\ IF job[p].force /\ ~At(p, "deleteRowsOrError")
           THEN GoOnWith(p, [job[p] EXCEPT !.resp = "kept"]) ELSE Answer(p, "error")

\* Rows of node groups or records, which go with the cluster or zone.
DeleteOthers(p) ==
  /\ At(p, "deleteOthers")
  /\ UNCHANGED <<table, cloud>>
  /\ GoOn(p) \/ (~job[p].force /\ DBError(p))

DeleteRowsOfOwner(p) ==
  /\ At(p, "deleteRowsOfOwner")
  /\ UNCHANGED owners
  /\ \/ /\ row' = [h \in DOMAIN row |-> IF h[1] = job[p].owner THEN None ELSE row[h]]
        /\ UNCHANGED cloud
        /\ GoOn(p)
     \/ /\ DBFails /\ UNCHANGED <<row, cloud>>
        /\ IF job[p].force THEN GoOnWith(p, [job[p] EXCEPT !.resp = "kept"]) ELSE Answer(p, "error")

\* The owner gets its row, in the cloud what was found; a create whose insert
\* fails takes it back.
InsertOwner(p) ==
  /\ At(p, "insertOwner") \/ At(p, "insertOwnerOrUndo")
  /\ UNCHANGED <<row, released>>
  /\ \/ /\ owners' = owners \cup {job[p].owner}
        /\ csp' = [id \in Ids |-> IF \E t \in job[p].todo : t[3] = id /\ Exists(id) THEN job[p].owner ELSE csp[id]]
        /\ GoOn(p)
     \/ /\ DBFails /\ UNCHANGED <<owners, csp>>
        /\ IF At(p, "insertOwner") THEN Answer(p, "error")
           ELSE /\ job' = [job EXCEPT ![p].steps = <<"undoOwner">>, ![p].resp = "error"]
                /\ UNCHANGED told

\* The owner's row goes; UnregisterCluster leaves those of its node groups.
DeleteOwnerRow(p) ==
  /\ At(p, "deleteOwner") \/ At(p, "releaseOwner")
  /\ UNCHANGED row
  /\ \/ /\ owners' = owners \ {job[p].owner} /\ csp' = Elsewhere(job[p].owner)
        /\ released' = IF At(p, "releaseOwner") THEN released \cup InOwner(job[p].owner) ELSE released
        /\ GoOn(p)
     \/ /\ DBFails /\ UNCHANGED <<owners, cloud>>
        /\ IF job[p].force THEN GoOnWith(p, [job[p] EXCEPT !.resp = "kept"]) ELSE Answer(p, "error")

-----------------------------------------------------------------------------
(* Lists read the rows without a lock, then take the read lock of each name. *)

ReadRows(p) ==
  /\ At(p, "rows")
  /\ UNCHANGED <<table, cloud>>
  /\ \/ GoOnWith(p, [job[p] EXCEPT !.todo = {<<h[1], h[2], row[h]>> : h \in {g \in DOMAIN row : row[g] # None}}])
     \/ DBError(p)

\* The next row: wait for the read lock of its name.
Each(p) ==
  /\ At(p, "each") \/ At(p, "eachOrStub")
  /\ UNCHANGED <<mgr, table, cloud, ownerGrant>>
  /\ \/ job[p].todo = {} /\ UNCHANGED grant /\ GoOn(p)
     \/ \E t \in job[p].todo :
          /\ NameLock!Acquire(p, <<t[2], "R">>)
          /\ job' = [job EXCEPT ![p] =
                       [job[p] EXCEPT !.steps = <<IF At(p, "each") THEN "get" ELSE "getOrStub">> \o @,
                                      !.todo = @ \ {t},
                                      !.owner = t[1], !.name = t[2], !.row = t[3]]]
          /\ UNCHANGED told

\* A resource that is not found, or for NICs and public IPs one that the driver
\* cannot read, is listed as a stub; else an error ends the list.
Get(p) ==
  /\ At(p, "get") \/ At(p, "getOrStub")
  /\ NameLock!Release(p)
  /\ UNCHANGED <<mgr, table, cloud, ownerGrant>>
  /\ \/ GoOn(p)
     \/ At(p, "get") /\ CSPFaults # {} /\ Answer(p, "error")

EachUnlocked(p) ==
  /\ At(p, "eachUnlocked")
  /\ UNCHANGED <<table, cloud>>
  /\ GoOn(p) \/ (mgr # "FILESYSTEM" /\ CSPError(p))

-----------------------------------------------------------------------------
(* A call arrives, and gives back its locks with its answer.               *)

Takes(op, steps) == \E i \in DOMAIN op.steps : op.steps[i] \in steps

OwnersOf(op) == (IF Takes(op, {"ownerLock", "ownerRLock"}) THEN Owners ELSE {Conn})
                \cup (IF op = RegisterSecurity THEN {Conn} ELSE {})
NamesOf(op) == IF op.kind \in {"list", "owner", "csp"} THEN {None} ELSE Names
IdsOf(op) == IF op.kind \in {"register", "csp"} THEN Ids ELSE {None}
ForcesOf(op) == IF Takes(op, {"drop", "dropOwner"}) THEN BOOLEAN ELSE {FALSE}

Begin(p) ==
  /\ job[p] = NoJob
  /\ \E op \in Operations(mgr) :
       \E o \in OwnersOf(op), n \in NamesOf(op), id \in IdsOf(op), force \in ForcesOf(op) :
         job' = [job EXCEPT ![p] = [NoJob EXCEPT !.kind = op.kind, !.steps = op.steps, !.owner = o,
                                                 !.name = n, !.id = id, !.force = force]]
  /\ UNCHANGED <<mgr, table, cloud, told, locks>>

Return(p) ==
  /\ job[p] = Answered
  /\ IF grant[p] = None THEN UNCHANGED grant ELSE NameLock!Release(p)
  /\ IF ownerGrant[p] = None THEN UNCHANGED ownerGrant ELSE OwnerLock!Release(p)
  /\ job' = [job EXCEPT ![p] = NoJob]
  /\ UNCHANGED <<mgr, table, cloud, told>>

\* The steps that leave the locks alone.
Work(p) ==
  /\ \/ CheckOwner(p) \/ CheckOwnerFree(p) \/ CheckFree(p) \/ CheckFreeInOwner(p)
     \/ CheckFreeOrSame(p) \/ ReadRow(p) \/ Make(p) \/ Await(p) \/ Find(p)
     \/ Call(p) \/ Replace(p) \/ Drop(p) \/ DropById(p) \/ DropOwner(p) \/ Gone(p) \/ Undo(p)
     \/ Rollback(p) \/ FindOwner(p) \/ MakeOwner(p) \/ UndoOwner(p)
     \/ Insert(p) \/ InsertOrUndo(p) \/ InsertOthers(p) \/ InsertOthersOrRollback(p) \/ InsertParts(p)
     \/ DeleteRows(p) \/ DeleteOthers(p) \/ DeleteRowsOfOwner(p) \/ InsertOwner(p) \/ DeleteOwnerRow(p)
     \/ ReadRows(p) \/ EachUnlocked(p)
  /\ UNCHANGED <<mgr, locks>>

Next == \E p \in Procs :
  Begin(p) \/ TakeLock(p) \/ TakeOwnerLock(p) \/ Each(p) \/ Get(p) \/ Work(p) \/ Return(p)

Spec == Init /\ [][Next]_vars

-----------------------------------------------------------------------------
\* The values of the variables; and no driver is called for an id that was not
\* read from the table or made.
TypeOK ==
  /\ row \in [Homes \X Names -> Ids \cup {None}]
  /\ owners \subseteq Owners
  /\ csp \in [Ids -> Homes \cup {None}]
  /\ released \subseteq {id \in Ids : Exists(id)} /\ told \subseteq Ids
  /\ ownerGrant \in [Procs -> (Owners \X {"R", "W"}) \cup {None}]
  /\ grant \in [Procs -> (Names \X {"R", "W"}) \cup {None}]
  /\ \A p \in Procs : At(p, "call") \/ At(p, "drop") => job[p].row \in Ids
  /\ \A p \in Procs : At(p, "undo") \/ At(p, "insert") => job[p].made \in Ids

\* Managers whose creates lose a resource, or whose deletes a row, on some path:
\* an NLB, RDBMS or node group may share its name with another's; waiting for a
\* cluster, node group or record fails without undo; DeleteFileSystem ignores
\* that the driver did not delete.
Careless == {"NLB", "RDBMS", "CLUSTER", "NODEGROUP", "DNSRECORD", "FILESYSTEM"}

\* What Spider made and the driver was not asked to delete has a row, or is in
\* the hands of a call: a create that fails undoes what it did, and no delete
\* removes the row of what still exists.
NothingLost ==
  mgr \notin Careless =>
    \A id \in Ids \ (Foreign \cup released) :
      Exists(id) => \/ \E h \in DOMAIN row : row[h] = id
                    \/ \E p \in Procs : job[p].made = id

\* No name is given to another resource while it has a row (Insert is an
\* upsert: it depends on the locks and the checks that it never does).  The rows
\* that registering or creating a cluster or a zone writes of what is in it are
\* not checked, and do replace what an unregister left.
RowsNeverReplaced ==
  [][\A h \in DOMAIN row : row[h] # None /\ row'[h] # None =>
       \/ row'[h] = row[h]
       \/ \E p \in Procs : /\ At(p, "insertParts") \/ At(p, "insertPartsOrRollback")
                           /\ \E t \in job[p].todo : h = <<t[1], t[2]>> /\ row'[h] = t[3]]_vars

\* A row is only ever written under an owner that has its row itself: a VPC, a
\* cluster or a zone cannot be deleted under a create or a register.
InsertedUnderOwner ==
  [][\A h \in DOMAIN row : row[h] = None /\ row'[h] # None => h[1] \in owners \cup {Conn}]_vars

\* A row whose resource is gone is that of a call under way, which holds the lock of
\* its name (DeleteFileSystem takes none); or a call that failed was about it, or a
\* forced delete, which ignores that the row stayed; or it was taken from the CSP by
\* its id; or it was registered while Spider had it.
RowsExistInCSP ==
  \A h \in DOMAIN row :
    row[h] \in Ids \ told /\ ~Exists(row[h]) =>
      \E p \in Procs :
        \/ grant[p] = <<h[2], "W">>
        \/ ownerGrant[p] = <<h[1], "W">>
        \/ mgr = "FILESYSTEM" /\ job[p].kind = "delete" /\ job[p].row = row[h]

\* One connection has at most one resource of a name.
NamesUnique == \A n \in Names : Cardinality(HomesOf(n)) <= 1
=============================================================================
