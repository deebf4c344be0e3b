----------------------------- MODULE VPCManager -----------------------------
(***************************************************************************)
(* api-runtime/common-runtime/VPC-SubnetManager.go, for one connection.    *)
(*                                                                         *)
(* A member of Procs is a goroutine serving one REST call at a time.  Every *)
(* call to the meta DB (info-store), to the cloud driver and to vpcSPLock  *)
(* is a step of its own; what a goroutine does between two of them touches *)
(* only its own variables and is part of the step before.  vpcSPLock is    *)
(* the lock table SPLock.tla implements.                                   *)
(*                                                                         *)
(* Validation of the arguments, the connection lookup and the building of  *)
(* the answer are left out: they come before the lock is taken or after    *)
(* the last shared access.  A system id stands for "spUUID:CSP id", and a  *)
(* failure of the meta DB or of the driver is a choice that the constants  *)
(* DBFails and CSPFaults allow.                                            *)
(***************************************************************************)
EXTENDS Naturals, FiniteSets

CONSTANTS
  Procs,      \* goroutines serving calls
  VPCs,       \* VPC names
  Subnets,    \* subnet names
  VIds,       \* ids of VPCs in the CSP
  SIds,       \* ids of subnets in the CSP
  Foreign,    \* VPCs that exist in the CSP from the start, not made by Spider
  None,
  Ops,        \* the calls that this instance makes
  DBFails,    \* may a meta DB operation fail?
  CSPFaults,  \* subset of {"refused", "error", "lost"}
  SingleVPC,  \* the driver's capability SINGLE_VPC
  KT,         \* is the provider KT?
  IDMgmt,     \* is ID management on?
  Crashes     \* may the server stop and start again?

AllOps == {"CreateVPC", "RegisterVPC", "RegisterSubnet", "UnregisterSubnet", "AddSubnet",
           "RemoveSubnet", "RemoveCSPSubnet", "DeleteVPC", "DeleteCSPVPC", "UnregisterVPC",
           "GetVPC", "ListVPC"}

ASSUME VPCAssumption ==
  /\ None \notin VIds \cup SIds \cup ((VPCs \cup Subnets) \X {"R", "W"})
  \* ids of VPCs and of subnets are told apart: `unmanaged' holds both
  /\ Foreign \subseteq VIds /\ VIds \cap SIds = {}
  /\ Ops \subseteq AllOps
  /\ CSPFaults \subseteq {"refused", "error", "lost"}
  /\ {DBFails, SingleVPC, KT, IDMgmt, Crashes} \subseteq BOOLEAN
  \* RegisterVPC never runs out of the names <vpc>-subnet-0, <vpc>-subnet-1, ...
  /\ "RegisterVPC" \in Ops => Cardinality(SIds) <= Cardinality(Subnets)

VARIABLES
  vpcRow,     \* VPCIIDInfo table: name -> id, or None
  subnetRow,  \* SubnetIIDInfo table: <<OwnerVPCName, name>> -> id, or None
  cspVpc,     \* VPCs that exist in the CSP
  cspSubnet,  \* subnets in the CSP: id -> id of the VPC it is in, or None
  unmanaged,  \* history: CSP ids left outside Spider on purpose or with an error
  grant,      \* vpcSPLock
  pc,         \* where each goroutine is
  job         \* the call a goroutine serves, with its local variables

db == <<vpcRow, subnetRow>>
cloud == <<cspVpc, cspSubnet, unmanaged>>
vars == <<db, cloud, grant, pc, job>>

Lock == INSTANCE RWLockTable WITH Keys <- VPCs \cup Subnets

\* op and arguments; row, sub: rows read; made: what the driver returned;
\* todo: subnets still to insert or names still to list; resp: the answer.
NoJob == [op |-> "none", v |-> None, s |-> None, id |-> None, force |-> FALSE,
          row |-> None, sub |-> None, made |-> None, todo |-> {}, resp |-> "none"]

SubnetsOf(vid) == {sid \in SIds : cspSubnet[sid] = vid}

Init ==
  /\ vpcRow = [v \in VPCs |-> None]
  /\ subnetRow = [vs \in VPCs \X Subnets |-> None]
  /\ cspVpc = Foreign
  /\ cspSubnet \in [SIds -> Foreign \cup {None}]
  /\ unmanaged = Foreign \cup {sid \in SIds : cspSubnet[sid] # None}
  /\ grant = [p \in Procs |-> None]
  /\ pc = [p \in Procs |-> "idle"]
  /\ job = [p \in Procs |-> NoJob]

-----------------------------------------------------------------------------
At(p, label) == pc[p] = label
Goto(p, label) == pc' = [pc EXCEPT ![p] = label]

\* The call's return value; its deferred Unlock is still to run.
Answer(p, r) == Goto(p, "done") /\ job' = [job EXCEPT ![p].resp = r]

\* A meta DB operation of the call fails and the call returns the error.
DBError(p) == DBFails /\ Answer(p, "error") /\ UNCHANGED <<db, cloud, grant>>

\* A read: nothing shared changes.
Reads == UNCHANGED <<db, cloud, grant>>

\* Ids the CSP may give out: not in use, and not remembered by a row or a call.
FreshV(vid) ==
  /\ vid \notin cspVpc \cup unmanaged
  /\ \A v \in VPCs : vpcRow[v] # vid
  /\ \A q \in Procs : vid \notin {job[q].id, job[q].row, job[q].made}
FreshS(sid) ==
  /\ cspSubnet[sid] = None /\ sid \notin unmanaged
  /\ \A vs \in VPCs \X Subnets : subnetRow[vs] # sid
  /\ \A q \in Procs : sid \notin {job[q].id, job[q].sub, job[q].made}
  /\ \A q \in Procs : \A t \in job[q].todo : t[2] # sid

\* What a driver's delete of something that does (not) exist may do: remove it
\* and say so; return (false, nil); fail without or after removing it.
Outcomes(exists) == IF exists THEN {"ok"} \cup CSPFaults ELSE {"notfound"}
Removes(out) == out \in {"ok", "lost"}

RemoveVpcFromCsp(vid) ==
  /\ cspVpc' = cspVpc \ {vid}
  /\ cspSubnet' = [sid \in SIds |-> IF cspSubnet[sid] = vid THEN None ELSE cspSubnet[sid]]
  /\ unmanaged' = unmanaged \ ({vid} \cup SubnetsOf(vid))
\* It stays in the CSP; known says that Spider meant to, or reported it.
LeaveVpcInCsp(vid, known) ==
  /\ unmanaged' = IF known THEN unmanaged \cup ({vid} \cap cspVpc) \cup SubnetsOf(vid)
                           ELSE unmanaged
  /\ UNCHANGED <<cspVpc, cspSubnet>>
RemoveSubnetFromCsp(sid) ==
  /\ cspSubnet' = [cspSubnet EXCEPT ![sid] = None]
  /\ unmanaged' = unmanaged \ {sid}
  /\ UNCHANGED cspVpc
LeaveSubnetInCsp(sid, known) ==
  /\ unmanaged' = IF known /\ cspSubnet[sid] # None THEN unmanaged \cup {sid} ELSE unmanaged
  /\ UNCHANGED <<cspVpc, cspSubnet>>

\* Faulty: what the driver answers does not matter.
FaultyAfterDriverDelete(p, out, next) ==
  /\ Goto(p, next)
  /\ job' = [job EXCEPT ![p].resp = IF out = "ok" THEN "ok" ELSE "false"]

\* The rule every Delete follows after the driver: an error ends the call
\* unless the delete is forced, "not found" forces it, and an unforced false
\* ends it too; otherwise the rows are deleted next.
AfterDriverDelete(p, out, next) ==
  IF out \in {"ok", "notfound"} \/ job[p].force
  THEN /\ Goto(p, next)
       /\ job' = [job EXCEPT ![p].force = @ \/ out = "notfound",
                             ![p].resp = IF out = "ok" THEN "ok" ELSE "false"]
  ELSE Answer(p, IF out = "refused" THEN "false" ELSE "error")

-----------------------------------------------------------------------------
(* A call arrives, takes its lock, and gives it back with its answer.      *)

Names(op) == IF op \in {"AddSubnet", "RemoveSubnet", "RegisterSubnet", "UnregisterSubnet"}
             THEN Subnets ELSE {None}
Ids(op) == CASE op = "RegisterVPC" -> VIds
             [] op = "DeleteCSPVPC" -> VIds
             [] op \in {"RegisterSubnet", "RemoveCSPSubnet"} -> SIds
             [] OTHER -> {None}
Forces(op) == IF op \in {"DeleteVPC", "RemoveSubnet"} THEN BOOLEAN ELSE {FALSE}

\* The calls that take no lock.  A call's first step is labelled with its name.
Lockless == {"RemoveCSPSubnet", "DeleteCSPVPC", "ListVPC"}

Begin(p) ==
  /\ At(p, "idle")
  /\ \E op \in Ops, v \in VPCs :
       \E s \in Names(op), id \in Ids(op), force \in Forces(op) :
         /\ job' = [job EXCEPT ![p] = [NoJob EXCEPT !.op = op, !.v = v, !.s = s,
                                                    !.id = id, !.force = force]]
         /\ Goto(p, IF op \in Lockless THEN op ELSE "lock")
  /\ UNCHANGED <<db, cloud, grant>>

\* Faulty: AddSubnet, too, locks the subnet's name.
FaultyLockedName(p) ==
  IF job[p].op \in {"RegisterSubnet", "UnregisterSubnet", "AddSubnet"} THEN job[p].s ELSE job[p].v

\* RegisterSubnet and UnregisterSubnet lock the subnet's name, not the VPC's.
LockedName(p) == IF job[p].op \in {"RegisterSubnet", "UnregisterSubnet"} THEN job[p].s
                                                                         ELSE job[p].v

\* Faulty: DeleteVPC takes the lock for reading only.
FaultyLockKind(p) == IF job[p].op \in {"GetVPC", "DeleteVPC"} THEN "R" ELSE "W"

LockKind(p) == IF job[p].op = "GetVPC" THEN "R" ELSE "W"

TakeLock(p) ==
  /\ At(p, "lock")
  /\ Lock!Acquire(p, <<LockedName(p), LockKind(p)>>)
  /\ Goto(p, job[p].op)
  /\ UNCHANGED <<db, cloud, job>>

\* Faulty: the Unlock is not deferred, and an error returns without it.
FaultyReturn(p) ==
  /\ At(p, "done")
  /\ IF grant[p] = None \/ job[p].resp = "error" THEN UNCHANGED grant ELSE Lock!Release(p)
  /\ Goto(p, "idle")
  /\ job' = [job EXCEPT ![p] = NoJob]
  /\ UNCHANGED <<db, cloud>>

Return(p) ==
  /\ At(p, "done")
  /\ IF grant[p] = None THEN UNCHANGED grant ELSE Lock!Release(p)
  /\ Goto(p, "idle")
  /\ job' = [job EXCEPT ![p] = NoJob]
  /\ UNCHANGED <<db, cloud>>

-----------------------------------------------------------------------------
(* CreateVPC.                                                              *)

\* Faulty: the name is not checked.
FaultyCreateVPC_exists(p) ==
  /\ At(p, "CreateVPC")
  /\ Goto(p, "create.csp")
  /\ Reads /\ UNCHANGED job

\* The name must be free; a single-VPC cloud is asked next.
CreateVPC_exists(p) ==
  /\ At(p, "CreateVPC")
  /\ Reads
  /\ \/ /\ vpcRow[job[p].v] # None
        /\ Answer(p, "error")
     \/ /\ vpcRow[job[p].v] = None
        /\ Goto(p, IF SingleVPC THEN "create.single" ELSE "create.csp")
        /\ UNCHANGED job
     \/ DBError(p)

\* "can have only 1 VPC"
CreateVPC_single(p) ==
  /\ At(p, "create.single")
  /\ Reads
  /\ \/ /\ \E v \in VPCs : vpcRow[v] # None
        /\ Answer(p, "error")
     \/ /\ \A v \in VPCs : vpcRow[v] = None
        /\ Goto(p, "create.csp")
        /\ UNCHANGED job
     \/ DBError(p)

\* handler.CreateVPC makes the VPC and all requested subnets, or fails, as it
\* does when the quota (the ids of the model) is used up.
CreateVPC_csp(p) ==
  /\ At(p, "create.csp")
  /\ \/ \E vid \in VIds, names \in SUBSET Subnets :
          \E ids \in [names -> SIds] :
            /\ FreshV(vid)
            /\ \A s \in names : FreshS(ids[s])
            /\ \A s, t \in names : ids[s] = ids[t] => s = t
            /\ cspVpc' = cspVpc \cup {vid}
            /\ cspSubnet' = [sid \in SIds |-> IF \E s \in names : ids[s] = sid
                                              THEN vid ELSE cspSubnet[sid]]
            /\ job' = [job EXCEPT ![p].made = vid, ![p].todo = {<<s, ids[s]>> : s \in names}]
            /\ Goto(p, "create.vpcrow")
            /\ UNCHANGED <<db, unmanaged, grant>>
     \/ /\ CSPFaults # {} \/ ~\E vid \in VIds : FreshV(vid)
        /\ Answer(p, "error")
        /\ UNCHANGED <<db, cloud, grant>>

\* Faulty: a failed insert goes on as if it had not.
FaultyCreateVPC_insertVPC(p) ==
  /\ At(p, "create.vpcrow")
  /\ vpcRow' \in {vpcRow, [vpcRow EXCEPT ![job[p].v] = job[p].made]}
  /\ Goto(p, "create.subnetrow")
  /\ UNCHANGED <<subnetRow, cloud, grant, job>>

\* Insert the VPC's row; if that fails, delete the VPC in the CSP again.
CreateVPC_insertVPC(p) ==
  /\ At(p, "create.vpcrow")
  /\ UNCHANGED <<cloud, grant, job>>
  /\ \/ /\ vpcRow' = [vpcRow EXCEPT ![job[p].v] = job[p].made]
        /\ Goto(p, "create.subnetrow")
        /\ UNCHANGED subnetRow
     \/ DBFails /\ Goto(p, "create.undo") /\ UNCHANGED db

CreateVPC_undo(p) ==
  /\ At(p, "create.undo")
  /\ \E out \in Outcomes(job[p].made \in cspVpc) :
       IF Removes(out) THEN RemoveVpcFromCsp(job[p].made)
                       ELSE LeaveVpcInCsp(job[p].made, out = "error")
  /\ Answer(p, "error")
  /\ UNCHANGED <<db, grant>>

\* Insert the subnets' rows one by one; if one fails, roll back.
CreateVPC_insertSubnet(p) ==
  /\ At(p, "create.subnetrow")
  /\ UNCHANGED <<cloud, grant, vpcRow>>
  /\ \/ job[p].todo = {} /\ Answer(p, "ok") /\ UNCHANGED subnetRow
     \/ \E t \in job[p].todo :
          /\ subnetRow' = [subnetRow EXCEPT ![<<job[p].v, t[1]>>] = t[2]]
          /\ job' = [job EXCEPT ![p].todo = @ \ {t}]
          /\ UNCHANGED pc
     \/ /\ DBFails /\ job[p].todo # {}
        /\ Goto(p, "create.rollback1")
        /\ UNCHANGED <<subnetRow, job>>

\* Rollback (1): the VPC in the CSP.  A driver error ends the rollback.
CreateVPC_rollbackCSP(p) ==
  /\ At(p, "create.rollback1")
  /\ \E out \in Outcomes(job[p].made \in cspVpc) :
       /\ IF Removes(out) THEN RemoveVpcFromCsp(job[p].made)
                          ELSE LeaveVpcInCsp(job[p].made, out = "error")
       /\ IF out \in {"ok", "refused"} THEN Goto(p, "create.rollback2") /\ UNCHANGED job
                                       ELSE Answer(p, "error")
  /\ UNCHANGED <<db, grant>>

\* Rollback (2): the VPC's row.
CreateVPC_rollbackVPC(p) ==
  /\ At(p, "create.rollback2")
  /\ UNCHANGED <<cloud, grant, subnetRow>>
  /\ \/ /\ vpcRow' = [vpcRow EXCEPT ![job[p].v] = None]
        /\ Goto(p, "create.rollback3")
        /\ UNCHANGED job
     \/ DBFails /\ Answer(p, "error") /\ UNCHANGED vpcRow

\* Faulty: the subnets' rows are forgotten.
FaultyCreateVPC_rollbackSubnets(p) ==
  /\ At(p, "create.rollback3")
  /\ Answer(p, "nil")
  /\ UNCHANGED <<db, cloud, grant>>

\* Rollback (3): the rows of the subnets whose owner is info.IId.NameId, the
\* driver's name of the VPC: with ID management that is the generated SP-XID
\* and no row has it.  The error that started the rollback is shadowed by this
\* delete's, so the call returns (nil, nil).
CreateVPC_rollbackSubnets(p) ==
  /\ At(p, "create.rollback3")
  /\ UNCHANGED <<cloud, grant, vpcRow>>
  /\ \/ /\ subnetRow' = IF IDMgmt THEN subnetRow
                        ELSE [vs \in VPCs \X Subnets |->
                                IF vs[1] = job[p].v THEN None ELSE subnetRow[vs]]
        /\ Answer(p, "nil")
     \/ DBFails /\ Answer(p, "error") /\ UNCHANGED subnetRow

CreateVPC(p) ==
  \/ CreateVPC_exists(p) \/ CreateVPC_single(p) \/ CreateVPC_csp(p)
  \/ CreateVPC_insertVPC(p) \/ CreateVPC_undo(p) \/ CreateVPC_insertSubnet(p)
  \/ CreateVPC_rollbackCSP(p) \/ CreateVPC_rollbackVPC(p) \/ CreateVPC_rollbackSubnets(p)

-----------------------------------------------------------------------------
(* RegisterVPC: rows for a VPC that exists in the CSP and for its subnets, *)
(* which get names of Spider.  No step is undone when a later one fails.   *)

RegisterVPC_exists(p) ==
  /\ At(p, "RegisterVPC")
  /\ Reads
  /\ \/ vpcRow[job[p].v] # None /\ Answer(p, "error")
     \/ vpcRow[job[p].v] = None /\ Goto(p, "register.csp") /\ UNCHANGED job
     \/ DBError(p)

RegisterVPC_csp(p) ==
  /\ At(p, "register.csp")
  /\ Reads
  /\ \/ /\ job[p].id \in cspVpc
        /\ \E name \in [SubnetsOf(job[p].id) -> Subnets] :
             /\ \A a, b \in SubnetsOf(job[p].id) : name[a] = name[b] => a = b
             /\ job' = [job EXCEPT ![p].todo = {<<name[a], a>> : a \in SubnetsOf(job[p].id)}]
        /\ Goto(p, "register.vpcrow")
     \/ (job[p].id \notin cspVpc \/ CSPFaults # {}) /\ Answer(p, "error")

RegisterVPC_insertVPC(p) ==
  /\ At(p, "register.vpcrow")
  /\ UNCHANGED <<cloud, grant, subnetRow>>
  /\ \/ /\ vpcRow' = [vpcRow EXCEPT ![job[p].v] = job[p].id]
        /\ Goto(p, "register.subnetrow")
        /\ UNCHANGED job
     \/ DBFails /\ Answer(p, "error") /\ UNCHANGED vpcRow

RegisterVPC_insertSubnet(p) ==
  /\ At(p, "register.subnetrow")
  /\ UNCHANGED <<cloud, grant, vpcRow>>
  /\ \/ job[p].todo = {} /\ Answer(p, "ok") /\ UNCHANGED subnetRow
     \/ \E t \in job[p].todo :
          /\ subnetRow' = [subnetRow EXCEPT ![<<job[p].v, t[1]>>] = t[2]]
          /\ job' = [job EXCEPT ![p].todo = @ \ {t}]
          /\ UNCHANGED pc
     \/ DBFails /\ Answer(p, "error") /\ UNCHANGED subnetRow

RegisterVPC(p) ==
  \/ RegisterVPC_exists(p) \/ RegisterVPC_csp(p)
  \/ RegisterVPC_insertVPC(p) \/ RegisterVPC_insertSubnet(p)

-----------------------------------------------------------------------------
(* RegisterSubnet and UnregisterSubnet hold the lock of the subnet's name. *)

RegisterSubnet_exists(p) ==
  /\ At(p, "RegisterSubnet")
  /\ Reads
  /\ \/ subnetRow[job[p].v, job[p].s] # None /\ Answer(p, "error")
     \/ subnetRow[job[p].v, job[p].s] = None /\ Goto(p, "regsub.vpcrow") /\ UNCHANGED job
     \/ DBError(p)

RegisterSubnet_getVPC(p) ==
  /\ At(p, "regsub.vpcrow")
  /\ Reads
  /\ \/ vpcRow[job[p].v] = None /\ Answer(p, "error")
     \/ /\ vpcRow[job[p].v] # None
        /\ job' = [job EXCEPT ![p].row = vpcRow[job[p].v]]
        /\ Goto(p, "regsub.csp")
     \/ DBError(p)

\* A VPC without the given subnet is no error: the call just inserts nothing.
RegisterSubnet_csp(p) ==
  /\ At(p, "regsub.csp")
  /\ Reads
  /\ \/ /\ job[p].row \in cspVpc
        /\ IF cspSubnet[job[p].id] = job[p].row
           THEN Goto(p, "regsub.insert") /\ UNCHANGED job
           ELSE Answer(p, "ok")
     \/ (job[p].row \notin cspVpc \/ CSPFaults # {}) /\ Answer(p, "error")

\* infostore.Insert is an upsert: it also replaces a row with the same key.
RegisterSubnet_insert(p) ==
  /\ At(p, "regsub.insert")
  /\ UNCHANGED <<cloud, grant, vpcRow>>
  /\ \/ /\ subnetRow' = [subnetRow EXCEPT ![<<job[p].v, job[p].s>>] = job[p].id]
        /\ Answer(p, "ok")
     \/ DBFails /\ Answer(p, "error") /\ UNCHANGED subnetRow

UnregisterSubnet_exists(p) ==
  /\ At(p, "UnregisterSubnet")
  /\ Reads
  /\ \/ subnetRow[job[p].v, job[p].s] = None /\ Answer(p, "error")
     \/ subnetRow[job[p].v, job[p].s] # None /\ Goto(p, "unregsub.delete") /\ UNCHANGED job
     \/ DBError(p)

UnregisterSubnet_delete(p) ==
  /\ At(p, "unregsub.delete")
  /\ UNCHANGED <<vpcRow, cspVpc, cspSubnet, grant>>
  /\ \/ /\ subnetRow' = [subnetRow EXCEPT ![<<job[p].v, job[p].s>>] = None]
        /\ unmanaged' = unmanaged \cup {sid \in SIds : /\ cspSubnet[sid] # None
                                                       /\ sid = subnetRow[job[p].v, job[p].s]}
        /\ Answer(p, "ok")
     \/ DBFails /\ Answer(p, "error") /\ UNCHANGED <<subnetRow, unmanaged>>

RegisterSubnet(p) ==
  \/ RegisterSubnet_exists(p) \/ RegisterSubnet_getVPC(p)
  \/ RegisterSubnet_csp(p) \/ RegisterSubnet_insert(p)
UnregisterSubnet(p) == UnregisterSubnet_exists(p) \/ UnregisterSubnet_delete(p)

-----------------------------------------------------------------------------
(* AddSubnet.                                                              *)

\* Faulty: the name is not checked.
FaultyAddSubnet_exists(p) ==
  /\ At(p, "AddSubnet")
  /\ Goto(p, "add.vpcrow")
  /\ Reads /\ UNCHANGED job

AddSubnet_exists(p) ==
  /\ At(p, "AddSubnet")
  /\ Reads
  /\ \/ subnetRow[job[p].v, job[p].s] # None /\ Answer(p, "error")
     \/ subnetRow[job[p].v, job[p].s] = None /\ Goto(p, "add.vpcrow") /\ UNCHANGED job
     \/ DBError(p)

AddSubnet_getVPC(p) ==
  /\ At(p, "add.vpcrow")
  /\ Reads
  /\ \/ vpcRow[job[p].v] = None /\ Answer(p, "error")
     \/ /\ vpcRow[job[p].v] # None
        /\ job' = [job EXCEPT ![p].row = vpcRow[job[p].v]]
        /\ Goto(p, "add.csp")
     \/ DBError(p)

AddSubnet_csp(p) ==
  /\ At(p, "add.csp")
  /\ \/ /\ job[p].row \in cspVpc
        /\ \E sid \in SIds :
             /\ FreshS(sid)
             /\ cspSubnet' = [cspSubnet EXCEPT ![sid] = job[p].row]
             /\ job' = [job EXCEPT ![p].made = sid]
        /\ Goto(p, "add.insert")
        /\ UNCHANGED <<db, cspVpc, unmanaged, grant>>
     \/ /\ job[p].row \notin cspVpc \/ CSPFaults # {} \/ ~\E sid \in SIds : FreshS(sid)
        /\ Answer(p, "error")
        /\ UNCHANGED <<db, cloud, grant>>

AddSubnet_insert(p) ==
  /\ At(p, "add.insert")
  /\ UNCHANGED <<cloud, grant, vpcRow, job>>
  /\ \/ /\ subnetRow' = [subnetRow EXCEPT ![<<job[p].v, job[p].s>>] = job[p].made]
        /\ Goto(p, "add.readback")
     \/ DBFails /\ Goto(p, "add.rollback1") /\ UNCHANGED subnetRow

\* The rows of the VPC's subnets are read for the answer; a failure is
\* returned as an error although the subnet was made.
AddSubnet_readback(p) ==
  /\ At(p, "add.readback")
  /\ Reads
  /\ Answer(p, "ok") \/ DBError(p)

AddSubnet_rollbackCSP(p) ==
  /\ At(p, "add.rollback1")
  /\ \E out \in Outcomes(cspSubnet[job[p].made] # None) :
       /\ IF Removes(out) THEN RemoveSubnetFromCsp(job[p].made)
                          ELSE LeaveSubnetInCsp(job[p].made, out = "error")
       /\ IF out \in {"ok", "refused"} THEN Goto(p, "add.rollback2") /\ UNCHANGED job
                                       ELSE Answer(p, "error")
  /\ UNCHANGED <<db, grant>>

AddSubnet_rollbackRow(p) ==
  /\ At(p, "add.rollback2")
  /\ subnetRow' = [subnetRow EXCEPT ![<<job[p].v, job[p].s>>] = None] \/ (DBFails /\ UNCHANGED subnetRow)
  /\ Answer(p, "error")
  /\ UNCHANGED <<cloud, grant, vpcRow>>

AddSubnet(p) ==
  \/ AddSubnet_exists(p) \/ AddSubnet_getVPC(p) \/ AddSubnet_csp(p) \/ AddSubnet_insert(p)
  \/ AddSubnet_readback(p) \/ AddSubnet_rollbackCSP(p) \/ AddSubnet_rollbackRow(p)

-----------------------------------------------------------------------------
(* RemoveSubnet, and RemoveCSPSubnet, which takes no lock and no row.      *)

RemoveSubnet_getSubnet(p) ==
  /\ At(p, "RemoveSubnet")
  /\ Reads
  /\ \/ subnetRow[job[p].v, job[p].s] = None /\ Answer(p, "error")
     \/ /\ subnetRow[job[p].v, job[p].s] # None
        /\ job' = [job EXCEPT ![p].sub = subnetRow[job[p].v, job[p].s]]
        /\ Goto(p, "remove.vpcrow")
     \/ DBError(p)

RemoveSubnet_getVPC(p) ==
  /\ At(p, "remove.vpcrow")
  /\ Reads
  /\ \/ vpcRow[job[p].v] = None /\ Answer(p, "error")
     \/ /\ vpcRow[job[p].v] # None
        /\ job' = [job EXCEPT ![p].row = vpcRow[job[p].v]]
        /\ Goto(p, "remove.csp")
     \/ DBError(p)

\* The driver finds the subnet only in the VPC of the row.
RemoveSubnet_csp(p) ==
  /\ At(p, "remove.csp")
  /\ \E out \in Outcomes(cspSubnet[job[p].sub] = job[p].row) :
       /\ IF Removes(out) THEN RemoveSubnetFromCsp(job[p].sub)
                          ELSE LeaveSubnetInCsp(job[p].sub, job[p].force)
       /\ AfterDriverDelete(p, out, "remove.delete")
  /\ UNCHANGED <<db, grant>>

\* Faulty: the row is kept.
FaultyRemoveSubnet_delete(p) ==
  /\ At(p, "remove.delete")
  /\ Answer(p, job[p].resp)
  /\ UNCHANGED <<db, cloud, grant>>

RemoveSubnet_delete(p) ==
  /\ At(p, "remove.delete")
  /\ UNCHANGED <<cloud, grant, vpcRow>>
  /\ \/ /\ subnetRow' = [subnetRow EXCEPT ![<<job[p].v, job[p].s>>] = None]
        /\ Answer(p, job[p].resp)
     \/ /\ DBFails
        /\ Answer(p, IF job[p].force THEN job[p].resp ELSE "error")
        /\ UNCHANGED subnetRow

RemoveSubnet(p) ==
  \/ RemoveSubnet_getSubnet(p) \/ RemoveSubnet_getVPC(p)
  \/ RemoveSubnet_csp(p) \/ RemoveSubnet_delete(p)

RemoveCSPSubnet_getVPC(p) ==
  /\ At(p, "RemoveCSPSubnet")
  /\ Reads
  /\ \/ vpcRow[job[p].v] = None /\ Answer(p, "error")
     \/ /\ vpcRow[job[p].v] # None
        /\ job' = [job EXCEPT ![p].row = vpcRow[job[p].v]]
        /\ Goto(p, "removecsp.csp")
     \/ DBError(p)

RemoveCSPSubnet_csp(p) ==
  /\ At(p, "removecsp.csp")
  /\ \E out \in Outcomes(cspSubnet[job[p].id] = job[p].row) :
       /\ IF Removes(out) THEN RemoveSubnetFromCsp(job[p].id)
                          ELSE LeaveSubnetInCsp(job[p].id, FALSE)
       /\ Answer(p, IF out \in {"ok"} THEN "ok" ELSE IF out = "refused" THEN "false" ELSE "error")
  /\ UNCHANGED <<db, grant>>

RemoveCSPSubnet(p) == RemoveCSPSubnet_getVPC(p) \/ RemoveCSPSubnet_csp(p)

-----------------------------------------------------------------------------
(* DeleteVPC.                                                              *)

\* Faulty: a row that is not found is used all the same.
FaultyDeleteVPC_getVPC(p) ==
  /\ At(p, "DeleteVPC")
  /\ Reads
  /\ job' = [job EXCEPT ![p].row = vpcRow[job[p].v]]
  /\ Goto(p, "delete.csp")

DeleteVPC_getVPC(p) ==
  /\ At(p, "DeleteVPC")
  /\ Reads
  /\ \/ vpcRow[job[p].v] = None /\ Answer(p, "error")
     \/ /\ vpcRow[job[p].v] # None
        /\ job' = [job EXCEPT ![p].row = vpcRow[job[p].v]]
        /\ Goto(p, IF KT THEN "delete.kt" ELSE "delete.csp")
     \/ DBError(p)

\* KT: the subnets of the VPC's rows go first; failures are only logged.
DeleteVPC_kt(p) ==
  /\ At(p, "delete.kt")
  /\ LET mine == {sid \in SubnetsOf(job[p].row) : \E s \in Subnets : subnetRow[job[p].v, s] = sid}
     IN \E gone \in SUBSET mine :
          /\ CSPFaults = {} /\ ~DBFails => gone = mine
          /\ cspSubnet' = [sid \in SIds |-> IF sid \in gone THEN None ELSE cspSubnet[sid]]
          /\ unmanaged' = unmanaged \ gone
  /\ Goto(p, "delete.csp")
  /\ UNCHANGED <<db, cspVpc, grant, job>>

DeleteVPC_csp(p) ==
  /\ At(p, "delete.csp")
  /\ \E out \in Outcomes(job[p].row \in cspVpc) :
       /\ IF Removes(out) THEN RemoveVpcFromCsp(job[p].row)
                          ELSE LeaveVpcInCsp(job[p].row, job[p].force)
       /\ AfterDriverDelete(p, out, "delete.vpcrow")
  /\ UNCHANGED <<db, grant>>

\* Faulty: an error of the delete is ignored, forced or not.
FaultyDeleteVPC_deleteVPC(p) ==
  /\ At(p, "delete.vpcrow")
  /\ vpcRow' = [vpcRow EXCEPT ![job[p].v] = None] \/ (DBFails /\ UNCHANGED vpcRow)
  /\ Goto(p, "delete.subnetrows")
  /\ UNCHANGED <<cloud, grant, subnetRow, job>>

DeleteVPC_deleteVPC(p) ==
  /\ At(p, "delete.vpcrow")
  /\ UNCHANGED <<cloud, grant, subnetRow>>
  /\ \/ /\ vpcRow' = [vpcRow EXCEPT ![job[p].v] = None]
        /\ Goto(p, "delete.subnetrows")
        /\ UNCHANGED job
     \/ /\ DBFails /\ UNCHANGED vpcRow
        /\ IF job[p].force THEN Goto(p, "delete.subnetrows") /\ UNCHANGED job
                           ELSE Answer(p, "error")

\* Faulty: only the VPC's row is deleted.
FaultyDeleteVPC_deleteSubnets(p) ==
  /\ At(p, "delete.subnetrows")
  /\ Answer(p, job[p].resp)
  /\ UNCHANGED <<db, cloud, grant>>

\* An unforced call whose last delete fails answers (false, nil).
DeleteVPC_deleteSubnets(p) ==
  /\ At(p, "delete.subnetrows")
  /\ UNCHANGED <<cloud, grant, vpcRow>>
  /\ \/ /\ subnetRow' = [vs \in VPCs \X Subnets |-> IF vs[1] = job[p].v THEN None
                                                                        ELSE subnetRow[vs]]
        /\ Answer(p, job[p].resp)
     \/ /\ DBFails
        /\ Answer(p, IF job[p].force THEN job[p].resp ELSE "false")
        /\ UNCHANGED subnetRow

DeleteVPC(p) ==
  \/ DeleteVPC_getVPC(p) \/ DeleteVPC_kt(p) \/ DeleteVPC_csp(p)
  \/ DeleteVPC_deleteVPC(p) \/ DeleteVPC_deleteSubnets(p)

\* DeleteCSPResource for a VPC: by its CSP id, without lock and rows.
DeleteCSPVPC(p) ==
  /\ At(p, "DeleteCSPVPC")
  /\ \E out \in Outcomes(job[p].id \in cspVpc) :
       /\ IF Removes(out) THEN RemoveVpcFromCsp(job[p].id) ELSE LeaveVpcInCsp(job[p].id, FALSE)
       /\ Answer(p, IF out = "ok" THEN "ok" ELSE IF out = "refused" THEN "false" ELSE "error")
  /\ UNCHANGED <<db, grant>>

-----------------------------------------------------------------------------
(* UnregisterResource for a VPC: the rows go, the VPC stays.               *)

UnregisterVPC_exists(p) ==
  /\ At(p, "UnregisterVPC")
  /\ Reads
  /\ \/ vpcRow[job[p].v] = None /\ Answer(p, "error")
     \/ vpcRow[job[p].v] # None /\ Goto(p, "unregister.vpcrow") /\ UNCHANGED job
     \/ DBError(p)

UnregisterVPC_deleteVPC(p) ==
  /\ At(p, "unregister.vpcrow")
  /\ UNCHANGED <<cspVpc, cspSubnet, grant, subnetRow>>
  /\ \/ /\ vpcRow' = [vpcRow EXCEPT ![job[p].v] = None]
        /\ unmanaged' = unmanaged \cup ({vpcRow[job[p].v]} \cap cspVpc) \cup SubnetsOf(vpcRow[job[p].v])
        /\ Goto(p, "unregister.subnetrows")
        /\ UNCHANGED job
     \/ DBFails /\ Answer(p, "error") /\ UNCHANGED <<vpcRow, unmanaged>>

UnregisterVPC_deleteSubnets(p) ==
  /\ At(p, "unregister.subnetrows")
  /\ UNCHANGED <<cloud, grant, vpcRow>>
  /\ \/ /\ subnetRow' = [vs \in VPCs \X Subnets |-> IF vs[1] = job[p].v THEN None
                                                                        ELSE subnetRow[vs]]
        /\ Answer(p, "ok")
     \/ DBFails /\ Answer(p, "error") /\ UNCHANGED subnetRow

UnregisterVPC(p) ==
  \/ UnregisterVPC_exists(p) \/ UnregisterVPC_deleteVPC(p) \/ UnregisterVPC_deleteSubnets(p)

-----------------------------------------------------------------------------
(* GetVPC, under the read lock, and ListVPC, which reads the names without *)
(* a lock and then takes the read lock of each.                            *)

GetVPC_row(p) ==
  /\ At(p, "GetVPC")
  /\ Reads
  /\ \/ vpcRow[job[p].v] = None /\ Answer(p, "error")
     \/ /\ vpcRow[job[p].v] # None
        /\ job' = [job EXCEPT ![p].row = vpcRow[job[p].v]]
        /\ Goto(p, "get.csp")
     \/ DBError(p)

GetVPC_csp(p) ==
  /\ At(p, "get.csp")
  /\ Reads
  /\ \/ job[p].row \in cspVpc /\ (Answer(p, "ok") \/ DBError(p))
     \/ (job[p].row \notin cspVpc \/ CSPFaults # {}) /\ Answer(p, "error")

ListVPC_rows(p) ==
  /\ At(p, "ListVPC")
  /\ Reads
  /\ \/ /\ job' = [job EXCEPT ![p].todo = {<<v, vpcRow[v]>> : v \in {w \in VPCs : vpcRow[w] # None}},
                              ![p].resp = "ok"]
        /\ Goto(p, "list.next")
     \/ DBError(p)

\* getVPCInfo of the next VPC waits for its read lock.
ListVPC_lock(p) ==
  /\ At(p, "list.next")
  /\ UNCHANGED <<db, cloud>>
  /\ \/ /\ job[p].todo = {}
        /\ Answer(p, job[p].resp)
        /\ UNCHANGED grant
     \/ \E t \in job[p].todo :
          /\ Lock!Acquire(p, <<t[1], "R">>)
          /\ job' = [job EXCEPT ![p].v = t[1], ![p].row = t[2], ![p].todo = @ \ {t}]
          /\ Goto(p, "list.get")

\* A VPC that is not found is listed as a stub; any other error ends the list
\* as an error.
ListVPC_get(p) ==
  /\ At(p, "list.get")
  /\ Lock!Release(p)
  /\ Goto(p, "list.next")
  /\ \/ UNCHANGED job
     \/ /\ CSPFaults # {} \/ DBFails
        /\ job' = [job EXCEPT ![p].resp = "error"]
  /\ UNCHANGED <<db, cloud>>

GetVPC(p) == GetVPC_row(p) \/ GetVPC_csp(p)
ListVPC(p) == ListVPC_rows(p) \/ ListVPC_lock(p) \/ ListVPC_get(p)

-----------------------------------------------------------------------------
\* The server stops and starts again: the meta DB and the cloud stay, the
\* goroutines and the lock tables are gone.
Crash ==
  /\ Crashes
  /\ grant' = [p \in Procs |-> None]
  /\ pc' = [p \in Procs |-> "idle"]
  /\ job' = [p \in Procs |-> NoJob]
  /\ UNCHANGED <<db, cloud>>

Serve(p) ==
  \/ TakeLock(p) \/ CreateVPC(p) \/ RegisterVPC(p) \/ RegisterSubnet(p)
  \/ UnregisterSubnet(p) \/ AddSubnet(p) \/ RemoveSubnet(p) \/ RemoveCSPSubnet(p)
  \/ DeleteVPC(p) \/ DeleteCSPVPC(p) \/ UnregisterVPC(p) \/ GetVPC(p) \/ ListVPC(p)
  \/ Return(p)

Next == (\E p \in Procs : Begin(p) \/ Serve(p)) \/ Crash

Spec == Init /\ [][Next]_vars

\* Goroutines are scheduled, drivers answer, and a lock that is free again and
\* again is taken at last (SPLock.tla, LockReturns).
Fairness == \A p \in Procs : WF_vars(Serve(p)) /\ SF_vars(TakeLock(p)) /\ SF_vars(ListVPC_lock(p))

FairSpec == Spec /\ Fairness

-----------------------------------------------------------------------------
Labels == {"idle", "lock", "done", "create.single", "create.csp", "create.vpcrow", "create.undo",
  "create.subnetrow", "create.rollback1", "create.rollback2", "create.rollback3",
  "register.csp", "register.vpcrow", "register.subnetrow", "regsub.vpcrow", "regsub.csp",
  "regsub.insert", "unregsub.delete", "add.vpcrow", "add.csp", "add.insert", "add.readback",
  "add.rollback1", "add.rollback2", "remove.vpcrow", "remove.csp", "remove.delete",
  "removecsp.csp", "delete.kt", "delete.csp", "delete.vpcrow", "delete.subnetrows",
  "unregister.vpcrow", "unregister.subnetrows", "get.csp", "list.next", "list.get"}

\* Steps that pass the id of a row to the driver.
WithRow == {"regsub.csp", "add.csp", "add.insert", "remove.csp", "delete.kt", "delete.csp", "get.csp"}

\* The values of the tables, of the cloud and of the locks; and a driver is only
\* called with an id that a row had.
TypeOK ==
  /\ vpcRow \in [VPCs -> VIds \cup {None}]
  /\ subnetRow \in [VPCs \X Subnets -> SIds \cup {None}]
  /\ cspVpc \subseteq VIds
  /\ cspSubnet \in [SIds -> cspVpc \cup {None}]
  /\ unmanaged \subseteq cspVpc \cup SIds
  /\ grant \in [Procs -> ((VPCs \cup Subnets) \X {"R", "W"}) \cup {None}]
  /\ pc \in [Procs -> Labels \cup Ops]
  /\ \A p \in Procs : pc[p] \in WithRow => job[p].row \in VIds

\* No call holds the write lock of a VPC name.
Quiet(v) == \A p \in Procs : grant[p] # <<v, "W">>

\* A subnet's row always has its VPC's row: nobody can remove a subnet whose
\* owner Spider does not know.
SubnetRowsOwned ==
  \A v \in VPCs, s \in Subnets : Quiet(v) /\ subnetRow[v, s] # None => vpcRow[v] # None

\* What Spider lists exists: a row's VPC is in the CSP, a subnet's row names a
\* subnet of that VPC, unless a call on the VPC is under way.
RowsExistInCSP ==
  \A v \in VPCs :
    Quiet(v) /\ vpcRow[v] # None =>
      /\ vpcRow[v] \in cspVpc
      /\ \A s \in Subnets : subnetRow[v, s] # None => cspSubnet[subnetRow[v, s]] = vpcRow[v]

\* Nothing Spider made is lost: what exists in the CSP has a row, is being made
\* or undone by a call, or was left there with an error or on request.
NothingLost ==
  /\ \A vid \in cspVpc \ unmanaged :
       \/ \E v \in VPCs : vpcRow[v] = vid
       \/ \E p \in Procs : job[p].made = vid
  /\ \A sid \in {i \in SIds : cspSubnet[i] # None} \ unmanaged :
       \/ \E v \in VPCs, s \in Subnets : subnetRow[v, s] = sid
       \/ \E p \in Procs : job[p].made = sid \/ \E t \in job[p].todo : t[2] = sid

\* infostore.Insert is an upsert, so that a name's row is never replaced by
\* another resource's depends on the locks and the existence checks.
VPCRowsNeverReplaced ==
  [][\A v \in VPCs : vpcRow[v] # None /\ vpcRow'[v] # None => vpcRow'[v] = vpcRow[v]]_vars
SubnetRowsNeverReplaced ==
  [][\A vs \in VPCs \X Subnets :
       subnetRow[vs] # None /\ subnetRow'[vs] # None => subnetRow'[vs] = subnetRow[vs]]_vars

\* A reader that holds the read lock finds what the row names: no delete or
\* rollback is seen half done.
ReadersFindResource ==
  \A p \in Procs :
    At(p, "get.csp") \/ (At(p, "list.get") /\ vpcRow[job[p].v] = job[p].row) => job[p].row \in cspVpc

\* The call returned without error, as the REST layer sees it.
Succeeded(p) == At(p, "done") /\ job[p].resp \in {"ok", "nil"}

\* CreateVPC that answers with success has made the VPC and its row.
SuccessMeansCreated ==
  \A p \in Procs :
    Succeeded(p) /\ job[p].op = "CreateVPC" =>
      job[p].made # None /\ vpcRow[job[p].v] = job[p].made /\ job[p].made \in cspVpc

\* An unforced DeleteVPC and an UnregisterVPC that answer true leave no row of
\* the VPC behind ...
DeleteRemovesVPCRow ==
  \A p \in Procs :
    Succeeded(p) /\ ~job[p].force /\ job[p].op \in {"DeleteVPC", "UnregisterVPC"} =>
      vpcRow[job[p].v] = None
\* ... and no row of its subnets.
DeleteRemovesSubnetRows ==
  \A p \in Procs :
    Succeeded(p) /\ ~job[p].force /\ job[p].op \in {"DeleteVPC", "UnregisterVPC"} =>
      \A s \in Subnets : subnetRow[job[p].v, s] = None

\* A connection of a single-VPC cloud has at most one VPC.
AtMostOneVPC == SingleVPC => Cardinality({v \in VPCs : vpcRow[v] # None}) <= 1

\* A rollback of CreateVPC that runs to its end leaves no row of the VPC's
\* subnets.
RollbackRemovesSubnetRows ==
  \A p \in Procs :
    At(p, "done") /\ job[p].op = "CreateVPC" /\ job[p].resp = "nil" =>
      \A s \in Subnets : subnetRow[job[p].v, s] = None

\* Every call is answered: no lock is left locked by an early return.
CallsReturn == \A p \in Procs : At(p, "lock") \/ At(p, "ListVPC") ~> At(p, "idle")
=============================================================================
