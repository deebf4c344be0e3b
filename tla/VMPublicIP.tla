----------------------------- MODULE VMPublicIP -----------------------------
(***************************************************************************)
(* api-runtime/common-runtime/VMPublicIPManager.go: the default public IP  *)
(* of a VM, on one connection.                                             *)
(*                                                                         *)
(* Its calls are sequences of calls of the VM manager and of the public IP *)
(* manager (VMManager.tla, ResourceManagers.tla).  Each of those locks its *)
(* one name and is a step here; nothing is locked from one to the next.    *)
(* VMs have one NIC.  An address that the cloud gave with the VM (native)  *)
(* has no row; those of the public IP manager have a name and a row.       *)
(***************************************************************************)
EXTENDS Naturals

CONSTANTS
  Procs,      \* goroutines serving calls
  VMs,        \* VMs, which have rows
  UserIPs,    \* names of the public IPs that users make
  None,
  Drivers,    \* drivers of this instance, as records like those below
  Faults      \* may calls of the meta DB and of the CSP fail?

\* names: does the list of public IPs give the VM that has one by the VM's name?
\* removes: what RemoveDefaultPublicIP does to the address of a VM, if it is not
\* native: it deletes it, detaches it, or leaves it.
\* OwnedVM of the public IP is the NIC on Azure, nothing on KT and, for a VM's NIC,
\* on IBM; on GCP and NCP it is the VM's name in the cloud, which with ID
\* management is not its name.
Azure == [names |-> FALSE, removes |-> "deletes"]   \* and IBM, KT, NCP
NHN == [names |-> TRUE, removes |-> "deletes"]      \* and OpenStack
AWS == [names |-> TRUE, removes |-> "leaves"]       \* and Alibaba, Tencent
GCP == [names |-> FALSE, removes |-> "detaches"]

VARIABLES
  driver,   \* the driver of the connection
  row,      \* names with a row in PublicIPIIDInfo
  addr,     \* where the address with a name is: "none", "free", or a VM
  native,   \* VMs with a native address
  pc, job

vars == <<driver, row, addr, native, pc, job>>

\* defaultPublicIPName: vmName + "-defaultpip"
Default(m) == <<m, "defaultpip">>
Names == UserIPs \cup {Default(m) : m \in VMs}

NoJob == [op |-> "none", m |-> None, n |-> None]

Init ==
  /\ driver \in Drivers
  /\ row = {} /\ addr = [n \in Names |-> "none"]
  /\ native \in SUBSET VMs
  /\ pc = [p \in Procs |-> "idle"]
  /\ job = [p \in Procs |-> NoJob]

-----------------------------------------------------------------------------
At(p, label) == pc[p] = label
Goto(p, label) == pc' = [pc EXCEPT ![p] = label]
Keep == UNCHANGED <<driver, row, addr, native>>
Over(p) == Goto(p, "idle") /\ job' = [job EXCEPT ![p] = NoJob]
On(p, label) == Goto(p, label) /\ UNCHANGED job

\* vmInfo.PublicIP of GetVM
PublicIP(m) == m \in native \/ (\E n \in Names : addr[n] = m)

\* The calls of the public IP manager: when they can succeed, and what they change.
\* CreatePublicIP of a name that has a row returns what is there.
Create(n) ==
  /\ row' = row \cup {n} /\ addr' = [addr EXCEPT ![n] = IF n \in row THEN @ ELSE "free"]
  /\ UNCHANGED <<driver, native>>
CanCreate(n) == (n \in row) => (addr[n] # "none")

\* The NIC's address, if it has one, is replaced.
Associate(n, m) ==
  /\ addr' = [k \in Names |-> IF k = n THEN m ELSE IF addr[k] = m THEN "free" ELSE addr[k]]
  /\ native' = native \ {m}
  /\ UNCHANGED <<driver, row>>
CanAssociate(n) == n \in row /\ addr[n] = "free"

Disassociate(n) == addr' = [addr EXCEPT ![n] = "free"] /\ UNCHANGED <<driver, row, native>>
CanDisassociate(n) == n \in row /\ addr[n] \in VMs

\* A row whose address is gone is deleted too.
Delete(n) == row' = row \ {n} /\ addr' = [addr EXCEPT ![n] = "none"] /\ UNCHANGED <<driver, native>>
CanDelete(n) == n \in row /\ addr[n] \in {"free", "none"}

\* An error leaves all as it is.
Error(can) == (Faults \/ ~can) /\ Keep

-----------------------------------------------------------------------------
Begin(p) ==
  /\ At(p, "idle") /\ Keep
  /\ \E op \in {"Assign", "Unassign", "Attach", "Detach"}, m \in VMs, n \in UserIPs :
       /\ job' = [job EXCEPT ![p] = [op |-> op, m |-> m, n |-> IF op \in {"Attach", "Detach"} THEN n ELSE Default(m)]]
       /\ Goto(p, op)

\* AssignVMDefaultPublicIP
Assign(p) ==
  LET m == job[p].m  n == job[p].n IN
  \/ At(p, "Assign") /\ Keep /\ (PublicIP(m) \/ Faults) /\ Over(p)
  \/ At(p, "Assign") /\ Keep /\ ~PublicIP(m) /\ On(p, "assign.create")
  \/ At(p, "assign.create") /\ CanCreate(n) /\ Create(n) /\ On(p, "assign.associate")
  \/ At(p, "assign.create") /\ Error(CanCreate(n)) /\ Over(p)
  \/ At(p, "assign.associate") /\ CanAssociate(n) /\ Associate(n, m) /\ Over(p)
  \/ At(p, "assign.associate") /\ Error(CanAssociate(n)) /\ On(p, "assign.undo")
  \* an error of the rollback is only logged
  \/ At(p, "assign.undo") /\ ((CanDelete(n) /\ Delete(n)) \/ Error(CanDelete(n))) /\ Over(p)

\* UnassignVMDefaultPublicIP
Unassign_get(p) ==
  /\ At(p, "Unassign") /\ Keep
  /\ \/ PublicIP(job[p].m) /\ On(p, "unassign.default")
     \/ (~PublicIP(job[p].m) \/ Faults) /\ Over(p)

\* Any error is taken to say that the address is not the default one.
Unassign_default(p) ==
  LET n == job[p].n IN
  \/ At(p, "unassign.default") /\ CanDisassociate(n) /\ Disassociate(n) /\ On(p, "unassign.delete")
  \/ At(p, "unassign.default") /\ Error(CanDisassociate(n)) /\ On(p, "unassign.list")

\* deletePublicIPWithRetry tries again until the time is up.
deletePublicIPWithRetry(p) ==
  LET n == job[p].n IN
  /\ At(p, "unassign.delete")
  /\ \/ CanDelete(n) /\ Delete(n)
     \/ Error(CanDelete(n))
  /\ Over(p)

\* findTrackedPublicIPNameForVM: a public IP that the list shows with this VM is
\* the user's.  An error of the list counts as none.
findTrackedPublicIPNameForVM(p) ==
  LET tracked == driver.names /\ \E n \in row : addr[n] = job[p].m
  IN  /\ At(p, "unassign.list") /\ Keep
      /\ \/ tracked /\ Over(p)
         \/ (~tracked \/ Faults) /\ On(p, "unassign.remove")

\* removeNativeDefaultPublicIP.  A driver that deletes detaches the address first.
removeNativeDefaultPublicIP(p) ==
  LET m == job[p].m IN
  \/ /\ At(p, "unassign.remove") /\ (driver.removes # "deletes" \/ m \in native) /\ Over(p)
     /\ native' = native \ {m}
     /\ addr' = [n \in Names |-> IF addr[n] = m /\ driver.removes = "detaches" THEN "free" ELSE addr[n]]
     /\ UNCHANGED <<driver, row>>
  \/ /\ At(p, "unassign.remove") /\ driver.removes = "deletes"
     /\ \E n \in Names :
          /\ addr[n] = m /\ addr' = [addr EXCEPT ![n] = "free"]
          /\ job' = [job EXCEPT ![p].n = n]
     /\ Goto(p, "unassign.destroy") /\ UNCHANGED <<driver, row, native>>
  \/ At(p, "unassign.remove") /\ Error(PublicIP(m)) /\ Over(p)

\* The address that was detached is deleted, unless somebody attached it by now.
destroyDefaultPublicIP(p) ==
  LET n == job[p].n IN
  /\ At(p, "unassign.destroy") /\ Over(p)
  /\ \/ addr[n] = "free" /\ addr' = [addr EXCEPT ![n] = "none"] /\ UNCHANGED <<driver, row, native>>
     \/ Error(addr[n] = "free")

Unassign(p) == Unassign_get(p) \/ Unassign_default(p) \/ deletePublicIPWithRetry(p)
               \/ findTrackedPublicIPNameForVM(p) \/ removeNativeDefaultPublicIP(p)
               \/ destroyDefaultPublicIP(p)

AttachVMPublicIP(p) ==
  \/ At(p, "Attach") /\ Keep /\ (PublicIP(job[p].m) \/ Faults) /\ Over(p)
  \/ At(p, "Attach") /\ Keep /\ ~PublicIP(job[p].m) /\ On(p, "attach.associate")
  \/ At(p, "attach.associate") /\ CanAssociate(job[p].n) /\ Associate(job[p].n, job[p].m) /\ Over(p)
  \/ At(p, "attach.associate") /\ Error(CanAssociate(job[p].n)) /\ Over(p)

\* The name that is detached need not be on this VM.
DetachVMPublicIP(p) ==
  \/ At(p, "Detach") /\ Keep /\ (~PublicIP(job[p].m) \/ Faults) /\ Over(p)
  \/ At(p, "Detach") /\ Keep /\ PublicIP(job[p].m) /\ On(p, "detach.disassociate")
  \/ At(p, "detach.disassociate") /\ CanDisassociate(job[p].n) /\ Disassociate(job[p].n) /\ Over(p)
  \/ At(p, "detach.disassociate") /\ Error(CanDisassociate(job[p].n)) /\ Over(p)

\* The user makes and deletes public IPs with the public IP manager.
UserCreates(n) == n \notin row /\ Create(n) /\ UNCHANGED <<pc, job>>
UserDeletes(n) == CanDelete(n) /\ Delete(n) /\ UNCHANGED <<pc, job>>

Next ==
  \/ \E p \in Procs : Begin(p) \/ Assign(p) \/ Unassign(p) \/ AttachVMPublicIP(p) \/ DetachVMPublicIP(p)
  \/ \E n \in UserIPs : UserCreates(n) \/ UserDeletes(n)

Spec == Init /\ [][Next]_vars

-----------------------------------------------------------------------------
Labels == {"idle", "Assign", "assign.create", "assign.associate", "assign.undo", "Unassign",
           "unassign.default", "unassign.delete", "unassign.list", "unassign.remove", "unassign.destroy",
           "Attach", "attach.associate", "Detach", "detach.disassociate"}

\* The values of the rows and of the cloud.
Tables ==
  /\ driver \in Drivers
  /\ row \subseteq Names
  /\ addr \in [Names -> {"none", "free"} \cup VMs]
  /\ native \subseteq VMs

\* Where the calls are, with their arguments.
Calls ==
  /\ pc \in [Procs -> Labels]
  /\ job \in [Procs -> [op : {"none", "Assign", "Unassign", "Attach", "Detach"},
                        m : VMs \cup {None}, n : Names \cup {None}]]
  /\ \A p \in Procs : pc[p] # "idle" => job[p].m \in VMs /\ job[p].n \in Names

TypeOK == Tables /\ Calls

\* A public IP that a user made is there until the user deletes it:
\* UnassignVMDefaultPublicIP is "to avoid ever silently deleting a resource the
\* user owns".
UserIPKept == \A n \in UserIPs \cap row : addr[n] # "none"
=============================================================================
