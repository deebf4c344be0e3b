-------------------------- MODULE VPCManagerProofs --------------------------
(***************************************************************************)
(* The VPC manager, for any number of goroutines, names and ids.           *)
(*                                                                         *)
(* Whatever calls are made, whatever fails and whenever the server         *)
(* restarts: the types, that a VPC's row is never replaced, and that a     *)
(* delete that succeeds has removed it.  Both properties rest on what a    *)
(* goroutine knows of its VPC's row from the lock it holds (Knows): that   *)
(* the name is free, from the check until the insert, and from the delete  *)
(* until the answer.  All five steps that write a VPC's row are between    *)
(* TakeLock and Return of a call that holds the VPC's name for writing     *)
(* (Holds), and no two do (Exclusive).                                     *)
(*                                                                         *)
(* The other properties are false of this code without a hypothesis on its *)
(* use, and each is proved under the weakest that suffices of three, each  *)
(* of which includes the one before:                                       *)
(*                                                                         *)
(* NoRegisterSubnet: no call RegisterSubnet, which writes a VPC's subnets  *)
(*   under the lock of the subnet's name.  A delete or a rollback that     *)
(*   answers with success leaves no row of a subnet (SubnetsKnown), with   *)
(*   database failures and restarts.                                       *)
(*                                                                         *)
(* Undisturbed: nor do database operations fail or the server stop.  No    *)
(*   row of a subnet is without its VPC's or is replaced (RowsKnown), and  *)
(*   nothing that Spider made is forgotten (CloudKnown).                   *)
(*                                                                         *)
(* OnlyByName: nor are resources registered or deleted by their CSP ids,   *)
(*   and the driver does what it says.  What the rows name exists, also    *)
(*   for a reader in the middle of other calls (Existence).                *)
(***************************************************************************)
EXTENDS VPCManager, TLAPS

Responses == {"none", "ok", "nil", "error", "false"}
SubnetTodo == SUBSET (Subnets \X SIds)
VPCTodo == SUBSET (VPCs \X VIds)

Jobs == [op : AllOps \cup {"none"}, v : VPCs \cup {None}, s : Subnets \cup {None},
         id : VIds \cup SIds \cup {None}, force : BOOLEAN, row : VIds \cup {None},
         sub : SIds \cup {None}, made : VIds \cup SIds \cup {None},
         todo : SubnetTodo \cup VPCTodo, resp : Responses]

\* Where the call has found the name free; where it has deleted the row.
FreePcs == {"create.single", "create.csp", "create.vpcrow", "register.csp", "register.vpcrow"}
DeletedPcs == {"delete.subnetrows", "unregister.subnetrows"}

\* Where a call holds the lock of its VPC's name for writing.
CreatePcs == {"CreateVPC", "create.single", "create.csp", "create.vpcrow", "create.undo", "create.subnetrow",
              "create.rollback1", "create.rollback2", "create.rollback3"}
RegisterPcs == {"RegisterVPC", "register.csp", "register.vpcrow", "register.subnetrow"}
DeletePcs == {"DeleteVPC", "delete.kt", "delete.csp", "delete.vpcrow", "delete.subnetrows"}
UnregisterPcs == {"UnregisterVPC", "unregister.vpcrow", "unregister.subnetrows"}
WritePcs == CreatePcs \cup RegisterPcs \cup DeletePcs \cup UnregisterPcs

\* The steps about a subnet.
RegisterSubnetPcs == {"RegisterSubnet", "regsub.vpcrow", "regsub.csp", "regsub.insert"}
UnregisterSubnetPcs == {"UnregisterSubnet", "unregsub.delete"}
AddPcs == {"AddSubnet", "add.vpcrow", "add.csp", "add.insert", "add.readback", "add.rollback1", "add.rollback2"}
RemovePcs == {"RemoveSubnet", "remove.vpcrow", "remove.csp", "remove.delete"}
RemoveCSPPcs == {"RemoveCSPSubnet", "removecsp.csp"}
ListPcs == {"ListVPC", "list.next", "list.get"}

\* Each step l belongs to one call, and the call j has the arguments and the results
\* of earlier steps that the step uses.
Fits(l, j) ==
  /\ l \in CreatePcs => j.op = "CreateVPC"
  /\ l \in RegisterPcs => j.op = "RegisterVPC" /\ j.id \in VIds
  /\ l \in DeletePcs => j.op = "DeleteVPC"
  /\ l \in UnregisterPcs => j.op = "UnregisterVPC"
  /\ l \in RegisterSubnetPcs => j.op = "RegisterSubnet" /\ j.id \in SIds
  /\ l \in UnregisterSubnetPcs => j.op = "UnregisterSubnet"
  /\ l \in AddPcs => j.op = "AddSubnet"
  /\ l \in RemovePcs => j.op = "RemoveSubnet"
  /\ l \in RemoveCSPPcs => j.op = "RemoveCSPSubnet" /\ j.id \in SIds
  /\ l = "DeleteCSPVPC" => j.op = "DeleteCSPVPC" /\ j.id \in VIds
  /\ l \in {"GetVPC", "get.csp"} => j.op = "GetVPC"
  /\ l \in ListPcs => j.op = "ListVPC"
  /\ l = "lock" => /\ j.op \in Ops \ Lockless
                   /\ j.op = "RegisterVPC" => j.id \in VIds
                   /\ j.op = "RegisterSubnet" => j.id \in SIds
  /\ l # "idle" => j.v \in VPCs
  /\ j.op \in {"AddSubnet", "RemoveSubnet", "RegisterSubnet", "UnregisterSubnet"} => j.s \in Subnets
  /\ l \in {"create.vpcrow", "create.undo", "create.subnetrow", "create.rollback1"} => j.made \in VIds
  /\ l \in {"create.vpcrow", "create.subnetrow", "register.vpcrow", "register.subnetrow"} => j.todo \in SubnetTodo
  /\ l \in {"list.next", "list.get"} => j.todo \in VPCTodo
  /\ l \in {"add.insert", "add.rollback1"} => j.made \in SIds
  /\ l \in {"remove.vpcrow", "remove.csp"} => j.sub \in SIds
  /\ l \in WithRow => j.row \in VIds

\* The call has deleted its VPC's row, and will answer or has answered true.
HasDeleted(l, j) ==
  /\ ~j.force
  /\ \/ l \in DeletedPcs
     \/ l = "done" /\ j.op \in {"DeleteVPC", "UnregisterVPC"} /\ j.resp \in {"ok", "nil"}

\* What is held and known at a step.
Holds(l, j, g) == l \in WritePcs \/ HasDeleted(l, j) => g = <<j.v, "W">>
Knows(l, j, rows) == l \in FreePcs \/ HasDeleted(l, j) => rows[j.v] = None

Exclusive ==
  \A p, q \in Procs :
    p # q /\ grant[p] # None /\ grant[q] # None => ~Lock!Conflict(grant[p], grant[q])

Places ==
  \A p \in Procs :
    Fits(pc[p], job[p]) /\ Holds(pc[p], job[p], grant[p]) /\ Knows(pc[p], job[p], vpcRow)

IInv == TypeOK /\ job \in [Procs -> Jobs] /\ Exclusive /\ Places

-----------------------------------------------------------------------------
(* Steps of a goroutine p.                                                 *)

USE DEF FreePcs, DeletedPcs, WritePcs, CreatePcs, RegisterPcs, DeletePcs, UnregisterPcs,
        RegisterSubnetPcs, UnregisterSubnetPcs, AddPcs, RemovePcs, RemoveCSPPcs, ListPcs, WithRow

\* The tables but that of the VPCs, and the cloud.
RestTyped ==
  /\ subnetRow \in [VPCs \X Subnets -> SIds \cup {None}]
  /\ cspVpc \subseteq VIds /\ cspSubnet \in [SIds -> cspVpc \cup {None}]
  /\ unmanaged \subseteq cspVpc \cup SIds

\* Only the row of p's VPC changes, under its write lock.
OwnRow(p) ==
  \/ vpcRow' = vpcRow
  \/ /\ grant[p] = <<job[p].v, "W">> /\ job[p].v \in VPCs
     /\ \E r \in VIds \cup {None} : vpcRow' = [vpcRow EXCEPT ![job[p].v] = r]

\* The initial state satisfies the inductive invariant.
LEMMA InitIInv == Init => IInv
<1> SUFFICES ASSUME Init PROVE IInv
  OBVIOUS
<1>1. NoJob \in Jobs /\ NoJob.op = "none"
  BY DEF NoJob, Jobs, SubnetTodo, VPCTodo, Responses
<1>2. TypeOK
  BY VPCAssumption DEF Init, TypeOK, Labels
<1>3. job \in [Procs -> Jobs] /\ Exclusive
  BY <1>1 DEF Init, Exclusive
<1>4. Places
  BY <1>1 DEF Init, Places, Fits, Holds, Knows, HasDeleted
<1> QED
  BY <1>2, <1>3, <1>4 DEF IInv

\* What the others know is about other rows, or nobody else may write theirs.
LEMMA OthersKnow ==
  ASSUME IInv, NEW p \in Procs, OwnRow(p), NEW q \in Procs, q # p
  PROVE  Knows(pc[q], job[q], vpcRow')
<1>1. Fits(pc[q], job[q]) /\ Holds(pc[q], job[q], grant[q]) /\ Knows(pc[q], job[q], vpcRow)
  BY DEF IInv, Places
<1>2. SUFFICES ASSUME pc[q] \in FreePcs \/ HasDeleted(pc[q], job[q]) PROVE vpcRow'[job[q].v] = None
  BY DEF Knows
<1>3. grant[q] = <<job[q].v, "W">> /\ job[q].v \in VPCs /\ vpcRow[job[q].v] = None
  BY <1>1, <1>2 DEF Holds, Knows, Fits, HasDeleted
<1>4. CASE vpcRow' = vpcRow
  BY <1>3, <1>4
<1>5. CASE /\ grant[p] = <<job[p].v, "W">> /\ job[p].v \in VPCs
           /\ \E r \in VIds \cup {None} : vpcRow' = [vpcRow EXCEPT ![job[p].v] = r]
  <2>1. grant[p] # None /\ grant[q] # None
    BY <1>3, <1>5, VPCAssumption
  <2>2. ~Lock!Conflict(grant[p], grant[q])
    BY <2>1 DEF IInv, Exclusive
  <2>3. job[q].v # job[p].v
    BY <1>3, <1>5, <2>2 DEF Lock!Conflict
  <2> QED
    BY <1>3, <1>5, <2>3 DEF IInv, TypeOK
<1> QED
  BY <1>4, <1>5 DEF OwnRow

\* A step of p to l, with which its call becomes j and its lock g.
LEMMA LockStepKeeps ==
  ASSUME IInv, NEW p \in Procs, NEW l \in Labels \cup Ops, NEW j \in Jobs,
         NEW g \in ((VPCs \cup Subnets) \X {"R", "W"}) \cup {None},
         pc' = [pc EXCEPT ![p] = l], job' = [job EXCEPT ![p] = j], grant' = [grant EXCEPT ![p] = g],
         \A q \in Procs : g # None /\ q # p /\ grant[q] # None => ~Lock!Conflict(grant[q], g),
         OwnRow(p), RestTyped', Fits(l, j), Holds(l, j, g), Knows(l, j, vpcRow')
  PROVE  IInv'
<1>1. TypeOK /\ job \in [Procs -> Jobs] /\ Exclusive
  BY DEF IInv
<1>2. /\ pc'[p] = l /\ job'[p] = j /\ grant'[p] = g
      /\ \A q \in Procs \ {p} : pc'[q] = pc[q] /\ job'[q] = job[q] /\ grant'[q] = grant[q]
  BY <1>1 DEF TypeOK
<1>3. /\ pc' \in [Procs -> Labels \cup Ops] /\ job' \in [Procs -> Jobs]
      /\ grant' \in [Procs -> ((VPCs \cup Subnets) \X {"R", "W"}) \cup {None}]
  BY <1>1 DEF TypeOK
<1>4. vpcRow' \in [VPCs -> VIds \cup {None}]
  BY <1>1 DEF OwnRow, TypeOK
<1>5. Exclusive'
  BY <1>1, <1>2 DEF Exclusive, Lock!Conflict
<1>6. ASSUME NEW q \in Procs, q # p
      PROVE  Fits(pc'[q], job'[q]) /\ Holds(pc'[q], job'[q], grant'[q]) /\ Knows(pc'[q], job'[q], vpcRow')
  <2>1. Fits(pc[q], job[q]) /\ Holds(pc[q], job[q], grant[q]) /\ Knows(pc[q], job[q], vpcRow')
    BY <1>6, OthersKnow DEF IInv, Places
  <2>2. pc'[q] = pc[q] /\ job'[q] = job[q] /\ grant'[q] = grant[q]
    BY <1>2, <1>6
  <2> QED
    BY <2>1, <2>2
<1>7. Places'
  BY <1>2, <1>6 DEF Places
<1>8. TypeOK'
  <2>1. \A q \in Procs : pc'[q] \in WithRow => job'[q].row \in VIds
    BY <1>2, <1>6 DEF Fits
  <2> QED
    BY <1>3, <1>4, <2>1 DEF TypeOK, RestTyped
<1> QED
  BY <1>3, <1>5, <1>7, <1>8 DEF IInv

\* The same when the lock is kept.
LEMMA StepKeeps ==
  ASSUME IInv, NEW p \in Procs, NEW l \in Labels \cup Ops, NEW j \in Jobs,
         pc' = [pc EXCEPT ![p] = l], job' = [job EXCEPT ![p] = j], UNCHANGED grant,
         OwnRow(p), RestTyped', Fits(l, j), Holds(l, j, grant[p]), Knows(l, j, vpcRow')
  PROVE  IInv'
<1>1. TypeOK /\ Exclusive
  BY DEF IInv
<1>2. /\ grant[p] \in ((VPCs \cup Subnets) \X {"R", "W"}) \cup {None}
      /\ grant' = [grant EXCEPT ![p] = grant[p]]
  BY <1>1 DEF TypeOK
<1>3. \A q \in Procs : grant[p] # None /\ q # p /\ grant[q] # None => ~Lock!Conflict(grant[q], grant[p])
  BY <1>1 DEF Exclusive
<1> QED
  BY <1>2, <1>3, LockStepKeeps

\* The call is answered.
LEMMA AnswerKeeps ==
  ASSUME IInv, NEW p \in Procs, NEW r \in Responses, Answer(p, r), pc[p] # "idle",
         UNCHANGED grant, OwnRow(p), RestTyped',
         job[p].op \in {"DeleteVPC", "UnregisterVPC"} /\ r \in {"ok", "nil"} /\ ~job[p].force =>
           vpcRow'[job[p].v] = None /\ grant[p] = <<job[p].v, "W">>
  PROVE  IInv'
<1> DEFINE j == [job[p] EXCEPT !.resp = r]
<1>1. job[p] \in Jobs /\ job \in [Procs -> Jobs] /\ Fits(pc[p], job[p])
  BY DEF IInv, Places
<1>2. /\ j \in Jobs /\ j.resp = r /\ j.op = job[p].op /\ j.v = job[p].v /\ j.s = job[p].s
      /\ j.force = job[p].force
  BY <1>1 DEF Jobs
<1>3. pc' = [pc EXCEPT ![p] = "done"] /\ job' = [job EXCEPT ![p] = j]
  BY <1>1 DEF Answer, Goto
<1> HIDE DEF j
<1>4. "done" \in Labels \cup Ops /\ Fits("done", j)
  BY <1>1, <1>2 DEF Fits, Labels
<1>5. Holds("done", j, grant[p]) /\ Knows("done", j, vpcRow')
  BY <1>2 DEF Holds, Knows, HasDeleted
<1> QED
  BY <1>2, <1>3, <1>4, <1>5, StepKeeps

-----------------------------------------------------------------------------
(* What steps do to the cloud and to the table of subnets.                 *)

\* A step that only reads, or changes one of the tables, keeps the types of the rest.
LEMMA RestKept ==
  ASSUME TypeOK
  PROVE  /\ Reads => RestTyped'
         /\ UNCHANGED cloud /\ subnetRow' \in [VPCs \X Subnets -> SIds \cup {None}] => RestTyped'
BY DEF TypeOK, RestTyped, Reads, db, cloud

\* A VPC's deletion in the CSP, whatever comes of it.
LEMMA VPCGoes ==
  ASSUME TypeOK, NEW vid \in VIds, UNCHANGED subnetRow,
         RemoveVpcFromCsp(vid) \/ \E known \in BOOLEAN : LeaveVpcInCsp(vid, known)
  PROVE  RestTyped'
<1>1. SubnetsOf(vid) \subseteq SIds
  BY DEF SubnetsOf
<1>2. CASE RemoveVpcFromCsp(vid)
  <2>1. cspVpc' \subseteq VIds /\ cspSubnet' \in [SIds -> cspVpc' \cup {None}]
    BY <1>2 DEF RemoveVpcFromCsp, TypeOK
  <2>2. unmanaged' \subseteq cspVpc' \cup SIds
    BY <1>2 DEF RemoveVpcFromCsp, TypeOK
  <2> QED
    BY <2>1, <2>2 DEF RestTyped, TypeOK
<1>3. CASE \E known \in BOOLEAN : LeaveVpcInCsp(vid, known)
  BY <1>1, <1>3 DEF LeaveVpcInCsp, RestTyped, TypeOK
<1> QED
  BY <1>2, <1>3

\* A subnet's deletion in the CSP.
LEMMA SubnetGoes ==
  ASSUME TypeOK, NEW sid \in SIds, UNCHANGED subnetRow,
         RemoveSubnetFromCsp(sid) \/ \E known \in BOOLEAN : LeaveSubnetInCsp(sid, known)
  PROVE  RestTyped'
BY DEF RemoveSubnetFromCsp, LeaveSubnetInCsp, RestTyped, TypeOK

\* The rows of a VPC's subnets are inserted or deleted.
LEMMA SubnetRowsTyped ==
  ASSUME TypeOK
  PROVE  /\ \A k \in VPCs \X Subnets, r \in SIds \cup {None} :
              [subnetRow EXCEPT ![k] = r] \in [VPCs \X Subnets -> SIds \cup {None}]
         /\ \A v : [vs \in VPCs \X Subnets |-> IF vs[1] = v THEN None ELSE subnetRow[vs]]
                     \in [VPCs \X Subnets -> SIds \cup {None}]
         /\ subnetRow \in [VPCs \X Subnets -> SIds \cup {None}]
BY DEF TypeOK

\* What is known where a goroutine is.
LEMMA Here ==
  ASSUME IInv, NEW p \in Procs
  PROVE  /\ TypeOK /\ job[p] \in Jobs /\ job \in [Procs -> Jobs] /\ Fits(pc[p], job[p])
         /\ Holds(pc[p], job[p], grant[p]) /\ Knows(pc[p], job[p], vpcRow)
BY DEF IInv, Places

\* A call goes on to l as it is.
LEMMA GotoKeeps ==
  ASSUME IInv, NEW p \in Procs, NEW l \in Labels, Goto(p, l), UNCHANGED <<job, grant>>,
         OwnRow(p), RestTyped', Fits(l, job[p]), Holds(l, job[p], grant[p]), Knows(l, job[p], vpcRow')
  PROVE  IInv'
<1>1. job[p] \in Jobs /\ job' = [job EXCEPT ![p] = job[p]] /\ pc' = [pc EXCEPT ![p] = l]
  BY Here DEF Goto
<1> QED
  BY <1>1, StepKeeps

\* An answer after a read.
LEMMA ReadAnswer ==
  ASSUME IInv, NEW p \in Procs, NEW r \in Responses, Answer(p, r), Reads, pc[p] # "idle",
         r = "error" \/ job[p].op \notin {"DeleteVPC", "UnregisterVPC"}
  PROVE  IInv'
<1>1. UNCHANGED grant /\ OwnRow(p) /\ RestTyped'
  BY Here, RestKept DEF Reads, db, OwnRow
<1> QED
  BY <1>1, AnswerKeeps

\* A call goes on to l after a read that found the id of a row.
LEMMA ReadRow ==
  ASSUME IInv, NEW p \in Procs, NEW l \in Labels, Goto(p, l), Reads, vpcRow[job[p].v] # None,
         job' = [job EXCEPT ![p].row = vpcRow[job[p].v]],
         \/ pc[p] = "regsub.vpcrow" /\ l = "regsub.csp"
         \/ pc[p] = "add.vpcrow" /\ l = "add.csp"
         \/ pc[p] = "remove.vpcrow" /\ l = "remove.csp"
         \/ pc[p] = "RemoveCSPSubnet" /\ l = "removecsp.csp"
         \/ pc[p] = "DeleteVPC" /\ l \in {"delete.kt", "delete.csp"}
         \/ pc[p] = "GetVPC" /\ l = "get.csp"
  PROVE  IInv'
<1>1. job[p] \in Jobs /\ Fits(pc[p], job[p]) /\ Holds(pc[p], job[p], grant[p])
  BY Here
<1>2. vpcRow[job[p].v] \in VIds
  BY <1>1, Here DEF Fits, TypeOK
<1> DEFINE j == [job[p] EXCEPT !.row = vpcRow[job[p].v]]
<1>3. /\ j \in Jobs /\ j.row \in VIds /\ j.op = job[p].op /\ j.v = job[p].v /\ j.s = job[p].s
      /\ j.id = job[p].id /\ j.sub = job[p].sub
  BY <1>1, <1>2 DEF Jobs
<1>4. job' = [job EXCEPT ![p] = j] /\ pc' = [pc EXCEPT ![p] = l]
  BY Here DEF Goto
<1> HIDE DEF j
<1>5. Fits(l, j)
  BY <1>1, <1>3 DEF Fits
<1>6. Holds(l, j, grant[p]) /\ Knows(l, j, vpcRow')
  BY <1>1, <1>3 DEF Holds, Knows, HasDeleted
<1>7. UNCHANGED grant /\ OwnRow(p) /\ RestTyped'
  BY Here, RestKept DEF Reads, db, OwnRow
<1> QED
  BY <1>3, <1>4, <1>5, <1>6, <1>7, StepKeeps

\* A call goes on to l after a check that it passed.
LEMMA Checked ==
  ASSUME IInv, NEW p \in Procs, NEW l \in Labels, Goto(p, l), Reads, UNCHANGED job,
         \/ pc[p] = "CreateVPC" /\ l \in {"create.single", "create.csp"} /\ vpcRow[job[p].v] = None
         \/ pc[p] = "create.single" /\ l = "create.csp"
         \/ pc[p] = "RegisterVPC" /\ l = "register.csp" /\ vpcRow[job[p].v] = None
         \/ pc[p] = "RegisterSubnet" /\ l = "regsub.vpcrow"
         \/ pc[p] = "regsub.csp" /\ l = "regsub.insert"
         \/ pc[p] = "UnregisterSubnet" /\ l = "unregsub.delete"
         \/ pc[p] = "AddSubnet" /\ l = "add.vpcrow"
         \/ pc[p] = "UnregisterVPC" /\ l = "unregister.vpcrow"
  PROVE  IInv'
<1>1. job[p] \in Jobs /\ Fits(pc[p], job[p]) /\ Holds(pc[p], job[p], grant[p]) /\ Knows(pc[p], job[p], vpcRow)
  BY Here
<1>2. Fits(l, job[p])
  BY <1>1 DEF Fits
<1>3. UNCHANGED <<job, grant>> /\ OwnRow(p) /\ RestTyped' /\ vpcRow' = vpcRow
  BY Here, RestKept DEF Reads, db, OwnRow
<1>4. Holds(l, job[p], grant[p]) /\ Knows(l, job[p], vpcRow')
  BY <1>1, <1>3 DEF Holds, Knows, HasDeleted
<1> QED
  BY <1>2, <1>3, <1>4, GotoKeeps

-----------------------------------------------------------------------------
(* CreateVPC and RegisterVPC.                                              *)

\* The rows of the subnets are inserted one by one.
LEMMA InsertSubnet ==
  ASSUME IInv, NEW p \in Procs, pc[p] \in {"create.subnetrow", "register.subnetrow"},
         NEW t \in job[p].todo, subnetRow' = [subnetRow EXCEPT ![<<job[p].v, t[1]>>] = t[2]],
         job' = [job EXCEPT ![p].todo = @ \ {t}], UNCHANGED <<cloud, grant, vpcRow, pc>>
  PROVE  IInv'
<1>1. job[p] \in Jobs /\ Fits(pc[p], job[p]) /\ Holds(pc[p], job[p], grant[p])
  BY Here
<1>2. job[p].v \in VPCs /\ job[p].todo \in SubnetTodo /\ t \in Subnets \X SIds
  BY <1>1 DEF Fits, SubnetTodo
<1>3. <<job[p].v, t[1]>> \in VPCs \X Subnets /\ t[2] \in SIds
  BY <1>2
<1>4. RestTyped'
  BY <1>3, Here, SubnetRowsTyped, RestKept
<1> DEFINE j == [job[p] EXCEPT !.todo = @ \ {t}]
<1>5. /\ j \in Jobs /\ j.op = job[p].op /\ j.v = job[p].v /\ j.s = job[p].s /\ j.id = job[p].id
      /\ j.made = job[p].made /\ j.todo \in SubnetTodo
  BY <1>1, <1>2 DEF Jobs, SubnetTodo
<1>6. job' = [job EXCEPT ![p] = j] /\ pc' = [pc EXCEPT ![p] = pc[p]]
  BY Here DEF TypeOK
<1> HIDE DEF j
<1>7. Fits(pc[p], j) /\ Holds(pc[p], j, grant[p]) /\ Knows(pc[p], j, vpcRow')
  BY <1>1, <1>5 DEF Fits, Holds, Knows, HasDeleted
<1>8. pc[p] \in Labels /\ OwnRow(p)
  BY DEF Labels, OwnRow
<1> QED
  BY <1>4, <1>5, <1>6, <1>7, <1>8, StepKeeps

\* The row of the VPC is inserted, under its lock.
LEMMA InsertVPC ==
  ASSUME IInv, NEW p \in Procs, NEW r \in VIds, vpcRow' = [vpcRow EXCEPT ![job[p].v] = r],
         UNCHANGED <<subnetRow, cloud, grant, job>>,
         \/ pc[p] = "create.vpcrow" /\ Goto(p, "create.subnetrow")
         \/ pc[p] = "register.vpcrow" /\ Goto(p, "register.subnetrow")
  PROVE  IInv'
<1>1. Fits(pc[p], job[p]) /\ Holds(pc[p], job[p], grant[p])
  BY Here
<1>2. OwnRow(p) /\ RestTyped'
  BY <1>1, Here, RestKept DEF OwnRow, Holds, Fits, RestTyped, TypeOK
<1>3. PICK l \in {"create.subnetrow", "register.subnetrow"} :
        Goto(p, l) /\ Fits(l, job[p]) /\ Holds(l, job[p], grant[p]) /\ Knows(l, job[p], vpcRow')
  BY <1>1 DEF Fits, Holds, Knows, HasDeleted
<1> QED
  BY <1>2, <1>3, GotoKeeps DEF Labels

LEMMA CreateStep ==
  ASSUME IInv, NEW p \in Procs, CreateVPC(p)
  PROVE  IInv'
<1>1. /\ TypeOK /\ job[p] \in Jobs /\ job \in [Procs -> Jobs] /\ Fits(pc[p], job[p])
      /\ Holds(pc[p], job[p], grant[p]) /\ Knows(pc[p], job[p], vpcRow)
  BY Here
<1>2. pc[p] \in CreatePcs /\ job[p].op = "CreateVPC" /\ job[p].v \in VPCs /\ grant[p] = <<job[p].v, "W">>
  BY <1>1 DEF Fits, Holds, CreateVPC, CreateVPC_exists, CreateVPC_single, CreateVPC_csp, CreateVPC_insertVPC, CreateVPC_undo,
     CreateVPC_insertSubnet, CreateVPC_rollbackCSP, CreateVPC_rollbackVPC, CreateVPC_rollbackSubnets, At
<1>3. ASSUME NEW r \in Responses, Answer(p, r), UNCHANGED grant, OwnRow(p), RestTyped' PROVE IInv'
  BY <1>2, <1>3, AnswerKeeps
<1>4. CASE CreateVPC_exists(p) \/ CreateVPC_single(p)
  <2>1. CASE Answer(p, "error") /\ Reads
    BY <1>2, <2>1, ReadAnswer DEF Responses
  <2>2. CASE CreateVPC_exists(p) /\ ~Answer(p, "error")
    BY <2>2, Checked DEF CreateVPC_exists, DBError, Labels, At
  <2>3. CASE CreateVPC_single(p) /\ ~Answer(p, "error")
    BY <2>3, Checked DEF CreateVPC_single, DBError, Labels, At
  <2> QED
    BY <1>4, <2>1, <2>2, <2>3 DEF CreateVPC_exists, CreateVPC_single
<1>5. CASE CreateVPC_csp(p)
  <2>1. CASE Answer(p, "error") /\ Reads
    BY <1>2, <2>1, ReadAnswer DEF Responses
  <2>2. ASSUME NEW vid \in VIds, NEW names \in SUBSET Subnets, NEW ids \in [names -> SIds],
               cspVpc' = cspVpc \cup {vid},
               cspSubnet' = [sid \in SIds |-> IF \E s \in names : ids[s] = sid THEN vid ELSE cspSubnet[sid]],
               job' = [job EXCEPT ![p].made = vid, ![p].todo = {<<s, ids[s]>> : s \in names}],
               Goto(p, "create.vpcrow"), UNCHANGED <<db, unmanaged, grant>>
        PROVE  IInv'
    <3> DEFINE todo == {<<s, ids[s]>> : s \in names}
               j == [job[p] EXCEPT !.made = vid, !.todo = todo]
    <3>1. todo \in SubnetTodo
      BY <2>2 DEF SubnetTodo
    <3>2. job' = [job EXCEPT ![p] = j]
      BY <1>1, <2>2
    <3> HIDE DEF todo
    <3>3. j \in Jobs /\ j.op = job[p].op /\ j.v = job[p].v /\ j.s = job[p].s /\ j.made = vid /\ j.todo = todo
      BY <1>1, <3>1 DEF Jobs
    <3> HIDE DEF j
    <3>4. cspSubnet' \in [SIds -> cspVpc' \cup {None}]
      BY <1>1, <2>2 DEF TypeOK
    <3>5. RestTyped'
      BY <1>1, <2>2, <3>4 DEF TypeOK, RestTyped, db
    <3>6. pc[p] = "create.csp"
      BY <1>5 DEF CreateVPC_csp, At
    <3>7. Fits("create.vpcrow", j) /\ Holds("create.vpcrow", j, grant[p])
      BY <1>1, <1>2, <3>1, <3>3 DEF Fits, Holds
    <3>8. Knows("create.vpcrow", j, vpcRow')
      BY <1>1, <2>2, <3>3, <3>6 DEF Knows, db
    <3>9. pc' = [pc EXCEPT ![p] = "create.vpcrow"] /\ "create.vpcrow" \in Labels \cup Ops /\ OwnRow(p) /\ UNCHANGED grant
      BY <2>2 DEF Goto, Labels, OwnRow, db
    <3> QED
      BY <3>2, <3>3, <3>5, <3>7, <3>8, <3>9, StepKeeps
  <2>3. CASE ~(Answer(p, "error") /\ Reads)
    <3>1. PICK vid \in VIds, names \in SUBSET Subnets : \E ids \in [names -> SIds] :
               /\ FreshV(vid)
               /\ \A s \in names : FreshS(ids[s])
               /\ \A s, t \in names : ids[s] = ids[t] => s = t
               /\ cspVpc' = cspVpc \cup {vid}
               /\ cspSubnet' = [sid \in SIds |-> IF \E s \in names : ids[s] = sid
                                                 THEN vid ELSE cspSubnet[sid]]
               /\ job' = [job EXCEPT ![p].made = vid, ![p].todo = {<<s, ids[s]>> : s \in names}]
               /\ Goto(p, "create.vpcrow")
               /\ UNCHANGED <<db, unmanaged, grant>>
      BY <1>5, <2>3, Zenon DEF CreateVPC_csp, Reads
    <3>2. PICK ids \in [names -> SIds] :
               /\ cspVpc' = cspVpc \cup {vid}
               /\ cspSubnet' = [sid \in SIds |-> IF \E s \in names : ids[s] = sid
                                                 THEN vid ELSE cspSubnet[sid]]
               /\ job' = [job EXCEPT ![p].made = vid, ![p].todo = {<<s, ids[s]>> : s \in names}]
               /\ Goto(p, "create.vpcrow")
               /\ UNCHANGED <<db, unmanaged, grant>>
      BY <3>1, Zenon
    <3> QED
      BY <2>2, <3>2
  <2> QED
    BY <2>1, <2>3
<1>6. CASE CreateVPC_insertVPC(p)
  <2>1. pc[p] = "create.vpcrow" /\ job[p].made \in VIds /\ UNCHANGED <<cloud, grant, job>>
    BY <1>1, <1>6 DEF CreateVPC_insertVPC, At, Fits
  <2>2. CASE vpcRow' = [vpcRow EXCEPT ![job[p].v] = job[p].made] /\ Goto(p, "create.subnetrow") /\ UNCHANGED subnetRow
    BY <2>1, <2>2, InsertVPC
  <2>3. CASE Goto(p, "create.undo") /\ UNCHANGED db
    <3>1. RestTyped' /\ OwnRow(p)
      BY <1>1, <2>1, <2>3, RestKept DEF OwnRow, db, TypeOK
    <3>2. Fits("create.undo", job[p]) /\ Holds("create.undo", job[p], grant[p]) /\ Knows("create.undo", job[p], vpcRow')
      BY <1>1, <1>2, <2>1 DEF Fits, Holds, Knows, HasDeleted
    <3> QED
      BY <2>1, <2>3, <3>1, <3>2, GotoKeeps DEF Labels
  <2> QED
    BY <1>6, <2>2, <2>3 DEF CreateVPC_insertVPC
<1>7. CASE CreateVPC_undo(p) \/ CreateVPC_rollbackCSP(p)
  <2>1. job[p].made \in VIds /\ UNCHANGED <<db, grant>>
    BY <1>1, <1>7 DEF CreateVPC_undo, CreateVPC_rollbackCSP, At, Fits
  <2>2. RemoveVpcFromCsp(job[p].made) \/ \E known \in BOOLEAN : LeaveVpcInCsp(job[p].made, known)
    BY <1>7 DEF CreateVPC_undo, CreateVPC_rollbackCSP
  <2>3. RestTyped' /\ OwnRow(p)
    BY <1>1, <2>1, <2>2, VPCGoes DEF OwnRow, db
  <2>4. CASE Answer(p, "error")
    BY <1>3, <2>1, <2>3, <2>4 DEF Responses
  <2>5. CASE pc[p] = "create.rollback1" /\ Goto(p, "create.rollback2") /\ UNCHANGED job
    <3>1. Fits("create.rollback2", job[p]) /\ Holds("create.rollback2", job[p], grant[p])
          /\ Knows("create.rollback2", job[p], vpcRow')
      BY <1>1, <1>2 DEF Fits, Holds, Knows, HasDeleted
    <3> QED
      BY <2>1, <2>3, <2>5, <3>1, GotoKeeps DEF Labels
  <2> QED
    BY <1>7, <2>4, <2>5 DEF CreateVPC_undo, CreateVPC_rollbackCSP, At
<1>8. CASE CreateVPC_insertSubnet(p)
  <2>1. pc[p] = "create.subnetrow" /\ UNCHANGED <<cloud, grant, vpcRow>>
    BY <1>8 DEF CreateVPC_insertSubnet, At
  <2>2. CASE Answer(p, "ok") /\ UNCHANGED subnetRow
    BY <1>1, <1>3, <2>1, <2>2, RestKept DEF OwnRow, Responses, TypeOK
  <2>3. CASE \E t \in job[p].todo : /\ subnetRow' = [subnetRow EXCEPT ![<<job[p].v, t[1]>>] = t[2]]
                                    /\ job' = [job EXCEPT ![p].todo = @ \ {t}]
                                    /\ UNCHANGED pc
    BY <2>1, <2>3, InsertSubnet
  <2>4. CASE Goto(p, "create.rollback1") /\ UNCHANGED <<subnetRow, job>>
    <3>1. Fits("create.rollback1", job[p]) /\ Holds("create.rollback1", job[p], grant[p])
          /\ Knows("create.rollback1", job[p], vpcRow')
      BY <1>1, <1>2, <2>1 DEF Fits, Holds, Knows, HasDeleted
    <3>2. RestTyped' /\ OwnRow(p)
      BY <1>1, <2>1, <2>4, RestKept DEF OwnRow, TypeOK
    <3> QED
      BY <2>1, <2>4, <3>1, <3>2, GotoKeeps DEF Labels
  <2> QED
    BY <1>8, <2>2, <2>3, <2>4 DEF CreateVPC_insertSubnet
<1>9. CASE CreateVPC_rollbackVPC(p)
  <2>1. pc[p] = "create.rollback2" /\ UNCHANGED <<cloud, grant, subnetRow>>
    BY <1>9 DEF CreateVPC_rollbackVPC, At
  <2>2. RestTyped'
    BY <1>1, <2>1, RestKept DEF TypeOK
  <2>3. CASE vpcRow' = [vpcRow EXCEPT ![job[p].v] = None] /\ Goto(p, "create.rollback3") /\ UNCHANGED job
    <3>1. Fits("create.rollback3", job[p]) /\ Holds("create.rollback3", job[p], grant[p])
          /\ Knows("create.rollback3", job[p], vpcRow')
      BY <1>1, <1>2 DEF Fits, Holds, Knows, HasDeleted
    <3> QED
      BY <1>2, <2>1, <2>2, <2>3, <3>1, GotoKeeps DEF Labels, OwnRow
  <2>4. CASE Answer(p, "error") /\ UNCHANGED vpcRow
    BY <1>3, <2>1, <2>2, <2>4 DEF OwnRow, Responses
  <2> QED
    BY <1>9, <2>3, <2>4 DEF CreateVPC_rollbackVPC
<1>10. CASE CreateVPC_rollbackSubnets(p)
  <2>1. UNCHANGED <<cloud, grant, vpcRow>> /\ subnetRow' \in [VPCs \X Subnets -> SIds \cup {None}]
    BY <1>1, <1>10, SubnetRowsTyped DEF CreateVPC_rollbackSubnets
  <2>2. \E r \in {"nil", "error"} : Answer(p, r)
    BY <1>10 DEF CreateVPC_rollbackSubnets
  <2> QED
    BY <1>1, <1>3, <2>1, <2>2, RestKept DEF OwnRow, Responses
<1> QED
  BY <1>4, <1>5, <1>6, <1>7, <1>8, <1>9, <1>10 DEF CreateVPC

LEMMA RegisterStep ==
  ASSUME IInv, NEW p \in Procs, RegisterVPC(p)
  PROVE  IInv'
<1>1. /\ TypeOK /\ job[p] \in Jobs /\ job \in [Procs -> Jobs] /\ Fits(pc[p], job[p])
      /\ Holds(pc[p], job[p], grant[p]) /\ Knows(pc[p], job[p], vpcRow)
  BY Here
<1>2. /\ pc[p] \in RegisterPcs /\ job[p].op = "RegisterVPC" /\ job[p].v \in VPCs /\ job[p].id \in VIds
      /\ grant[p] = <<job[p].v, "W">>
  BY <1>1 DEF Fits, Holds, RegisterVPC, RegisterVPC_exists, RegisterVPC_csp, RegisterVPC_insertVPC,
     RegisterVPC_insertSubnet, At
<1>3. ASSUME NEW r \in Responses, Answer(p, r), UNCHANGED <<subnetRow, cloud, grant, vpcRow>> PROVE IInv'
  BY <1>1, <1>2, <1>3, AnswerKeeps, RestKept DEF OwnRow, TypeOK
<1>4. CASE RegisterVPC_exists(p)
  <2>1. CASE Answer(p, "error")
    BY <1>2, <1>4, <2>1, ReadAnswer DEF Responses, RegisterVPC_exists
  <2>2. CASE ~Answer(p, "error")
    BY <1>4, <2>2, Checked DEF RegisterVPC_exists, DBError, Labels, At
  <2> QED
    BY <2>1, <2>2
<1>5. CASE RegisterVPC_csp(p)
  <2>1. CASE Answer(p, "error")
    BY <1>2, <1>5, <2>1, ReadAnswer DEF Responses, RegisterVPC_csp
  <2>2. CASE ~Answer(p, "error")
    <3>1. PICK name \in [SubnetsOf(job[p].id) -> Subnets] :
            job' = [job EXCEPT ![p].todo = {<<name[a], a>> : a \in SubnetsOf(job[p].id)}]
      BY <1>5, <2>2 DEF RegisterVPC_csp
    <3> DEFINE todo == {<<name[a], a>> : a \in SubnetsOf(job[p].id)}
               j == [job[p] EXCEPT !.todo = todo]
    <3>2. todo \in SubnetTodo
      BY DEF SubnetTodo, SubnetsOf
    <3>3. job' = [job EXCEPT ![p] = j]
      BY <1>1, <3>1
    <3> HIDE DEF todo
    <3>4. j \in Jobs /\ j.op = job[p].op /\ j.v = job[p].v /\ j.s = job[p].s /\ j.id = job[p].id /\ j.todo = todo
      BY <1>1, <3>2 DEF Jobs
    <3> HIDE DEF j
    <3>5. pc[p] = "register.csp" /\ Reads /\ Goto(p, "register.vpcrow")
      BY <1>5, <2>2 DEF RegisterVPC_csp, At
    <3>6. Fits("register.vpcrow", j) /\ Holds("register.vpcrow", j, grant[p]) /\ Knows("register.vpcrow", j, vpcRow')
      BY <1>1, <1>2, <3>2, <3>4, <3>5 DEF Fits, Holds, Knows, HasDeleted, Reads, db
    <3>7. pc' = [pc EXCEPT ![p] = "register.vpcrow"] /\ "register.vpcrow" \in Labels \cup Ops /\ OwnRow(p) /\ UNCHANGED grant
      BY <3>5 DEF Goto, Labels, OwnRow, Reads, db
    <3>8. RestTyped'
      BY <1>1, <3>5, RestKept
    <3> QED
      BY <3>3, <3>4, <3>6, <3>7, <3>8, StepKeeps
  <2> QED
    BY <2>1, <2>2
<1>6. CASE RegisterVPC_insertVPC(p)
  <2>1. pc[p] = "register.vpcrow" /\ UNCHANGED <<subnetRow, cloud, grant>>
    BY <1>6 DEF RegisterVPC_insertVPC, At
  <2>2. CASE vpcRow' = [vpcRow EXCEPT ![job[p].v] = job[p].id] /\ Goto(p, "register.subnetrow") /\ UNCHANGED job
    BY <1>2, <2>1, <2>2, InsertVPC
  <2>3. CASE Answer(p, "error") /\ UNCHANGED vpcRow
    BY <1>3, <2>1, <2>3 DEF Responses
  <2> QED
    BY <1>6, <2>2, <2>3 DEF RegisterVPC_insertVPC
<1>7. CASE RegisterVPC_insertSubnet(p)
  <2>1. pc[p] = "register.subnetrow" /\ UNCHANGED <<cloud, grant, vpcRow>>
    BY <1>7 DEF RegisterVPC_insertSubnet, At
  <2>2. CASE (Answer(p, "ok") \/ Answer(p, "error")) /\ UNCHANGED subnetRow
    BY <1>3, <2>1, <2>2 DEF Responses
  <2>3. CASE \E t \in job[p].todo : /\ subnetRow' = [subnetRow EXCEPT ![<<job[p].v, t[1]>>] = t[2]]
                                    /\ job' = [job EXCEPT ![p].todo = @ \ {t}]
                                    /\ UNCHANGED pc
    BY <2>1, <2>3, InsertSubnet
  <2> QED
    BY <1>7, <2>2, <2>3 DEF RegisterVPC_insertSubnet
<1> QED
  BY <1>4, <1>5, <1>6, <1>7 DEF RegisterVPC

-----------------------------------------------------------------------------
(* The steps about a subnet.                                               *)

\* No step about a subnet is taken under what is known of the VPC's row.
LEMMA SubnetAnswer ==
  ASSUME IInv, NEW p \in Procs, NEW r \in Responses, Answer(p, r),
         pc[p] \in RegisterSubnetPcs \cup UnregisterSubnetPcs \cup AddPcs \cup RemovePcs
                   \cup RemoveCSPPcs \cup ListPcs \cup {"DeleteCSPVPC", "GetVPC", "get.csp"},
         UNCHANGED <<grant, vpcRow>>, RestTyped'
  PROVE  IInv'
<1>1. pc[p] # "idle" /\ job[p].op \notin {"DeleteVPC", "UnregisterVPC"}
  BY Here DEF Fits
<1> QED
  BY <1>1, AnswerKeeps DEF OwnRow

LEMMA RegisterSubnetStep ==
  ASSUME IInv, NEW p \in Procs, RegisterSubnet(p)
  PROVE  IInv'
<1>1. TypeOK /\ job[p] \in Jobs /\ Fits(pc[p], job[p])
  BY Here
<1>2. CASE RegisterSubnet_exists(p) \/ RegisterSubnet_getVPC(p) \/ RegisterSubnet_csp(p)
  <2>1. Reads /\ pc[p] \in RegisterSubnetPcs
    BY <1>2 DEF RegisterSubnet_exists, RegisterSubnet_getVPC, RegisterSubnet_csp, At
  <2>2. CASE Answer(p, "error") \/ Answer(p, "ok")
    BY <1>1, <2>1, <2>2, SubnetAnswer, RestKept DEF Responses, Reads, db
  <2>3. CASE ~(Answer(p, "error") \/ Answer(p, "ok"))
    <3>1. CASE RegisterSubnet_getVPC(p)
      BY <2>1, <2>3, <3>1, ReadRow DEF RegisterSubnet_getVPC, DBError, At, Labels
    <3>2. CASE RegisterSubnet_exists(p) \/ RegisterSubnet_csp(p)
      BY <2>1, <2>3, <3>2, Checked DEF RegisterSubnet_exists, RegisterSubnet_csp, DBError, At, Labels
    <3> QED
      BY <1>2, <3>1, <3>2
  <2> QED
    BY <2>2, <2>3
<1>3. CASE RegisterSubnet_insert(p)
  <2>1. pc[p] = "regsub.insert" /\ job[p].v \in VPCs /\ job[p].s \in Subnets /\ job[p].id \in SIds
        /\ UNCHANGED <<cloud, grant, vpcRow>>
    BY <1>1, <1>3 DEF RegisterSubnet_insert, At, Fits
  <2>2. subnetRow' \in [VPCs \X Subnets -> SIds \cup {None}]
    BY <1>1, <1>3, <2>1, SubnetRowsTyped DEF RegisterSubnet_insert
  <2>3. \E r \in {"ok", "error"} : Answer(p, r)
    BY <1>3 DEF RegisterSubnet_insert
  <2> QED
    BY <1>1, <2>1, <2>2, <2>3, SubnetAnswer, RestKept DEF Responses
<1> QED
  BY <1>2, <1>3 DEF RegisterSubnet

LEMMA UnregisterSubnetStep ==
  ASSUME IInv, NEW p \in Procs, UnregisterSubnet(p)
  PROVE  IInv'
<1>1. TypeOK /\ job[p] \in Jobs /\ Fits(pc[p], job[p])
  BY Here
<1>2. CASE UnregisterSubnet_exists(p)
  <2>1. Reads /\ pc[p] = "UnregisterSubnet"
    BY <1>2 DEF UnregisterSubnet_exists, At
  <2>2. CASE Answer(p, "error")
    BY <1>1, <2>1, <2>2, SubnetAnswer, RestKept DEF Responses, Reads, db
  <2>3. CASE ~Answer(p, "error")
    BY <1>2, <2>1, <2>3, Checked DEF UnregisterSubnet_exists, DBError, Labels
  <2> QED
    BY <2>2, <2>3
<1>3. CASE UnregisterSubnet_delete(p)
  <2>1. pc[p] = "unregsub.delete" /\ job[p].v \in VPCs /\ job[p].s \in Subnets
        /\ UNCHANGED <<vpcRow, cspVpc, cspSubnet, grant>>
    BY <1>1, <1>3 DEF UnregisterSubnet_delete, At, Fits
  <2>2. subnetRow' \in [VPCs \X Subnets -> SIds \cup {None}]
    BY <1>1, <1>3, <2>1, SubnetRowsTyped DEF UnregisterSubnet_delete
  <2>3. unmanaged' \subseteq cspVpc \cup SIds
    BY <1>1, <1>3 DEF UnregisterSubnet_delete, TypeOK
  <2>4. RestTyped'
    BY <1>1, <2>1, <2>2, <2>3 DEF RestTyped, TypeOK
  <2>5. \E r \in {"ok", "error"} : Answer(p, r)
    BY <1>3 DEF UnregisterSubnet_delete
  <2> QED
    BY <2>1, <2>4, <2>5, SubnetAnswer DEF Responses
<1> QED
  BY <1>2, <1>3 DEF UnregisterSubnet

LEMMA AddStep ==
  ASSUME IInv, NEW p \in Procs, AddSubnet(p)
  PROVE  IInv'
<1>1. TypeOK /\ job[p] \in Jobs /\ job \in [Procs -> Jobs] /\ Fits(pc[p], job[p])
  BY Here
<1>2. pc[p] \in AddPcs /\ job[p].op = "AddSubnet" /\ job[p].v \in VPCs /\ job[p].s \in Subnets
  BY <1>1 DEF AddSubnet, AddSubnet_exists, AddSubnet_getVPC, AddSubnet_csp, AddSubnet_insert, AddSubnet_readback,
     AddSubnet_rollbackCSP, AddSubnet_rollbackRow, At, Fits
<1>3. ASSUME NEW l \in AddPcs, NEW j \in Jobs, Fits(l, j), j.op = "AddSubnet"
      PROVE  ~HasDeleted(l, j) /\ Holds(l, j, grant[p]) /\ Knows(l, j, vpcRow')
  BY <1>3 DEF HasDeleted, Holds, Knows
<1>4. CASE AddSubnet_exists(p) \/ AddSubnet_getVPC(p) \/ AddSubnet_readback(p)
  <2>1. Reads
    BY <1>4 DEF AddSubnet_exists, AddSubnet_getVPC, AddSubnet_readback
  <2>2. CASE Answer(p, "error") \/ Answer(p, "ok")
    BY <1>1, <1>2, <2>1, <2>2, SubnetAnswer, RestKept DEF Responses, Reads, db
  <2>3. CASE ~(Answer(p, "error") \/ Answer(p, "ok"))
    <3>1. CASE AddSubnet_getVPC(p)
      BY <2>1, <2>3, <3>1, ReadRow DEF AddSubnet_getVPC, DBError, At, Labels
    <3>2. CASE AddSubnet_exists(p)
      BY <2>1, <2>3, <3>2, Checked DEF AddSubnet_exists, DBError, At, Labels
    <3>3. CASE AddSubnet_readback(p)
      BY <2>3, <3>3 DEF AddSubnet_readback, DBError
    <3> QED
      BY <1>4, <3>1, <3>2, <3>3
  <2> QED
    BY <2>2, <2>3
<1>5. CASE AddSubnet_csp(p)
  <2>1. CASE Answer(p, "error") /\ Reads
    BY <1>1, <1>2, <2>1, SubnetAnswer, RestKept DEF Responses, Reads, db
  <2>2. CASE ~(Answer(p, "error") /\ Reads)
    <3>1. PICK sid \in SIds : /\ cspSubnet' = [cspSubnet EXCEPT ![sid] = job[p].row]
                              /\ job' = [job EXCEPT ![p].made = sid]
      BY <1>5, <2>2 DEF AddSubnet_csp, Reads
    <3>2. job[p].row \in cspVpc /\ Goto(p, "add.insert") /\ UNCHANGED <<db, cspVpc, unmanaged, grant>> /\ pc[p] = "add.csp"
      BY <1>5, <2>2 DEF AddSubnet_csp, Reads, At
    <3>3. RestTyped' /\ OwnRow(p)
      BY <1>1, <3>1, <3>2 DEF RestTyped, TypeOK, db, OwnRow
    <3> DEFINE j == [job[p] EXCEPT !.made = sid]
    <3>4. job' = [job EXCEPT ![p] = j] /\ pc' = [pc EXCEPT ![p] = "add.insert"]
      BY <1>1, <3>1, <3>2 DEF Goto
    <3>5. j \in Jobs /\ j.op = job[p].op /\ j.v = job[p].v /\ j.s = job[p].s /\ j.made = sid /\ j.row = job[p].row
      BY <1>1 DEF Jobs
    <3> HIDE DEF j
    <3>6. Fits("add.insert", j)
      BY <1>1, <1>2, <3>2, <3>5 DEF Fits
    <3> QED
      BY <1>2, <1>3, <3>2, <3>3, <3>4, <3>5, <3>6, StepKeeps DEF Labels
  <2> QED
    BY <2>1, <2>2
<1>6. CASE AddSubnet_insert(p)
  <2>1. pc[p] = "add.insert" /\ UNCHANGED <<cloud, grant, vpcRow, job>> /\ job[p].made \in SIds
    BY <1>1, <1>6 DEF AddSubnet_insert, At, Fits
  <2>2. subnetRow' \in [VPCs \X Subnets -> SIds \cup {None}]
    BY <1>1, <1>2, <1>6, <2>1, SubnetRowsTyped DEF AddSubnet_insert
  <2>3. PICK l \in {"add.readback", "add.rollback1"} : Goto(p, l)
    BY <1>6 DEF AddSubnet_insert
  <2>4. Fits(l, job[p])
    BY <1>1, <1>2, <2>1 DEF Fits
  <2> QED
    BY <1>1, <1>2, <1>3, <2>1, <2>2, <2>3, <2>4, RestKept, GotoKeeps DEF Labels, OwnRow
<1>7. CASE AddSubnet_rollbackCSP(p)
  <2>1. pc[p] = "add.rollback1" /\ UNCHANGED <<db, grant>> /\ job[p].made \in SIds
    BY <1>1, <1>7 DEF AddSubnet_rollbackCSP, At, Fits
  <2>2. RemoveSubnetFromCsp(job[p].made) \/ \E known \in BOOLEAN : LeaveSubnetInCsp(job[p].made, known)
    BY <1>7 DEF AddSubnet_rollbackCSP
  <2>3. RestTyped'
    BY <1>1, <2>1, <2>2, SubnetGoes DEF db
  <2>4. CASE Answer(p, "error")
    BY <1>2, <2>1, <2>3, <2>4, SubnetAnswer DEF Responses, db
  <2>5. CASE Goto(p, "add.rollback2") /\ UNCHANGED job
    <3>1. Fits("add.rollback2", job[p])
      BY <1>1, <1>2 DEF Fits
    <3> QED
      BY <1>1, <1>2, <1>3, <2>1, <2>3, <2>5, <3>1, GotoKeeps DEF Labels, OwnRow, db
  <2> QED
    BY <1>7, <2>4, <2>5 DEF AddSubnet_rollbackCSP
<1>8. CASE AddSubnet_rollbackRow(p)
  <2>1. UNCHANGED <<cloud, grant, vpcRow>> /\ subnetRow' \in [VPCs \X Subnets -> SIds \cup {None}]
    BY <1>1, <1>2, <1>8, SubnetRowsTyped DEF AddSubnet_rollbackRow
  <2> QED
    BY <1>1, <1>2, <1>8, <2>1, SubnetAnswer, RestKept DEF AddSubnet_rollbackRow, Responses
<1> QED
  BY <1>4, <1>5, <1>6, <1>7, <1>8 DEF AddSubnet

\* After the driver's delete a call goes on to the rows, or is answered.
LEMMA AfterDelete ==
  ASSUME IInv, NEW p \in Procs, NEW out, NEW l \in Labels, AfterDriverDelete(p, out, l),
         UNCHANGED <<db, grant>>, RestTyped',
         \/ pc[p] = "remove.csp" /\ l = "remove.delete"
         \/ pc[p] = "delete.csp" /\ l = "delete.vpcrow"
  PROVE  IInv'
<1>1. /\ TypeOK /\ job[p] \in Jobs /\ job \in [Procs -> Jobs] /\ Fits(pc[p], job[p])
      /\ Holds(pc[p], job[p], grant[p])
  BY Here
<1>2. OwnRow(p)
  BY DEF OwnRow, db
<1>3. CASE Answer(p, IF out = "refused" THEN "false" ELSE "error")
  BY <1>2, <1>3, AnswerKeeps DEF Responses
<1>4. CASE ~Answer(p, IF out = "refused" THEN "false" ELSE "error")
  <2> DEFINE force == job[p].force \/ out = "notfound"
             resp == IF out = "ok" THEN "ok" ELSE "false"
             j == [job[p] EXCEPT !.force = force, !.resp = resp]
  <2>1. job' = [job EXCEPT ![p] = j] /\ pc' = [pc EXCEPT ![p] = l]
    BY <1>1, <1>4 DEF AfterDriverDelete, Goto
  <2>2. force \in BOOLEAN /\ resp \in Responses
    BY <1>1 DEF Jobs, Responses
  <2> HIDE DEF force, resp
  <2>3. j \in Jobs /\ j.op = job[p].op /\ j.v = job[p].v /\ j.s = job[p].s
    <3>1. \A f \in BOOLEAN, r \in Responses :
            LET k == [job[p] EXCEPT !.force = f, !.resp = r]
            IN  k \in Jobs /\ k.op = job[p].op /\ k.v = job[p].v /\ k.s = job[p].s
      BY <1>1 DEF Jobs
    <3> QED
      BY <2>2, <3>1
  <2> HIDE DEF j
  <2>4. Fits(l, j) /\ Holds(l, j, grant[p]) /\ Knows(l, j, vpcRow')
    BY <1>1, <2>3 DEF Fits, Holds, Knows, HasDeleted
  <2> QED
    BY <1>2, <2>1, <2>3, <2>4, StepKeeps
<1> QED
  BY <1>3, <1>4

LEMMA RemoveStep ==
  ASSUME IInv, NEW p \in Procs, RemoveSubnet(p)
  PROVE  IInv'
<1>1. TypeOK /\ job[p] \in Jobs /\ job \in [Procs -> Jobs] /\ Fits(pc[p], job[p])
  BY Here
<1>2. pc[p] \in RemovePcs /\ job[p].op = "RemoveSubnet" /\ job[p].v \in VPCs /\ job[p].s \in Subnets
  BY <1>1 DEF RemoveSubnet, RemoveSubnet_getSubnet, RemoveSubnet_getVPC, RemoveSubnet_csp, RemoveSubnet_delete, At, Fits
<1>3. CASE RemoveSubnet_getSubnet(p) \/ RemoveSubnet_getVPC(p)
  <2>1. Reads
    BY <1>3 DEF RemoveSubnet_getSubnet, RemoveSubnet_getVPC
  <2>2. CASE Answer(p, "error")
    BY <1>1, <1>2, <2>1, <2>2, SubnetAnswer, RestKept DEF Responses, Reads, db
  <2>3. CASE RemoveSubnet_getVPC(p) /\ ~Answer(p, "error")
    BY <2>1, <2>3, ReadRow DEF RemoveSubnet_getVPC, DBError, At, Labels
  <2>4. CASE RemoveSubnet_getSubnet(p) /\ ~Answer(p, "error")
    <3> DEFINE sid == subnetRow[<<job[p].v, job[p].s>>]
               j == [job[p] EXCEPT !.sub = sid]
    <3>1. sid \in SIds /\ job' = [job EXCEPT ![p].sub = sid] /\ Goto(p, "remove.vpcrow")
      BY <1>1, <1>2, <2>4 DEF RemoveSubnet_getSubnet, DBError, TypeOK
    <3>2. job' = [job EXCEPT ![p] = j] /\ pc' = [pc EXCEPT ![p] = "remove.vpcrow"]
      BY <1>1, <3>1 DEF Goto
    <3> HIDE DEF sid
    <3>3. j \in Jobs /\ j.op = job[p].op /\ j.v = job[p].v /\ j.s = job[p].s /\ j.sub = sid
      BY <1>1, <3>1 DEF Jobs
    <3> HIDE DEF j
    <3>4. Fits("remove.vpcrow", j) /\ Holds("remove.vpcrow", j, grant[p]) /\ Knows("remove.vpcrow", j, vpcRow')
      BY <1>1, <1>2, <3>1, <3>3 DEF Fits, Holds, Knows, HasDeleted
    <3>5. UNCHANGED grant /\ OwnRow(p) /\ RestTyped'
      BY <1>1, <2>1, RestKept DEF Reads, db, OwnRow
    <3> QED
      BY <3>2, <3>3, <3>4, <3>5, StepKeeps DEF Labels
  <2> QED
    BY <1>3, <2>2, <2>3, <2>4
<1>4. CASE RemoveSubnet_csp(p)
  <2>1. PICK out : /\ IF Removes(out) THEN RemoveSubnetFromCsp(job[p].sub)
                                      ELSE LeaveSubnetInCsp(job[p].sub, job[p].force)
                   /\ AfterDriverDelete(p, out, "remove.delete")
    BY <1>4 DEF RemoveSubnet_csp
  <2>2. pc[p] = "remove.csp" /\ UNCHANGED <<db, grant>> /\ job[p].sub \in SIds /\ job[p].force \in BOOLEAN
    BY <1>1, <1>4 DEF RemoveSubnet_csp, At, Fits, Jobs
  <2>3. RestTyped'
    BY <1>1, <2>1, <2>2, SubnetGoes DEF db
  <2> QED
    BY <2>1, <2>2, <2>3, AfterDelete DEF Labels
<1>5. CASE RemoveSubnet_delete(p)
  <2>1. UNCHANGED <<cloud, grant, vpcRow>> /\ subnetRow' \in [VPCs \X Subnets -> SIds \cup {None}]
    BY <1>1, <1>2, <1>5, SubnetRowsTyped DEF RemoveSubnet_delete
  <2>2. \E r \in Responses : Answer(p, r)
    BY <1>1, <1>5 DEF RemoveSubnet_delete, Jobs, Responses
  <2> QED
    BY <1>1, <1>2, <2>1, <2>2, SubnetAnswer, RestKept
<1> QED
  BY <1>3, <1>4, <1>5 DEF RemoveSubnet

LEMMA RemoveCSPStep ==
  ASSUME IInv, NEW p \in Procs, RemoveCSPSubnet(p) \/ DeleteCSPVPC(p)
  PROVE  IInv'
<1>1. TypeOK /\ job[p] \in Jobs /\ Fits(pc[p], job[p])
  BY Here
<1>2. CASE RemoveCSPSubnet_getVPC(p)
  <2>1. Reads /\ pc[p] = "RemoveCSPSubnet"
    BY <1>2 DEF RemoveCSPSubnet_getVPC, At
  <2>2. CASE Answer(p, "error")
    BY <1>1, <2>1, <2>2, SubnetAnswer, RestKept DEF Responses, Reads, db
  <2>3. CASE ~Answer(p, "error")
    BY <1>2, <2>1, <2>3, ReadRow DEF RemoveCSPSubnet_getVPC, DBError, Labels
  <2> QED
    BY <2>2, <2>3
<1>3. CASE RemoveCSPSubnet_csp(p)
  <2>1. pc[p] = "removecsp.csp" /\ UNCHANGED <<db, grant>> /\ job[p].id \in SIds
    BY <1>1, <1>3 DEF RemoveCSPSubnet_csp, At, Fits
  <2>2. RemoveSubnetFromCsp(job[p].id) \/ LeaveSubnetInCsp(job[p].id, FALSE)
    BY <1>3 DEF RemoveCSPSubnet_csp
  <2>3. RestTyped'
    BY <1>1, <2>1, <2>2, SubnetGoes DEF db
  <2>4. \E r \in Responses : Answer(p, r)
    BY <1>3 DEF RemoveCSPSubnet_csp, Responses
  <2> QED
    BY <2>1, <2>3, <2>4, SubnetAnswer DEF db
<1>4. CASE DeleteCSPVPC(p)
  <2>1. pc[p] = "DeleteCSPVPC" /\ UNCHANGED <<db, grant>> /\ job[p].id \in VIds
    BY <1>1, <1>4 DEF DeleteCSPVPC, At, Fits
  <2>2. RemoveVpcFromCsp(job[p].id) \/ LeaveVpcInCsp(job[p].id, FALSE)
    BY <1>4 DEF DeleteCSPVPC
  <2>3. RestTyped'
    BY <1>1, <2>1, <2>2, VPCGoes DEF db
  <2>4. \E r \in Responses : Answer(p, r)
    BY <1>4 DEF DeleteCSPVPC, Responses
  <2> QED
    BY <2>1, <2>3, <2>4, SubnetAnswer DEF db
<1> QED
  BY <1>2, <1>3, <1>4 DEF RemoveCSPSubnet

-----------------------------------------------------------------------------
(* DeleteVPC and UnregisterVPC.                                            *)

\* The row of the VPC is deleted, under its lock, and the call goes on to the
\* rows of its subnets.
LEMMA DeleteRow ==
  ASSUME IInv, NEW p \in Procs, UNCHANGED <<job, grant>>, RestTyped',
         \/ vpcRow' = [vpcRow EXCEPT ![job[p].v] = None]
         \/ UNCHANGED vpcRow /\ job[p].force,
         \/ pc[p] = "delete.vpcrow" /\ Goto(p, "delete.subnetrows")
         \/ pc[p] = "unregister.vpcrow" /\ Goto(p, "unregister.subnetrows")
  PROVE  IInv'
<1>1. Fits(pc[p], job[p]) /\ Holds(pc[p], job[p], grant[p])
  BY Here
<1>2. job[p].v \in VPCs /\ grant[p] = <<job[p].v, "W">>
  BY <1>1 DEF Fits, Holds
<1>3. OwnRow(p)
  BY <1>2 DEF OwnRow
<1>4. PICK l \in {"delete.subnetrows", "unregister.subnetrows"} : Goto(p, l) /\ Fits(l, job[p])
  BY <1>1, <1>2 DEF Fits
<1>5. Holds(l, job[p], grant[p]) /\ Knows(l, job[p], vpcRow')
  BY <1>2, Here DEF Holds, Knows, HasDeleted, TypeOK
<1> QED
  BY <1>3, <1>4, <1>5, GotoKeeps DEF Labels

\* The rows of the subnets are deleted, and the call is answered.
LEMMA DeleteSubnetRows ==
  ASSUME IInv, NEW p \in Procs, pc[p] \in DeletedPcs, NEW r \in Responses, Answer(p, r),
         UNCHANGED <<cloud, grant, vpcRow>>,
         \/ UNCHANGED subnetRow
         \/ subnetRow' = [vs \in VPCs \X Subnets |-> IF vs[1] = job[p].v THEN None ELSE subnetRow[vs]]
  PROVE  IInv'
<1>1. TypeOK /\ Holds(pc[p], job[p], grant[p]) /\ Knows(pc[p], job[p], vpcRow)
  BY Here
<1>2. RestTyped' /\ OwnRow(p)
  BY <1>1, SubnetRowsTyped, RestKept DEF OwnRow
<1>3. ~job[p].force => vpcRow'[job[p].v] = None /\ grant[p] = <<job[p].v, "W">>
  BY <1>1 DEF Holds, Knows, HasDeleted
<1> QED
  BY <1>2, <1>3, AnswerKeeps

LEMMA DeleteStep ==
  ASSUME IInv, NEW p \in Procs, DeleteVPC(p)
  PROVE  IInv'
<1>1. /\ TypeOK /\ job[p] \in Jobs /\ job \in [Procs -> Jobs] /\ Fits(pc[p], job[p])
      /\ Holds(pc[p], job[p], grant[p])
  BY Here
<1>2. pc[p] \in DeletePcs /\ job[p].v \in VPCs /\ grant[p] = <<job[p].v, "W">>
  BY <1>1 DEF Fits, Holds, DeleteVPC, DeleteVPC_getVPC, DeleteVPC_kt, DeleteVPC_csp, DeleteVPC_deleteVPC,
     DeleteVPC_deleteSubnets, At
<1>3. CASE DeleteVPC_getVPC(p)
  <2>1. Reads /\ pc[p] = "DeleteVPC"
    BY <1>3 DEF DeleteVPC_getVPC, At
  <2>2. CASE Answer(p, "error")
    BY <2>1, <2>2, ReadAnswer DEF Responses
  <2>3. CASE ~Answer(p, "error")
    BY <1>3, <2>1, <2>3, ReadRow DEF DeleteVPC_getVPC, DBError, Labels
  <2> QED
    BY <2>2, <2>3
<1>4. CASE DeleteVPC_kt(p)
  <2>1. pc[p] = "delete.kt" /\ Goto(p, "delete.csp") /\ UNCHANGED <<db, cspVpc, grant, job>>
    BY <1>4 DEF DeleteVPC_kt, At
  <2>2. PICK gone : /\ cspSubnet' = [sid \in SIds |-> IF sid \in gone THEN None ELSE cspSubnet[sid]]
                    /\ unmanaged' = unmanaged \ gone
    BY <1>4 DEF DeleteVPC_kt
  <2>3. RestTyped' /\ OwnRow(p)
    BY <1>1, <2>1, <2>2 DEF RestTyped, TypeOK, OwnRow, db
  <2>4. Fits("delete.csp", job[p]) /\ Holds("delete.csp", job[p], grant[p]) /\ Knows("delete.csp", job[p], vpcRow')
    BY <1>1, <1>2, <2>1 DEF Fits, Holds, Knows, HasDeleted
  <2> QED
    BY <2>1, <2>3, <2>4, GotoKeeps DEF Labels
<1>5. CASE DeleteVPC_csp(p)
  <2>1. PICK out : /\ IF Removes(out) THEN RemoveVpcFromCsp(job[p].row)
                                      ELSE LeaveVpcInCsp(job[p].row, job[p].force)
                   /\ AfterDriverDelete(p, out, "delete.vpcrow")
    BY <1>5 DEF DeleteVPC_csp
  <2>2. pc[p] = "delete.csp" /\ UNCHANGED <<db, grant>> /\ job[p].row \in VIds /\ job[p].force \in BOOLEAN
    BY <1>1, <1>5 DEF DeleteVPC_csp, At, Fits, Jobs
  <2>3. RestTyped'
    BY <1>1, <2>1, <2>2, VPCGoes DEF db
  <2> QED
    BY <2>1, <2>2, <2>3, AfterDelete DEF Labels
<1>6. CASE DeleteVPC_deleteVPC(p)
  <2>1. pc[p] = "delete.vpcrow" /\ UNCHANGED <<cloud, grant, subnetRow>>
    BY <1>6 DEF DeleteVPC_deleteVPC, At
  <2>2. RestTyped'
    BY <1>1, <2>1, RestKept DEF TypeOK
  <2>3. CASE Answer(p, "error") /\ UNCHANGED vpcRow
    BY <2>1, <2>2, <2>3, AnswerKeeps DEF Responses, OwnRow
  <2>4. CASE ~(Answer(p, "error") /\ UNCHANGED vpcRow)
    BY <1>6, <2>1, <2>2, <2>4, DeleteRow DEF DeleteVPC_deleteVPC
  <2> QED
    BY <2>3, <2>4
<1>7. CASE DeleteVPC_deleteSubnets(p)
  <2>1. pc[p] = "delete.subnetrows" /\ UNCHANGED <<cloud, grant, vpcRow>>
    BY <1>7 DEF DeleteVPC_deleteSubnets, At
  <2>2. \E r \in Responses : Answer(p, r)
    BY <1>1, <1>7 DEF DeleteVPC_deleteSubnets, Jobs, Responses
  <2>3. \/ UNCHANGED subnetRow
        \/ subnetRow' = [vs \in VPCs \X Subnets |-> IF vs[1] = job[p].v THEN None ELSE subnetRow[vs]]
    BY <1>7 DEF DeleteVPC_deleteSubnets
  <2> QED
    BY <2>1, <2>2, <2>3, DeleteSubnetRows
<1> QED
  BY <1>3, <1>4, <1>5, <1>6, <1>7 DEF DeleteVPC

LEMMA UnregisterStep ==
  ASSUME IInv, NEW p \in Procs, UnregisterVPC(p)
  PROVE  IInv'
<1>1. TypeOK /\ job[p] \in Jobs /\ Fits(pc[p], job[p])
  BY Here
<1>2. CASE UnregisterVPC_exists(p)
  <2>1. Reads /\ pc[p] = "UnregisterVPC"
    BY <1>2 DEF UnregisterVPC_exists, At
  <2>2. CASE Answer(p, "error")
    BY <2>1, <2>2, ReadAnswer DEF Responses
  <2>3. CASE ~Answer(p, "error")
    BY <1>2, <2>1, <2>3, Checked DEF UnregisterVPC_exists, DBError, Labels
  <2> QED
    BY <2>2, <2>3
<1>3. CASE UnregisterVPC_deleteVPC(p)
  <2>1. pc[p] = "unregister.vpcrow" /\ UNCHANGED <<cspVpc, cspSubnet, grant, subnetRow>> /\ job[p].v \in VPCs
    BY <1>1, <1>3 DEF UnregisterVPC_deleteVPC, At, Fits
  <2>2. unmanaged' \subseteq cspVpc \cup SIds
    BY <1>1, <1>3 DEF UnregisterVPC_deleteVPC, TypeOK, SubnetsOf
  <2>3. RestTyped'
    BY <1>1, <2>1, <2>2 DEF RestTyped, TypeOK
  <2>4. CASE Answer(p, "error") /\ UNCHANGED vpcRow
    BY <2>1, <2>3, <2>4, AnswerKeeps DEF Responses, OwnRow
  <2>5. CASE ~(Answer(p, "error") /\ UNCHANGED vpcRow)
    BY <1>3, <2>1, <2>3, <2>5, DeleteRow DEF UnregisterVPC_deleteVPC
  <2> QED
    BY <2>4, <2>5
<1>4. CASE UnregisterVPC_deleteSubnets(p)
  <2>1. pc[p] = "unregister.subnetrows" /\ UNCHANGED <<cloud, grant, vpcRow>>
    BY <1>4 DEF UnregisterVPC_deleteSubnets, At
  <2>2. \E r \in Responses : Answer(p, r)
    BY <1>4 DEF UnregisterVPC_deleteSubnets, Responses
  <2>3. \/ UNCHANGED subnetRow
        \/ subnetRow' = [vs \in VPCs \X Subnets |-> IF vs[1] = job[p].v THEN None ELSE subnetRow[vs]]
    BY <1>4 DEF UnregisterVPC_deleteSubnets
  <2> QED
    BY <2>1, <2>2, <2>3, DeleteSubnetRows
<1> QED
  BY <1>2, <1>3, <1>4 DEF UnregisterVPC

-----------------------------------------------------------------------------
(* GetVPC, ListVPC, and the steps that begin and end a call.               *)

LEMMA GetStep ==
  ASSUME IInv, NEW p \in Procs, GetVPC(p)
  PROVE  IInv'
<1>1. Reads /\ pc[p] \in {"GetVPC", "get.csp"} /\ TypeOK
  BY Here DEF GetVPC, GetVPC_row, GetVPC_csp, At
<1>2. CASE Answer(p, "error") \/ Answer(p, "ok")
  BY <1>1, <1>2, SubnetAnswer, RestKept DEF Responses, Reads, db
<1>3. CASE ~(Answer(p, "error") \/ Answer(p, "ok"))
  BY <1>1, <1>3, ReadRow DEF GetVPC, GetVPC_row, GetVPC_csp, DBError, At, Labels
<1> QED
  BY <1>2, <1>3

\* A step with the lock of a call to which nothing is known of a VPC's row.
LEMMA ListStep ==
  ASSUME IInv, NEW p \in Procs, ListVPC(p)
  PROVE  IInv'
<1>1. TypeOK /\ job[p] \in Jobs /\ job \in [Procs -> Jobs] /\ Fits(pc[p], job[p])
  BY Here
<1>2. pc[p] \in ListPcs /\ job[p].op = "ListVPC" /\ job[p].v \in VPCs /\ UNCHANGED <<db, cloud>>
  BY <1>1 DEF ListVPC, ListVPC_rows, ListVPC_lock, ListVPC_get, At, Fits, Reads
<1>3. OwnRow(p) /\ RestTyped'
  BY <1>1, <1>2, RestKept DEF OwnRow, db, TypeOK
<1>4. ASSUME NEW r \in Responses, Answer(p, r), UNCHANGED grant PROVE IInv'
  BY <1>2, <1>3, <1>4, SubnetAnswer DEF db
<1>5. ASSUME NEW l \in {"list.next", "list.get"}, NEW j \in Jobs, j.op = "ListVPC", j.v \in VPCs, j.todo \in VPCTodo
      PROVE  l \in Labels \cup Ops /\ Fits(l, j) /\ (\A g : Holds(l, j, g)) /\ Knows(l, j, vpcRow')
  BY <1>5 DEF Fits, Holds, Knows, HasDeleted, Labels
<1>6. CASE ListVPC_rows(p)
  <2>1. CASE Answer(p, "error")
    BY <1>4, <1>6, <2>1 DEF ListVPC_rows, Reads, Responses
  <2>2. CASE ~Answer(p, "error")
    <3> DEFINE todo == {<<v, vpcRow[v]>> : v \in {w \in VPCs : vpcRow[w] # None}}
               j == [job[p] EXCEPT !.todo = todo, !.resp = "ok"]
    <3>1. todo \in VPCTodo
      BY <1>1 DEF TypeOK, VPCTodo
    <3>2. job' = [job EXCEPT ![p] = j] /\ pc' = [pc EXCEPT ![p] = "list.next"] /\ UNCHANGED grant
      BY <1>1, <1>6, <2>2 DEF ListVPC_rows, DBError, Goto, Reads
    <3> HIDE DEF todo
    <3>3. j \in Jobs /\ j.op = job[p].op /\ j.v = job[p].v /\ j.todo = todo
      <4>1. \A d \in VPCTodo, r \in Responses :
              LET k == [job[p] EXCEPT !.todo = d, !.resp = r]
              IN  k \in Jobs /\ k.op = job[p].op /\ k.v = job[p].v /\ k.todo = d
        BY <1>1 DEF Jobs
      <4> QED
        BY <3>1, <4>1 DEF Responses
    <3> HIDE DEF j
    <3> QED
      BY <1>2, <1>3, <1>5, <3>1, <3>2, <3>3, StepKeeps
  <2> QED
    BY <2>1, <2>2
<1>7. CASE ListVPC_lock(p)
  <2>1. CASE Answer(p, job[p].resp) /\ UNCHANGED grant
    BY <1>1, <1>4, <2>1 DEF Jobs
  <2>2. CASE ~(Answer(p, job[p].resp) /\ UNCHANGED grant)
    <3>1. PICK t \in job[p].todo :
            /\ Lock!Acquire(p, <<t[1], "R">>)
            /\ job' = [job EXCEPT ![p].v = t[1], ![p].row = t[2], ![p].todo = @ \ {t}]
            /\ Goto(p, "list.get")
      BY <1>7, <2>2 DEF ListVPC_lock
    <3>2. job[p].todo \in VPCTodo
      BY <1>1, <1>7 DEF ListVPC_lock, At, Fits
    <3>3. t[1] \in VPCs /\ t[2] \in VIds /\ job[p].todo \ {t} \in VPCTodo
      BY <3>2 DEF VPCTodo
    <3> DEFINE g == <<t[1], "R">>
               rest == job[p].todo \ {t}
               j == [job[p] EXCEPT !.v = t[1], !.row = t[2], !.todo = rest]
    <3>4. g \in ((VPCs \cup Subnets) \X {"R", "W"}) \cup {None}
      BY <3>3
    <3>5. /\ grant' = [grant EXCEPT ![p] = g]
          /\ \A q \in Procs : g # None /\ q # p /\ grant[q] # None => ~Lock!Conflict(grant[q], g)
      BY <3>1 DEF Lock!Acquire
    <3>6. job' = [job EXCEPT ![p] = j] /\ pc' = [pc EXCEPT ![p] = "list.get"]
      BY <1>1, <3>1 DEF Goto
    <3> HIDE DEF g, rest
    <3>7. j \in Jobs /\ j.op = job[p].op /\ j.v = t[1] /\ j.todo = rest
      BY <1>1, <3>3 DEF Jobs, rest
    <3> HIDE DEF j
    <3> QED
      BY <1>2, <1>3, <1>5, <3>3, <3>4, <3>5, <3>6, <3>7, LockStepKeeps DEF rest
  <2> QED
    BY <2>1, <2>2
<1>8. CASE ListVPC_get(p)
  <2>1. grant' = [grant EXCEPT ![p] = None] /\ pc' = [pc EXCEPT ![p] = "list.next"] /\ job[p].todo \in VPCTodo
    BY <1>1, <1>8 DEF ListVPC_get, Lock!Release, Goto, At, Fits
  <2>2. PICK r \in {job[p].resp, "error"} : job' = [job EXCEPT ![p].resp = r]
    BY <1>1, <1>8 DEF ListVPC_get, Jobs
  <2> DEFINE j == [job[p] EXCEPT !.resp = r]
  <2>3. job' = [job EXCEPT ![p] = j]
    BY <1>1, <2>2
  <2>4. j \in Jobs /\ j.op = job[p].op /\ j.v = job[p].v /\ j.todo = job[p].todo
    BY <1>1, <2>2 DEF Jobs, Responses
  <2> HIDE DEF j
  <2> QED
    BY <1>2, <1>3, <1>5, <2>1, <2>3, <2>4, LockStepKeeps
<1> QED
  BY <1>6, <1>7, <1>8 DEF ListVPC

\* A call takes the lock of the name it works on.
LEMMA LockStep ==
  ASSUME IInv, NEW p \in Procs, TakeLock(p)
  PROVE  IInv'
<1>1. TypeOK /\ job[p] \in Jobs /\ job \in [Procs -> Jobs] /\ Fits(pc[p], job[p])
  BY Here
<1>2. pc[p] = "lock" /\ UNCHANGED <<db, cloud, job>> /\ job[p].op \in Ops \ Lockless /\ job[p].v \in VPCs
  BY <1>1 DEF TakeLock, At, Fits
<1> DEFINE l == job[p].op
           g == <<LockedName(p), LockKind(p)>>
<1>3. g \in (VPCs \cup Subnets) \X {"R", "W"}
  BY <1>1, <1>2 DEF LockedName, LockKind, Fits
<1>4. /\ grant' = [grant EXCEPT ![p] = g]
      /\ \A q \in Procs : g # None /\ q # p /\ grant[q] # None => ~Lock!Conflict(grant[q], g)
  BY DEF TakeLock, Lock!Acquire
<1>5. pc' = [pc EXCEPT ![p] = l] /\ job' = [job EXCEPT ![p] = job[p]]
  BY <1>1, <1>2 DEF TakeLock, Goto
<1>6. OwnRow(p) /\ RestTyped'
  BY <1>1, <1>2, RestKept DEF OwnRow, db, TypeOK
<1>7. l \in AllOps \ Lockless
  BY <1>2, VPCAssumption
<1>8. l \in WritePcs => g = <<job[p].v, "W">>
  BY <1>7 DEF LockedName, LockKind
<1> HIDE DEF g
<1>9. Fits(l, job[p])
  BY <1>1, <1>2, <1>7 DEF Fits, AllOps, Lockless
<1>10. Holds(l, job[p], g) /\ Knows(l, job[p], vpcRow')
  BY <1>7, <1>8 DEF Holds, Knows, HasDeleted, AllOps
<1> QED
  BY <1>1, <1>2, <1>3, <1>4, <1>5, <1>6, <1>9, <1>10, LockStepKeeps

\* A call arrives.
LEMMA BeginStep ==
  ASSUME IInv, NEW p \in Procs, Begin(p)
  PROVE  IInv'
<1>1. TypeOK /\ job \in [Procs -> Jobs] /\ pc[p] = "idle" /\ UNCHANGED <<db, cloud, grant>>
  BY Here DEF Begin, At
<1>2. OwnRow(p) /\ RestTyped'
  BY <1>1, RestKept DEF OwnRow, db, TypeOK
<1>3. PICK op \in Ops, v \in VPCs : \E s \in Names(op), id \in Ids(op), force \in Forces(op) :
        /\ job' = [job EXCEPT ![p] = [NoJob EXCEPT !.op = op, !.v = v, !.s = s, !.id = id, !.force = force]]
        /\ Goto(p, IF op \in Lockless THEN op ELSE "lock")
  BY DEF Begin
<1>4. PICK s \in Names(op), id \in Ids(op), force \in Forces(op) :
        /\ job' = [job EXCEPT ![p] = [NoJob EXCEPT !.op = op, !.v = v, !.s = s, !.id = id, !.force = force]]
        /\ Goto(p, IF op \in Lockless THEN op ELSE "lock")
  BY <1>3
<1> DEFINE l == IF op \in Lockless THEN op ELSE "lock"
           j == [NoJob EXCEPT !.op = op, !.v = v, !.s = s, !.id = id, !.force = force]
<1>5. op \in AllOps /\ s \in Subnets \cup {None} /\ id \in VIds \cup SIds \cup {None} /\ force \in BOOLEAN
  BY VPCAssumption DEF Names, Ids, Forces
<1>6. j \in Jobs /\ j.op = op /\ j.v = v /\ j.s = s /\ j.id = id
  BY <1>5 DEF NoJob, Jobs, SubnetTodo, VPCTodo, Responses
<1>7. job' = [job EXCEPT ![p] = j] /\ pc' = [pc EXCEPT ![p] = l] /\ l \in Labels \cup Ops
  BY <1>4 DEF Goto, Labels
<1> HIDE DEF j
<1>8. /\ op \in {"AddSubnet", "RemoveSubnet", "RegisterSubnet", "UnregisterSubnet"} => s \in Subnets
      /\ op \in {"RegisterVPC", "DeleteCSPVPC"} => id \in VIds
      /\ op \in {"RegisterSubnet", "RemoveCSPSubnet"} => id \in SIds
  BY DEF Names, Ids
<1>9. Fits(l, j)
  BY <1>6, <1>8 DEF Fits, Lockless
<1>10. Holds(l, j, grant[p]) /\ Knows(l, j, vpcRow')
  BY <1>6 DEF Holds, Knows, HasDeleted, Lockless
<1> QED
  BY <1>1, <1>2, <1>6, <1>7, <1>9, <1>10, StepKeeps

\* A call gives its lock back and is gone.
LEMMA ReturnStep ==
  ASSUME IInv, NEW p \in Procs, Return(p)
  PROVE  IInv'
<1>1. TypeOK /\ UNCHANGED <<db, cloud>>
  BY Here DEF Return
<1>2. OwnRow(p) /\ RestTyped'
  BY <1>1, RestKept DEF OwnRow, db, TypeOK
<1>3. grant' = [grant EXCEPT ![p] = None]
  BY <1>1 DEF Return, Lock!Release, TypeOK
<1>4. pc' = [pc EXCEPT ![p] = "idle"] /\ job' = [job EXCEPT ![p] = NoJob]
  BY DEF Return, Goto
<1>5. NoJob \in Jobs /\ Fits("idle", NoJob) /\ Holds("idle", NoJob, None) /\ Knows("idle", NoJob, vpcRow')
  BY DEF NoJob, Jobs, SubnetTodo, VPCTodo, Responses, Fits, Holds, Knows, HasDeleted
<1> QED
  BY <1>2, <1>3, <1>4, <1>5, LockStepKeeps DEF Labels

\* After a restart there are no calls and no locks.
LEMMA CrashStep ==
  ASSUME IInv, Crash
  PROVE  IInv'
<1>1. /\ grant' = [q \in Procs |-> None] /\ pc' = [q \in Procs |-> "idle"]
      /\ job' = [q \in Procs |-> NoJob] /\ UNCHANGED <<db, cloud>>
  BY DEF Crash
<1>2. NoJob \in Jobs /\ Fits("idle", NoJob) /\ Holds("idle", NoJob, None) /\ Knows("idle", NoJob, vpcRow')
  BY DEF NoJob, Jobs, SubnetTodo, VPCTodo, Responses, Fits, Holds, Knows, HasDeleted
<1>3. TypeOK'
  BY <1>1 DEF IInv, TypeOK, db, cloud, Labels
<1>4. (job \in [Procs -> Jobs])' /\ Exclusive' /\ Places'
  BY <1>1, <1>2 DEF Exclusive, Places
<1> QED
  BY <1>3, <1>4 DEF IInv

\* Every step keeps the inductive invariant.
LEMMA NextIInv == IInv /\ [Next]_vars => IInv'
<1> SUFFICES ASSUME IInv, [Next]_vars PROVE IInv'
  OBVIOUS
<1>1. ASSUME NEW p \in Procs, Begin(p) \/ Serve(p) PROVE IInv'
  BY <1>1, BeginStep, LockStep, CreateStep, RegisterStep, RegisterSubnetStep, UnregisterSubnetStep, AddStep,
     RemoveStep, RemoveCSPStep, DeleteStep, UnregisterStep, GetStep, ListStep, ReturnStep DEF Serve
<1>2. CASE UNCHANGED vars
  <2>1. UNCHANGED <<vpcRow, subnetRow, cspVpc, cspSubnet, unmanaged, grant, pc, job>>
    BY <1>2 DEF vars, db, cloud
  <2> QED
    BY <2>1 DEF IInv, TypeOK, Exclusive, Places
<1> QED
  BY <1>1, <1>2, CrashStep DEF Next

-----------------------------------------------------------------------------
\* The inductive invariant holds in every reachable state.
THEOREM Invariance == Spec => []IInv
BY InitIInv, NextIInv, PTL DEF Spec

\* The tables, the cloud and the locks keep their types, and a driver is only
\* called with an id that a row had.
THEOREM TypeCorrect == Spec => []TypeOK
<1>1. IInv => TypeOK
  BY DEF IInv
<1> QED
  BY <1>1, Invariance, PTL

\* An unforced DeleteVPC and an UnregisterVPC that answer true have removed the
\* row of the VPC, and nobody has made another while the answer is under way.
THEOREM DeleteRemovesVPCRowHolds == Spec => []DeleteRemovesVPCRow
<1>1. IInv => DeleteRemovesVPCRow
  BY DEF IInv, Places, Knows, HasDeleted, DeleteRemovesVPCRow, Succeeded, At
<1> QED
  BY <1>1, Invariance, PTL

\* The row of a VPC that a step sets where there was one is the one that there
\* was: the two inserts come after the check that the name is free, and the
\* lock is held from the check to the insert.
LEMMA StepReplacesNoRow ==
  ASSUME IInv, [Next]_vars
  PROVE  \A v \in VPCs : vpcRow[v] # None /\ vpcRow'[v] # None => vpcRow'[v] = vpcRow[v]
<1>1. CASE UNCHANGED vpcRow
  BY <1>1
<1>2. ASSUME NEW p \in Procs, CreateVPC_insertVPC(p) \/ RegisterVPC_insertVPC(p)
      PROVE  \A v \in VPCs : vpcRow[v] # None /\ vpcRow'[v] # None => vpcRow'[v] = vpcRow[v]
  <2>1. vpcRow[job[p].v] = None
    BY <1>2, Here DEF Knows, CreateVPC_insertVPC, RegisterVPC_insertVPC, At
  <2>2. \/ UNCHANGED vpcRow
        \/ vpcRow' = [vpcRow EXCEPT ![job[p].v] = job[p].made]
        \/ vpcRow' = [vpcRow EXCEPT ![job[p].v] = job[p].id]
    BY <1>2 DEF CreateVPC_insertVPC, RegisterVPC_insertVPC, db
  <2> QED
    BY <2>1, <2>2 DEF IInv, TypeOK
<1>3. ASSUME NEW p \in Procs, vpcRow' = [vpcRow EXCEPT ![job[p].v] = None]
      PROVE  \A v \in VPCs : vpcRow[v] # None /\ vpcRow'[v] # None => vpcRow'[v] = vpcRow[v]
  BY <1>3 DEF IInv, TypeOK
<1>4. ASSUME NEW p \in Procs, Begin(p) \/ Serve(p)
      PROVE  \/ UNCHANGED vpcRow
             \/ CreateVPC_insertVPC(p) \/ RegisterVPC_insertVPC(p)
             \/ vpcRow' = [vpcRow EXCEPT ![job[p].v] = None]
  <2>1. CASE Begin(p) \/ TakeLock(p) \/ Return(p) \/ GetVPC(p) \/ ListVPC(p) \/ RemoveCSPSubnet(p) \/ DeleteCSPVPC(p)
    BY <2>1 DEF Begin, TakeLock, Return, GetVPC, GetVPC_row, GetVPC_csp, ListVPC, ListVPC_rows, ListVPC_lock,
       ListVPC_get, RemoveCSPSubnet, RemoveCSPSubnet_getVPC, RemoveCSPSubnet_csp, DeleteCSPVPC, Reads, db
  <2>2. CASE CreateVPC(p)
    BY <2>2 DEF CreateVPC, CreateVPC_exists, CreateVPC_single, CreateVPC_csp, CreateVPC_undo, CreateVPC_insertSubnet,
       CreateVPC_rollbackCSP, CreateVPC_rollbackVPC, CreateVPC_rollbackSubnets, Reads, db
  <2>3. CASE RegisterVPC(p) \/ RegisterSubnet(p) \/ UnregisterSubnet(p)
    BY <2>3 DEF RegisterVPC, RegisterVPC_exists, RegisterVPC_csp, RegisterVPC_insertSubnet, RegisterSubnet,
       RegisterSubnet_exists, RegisterSubnet_getVPC, RegisterSubnet_csp, RegisterSubnet_insert, UnregisterSubnet,
       UnregisterSubnet_exists, UnregisterSubnet_delete, Reads, db
  <2>4. CASE AddSubnet(p) \/ RemoveSubnet(p)
    BY <2>4 DEF AddSubnet, AddSubnet_exists, AddSubnet_getVPC, AddSubnet_csp, AddSubnet_insert, AddSubnet_readback,
       AddSubnet_rollbackCSP, AddSubnet_rollbackRow, RemoveSubnet, RemoveSubnet_getSubnet, RemoveSubnet_getVPC,
       RemoveSubnet_csp, RemoveSubnet_delete, Reads, db
  <2>5. CASE DeleteVPC(p) \/ UnregisterVPC(p)
    BY <2>5 DEF DeleteVPC, DeleteVPC_getVPC, DeleteVPC_kt, DeleteVPC_csp, DeleteVPC_deleteVPC, DeleteVPC_deleteSubnets,
       UnregisterVPC, UnregisterVPC_exists, UnregisterVPC_deleteVPC, UnregisterVPC_deleteSubnets, Reads, db
  <2> QED
    BY <1>4, <2>1, <2>2, <2>3, <2>4, <2>5 DEF Serve
<1> QED
  BY <1>1, <1>2, <1>3, <1>4 DEF Next, vars, db, Crash

\* No step replaces a VPC's row by another: what one call inserted is never lost
\* to the insert of another call for the same name.
THEOREM VPCRowsNeverReplacedHolds == Spec => VPCRowsNeverReplaced
<1>1. IInv /\ [Next]_vars =>
        [\A v \in VPCs : vpcRow[v] # None /\ vpcRow'[v] # None => vpcRow'[v] = vpcRow[v]]_vars
  BY StepReplacesNoRow
<1> QED
  BY <1>1, Invariance, PTL DEF Spec, VPCRowsNeverReplaced

-----------------------------------------------------------------------------
(* What one step of a goroutine p does, whatever its call: to the other    *)
(* goroutines, to each table and to the cloud, and by which action it came *)
(* to the steps at which something is known.                               *)

Step(p) == Begin(p) \/ Serve(p)

Own(p) == grant[p] = <<job[p].v, "W">>
NoSubnetRows(v) == \A s \in Subnets : subnetRow[<<v, s>>] = None

\* The step of a call of one kind, for the proofs that go through all of them.
Reading(p) == Begin(p) \/ TakeLock(p) \/ Return(p) \/ GetVPC(p) \/ ListVPC(p)
InVPC(p) == CreateVPC(p) \/ RegisterVPC(p)
InSubnet(p) == UnregisterSubnet(p) \/ RegisterSubnet(p) \/ AddSubnet(p)
Leaving(p) == RemoveSubnet(p) \/ RemoveCSPSubnet(p) \/ DeleteVPC(p) \/ DeleteCSPVPC(p) \/ UnregisterVPC(p)

LEMMA StepKinds ==
  ASSUME NEW p \in Procs, Step(p)
  PROVE  Reading(p) \/ InVPC(p) \/ InSubnet(p) \/ Leaving(p)
BY DEF Step, Serve, Reading, InVPC, InSubnet, Leaving

\* The others are where they were, with their calls and locks.
LEMMA OthersStay ==
  ASSUME IInv, NEW p \in Procs, Step(p), NEW q \in Procs, q # p
  PROVE  pc'[q] = pc[q] /\ job'[q] = job[q] /\ grant'[q] = grant[q]
<1>1. /\ pc \in [Procs -> Labels \cup Ops] /\ job \in [Procs -> Jobs]
      /\ grant \in [Procs -> ((VPCs \cup Subnets) \X {"R", "W"}) \cup {None}]
  BY DEF IInv, TypeOK
<1>2. CASE Reading(p)
  BY <1>1, <1>2 DEF Reading, Begin, TakeLock, Return, GetVPC, GetVPC_row, GetVPC_csp, ListVPC, ListVPC_rows,
     ListVPC_lock,
     ListVPC_get, Lock!Acquire, Lock!Release, Reads, DBError, Answer, Goto
<1>3. CASE InVPC(p)
  BY <1>1, <1>3 DEF InVPC, CreateVPC, CreateVPC_exists, CreateVPC_single, CreateVPC_csp, CreateVPC_insertVPC,
     CreateVPC_undo, CreateVPC_insertSubnet, CreateVPC_rollbackCSP, CreateVPC_rollbackVPC,
     CreateVPC_rollbackSubnets,
     RegisterVPC, RegisterVPC_exists, RegisterVPC_csp, RegisterVPC_insertVPC, RegisterVPC_insertSubnet,
     Reads, DBError, Answer, Goto
<1>4. CASE InSubnet(p)
  BY <1>1, <1>4 DEF InSubnet, RegisterSubnet, RegisterSubnet_exists, RegisterSubnet_getVPC, RegisterSubnet_csp,
     RegisterSubnet_insert, UnregisterSubnet, UnregisterSubnet_exists, UnregisterSubnet_delete, AddSubnet,
     AddSubnet_exists, AddSubnet_getVPC, AddSubnet_csp, AddSubnet_insert, AddSubnet_readback,
     AddSubnet_rollbackCSP, AddSubnet_rollbackRow, Reads, DBError, Answer, Goto
<1>5. CASE Leaving(p)
  BY <1>1, <1>5 DEF Leaving, RemoveSubnet, RemoveSubnet_getSubnet, RemoveSubnet_getVPC, RemoveSubnet_csp,
     RemoveSubnet_delete,
     RemoveCSPSubnet, RemoveCSPSubnet_getVPC, RemoveCSPSubnet_csp, DeleteVPC, DeleteVPC_getVPC, DeleteVPC_kt,
     DeleteVPC_csp, DeleteVPC_deleteVPC, DeleteVPC_deleteSubnets, DeleteCSPVPC, UnregisterVPC, UnregisterVPC_exists,
     UnregisterVPC_deleteVPC, UnregisterVPC_deleteSubnets, AfterDriverDelete, Reads, DBError, Answer, Goto
<1> QED
  BY <1>2, <1>3, <1>4, <1>5, StepKinds

\* A row of a VPC changes by an insert or a delete of the call's own VPC.
VPCRowMoves(p) ==
  \/ UNCHANGED vpcRow
  \/ /\ pc[p] = "create.vpcrow" /\ pc'[p] = "create.subnetrow" /\ job'[p] = job[p] /\ subnetRow' = subnetRow
     /\ vpcRow' = [vpcRow EXCEPT ![job[p].v] = job[p].made]
  \/ /\ pc[p] = "register.vpcrow" /\ pc'[p] = "register.subnetrow" /\ job'[p] = job[p] /\ subnetRow' = subnetRow
     /\ vpcRow' = [vpcRow EXCEPT ![job[p].v] = job[p].id]
  \/ /\ \/ pc[p] = "create.rollback2" /\ pc'[p] = "create.rollback3"
        \/ pc[p] = "delete.vpcrow" /\ pc'[p] = "delete.subnetrows"
        \/ pc[p] = "unregister.vpcrow" /\ pc'[p] = "unregister.subnetrows"
     /\ job'[p] = job[p] /\ subnetRow' = subnetRow
     /\ vpcRow' = [vpcRow EXCEPT ![job[p].v] = None]

LEMMA VPCRowStep ==
  ASSUME IInv, NEW p \in Procs, Step(p)
  PROVE  VPCRowMoves(p)
<1>1. pc \in [Procs -> Labels \cup Ops] /\ job \in [Procs -> Jobs]
  BY DEF IInv, TypeOK
<1>2. CASE Reading(p) \/ RegisterSubnet(p) \/ UnregisterSubnet(p) \/ AddSubnet(p) \/ RemoveSubnet(p)
           \/ RemoveCSPSubnet(p) \/ DeleteCSPVPC(p)
  <2>1. UNCHANGED vpcRow
    BY <1>2 DEF Reading, Begin, TakeLock, Return, GetVPC, GetVPC_row, GetVPC_csp, ListVPC, ListVPC_rows,
       ListVPC_lock,
     ListVPC_get, RegisterSubnet, RegisterSubnet_exists, RegisterSubnet_getVPC, RegisterSubnet_csp,
     RegisterSubnet_insert, UnregisterSubnet, UnregisterSubnet_exists, UnregisterSubnet_delete, AddSubnet,
     AddSubnet_exists, AddSubnet_getVPC, AddSubnet_csp, AddSubnet_insert, AddSubnet_readback,
     AddSubnet_rollbackCSP, AddSubnet_rollbackRow, RemoveSubnet, RemoveSubnet_getSubnet, RemoveSubnet_getVPC,
     RemoveSubnet_csp, RemoveSubnet_delete, RemoveCSPSubnet, RemoveCSPSubnet_getVPC, RemoveCSPSubnet_csp,
     DeleteCSPVPC, Reads, db
  <2> QED
    BY <2>1 DEF VPCRowMoves
<1>3. CASE InVPC(p)
  <2>1. CASE CreateVPC_insertVPC(p) \/ CreateVPC_rollbackVPC(p) \/ RegisterVPC_insertVPC(p)
    BY <1>1, <2>1 DEF CreateVPC_insertVPC, CreateVPC_rollbackVPC, RegisterVPC_insertVPC, db, At, Goto, Answer,
       VPCRowMoves
  <2>2. CASE ~(CreateVPC_insertVPC(p) \/ CreateVPC_rollbackVPC(p) \/ RegisterVPC_insertVPC(p))
    BY <1>3, <2>2 DEF InVPC, CreateVPC, CreateVPC_exists, CreateVPC_single, CreateVPC_csp,
     CreateVPC_undo, CreateVPC_insertSubnet, CreateVPC_rollbackCSP, CreateVPC_rollbackSubnets,
     RegisterVPC, RegisterVPC_exists, RegisterVPC_csp, RegisterVPC_insertSubnet, Reads, db, VPCRowMoves
  <2> QED
    BY <2>1, <2>2
<1>4. CASE DeleteVPC(p) \/ UnregisterVPC(p)
  <2>1. CASE DeleteVPC_deleteVPC(p) \/ UnregisterVPC_deleteVPC(p)
    BY <1>1, <2>1 DEF DeleteVPC_deleteVPC, UnregisterVPC_deleteVPC, At, Goto, Answer, VPCRowMoves
  <2>2. CASE ~(DeleteVPC_deleteVPC(p) \/ UnregisterVPC_deleteVPC(p))
    BY <1>4, <2>2 DEF DeleteVPC, DeleteVPC_getVPC, DeleteVPC_kt, DeleteVPC_csp, DeleteVPC_deleteSubnets,
       UnregisterVPC, UnregisterVPC_exists, UnregisterVPC_deleteSubnets, Reads, db, VPCRowMoves
  <2> QED
    BY <2>1, <2>2
<1> QED
  BY <1>2, <1>3, <1>4, StepKinds DEF InSubnet, Leaving

\* A row of a subnet changes by an insert or a delete of the call's own subnet, or
\* with all rows of the call's own VPC.
SubnetRowMoves(p) ==
  \/ UNCHANGED subnetRow
  \/ /\ pc[p] \in {"create.subnetrow", "register.subnetrow"} /\ pc'[p] = pc[p]
     /\ \E t \in job[p].todo : /\ subnetRow' = [subnetRow EXCEPT ![<<job[p].v, t[1]>>] = t[2]]
                               /\ job'[p] = [job[p] EXCEPT !.todo = @ \ {t}]
  \/ /\ pc[p] = "add.insert" /\ pc'[p] = "add.readback" /\ job'[p] = job[p]
     /\ subnetRow' = [subnetRow EXCEPT ![<<job[p].v, job[p].s>>] = job[p].made]
  \/ /\ pc[p] = "regsub.insert"
     /\ subnetRow' = [subnetRow EXCEPT ![<<job[p].v, job[p].s>>] = job[p].id]
  \/ /\ pc[p] \in {"unregsub.delete", "remove.delete", "add.rollback2"} /\ pc'[p] = "done"
     /\ subnetRow' = [subnetRow EXCEPT ![<<job[p].v, job[p].s>>] = None]
  \/ /\ pc[p] \in {"delete.subnetrows", "unregister.subnetrows", "create.rollback3"} /\ pc'[p] = "done"
     /\ subnetRow' = [vs \in VPCs \X Subnets |-> IF vs[1] = job[p].v THEN None ELSE subnetRow[vs]]

LEMMA SubnetRowStep ==
  ASSUME IInv, NEW p \in Procs, Step(p)
  PROVE  SubnetRowMoves(p) /\ (UNCHANGED vpcRow \/ UNCHANGED subnetRow)
<1>1. pc \in [Procs -> Labels \cup Ops] /\ job \in [Procs -> Jobs]
  BY DEF IInv, TypeOK
<1>2. CASE Reading(p) \/ RemoveCSPSubnet(p) \/ DeleteCSPVPC(p)
  <2>1. UNCHANGED <<vpcRow, subnetRow>>
    BY <1>2 DEF Reading, Begin, TakeLock, Return, GetVPC, GetVPC_row, GetVPC_csp, ListVPC, ListVPC_rows,
       ListVPC_lock,
     ListVPC_get, RemoveCSPSubnet, RemoveCSPSubnet_getVPC, RemoveCSPSubnet_csp, DeleteCSPVPC, Reads, db
  <2> QED
    BY <2>1 DEF SubnetRowMoves
<1>3. CASE InVPC(p)
  <2>1. CASE CreateVPC_insertSubnet(p) \/ RegisterVPC_insertSubnet(p)
    <3>1. CASE UNCHANGED subnetRow
      BY <2>1, <3>1 DEF SubnetRowMoves
    <3>2. ASSUME subnetRow' # subnetRow
          PROVE  \E t \in job[p].todo : /\ subnetRow' = [subnetRow EXCEPT ![<<job[p].v, t[1]>>] = t[2]]
                                        /\ job'[p] = [job[p] EXCEPT !.todo = @ \ {t}]
      BY <1>1, <2>1, <3>2 DEF CreateVPC_insertSubnet, RegisterVPC_insertSubnet
    <3>3. ASSUME subnetRow' # subnetRow
          PROVE  pc[p] \in {"create.subnetrow", "register.subnetrow"} /\ pc'[p] = pc[p] /\ UNCHANGED vpcRow
      BY <1>1, <2>1, <3>3 DEF CreateVPC_insertSubnet, RegisterVPC_insertSubnet, At
    <3> QED
      BY <2>1, <3>1, <3>2, <3>3 DEF SubnetRowMoves
  <2>2. CASE CreateVPC_rollbackSubnets(p)
    BY <1>1, <2>2 DEF CreateVPC_rollbackSubnets, At, Goto, Answer, SubnetRowMoves
  <2>3. CASE ~(CreateVPC_insertSubnet(p) \/ RegisterVPC_insertSubnet(p) \/ CreateVPC_rollbackSubnets(p))
    <3>1. UNCHANGED subnetRow
      BY <1>3, <2>3 DEF InVPC, CreateVPC, CreateVPC_exists, CreateVPC_single, CreateVPC_csp, CreateVPC_insertVPC,
       CreateVPC_undo, CreateVPC_rollbackCSP, CreateVPC_rollbackVPC, RegisterVPC, RegisterVPC_exists,
       RegisterVPC_csp,
       RegisterVPC_insertVPC, Reads, db
    <3> QED
      BY <3>1 DEF SubnetRowMoves
  <2> QED
    BY <2>1, <2>2, <2>3
<1>4. CASE DeleteVPC(p) \/ UnregisterVPC(p)
  <2>1. CASE DeleteVPC_deleteSubnets(p) \/ UnregisterVPC_deleteSubnets(p)
    BY <1>1, <2>1 DEF DeleteVPC_deleteSubnets, UnregisterVPC_deleteSubnets, At, Goto, Answer, SubnetRowMoves
  <2>2. CASE ~(DeleteVPC_deleteSubnets(p) \/ UnregisterVPC_deleteSubnets(p))
    <3>1. UNCHANGED subnetRow
      BY <1>4, <2>2 DEF DeleteVPC, DeleteVPC_getVPC, DeleteVPC_kt, DeleteVPC_csp, DeleteVPC_deleteVPC,
       UnregisterVPC, UnregisterVPC_exists, UnregisterVPC_deleteVPC, Reads, db
    <3> QED
      BY <3>1 DEF SubnetRowMoves
  <2> QED
    BY <2>1, <2>2
<1>5. CASE InSubnet(p) \/ RemoveSubnet(p)
  <2>1. UNCHANGED vpcRow
    BY <1>5 DEF InSubnet, RegisterSubnet, RegisterSubnet_exists, RegisterSubnet_getVPC, RegisterSubnet_csp,
     RegisterSubnet_insert, UnregisterSubnet, UnregisterSubnet_exists, UnregisterSubnet_delete, AddSubnet,
     AddSubnet_exists, AddSubnet_getVPC, AddSubnet_csp, AddSubnet_insert, AddSubnet_readback,
     AddSubnet_rollbackCSP, AddSubnet_rollbackRow, RemoveSubnet, RemoveSubnet_getSubnet, RemoveSubnet_getVPC,
     RemoveSubnet_csp, RemoveSubnet_delete, Reads, db
  <2>2. CASE RegisterSubnet_insert(p) \/ UnregisterSubnet_delete(p) \/ RemoveSubnet_delete(p)
    BY <1>1, <2>1, <2>2 DEF RegisterSubnet_insert, UnregisterSubnet_delete, RemoveSubnet_delete, At, Goto, Answer,
       SubnetRowMoves
  <2>3. CASE AddSubnet_insert(p) \/ AddSubnet_rollbackRow(p)
    BY <1>1, <2>1, <2>3 DEF AddSubnet_insert, AddSubnet_rollbackRow, At, Goto, Answer, SubnetRowMoves
  <2>4. CASE ~(RegisterSubnet_insert(p) \/ UnregisterSubnet_delete(p) \/ RemoveSubnet_delete(p)
               \/ AddSubnet_insert(p) \/ AddSubnet_rollbackRow(p))
    <3>1. UNCHANGED subnetRow
      BY <1>5, <2>4 DEF InSubnet, RegisterSubnet, RegisterSubnet_exists, RegisterSubnet_getVPC, RegisterSubnet_csp,
       UnregisterSubnet, UnregisterSubnet_exists, AddSubnet, AddSubnet_exists, AddSubnet_getVPC, AddSubnet_csp,
       AddSubnet_readback, AddSubnet_rollbackCSP, RemoveSubnet, RemoveSubnet_getSubnet, RemoveSubnet_getVPC,
       RemoveSubnet_csp, Reads, db
    <3> QED
      BY <2>1, <3>1 DEF SubnetRowMoves
  <2> QED
    BY <2>2, <2>3, <2>4
<1> QED
  BY <1>2, <1>3, <1>4, <1>5, StepKinds DEF InSubnet, Leaving

\* What exists in the cloud and is left there on purpose, or no more exists: of that
\* no row and no call need know.
SettledV(vid) == vid \notin cspVpc \/ vid \in unmanaged
SettledS(sid) == cspSubnet[sid] = None \/ sid \in unmanaged

Shrinks ==
  /\ cspVpc' \subseteq cspVpc /\ \A sid \in SIds : cspSubnet'[sid] \in {cspSubnet[sid], None}
  /\ \A vid \in VIds : SettledV(vid) => SettledV(vid)'
  /\ \A sid \in SIds : SettledS(sid) => SettledS(sid)'

MakesVPC(p) ==
  /\ pc[p] = "create.csp" /\ pc'[p] = "create.vpcrow" /\ UNCHANGED <<db, unmanaged, grant>>
  /\ \E vid \in VIds, names \in SUBSET Subnets : \E ids \in [names -> SIds] :
       /\ FreshV(vid) /\ \A s \in names : FreshS(ids[s])
       /\ \A s, t \in names : ids[s] = ids[t] => s = t
       /\ cspVpc' = cspVpc \cup {vid}
       /\ cspSubnet' = [sid \in SIds |-> IF \E s \in names : ids[s] = sid THEN vid ELSE cspSubnet[sid]]
       /\ job'[p] = [job[p] EXCEPT !.made = vid, !.todo = {<<s, ids[s]>> : s \in names}]

MakesSubnet(p) ==
  /\ pc[p] = "add.csp" /\ pc'[p] = "add.insert" /\ UNCHANGED <<db, cspVpc, unmanaged, grant>>
  /\ job[p].row \in cspVpc
  /\ \E sid \in SIds : /\ FreshS(sid)
                       /\ cspSubnet' = [cspSubnet EXCEPT ![sid] = job[p].row]
                       /\ job'[p] = [job[p] EXCEPT !.made = sid]

\* What the driver deletes, or leaves, is settled or as it was.
LEMMA DriverDeletes ==
  ASSUME TypeOK
  PROVE  /\ \A vid \in VIds : RemoveVpcFromCsp(vid) => Shrinks
         /\ \A vid \in VIds, known \in BOOLEAN : LeaveVpcInCsp(vid, known) => Shrinks
         /\ \A sid \in SIds : RemoveSubnetFromCsp(sid) => Shrinks
         /\ \A sid \in SIds, known \in BOOLEAN : LeaveSubnetInCsp(sid, known) => Shrinks
         /\ UNCHANGED cloud => Shrinks
<1>1. ASSUME NEW vid \in VIds, RemoveVpcFromCsp(vid) PROVE Shrinks
  BY <1>1, VPCAssumption DEF RemoveVpcFromCsp, Shrinks, SettledV, SettledS, SubnetsOf, TypeOK
<1>2. ASSUME NEW vid \in VIds, NEW known \in BOOLEAN, LeaveVpcInCsp(vid, known) PROVE Shrinks
  BY <1>2 DEF LeaveVpcInCsp, Shrinks, SettledV, SettledS, TypeOK
<1>3. ASSUME NEW sid \in SIds, RemoveSubnetFromCsp(sid) PROVE Shrinks
  BY <1>3, VPCAssumption DEF RemoveSubnetFromCsp, Shrinks, SettledV, SettledS, TypeOK
<1>4. ASSUME NEW sid \in SIds, NEW known \in BOOLEAN, LeaveSubnetInCsp(sid, known) PROVE Shrinks
  BY <1>4 DEF LeaveSubnetInCsp, Shrinks, SettledV, SettledS, TypeOK
<1>5. UNCHANGED cloud => Shrinks
  BY DEF cloud, Shrinks, SettledV, SettledS
<1> QED
  BY <1>1, <1>2, <1>3, <1>4, <1>5

LEMMA CloudStep ==
  ASSUME IInv, NEW p \in Procs, Step(p)
  PROVE  Shrinks \/ MakesVPC(p) \/ MakesSubnet(p)
<1>1. TypeOK /\ job \in [Procs -> Jobs] /\ job[p] \in Jobs /\ Fits(pc[p], job[p])
  BY Here
<1>2. CASE Reading(p)
  <2>1. UNCHANGED cloud
    BY <1>2 DEF Reading, Begin, TakeLock, Return, GetVPC, GetVPC_row, GetVPC_csp, ListVPC, ListVPC_rows,
       ListVPC_lock,
     ListVPC_get, Reads
  <2> QED
    BY <1>1, <2>1, DriverDeletes
<1>3. CASE CreateVPC_csp(p)
  <2>1. CASE UNCHANGED cloud
    BY <1>1, <2>1, DriverDeletes
  <2>2. CASE ~UNCHANGED cloud
    <3>1. PICK vid \in VIds, names \in SUBSET Subnets : \E ids \in [names -> SIds] :
            /\ FreshV(vid)
            /\ \A s \in names : FreshS(ids[s])
            /\ \A s, t \in names : ids[s] = ids[t] => s = t
            /\ cspVpc' = cspVpc \cup {vid}
            /\ cspSubnet' = [sid \in SIds |-> IF \E s \in names : ids[s] = sid THEN vid ELSE cspSubnet[sid]]
            /\ job' = [job EXCEPT ![p].made = vid, ![p].todo = {<<s, ids[s]>> : s \in names}]
            /\ Goto(p, "create.vpcrow")
            /\ UNCHANGED <<db, unmanaged, grant>>
      BY <1>3, <2>2, Zenon DEF CreateVPC_csp
    <3>2. PICK ids \in [names -> SIds] :
            /\ FreshV(vid)
            /\ \A s \in names : FreshS(ids[s])
            /\ \A s, t \in names : ids[s] = ids[t] => s = t
            /\ cspVpc' = cspVpc \cup {vid}
            /\ cspSubnet' = [sid \in SIds |-> IF \E s \in names : ids[s] = sid THEN vid ELSE cspSubnet[sid]]
            /\ job' = [job EXCEPT ![p].made = vid, ![p].todo = {<<s, ids[s]>> : s \in names}]
            /\ Goto(p, "create.vpcrow")
            /\ UNCHANGED <<db, unmanaged, grant>>
      BY <3>1, Zenon
    <3>3. job'[p] = [job[p] EXCEPT !.made = vid, !.todo = {<<s, ids[s]>> : s \in names}]
      BY <1>1, <3>2
    <3>4. pc[p] = "create.csp" /\ pc'[p] = "create.vpcrow"
      BY <1>1, <1>3, <3>2 DEF CreateVPC_csp, At, Goto, TypeOK
    <3> QED
      BY <3>2, <3>3, <3>4, Zenon DEF MakesVPC
  <2> QED
    BY <2>1, <2>2
<1>4. CASE InVPC(p) /\ ~CreateVPC_csp(p)
  <2>1. CASE CreateVPC_undo(p) \/ CreateVPC_rollbackCSP(p)
    <3>1. job[p].made \in VIds
      BY <1>1, <2>1 DEF CreateVPC_undo, CreateVPC_rollbackCSP, At, Fits
    <3>2. RemoveVpcFromCsp(job[p].made) \/ \E known \in BOOLEAN : LeaveVpcInCsp(job[p].made, known)
      BY <2>1 DEF CreateVPC_undo, CreateVPC_rollbackCSP
    <3> QED
      BY <1>1, <3>1, <3>2, DriverDeletes
  <2>2. CASE ~(CreateVPC_undo(p) \/ CreateVPC_rollbackCSP(p))
    <3>1. UNCHANGED cloud
      BY <1>4, <2>2 DEF InVPC, CreateVPC, CreateVPC_exists, CreateVPC_single, CreateVPC_insertVPC,
       CreateVPC_insertSubnet, CreateVPC_rollbackVPC, CreateVPC_rollbackSubnets,
       RegisterVPC, RegisterVPC_exists, RegisterVPC_csp, RegisterVPC_insertVPC, RegisterVPC_insertSubnet, Reads
    <3> QED
      BY <1>1, <3>1, DriverDeletes
  <2> QED
    BY <2>1, <2>2
<1>5. CASE InSubnet(p)
  <2>1. CASE AddSubnet_csp(p)
    <3>1. CASE UNCHANGED cloud
      BY <1>1, <3>1, DriverDeletes
    <3>2. CASE ~UNCHANGED cloud
      <4>1. PICK sid \in SIds : /\ FreshS(sid)
                                /\ cspSubnet' = [cspSubnet EXCEPT ![sid] = job[p].row]
                                /\ job' = [job EXCEPT ![p].made = sid]
        BY <2>1, <3>2 DEF AddSubnet_csp
      <4>2. /\ job[p].row \in cspVpc /\ pc[p] = "add.csp" /\ Goto(p, "add.insert")
            /\ UNCHANGED <<db, cspVpc, unmanaged, grant>>
        BY <2>1, <3>2 DEF AddSubnet_csp, At
      <4>3. job'[p] = [job[p] EXCEPT !.made = sid] /\ pc'[p] = "add.insert"
        BY <1>1, <4>1, <4>2 DEF Goto, TypeOK
      <4> QED
        BY <4>1, <4>2, <4>3 DEF MakesSubnet
    <3> QED
      BY <3>1, <3>2
  <2>2. CASE AddSubnet_rollbackCSP(p)
    <3>1. job[p].made \in SIds
      BY <1>1, <2>2 DEF AddSubnet_rollbackCSP, At, Fits
    <3>2. RemoveSubnetFromCsp(job[p].made) \/ \E known \in BOOLEAN : LeaveSubnetInCsp(job[p].made, known)
      BY <2>2 DEF AddSubnet_rollbackCSP
    <3> QED
      BY <1>1, <3>1, <3>2, DriverDeletes
  <2>3. CASE UnregisterSubnet_delete(p)
    BY <1>1, <2>3 DEF UnregisterSubnet_delete, Shrinks, SettledV, SettledS
  <2>4. CASE ~(AddSubnet_csp(p) \/ AddSubnet_rollbackCSP(p) \/ UnregisterSubnet_delete(p))
    <3>1. UNCHANGED cloud
      BY <1>5, <2>4 DEF InSubnet, RegisterSubnet, RegisterSubnet_exists, RegisterSubnet_getVPC, RegisterSubnet_csp,
       RegisterSubnet_insert, UnregisterSubnet, UnregisterSubnet_exists, AddSubnet, AddSubnet_exists,
       AddSubnet_getVPC, AddSubnet_insert, AddSubnet_readback, AddSubnet_rollbackRow, Reads
    <3> QED
      BY <1>1, <3>1, DriverDeletes
  <2> QED
    BY <2>1, <2>2, <2>3, <2>4
<1>6. CASE Leaving(p)
  <2>1. CASE RemoveSubnet_csp(p) \/ RemoveCSPSubnet_csp(p)
    <3>1. CASE RemoveSubnet_csp(p)
      <4>1. job[p].sub \in SIds /\ job[p].force \in BOOLEAN
        BY <1>1, <3>1 DEF RemoveSubnet_csp, At, Fits, Jobs
      <4>2. RemoveSubnetFromCsp(job[p].sub) \/ LeaveSubnetInCsp(job[p].sub, job[p].force)
        BY <3>1 DEF RemoveSubnet_csp
      <4> QED
        BY <1>1, <4>1, <4>2, DriverDeletes
    <3>2. CASE RemoveCSPSubnet_csp(p)
      <4>1. job[p].id \in SIds
        BY <1>1, <3>2 DEF RemoveCSPSubnet_csp, At, Fits
      <4>2. RemoveSubnetFromCsp(job[p].id) \/ LeaveSubnetInCsp(job[p].id, FALSE)
        BY <3>2 DEF RemoveCSPSubnet_csp
      <4> QED
        BY <1>1, <4>1, <4>2, DriverDeletes
    <3> QED
      BY <2>1, <3>1, <3>2
  <2>2. CASE DeleteVPC_csp(p) \/ DeleteCSPVPC(p)
    <3>1. CASE DeleteVPC_csp(p)
      <4>1. job[p].row \in VIds /\ job[p].force \in BOOLEAN
        BY <1>1, <3>1 DEF DeleteVPC_csp, At, Fits, Jobs
      <4>2. RemoveVpcFromCsp(job[p].row) \/ LeaveVpcInCsp(job[p].row, job[p].force)
        BY <3>1 DEF DeleteVPC_csp
      <4> QED
        BY <1>1, <4>1, <4>2, DriverDeletes
    <3>2. CASE DeleteCSPVPC(p)
      <4>1. job[p].id \in VIds
        BY <1>1, <3>2 DEF DeleteCSPVPC, At, Fits
      <4>2. RemoveVpcFromCsp(job[p].id) \/ LeaveVpcInCsp(job[p].id, FALSE)
        BY <3>2 DEF DeleteCSPVPC
      <4> QED
        BY <1>1, <4>1, <4>2, DriverDeletes
    <3> QED
      BY <2>2, <3>1, <3>2
  <2>3. CASE DeleteVPC_kt(p)
    <3>1. UNCHANGED cspVpc
      BY <2>3 DEF DeleteVPC_kt
    <3>2. PICK gone \in SUBSET SIds :
            /\ cspSubnet' = [sid \in SIds |-> IF sid \in gone THEN None ELSE cspSubnet[sid]]
            /\ unmanaged' = unmanaged \ gone
      BY <2>3 DEF DeleteVPC_kt, SubnetsOf
    <3>3. \A vid \in VIds : SettledV(vid) => SettledV(vid)'
      BY <3>1, <3>2, VPCAssumption DEF SettledV
    <3>4. \A sid \in SIds : SettledS(sid) => SettledS(sid)'
      BY <3>2 DEF SettledS
    <3>5. \A sid \in SIds : cspSubnet'[sid] \in {cspSubnet[sid], None}
      BY <3>2
    <3> QED
      BY <3>1, <3>3, <3>4, <3>5 DEF Shrinks
  <2>4. CASE UnregisterVPC_deleteVPC(p)
    <3>1. UNCHANGED <<cspVpc, cspSubnet>> /\ unmanaged \subseteq unmanaged'
      BY <2>4 DEF UnregisterVPC_deleteVPC
    <3> QED
      BY <3>1 DEF Shrinks, SettledV, SettledS
  <2>5. CASE ~(RemoveSubnet_csp(p) \/ RemoveCSPSubnet_csp(p) \/ DeleteVPC_csp(p) \/ DeleteCSPVPC(p) \/ DeleteVPC_kt(p)
               \/ UnregisterVPC_deleteVPC(p))
    <3>1. UNCHANGED cloud
      BY <1>6, <2>5 DEF Leaving, RemoveSubnet, RemoveSubnet_getSubnet, RemoveSubnet_getVPC, RemoveSubnet_delete,
       RemoveCSPSubnet, RemoveCSPSubnet_getVPC, DeleteVPC, DeleteVPC_getVPC, DeleteVPC_deleteVPC,
       DeleteVPC_deleteSubnets, UnregisterVPC, UnregisterVPC_exists, UnregisterVPC_deleteSubnets, Reads
    <3> QED
      BY <1>1, <3>1, DriverDeletes
  <2> QED
    BY <2>1, <2>2, <2>3, <2>4, <2>5
<1> QED
  BY <1>2, <1>3, <1>4, <1>5, <1>6, StepKinds

\* A call is under way from its begin to its return, and keeps its lock but in ListVPC.
LEMMA Busy ==
  ASSUME IInv, NEW p \in Procs, Serve(p), ~Return(p)
  PROVE  /\ pc[p] # "idle" /\ pc[p] # "done" /\ pc'[p] # "idle"
         /\ pc[p] \notin {"lock", "list.next", "list.get"} => grant'[p] = grant[p]
<1>1. /\ pc \in [Procs -> Labels \cup Ops] /\ job \in [Procs -> Jobs] /\ Fits(pc[p], job[p])
      /\ grant \in [Procs -> ((VPCs \cup Subnets) \X {"R", "W"}) \cup {None}]
  BY DEF IInv, TypeOK, Places
<1>2. CASE TakeLock(p)
  BY <1>1, <1>2, VPCAssumption DEF AllOps, TakeLock, Goto, At, Fits
<1>11. CASE GetVPC(p)
  BY <1>1, <1>11 DEF GetVPC, GetVPC_row, GetVPC_csp, Reads, DBError, Answer, Goto, At
<1>3. CASE ListVPC(p)
  BY <1>1, <1>3 DEF ListVPC, ListVPC_rows, ListVPC_lock, ListVPC_get, Lock!Acquire, Lock!Release, Reads, DBError,
     Answer, Goto, At, Fits, Lockless
<1>4. CASE CreateVPC(p)
  BY <1>1, <1>4 DEF CreateVPC, CreateVPC_exists, CreateVPC_single, CreateVPC_csp, CreateVPC_insertVPC,
     CreateVPC_undo, CreateVPC_insertSubnet, CreateVPC_rollbackCSP, CreateVPC_rollbackVPC,
     CreateVPC_rollbackSubnets,
     Reads, DBError, Answer, Goto, At, Fits, Lockless
<1>5. CASE RegisterVPC(p)
  BY <1>1, <1>5 DEF RegisterVPC, RegisterVPC_exists, RegisterVPC_csp, RegisterVPC_insertVPC,
     RegisterVPC_insertSubnet, Reads, DBError, Answer, Goto, At, Fits, Lockless
<1>6. CASE RegisterSubnet(p) \/ UnregisterSubnet(p)
  BY <1>1, <1>6 DEF RegisterSubnet, RegisterSubnet_exists, RegisterSubnet_getVPC, RegisterSubnet_csp,
     RegisterSubnet_insert, UnregisterSubnet, UnregisterSubnet_exists, UnregisterSubnet_delete, Reads, DBError,
     Answer, Goto, At, Fits, Lockless
<1>7. CASE AddSubnet(p)
  BY <1>1, <1>7 DEF AddSubnet, AddSubnet_exists, AddSubnet_getVPC, AddSubnet_csp, AddSubnet_insert,
     AddSubnet_readback,
     AddSubnet_rollbackCSP, AddSubnet_rollbackRow, Reads, DBError, Answer, Goto, At, Fits, Lockless
<1>8. CASE RemoveSubnet(p) \/ RemoveCSPSubnet(p)
  BY <1>1, <1>8 DEF RemoveSubnet, RemoveSubnet_getSubnet, RemoveSubnet_getVPC, RemoveSubnet_csp,
     RemoveSubnet_delete, RemoveCSPSubnet, RemoveCSPSubnet_getVPC, RemoveCSPSubnet_csp, AfterDriverDelete, Reads,
     DBError, Answer, Goto, At, Fits, Lockless
<1>9. CASE DeleteVPC(p) \/ DeleteCSPVPC(p)
  <2>1. CASE DeleteVPC_kt(p)
    BY <1>1, <2>1 DEF DeleteVPC_kt, Goto, At
  <2>2. CASE DeleteVPC_csp(p)
    BY <1>1, <2>2 DEF DeleteVPC_csp, AfterDriverDelete, Answer, Goto, At
  <2>3. CASE DeleteCSPVPC(p)
    BY <1>1, <2>3 DEF DeleteCSPVPC, Answer, Goto, At
  <2>4. CASE DeleteVPC_getVPC(p) \/ DeleteVPC_deleteVPC(p) \/ DeleteVPC_deleteSubnets(p)
    BY <1>1, <2>4 DEF DeleteVPC_getVPC, DeleteVPC_deleteVPC, DeleteVPC_deleteSubnets, Reads, DBError, Answer,
       Goto, At
  <2> QED
    BY <1>9, <2>1, <2>2, <2>3, <2>4 DEF DeleteVPC
<1>10. CASE UnregisterVPC(p)
  BY <1>1, <1>10 DEF UnregisterVPC, UnregisterVPC_exists, UnregisterVPC_deleteVPC, UnregisterVPC_deleteSubnets,
     Reads, DBError, Answer, Goto, At, Fits, Lockless
<1> QED
  BY <1>2, <1>3, <1>4, <1>5, <1>6, <1>7, <1>8, <1>9, <1>10, <1>11 DEF Serve

\* A call keeps its name and arguments (only ListVPC goes from one VPC to the next), and
\* remembers what it has read or made until it reads or makes it again.
Keeps(p) ==
  /\ job'[p].op = job[p].op /\ job'[p].s = job[p].s /\ job'[p].id = job[p].id
  /\ pc[p] \notin ListPcs => job'[p].v = job[p].v
  /\ pc[p] \notin {"create.csp", "add.csp"} => job'[p].made = job[p].made
  /\ pc[p] # "RemoveSubnet" => job'[p].sub = job[p].sub
  /\ pc[p] \in {"create.vpcrow", "register.vpcrow"} => job'[p].todo = job[p].todo
  /\ pc[p] \in {"add.csp", "remove.csp", "delete.kt", "delete.csp"} => job'[p].row = job[p].row

LEMMA SameCall ==
  ASSUME IInv, NEW p \in Procs, Serve(p), ~Return(p)
  PROVE  Keeps(p)
<1>1. job \in [Procs -> Jobs]
  BY DEF IInv
<1>2. CASE TakeLock(p)
  BY <1>1, <1>2 DEF Keeps, TakeLock, Jobs, At
<1>3. CASE GetVPC(p)
  <2>1. CASE GetVPC_row(p)
    BY <1>1, <2>1 DEF Keeps, GetVPC_row, Jobs, At, Answer, DBError
  <2>2. CASE GetVPC_csp(p)
    BY <1>1, <2>2 DEF Keeps, GetVPC_csp, Jobs, At, Answer, DBError
  <2> QED
    BY <1>3, <2>1, <2>2 DEF GetVPC
<1>4. CASE ListVPC(p)
  <2>1. CASE ListVPC_rows(p)
    BY <1>1, <2>1 DEF Keeps, ListVPC_rows, Jobs, At, Answer, DBError
  <2>2. CASE ListVPC_lock(p)
    <3>1. pc[p] = "list.next"
      BY <2>2 DEF ListVPC_lock, At
    <3>2. CASE \E r : job' = [job EXCEPT ![p].resp = r]
      BY <1>1, <3>1, <3>2 DEF Keeps, Jobs
    <3>3. CASE \E v, r, todo : job' = [job EXCEPT ![p].v = v, ![p].row = r, ![p].todo = todo]
      BY <1>1, <3>1, <3>3 DEF Keeps, Jobs
    <3> QED
      BY <2>2, <3>2, <3>3 DEF ListVPC_lock, Answer
  <2>3. CASE ListVPC_get(p)
    BY <1>1, <2>3 DEF Keeps, ListVPC_get, Jobs, At, Answer, DBError
  <2> QED
    BY <1>4, <2>1, <2>2, <2>3 DEF ListVPC
<1>5. CASE CreateVPC(p)
  <2>1. CASE CreateVPC_exists(p)
    BY <1>1, <2>1 DEF Keeps, CreateVPC_exists, Jobs, At, Answer, DBError
  <2>2. CASE CreateVPC_single(p)
    BY <1>1, <2>2 DEF Keeps, CreateVPC_single, Jobs, At, Answer, DBError
  <2>3. CASE CreateVPC_csp(p)
    <3>1. pc[p] = "create.csp"
      BY <2>3 DEF CreateVPC_csp, At
    <3>2. CASE \E r : job' = [job EXCEPT ![p].resp = r]
      BY <1>1, <3>1, <3>2 DEF Keeps, Jobs
    <3>3. CASE \E vid, todo : job' = [job EXCEPT ![p].made = vid, ![p].todo = todo]
      BY <1>1, <3>1, <3>3 DEF Keeps, Jobs
    <3> QED
      BY <2>3, <3>2, <3>3 DEF CreateVPC_csp, Answer
  <2>4. CASE CreateVPC_insertVPC(p)
    BY <1>1, <2>4 DEF Keeps, CreateVPC_insertVPC, Jobs, At, Answer, DBError
  <2>5. CASE CreateVPC_undo(p)
    BY <1>1, <2>5 DEF Keeps, CreateVPC_undo, Jobs, At, Answer, DBError
  <2>6. CASE CreateVPC_insertSubnet(p)
    BY <1>1, <2>6 DEF Keeps, CreateVPC_insertSubnet, Jobs, At, Answer, DBError
  <2>7. CASE CreateVPC_rollbackCSP(p)
    BY <1>1, <2>7 DEF Keeps, CreateVPC_rollbackCSP, Jobs, At, Answer, DBError
  <2>8. CASE CreateVPC_rollbackVPC(p)
    BY <1>1, <2>8 DEF Keeps, CreateVPC_rollbackVPC, Jobs, At, Answer, DBError
  <2>9. CASE CreateVPC_rollbackSubnets(p)
    BY <1>1, <2>9 DEF Keeps, CreateVPC_rollbackSubnets, Jobs, At, Answer, DBError
  <2> QED
    BY <1>5, <2>1, <2>2, <2>3, <2>4, <2>5, <2>6, <2>7, <2>8, <2>9 DEF CreateVPC
<1>6. CASE RegisterVPC(p)
  <2>1. CASE RegisterVPC_exists(p)
    BY <1>1, <2>1 DEF Keeps, RegisterVPC_exists, Jobs, At, Answer, DBError
  <2>2. CASE RegisterVPC_csp(p)
    BY <1>1, <2>2 DEF Keeps, RegisterVPC_csp, Jobs, At, Answer, DBError
  <2>3. CASE RegisterVPC_insertVPC(p)
    BY <1>1, <2>3 DEF Keeps, RegisterVPC_insertVPC, Jobs, At, Answer, DBError
  <2>4. CASE RegisterVPC_insertSubnet(p)
    BY <1>1, <2>4 DEF Keeps, RegisterVPC_insertSubnet, Jobs, At, Answer, DBError
  <2> QED
    BY <1>6, <2>1, <2>2, <2>3, <2>4 DEF RegisterVPC
<1>7. CASE RegisterSubnet(p)
  <2>1. CASE RegisterSubnet_exists(p)
    BY <1>1, <2>1 DEF Keeps, RegisterSubnet_exists, Jobs, At, Answer, DBError
  <2>2. CASE RegisterSubnet_getVPC(p)
    BY <1>1, <2>2 DEF Keeps, RegisterSubnet_getVPC, Jobs, At, Answer, DBError
  <2>3. CASE RegisterSubnet_csp(p)
    BY <1>1, <2>3 DEF Keeps, RegisterSubnet_csp, Jobs, At, Answer, DBError
  <2>4. CASE RegisterSubnet_insert(p)
    BY <1>1, <2>4 DEF Keeps, RegisterSubnet_insert, Jobs, At, Answer, DBError
  <2> QED
    BY <1>7, <2>1, <2>2, <2>3, <2>4 DEF RegisterSubnet
<1>8. CASE UnregisterSubnet(p)
  <2>1. CASE UnregisterSubnet_exists(p)
    BY <1>1, <2>1 DEF Keeps, UnregisterSubnet_exists, Jobs, At, Answer, DBError
  <2>2. CASE UnregisterSubnet_delete(p)
    <3>1. At(p, "unregsub.delete") /\ \E r : job' = [job EXCEPT ![p].resp = r]
      BY <2>2 DEF UnregisterSubnet_delete, Answer
    <3> QED
      BY <1>1, <3>1 DEF Keeps, Jobs, At
  <2> QED
    BY <1>8, <2>1, <2>2 DEF UnregisterSubnet
<1>9. CASE AddSubnet(p)
  <2>1. CASE AddSubnet_exists(p)
    BY <1>1, <2>1 DEF Keeps, AddSubnet_exists, Jobs, At, Answer, DBError
  <2>2. CASE AddSubnet_getVPC(p)
    BY <1>1, <2>2 DEF Keeps, AddSubnet_getVPC, Jobs, At, Answer, DBError
  <2>3. CASE AddSubnet_csp(p)
    BY <1>1, <2>3 DEF Keeps, AddSubnet_csp, Jobs, At, Answer, DBError
  <2>4. CASE AddSubnet_insert(p)
    BY <1>1, <2>4 DEF Keeps, AddSubnet_insert, Jobs, At, Answer, DBError
  <2>5. CASE AddSubnet_readback(p)
    BY <1>1, <2>5 DEF Keeps, AddSubnet_readback, Jobs, At, Answer, DBError
  <2>6. CASE AddSubnet_rollbackCSP(p)
    BY <1>1, <2>6 DEF Keeps, AddSubnet_rollbackCSP, Jobs, At, Answer, DBError
  <2>7. CASE AddSubnet_rollbackRow(p)
    BY <1>1, <2>7 DEF Keeps, AddSubnet_rollbackRow, Jobs, At, Answer, DBError
  <2> QED
    BY <1>9, <2>1, <2>2, <2>3, <2>4, <2>5, <2>6, <2>7 DEF AddSubnet
<1>10. CASE RemoveSubnet(p)
  <2>1. CASE RemoveSubnet_getSubnet(p)
    BY <1>1, <2>1 DEF Keeps, RemoveSubnet_getSubnet, Jobs, At, Answer, DBError
  <2>2. CASE RemoveSubnet_getVPC(p)
    BY <1>1, <2>2 DEF Keeps, RemoveSubnet_getVPC, Jobs, At, Answer, DBError
  <2>3. CASE RemoveSubnet_csp(p)
    BY <1>1, <2>3 DEF Keeps, RemoveSubnet_csp, Jobs, At, AfterDriverDelete, Answer, DBError
  <2>4. CASE RemoveSubnet_delete(p)
    BY <1>1, <2>4 DEF Keeps, RemoveSubnet_delete, Jobs, At, Answer, DBError
  <2> QED
    BY <1>10, <2>1, <2>2, <2>3, <2>4 DEF RemoveSubnet
<1>11. CASE RemoveCSPSubnet(p)
  <2>1. CASE RemoveCSPSubnet_getVPC(p)
    BY <1>1, <2>1 DEF Keeps, RemoveCSPSubnet_getVPC, Jobs, At, Answer, DBError
  <2>2. CASE RemoveCSPSubnet_csp(p)
    BY <1>1, <2>2 DEF Keeps, RemoveCSPSubnet_csp, Jobs, At, Answer, DBError
  <2> QED
    BY <1>11, <2>1, <2>2 DEF RemoveCSPSubnet
<1>12. CASE DeleteVPC(p)
  <2>1. CASE DeleteVPC_getVPC(p)
    BY <1>1, <2>1 DEF Keeps, DeleteVPC_getVPC, Jobs, At, Answer, DBError
  <2>2. CASE DeleteVPC_kt(p)
    BY <1>1, <2>2 DEF Keeps, DeleteVPC_kt, Jobs, At, Answer, DBError
  <2>3. CASE DeleteVPC_csp(p)
    BY <1>1, <2>3 DEF Keeps, DeleteVPC_csp, Jobs, At, AfterDriverDelete, Answer, DBError
  <2>4. CASE DeleteVPC_deleteVPC(p)
    BY <1>1, <2>4 DEF Keeps, DeleteVPC_deleteVPC, Jobs, At, Answer, DBError
  <2>5. CASE DeleteVPC_deleteSubnets(p)
    BY <1>1, <2>5 DEF Keeps, DeleteVPC_deleteSubnets, Jobs, At, Answer, DBError
  <2> QED
    BY <1>12, <2>1, <2>2, <2>3, <2>4, <2>5 DEF DeleteVPC
<1>13. CASE DeleteCSPVPC(p)
  BY <1>1, <1>13 DEF Keeps, DeleteCSPVPC, Jobs, At, Answer, DBError
<1>14. CASE UnregisterVPC(p)
  <2>1. CASE UnregisterVPC_exists(p)
    BY <1>1, <2>1 DEF Keeps, UnregisterVPC_exists, Jobs, At, Answer, DBError
  <2>2. CASE UnregisterVPC_deleteVPC(p)
    BY <1>1, <2>2 DEF Keeps, UnregisterVPC_deleteVPC, Jobs, At, Answer, DBError
  <2>3. CASE UnregisterVPC_deleteSubnets(p)
    BY <1>1, <2>3 DEF Keeps, UnregisterVPC_deleteSubnets, Jobs, At, Answer, DBError
  <2> QED
    BY <1>14, <2>1, <2>2, <2>3 DEF UnregisterVPC
<1> QED
  BY <1>2, <1>3, <1>4, <1>5, <1>6, <1>7, <1>8, <1>9, <1>10, <1>11, <1>12, <1>13, <1>14 DEF Serve

\* A call begins and ends without a trace.
LEMMA Between ==
  ASSUME IInv, NEW p \in Procs
  PROVE  /\ Begin(p) => /\ pc[p] = "idle" /\ pc'[p] \in {"lock"} \cup Lockless /\ grant'[p] = grant[p]
                        /\ job'[p].op \in Ops
         /\ Return(p) => pc[p] = "done" /\ pc'[p] = "idle" /\ job'[p] = NoJob /\ grant'[p] = None
<1>1. /\ pc \in [Procs -> Labels \cup Ops] /\ job \in [Procs -> Jobs]
      /\ grant \in [Procs -> ((VPCs \cup Subnets) \X {"R", "W"}) \cup {None}]
  BY DEF IInv, TypeOK
<1>2. Return(p) => pc[p] = "done" /\ pc'[p] = "idle" /\ job'[p] = NoJob /\ grant'[p] = None
  BY <1>1 DEF Return, At, Goto, Lock!Release
<1>3. ASSUME Begin(p)
      PROVE  pc[p] = "idle" /\ pc'[p] \in {"lock"} \cup Lockless /\ grant'[p] = grant[p] /\ job'[p].op \in Ops
  BY <1>1, <1>3 DEF Begin, At, Goto, NoJob
<1> QED
  BY <1>2, <1>3

\* By which action a goroutine comes to a step.
LEMMA Arrives ==
  ASSUME IInv, NEW p \in Procs, Step(p)
  PROVE  /\ pc'[p] \in AllOps => TakeLock(p) \/ Begin(p)
         /\ pc'[p] = "create.single" => CreateVPC_exists(p)
         /\ pc'[p] = "create.csp" => CreateVPC_exists(p) \/ CreateVPC_single(p)
         /\ pc'[p] = "create.vpcrow" => CreateVPC_csp(p)
         /\ pc'[p] = "create.subnetrow" => CreateVPC_insertVPC(p) \/ CreateVPC_insertSubnet(p)
         /\ pc'[p] = "create.undo" => CreateVPC_insertVPC(p) /\ DBFails
         /\ pc'[p] = "create.rollback1" => CreateVPC_insertSubnet(p) /\ DBFails
         /\ pc'[p] = "create.rollback2" => CreateVPC_rollbackCSP(p)
         /\ pc'[p] = "create.rollback3" => CreateVPC_rollbackVPC(p)
         /\ pc'[p] = "register.csp" => RegisterVPC_exists(p)
         /\ pc'[p] = "register.vpcrow" => RegisterVPC_csp(p)
         /\ pc'[p] = "register.subnetrow" => RegisterVPC_insertVPC(p) \/ RegisterVPC_insertSubnet(p)
         /\ pc'[p] = "add.vpcrow" => AddSubnet_exists(p)
         /\ pc'[p] = "add.csp" => AddSubnet_getVPC(p)
         /\ pc'[p] = "add.insert" => AddSubnet_csp(p)
         /\ pc'[p] = "add.readback" => AddSubnet_insert(p)
         /\ pc'[p] = "add.rollback1" => AddSubnet_insert(p) /\ DBFails
         /\ pc'[p] = "add.rollback2" => AddSubnet_rollbackCSP(p)
         /\ pc'[p] = "remove.vpcrow" => RemoveSubnet_getSubnet(p)
         /\ pc'[p] = "remove.csp" => RemoveSubnet_getVPC(p)
         /\ pc'[p] = "remove.delete" => RemoveSubnet_csp(p)
         /\ pc'[p] = "delete.kt" => DeleteVPC_getVPC(p)
         /\ pc'[p] = "delete.csp" => DeleteVPC_getVPC(p) \/ DeleteVPC_kt(p)
         /\ pc'[p] = "delete.vpcrow" => DeleteVPC_csp(p)
         /\ pc'[p] = "delete.subnetrows" => DeleteVPC_deleteVPC(p)
         /\ pc'[p] = "unregister.vpcrow" => UnregisterVPC_exists(p)
         /\ pc'[p] = "unregister.subnetrows" => UnregisterVPC_deleteVPC(p)
         /\ pc'[p] = "get.csp" => GetVPC_row(p)
         /\ pc'[p] = "list.get" => ListVPC_lock(p)
         /\ pc'[p] = "regsub.insert" => RegisterSubnet_csp(p)
<1>1. pc \in [Procs -> Labels \cup Ops] /\ Fits(pc[p], job[p])
  BY DEF IInv, TypeOK, Places
<1>2. CASE Reading(p)
  <2>1. CASE TakeLock(p) \/ Begin(p)
    BY <1>1, <2>1, VPCAssumption DEF TakeLock, Begin, Goto, AllOps, Fits, At, Lockless
  <2>2. CASE ~(TakeLock(p) \/ Begin(p))
    BY <1>1, <1>2, <2>2 DEF Reading, Return, GetVPC, GetVPC_row, GetVPC_csp, ListVPC, ListVPC_rows, ListVPC_lock,
     ListVPC_get, Reads, DBError, Answer, Goto, AllOps, At
  <2> QED
    BY <2>1, <2>2
<1>3. CASE InVPC(p)
  BY <1>1, <1>3 DEF InVPC, CreateVPC, CreateVPC_exists, CreateVPC_single, CreateVPC_csp, CreateVPC_insertVPC,
     CreateVPC_undo, CreateVPC_insertSubnet, CreateVPC_rollbackCSP, CreateVPC_rollbackVPC,
     CreateVPC_rollbackSubnets,
     RegisterVPC, RegisterVPC_exists, RegisterVPC_csp, RegisterVPC_insertVPC, RegisterVPC_insertSubnet,
     Reads, DBError, Answer, Goto, AllOps, At
<1>4. CASE InSubnet(p)
  BY <1>1, <1>4 DEF InSubnet, RegisterSubnet, RegisterSubnet_exists, RegisterSubnet_getVPC, RegisterSubnet_csp,
     RegisterSubnet_insert, UnregisterSubnet, UnregisterSubnet_exists, UnregisterSubnet_delete, AddSubnet,
     AddSubnet_exists, AddSubnet_getVPC, AddSubnet_csp, AddSubnet_insert, AddSubnet_readback,
     AddSubnet_rollbackCSP, AddSubnet_rollbackRow, Reads, DBError, Answer, Goto, AllOps, At
<1>5. CASE Leaving(p)
  BY <1>1, <1>5 DEF Leaving, RemoveSubnet, RemoveSubnet_getSubnet, RemoveSubnet_getVPC, RemoveSubnet_csp,
     RemoveSubnet_delete,
     RemoveCSPSubnet, RemoveCSPSubnet_getVPC, RemoveCSPSubnet_csp, DeleteVPC, DeleteVPC_getVPC, DeleteVPC_kt,
     DeleteVPC_csp, DeleteVPC_deleteVPC, DeleteVPC_deleteSubnets, DeleteCSPVPC, UnregisterVPC, UnregisterVPC_exists,
     UnregisterVPC_deleteVPC, UnregisterVPC_deleteSubnets, AfterDriverDelete, Reads, DBError, Answer, Goto,
     AllOps, At
<1> QED
  BY <1>2, <1>3, <1>4, <1>5, StepKinds

-----------------------------------------------------------------------------
(* With every call but RegisterSubnet, which writes the subnets of a VPC   *)
(* under the lock of the subnet's name: what a call knows of its VPC's     *)
(* subnets.                                                                *)

NoRegisterSubnet == "RegisterSubnet" \notin Ops

FreeSubnetPcs == {"add.vpcrow", "add.csp", "add.insert"}

\* The call has deleted all rows of the subnets, and answers without an error.
Emptied(l, j) ==
  /\ l = "done"
  /\ j.op \in {"DeleteVPC", "UnregisterVPC"} /\ ~j.force /\ j.resp \in {"ok", "nil"}

SubnetsKnown ==
  \A p \in Procs :
    /\ pc[p] \in AddPcs \cup RemovePcs \/ Emptied(pc[p], job[p]) => Own(p)
    /\ pc[p] \in FreeSubnetPcs => subnetRow[<<job[p].v, job[p].s>>] = None
    /\ Emptied(pc[p], job[p]) => NoSubnetRows(job[p].v)
    /\ job[p].op \in Ops \cup {"none"}

\* Two calls do not hold the same VPC.
LEMMA OwnersDiffer ==
  ASSUME IInv, NEW p \in Procs, NEW q \in Procs, p # q, Own(p), Own(q), job[p].v \in VPCs
  PROVE  job[p].v # job[q].v
<1>1. SUFFICES ASSUME job[p].v = job[q].v PROVE FALSE
  OBVIOUS
<1>2. grant[p] = <<job[p].v, "W">> /\ grant[q] = <<job[p].v, "W">> /\ grant[p] # None
  BY <1>1, VPCAssumption DEF Own
<1>3. ~Lock!Conflict(grant[p], grant[q])
  BY <1>2 DEF IInv, Exclusive
<1> QED
  BY <1>2, <1>3 DEF Lock!Conflict

\* Of a VPC held by a call, the others change no row, but delete rows of subnets.
LEMMA OthersRows ==
  ASSUME NoRegisterSubnet, IInv, SubnetsKnown, NEW p \in Procs, Step(p),
         NEW q \in Procs, q # p, Own(q), job[q].v \in VPCs
  PROVE  /\ \A s \in Subnets : subnetRow'[<<job[q].v, s>>] \in {subnetRow[<<job[q].v, s>>], None}
         /\ vpcRow'[job[q].v] = vpcRow[job[q].v]
<1>1. /\ vpcRow \in [VPCs -> VIds \cup {None}]
      /\ subnetRow \in [VPCs \X Subnets -> SIds \cup {None}]
      /\ Fits(pc[p], job[p]) /\ Holds(pc[p], job[p], grant[p])
  BY DEF IInv, TypeOK, Places
<1>2. Own(p) /\ job[p].v \in VPCs => job[p].v # job[q].v
  BY OwnersDiffer
<1>3. pc[p] \in WritePcs \cup {"add.insert"} => Own(p) /\ job[p].v \in VPCs
  BY <1>1 DEF Holds, Own, SubnetsKnown, Fits
<1>4. pc[p] # "regsub.insert"
  BY <1>1 DEF Fits, SubnetsKnown, NoRegisterSubnet
<1>5. vpcRow'[job[q].v] = vpcRow[job[q].v]
  BY <1>1, <1>2, <1>3, VPCRowStep DEF VPCRowMoves
<1>6. ASSUME NEW s \in Subnets
      PROVE  subnetRow'[<<job[q].v, s>>] \in {subnetRow[<<job[q].v, s>>], None}
  <2>1. <<job[q].v, s>> \in VPCs \X Subnets
    OBVIOUS
  <2>2. SubnetRowMoves(p)
    BY SubnetRowStep
  <2>3. CASE UNCHANGED subnetRow
    BY <2>3
  <2>4. ASSUME NEW t, NEW r, job[p].v # job[q].v, subnetRow' = [subnetRow EXCEPT ![<<job[p].v, t>>] = r]
        PROVE  subnetRow'[<<job[q].v, s>>] = subnetRow[<<job[q].v, s>>]
    BY <1>1, <2>1, <2>4
  <2>5. CASE subnetRow' = [subnetRow EXCEPT ![<<job[p].v, job[p].s>>] = None]
    BY <1>1, <2>1, <2>5
  <2>6. CASE subnetRow' = [vs \in VPCs \X Subnets |-> IF vs[1] = job[p].v THEN None ELSE subnetRow[vs]]
    BY <2>1, <2>6
  <2>7. \/ UNCHANGED subnetRow
        \/ pc[p] \in WritePcs \cup {"add.insert"} /\ \E t, r : subnetRow' = [subnetRow EXCEPT ![<<job[p].v, t>>] = r]
        \/ subnetRow' = [subnetRow EXCEPT ![<<job[p].v, job[p].s>>] = None]
        \/ subnetRow' = [vs \in VPCs \X Subnets |-> IF vs[1] = job[p].v THEN None ELSE subnetRow[vs]]
    BY <1>4, <2>2, Zenon DEF SubnetRowMoves
  <2> QED
    BY <1>2, <1>3, <2>3, <2>4, <2>5, <2>6, <2>7
<1> QED
  BY <1>5, <1>6

\* Only the last delete ends a call like that.
LEMMA Empties ==
  ASSUME IInv, NEW p \in Procs, Serve(p), ~Return(p), Emptied(pc[p], job[p])'
  PROVE  /\ DeleteVPC_deleteSubnets(p) \/ UnregisterVPC_deleteSubnets(p)
         /\ pc[p] \in WritePcs
         /\ subnetRow' = [vs \in VPCs \X Subnets |-> IF vs[1] = job[p].v THEN None ELSE subnetRow[vs]]
<1>1. /\ pc \in [Procs -> Labels \cup Ops] /\ job \in [Procs -> Jobs] /\ Fits(pc[p], job[p])
      /\ job'[p].op = job[p].op
  BY SameCall DEF IInv, TypeOK, Places, Keeps
<1>2. pc'[p] = "done" /\ job[p].op \in {"DeleteVPC", "UnregisterVPC"}
  BY <1>1 DEF Emptied
<1>3. CASE TakeLock(p)
  BY <1>1, <1>2, <1>3, VPCAssumption DEF TakeLock, Goto, AllOps
<1>4. CASE CreateVPC(p)
  BY <1>1, <1>2, <1>4 DEF CreateVPC, CreateVPC_exists, CreateVPC_single, CreateVPC_csp, CreateVPC_insertVPC,
     CreateVPC_undo,
     CreateVPC_insertSubnet, CreateVPC_rollbackCSP, CreateVPC_rollbackVPC, CreateVPC_rollbackSubnets, At, Fits
<1>5. CASE DeleteVPC(p) \/ UnregisterVPC(p)
  <2>1. job[p].op \in {"DeleteVPC", "UnregisterVPC"}
    BY <1>1, <1>5 DEF DeleteVPC, DeleteVPC_getVPC, DeleteVPC_kt, DeleteVPC_csp, DeleteVPC_deleteVPC,
       DeleteVPC_deleteSubnets,
       UnregisterVPC, UnregisterVPC_exists, UnregisterVPC_deleteVPC, UnregisterVPC_deleteSubnets, At, Fits
  <2>2. job'[p].resp \in {"ok", "nil"} /\ ~job'[p].force
    BY <1>1, <2>1 DEF Emptied
  <2>3. ~DeleteVPC_getVPC(p) /\ ~DeleteVPC_kt(p) /\ ~DeleteVPC_deleteVPC(p)
    BY <1>1, <1>2, <2>2 DEF DeleteVPC_getVPC, DeleteVPC_kt, DeleteVPC_deleteVPC, Goto, Answer, DBError, Jobs
  <2>4. ~DeleteVPC_csp(p)
    BY <1>1, <1>2, <2>2 DEF DeleteVPC_csp, AfterDriverDelete, Goto, Answer, Jobs
  <2>5. ~UnregisterVPC_exists(p) /\ ~UnregisterVPC_deleteVPC(p)
    BY <1>1, <1>2, <2>2 DEF UnregisterVPC_exists, UnregisterVPC_deleteVPC, Goto, Answer, DBError, Jobs
  <2>6. DeleteVPC_deleteSubnets(p) \/ UnregisterVPC_deleteSubnets(p)
    BY <1>5, <2>3, <2>4, <2>5 DEF DeleteVPC, UnregisterVPC
  <2>7. /\ subnetRow' = [vs \in VPCs \X Subnets |-> IF vs[1] = job[p].v THEN None ELSE subnetRow[vs]]
        /\ pc[p] \in WritePcs
    <3>1. CASE DeleteVPC_deleteSubnets(p)
      BY <1>1, <2>2, <3>1 DEF DeleteVPC_deleteSubnets, Answer, At, Jobs
    <3>2. CASE UnregisterVPC_deleteSubnets(p)
      BY <1>1, <2>2, <3>2 DEF UnregisterVPC_deleteSubnets, Answer, At, Jobs
    <3> QED
      BY <2>6, <3>1, <3>2
  <2> QED
    BY <2>6, <2>7
<1>6. CASE RegisterVPC(p) \/ InSubnet(p)
  BY <1>1, <1>2, <1>6 DEF RegisterVPC, RegisterVPC_exists, RegisterVPC_csp, RegisterVPC_insertVPC,
     RegisterVPC_insertSubnet,
     InSubnet, RegisterSubnet, RegisterSubnet_exists, RegisterSubnet_getVPC, RegisterSubnet_csp,
     RegisterSubnet_insert, UnregisterSubnet, UnregisterSubnet_exists, UnregisterSubnet_delete, AddSubnet,
     AddSubnet_exists, AddSubnet_getVPC, AddSubnet_csp, AddSubnet_insert, AddSubnet_readback,
     AddSubnet_rollbackCSP, AddSubnet_rollbackRow, At, Fits
<1>7. CASE RemoveSubnet(p) \/ RemoveCSPSubnet(p) \/ DeleteCSPVPC(p) \/ GetVPC(p) \/ ListVPC(p)
  BY <1>1, <1>2, <1>7 DEF RemoveSubnet, RemoveSubnet_getSubnet, RemoveSubnet_getVPC, RemoveSubnet_csp,
     RemoveSubnet_delete,
     RemoveCSPSubnet, RemoveCSPSubnet_getVPC, RemoveCSPSubnet_csp, DeleteCSPVPC, GetVPC, GetVPC_row, GetVPC_csp,
     ListVPC, ListVPC_rows, ListVPC_lock, ListVPC_get, At, Fits
<1> QED
  BY <1>3, <1>4, <1>5, <1>6, <1>7 DEF Serve, InSubnet

\* The call that takes the step knows what it has checked, or what it knew before.
LEMMA OwnSubnets ==
  ASSUME NoRegisterSubnet, IInv, IInv', SubnetsKnown, NEW p \in Procs, Serve(p), ~Return(p)
  PROVE  /\ pc'[p] \in AddPcs \cup RemovePcs \/ Emptied(pc[p], job[p])' => Own(p)'
         /\ pc'[p] \in FreeSubnetPcs => subnetRow'[<<job'[p].v, job'[p].s>>] = None
         /\ Emptied(pc[p], job[p])' => NoSubnetRows(job[p].v)'
         /\ job'[p].op \in Ops \cup {"none"}
<1>1. /\ pc \in [Procs -> Labels \cup Ops] /\ job \in [Procs -> Jobs] /\ Fits(pc[p], job[p])
      /\ grant \in [Procs -> ((VPCs \cup Subnets) \X {"R", "W"}) \cup {None}]
      /\ Fits(pc'[p], job'[p]) /\ Holds(pc[p], job[p], grant[p])
  BY DEF IInv, TypeOK, Places
<1>2. Step(p) /\ Keeps(p) /\ (pc[p] \notin {"lock", "list.next", "list.get"} => grant'[p] = grant[p])
  BY SameCall, Busy DEF Step
<1>3. job'[p].op \in Ops \cup {"none"}
  BY <1>2 DEF SubnetsKnown, Keeps
<1>4. pc'[p] \in {"AddSubnet", "RemoveSubnet"} => Own(p)'
  <2>1. SUFFICES ASSUME pc'[p] \in {"AddSubnet", "RemoveSubnet"} PROVE Own(p)'
    OBVIOUS
  <2>2. TakeLock(p)
    BY <1>1, <1>2, <2>1, Arrives, Busy, Between DEF AllOps
  <2>3. job'[p].op \in {"AddSubnet", "RemoveSubnet"} /\ job'[p] = job[p]
    BY <1>1, <2>1, <2>2 DEF Fits, TakeLock
  <2>4. LockedName(p) = job[p].v /\ LockKind(p) = "W"
    BY <2>3 DEF LockedName, LockKind
  <2> QED
    BY <1>1, <2>2, <2>3, <2>4 DEF TakeLock, Lock!Acquire, Own
<1>5. pc'[p] \in (AddPcs \cup RemovePcs) \ {"AddSubnet", "RemoveSubnet"} => pc[p] \in AddPcs \cup RemovePcs
  BY <1>2, Arrives DEF AddSubnet_exists, AddSubnet_getVPC, AddSubnet_csp, AddSubnet_insert, AddSubnet_rollbackCSP,
     RemoveSubnet_getSubnet, RemoveSubnet_getVPC, RemoveSubnet_csp, At
<1>6. Emptied(pc[p], job[p])' => /\ pc[p] \in WritePcs /\ NoSubnetRows(job[p].v)' /\ job[p].v \in VPCs
  <2>1. SUFFICES ASSUME Emptied(pc[p], job[p])'
                 PROVE  pc[p] \in WritePcs /\ NoSubnetRows(job[p].v)' /\ job[p].v \in VPCs
    OBVIOUS
  <2>2. /\ pc[p] \in WritePcs
        /\ subnetRow' = [vs \in VPCs \X Subnets |-> IF vs[1] = job[p].v THEN None ELSE subnetRow[vs]]
    BY <2>1, Empties
  <2>3. job[p].v \in VPCs /\ job'[p].v = job[p].v
    BY <1>1, <1>2, <2>2 DEF Fits, Keeps
  <2>4. NoSubnetRows(job[p].v)'
    BY <2>2, <2>3 DEF NoSubnetRows
  <2> QED
    BY <2>2, <2>3, <2>4
<1>7. pc[p] \in WritePcs \cup AddPcs \cup RemovePcs => /\ Own(p) /\ job'[p].v = job[p].v /\ job'[p].s = job[p].s
                                                       /\ grant'[p] = grant[p]
  BY <1>1, <1>2 DEF Holds, Own, SubnetsKnown, Keeps
<1>8. pc'[p] \in AddPcs \cup RemovePcs \/ Emptied(pc[p], job[p])' => Own(p)'
  BY <1>4, <1>5, <1>6, <1>7 DEF Own
<1>9. pc'[p] \in FreeSubnetPcs => subnetRow'[<<job'[p].v, job'[p].s>>] = None
  <2>1. CASE AddSubnet_exists(p) /\ pc'[p] = "add.vpcrow"
    BY <1>1, <1>7, <2>1 DEF AddSubnet_exists, Answer, DBError, Goto, Reads, db, At
  <2>2. CASE (AddSubnet_getVPC(p) \/ AddSubnet_csp(p)) /\ pc'[p] # "done"
    BY <1>1, <1>7, <2>2 DEF AddSubnet_getVPC, AddSubnet_csp, Answer, DBError, Goto, Reads, db, At, SubnetsKnown,
       FreeSubnetPcs
  <2> QED
    BY <1>2, <2>1, <2>2, Arrives DEF FreeSubnetPcs
<1> QED
  BY <1>3, <1>6, <1>8, <1>9

LEMMA SubnetsKnownKept ==
  ASSUME NoRegisterSubnet, IInv, IInv', SubnetsKnown, [Next]_vars
  PROVE  SubnetsKnown'
<1>1. ASSUME NEW p \in Procs, Step(p), NEW q \in Procs, q # p
      PROVE  /\ pc'[q] \in AddPcs \cup RemovePcs \/ Emptied(pc[q], job[q])' => Own(q)'
             /\ pc'[q] \in FreeSubnetPcs => subnetRow'[<<job'[q].v, job'[q].s>>] = None
             /\ Emptied(pc[q], job[q])' => NoSubnetRows(job[q].v)'
             /\ job'[q].op \in Ops \cup {"none"}
  <2>1. pc'[q] = pc[q] /\ job'[q] = job[q] /\ grant'[q] = grant[q]
    BY <1>1, OthersStay
  <2>2. /\ Fits(pc[q], job[q])
        /\ pc[q] \in AddPcs \cup RemovePcs \/ Emptied(pc[q], job[q]) => Own(q)
        /\ pc[q] \in FreeSubnetPcs => subnetRow[<<job[q].v, job[q].s>>] = None
        /\ Emptied(pc[q], job[q]) => NoSubnetRows(job[q].v)
        /\ job[q].op \in Ops \cup {"none"}
    BY DEF IInv, Places, SubnetsKnown
  <2>3. Own(q) /\ job[q].v \in VPCs =>
          \A s \in Subnets : subnetRow'[<<job[q].v, s>>] \in {subnetRow[<<job[q].v, s>>], None}
    BY <1>1, OthersRows
  <2>4. pc[q] # "idle" => job[q].v \in VPCs
    BY <2>2 DEF Fits
  <2>5. pc[q] \in FreeSubnetPcs => job[q].s \in Subnets
    BY <2>2 DEF Fits, FreeSubnetPcs
  <2>6. Emptied(pc[q], job[q])' <=> Emptied(pc[q], job[q])
    BY <2>1 DEF Emptied
  <2>7. Own(q)' <=> Own(q)
    BY <2>1 DEF Own
  <2>8. Emptied(pc[q], job[q])' => NoSubnetRows(job[q].v)'
    BY <2>1, <2>2, <2>3, <2>4, <2>6 DEF NoSubnetRows, Emptied
  <2>9. pc'[q] \in FreeSubnetPcs => subnetRow'[<<job'[q].v, job'[q].s>>] = None
    BY <2>1, <2>2, <2>3, <2>4, <2>5 DEF FreeSubnetPcs
  <2> QED
    BY <2>1, <2>2, <2>6, <2>7, <2>8, <2>9
<1>2. ASSUME NEW p \in Procs, Begin(p) \/ Return(p)
      PROVE  /\ pc'[p] \notin AddPcs \cup RemovePcs \cup FreeSubnetPcs /\ ~Emptied(pc[p], job[p])'
             /\ job'[p].op \in Ops \cup {"none"}
  BY <1>2, Between DEF Lockless, FreeSubnetPcs, Emptied, NoJob
<1>3. ASSUME NEW p \in Procs, Step(p)
      PROVE  SubnetsKnown'
  <2>1. CASE Begin(p) \/ Return(p)
    BY <1>1, <1>2, <1>3, <2>1 DEF SubnetsKnown
  <2>2. CASE Serve(p) /\ ~Return(p)
    BY <1>1, <1>3, <2>2, OwnSubnets DEF SubnetsKnown
  <2> QED
    BY <1>3, <2>1, <2>2 DEF Step
<1>4. CASE Crash
  BY <1>4 DEF Crash, SubnetsKnown, NoJob, Emptied, FreeSubnetPcs
<1>5. CASE UNCHANGED vars
  BY <1>5 DEF vars, db, SubnetsKnown, Emptied, Own, NoSubnetRows
<1> QED
  BY <1>3, <1>4, <1>5 DEF Next, Step

\* What a call knows of its VPC's subnets, it knows in every state.
LEMMA SubnetsInvariance == NoRegisterSubnet => (Spec => []SubnetsKnown)
<1> SUFFICES ASSUME NoRegisterSubnet PROVE Spec => []SubnetsKnown
  OBVIOUS
<1>1. Init => SubnetsKnown
  BY DEF Init, NoJob, SubnetsKnown, Emptied, FreeSubnetPcs
<1>2. IInv /\ IInv' /\ SubnetsKnown /\ [Next]_vars => SubnetsKnown'
  BY SubnetsKnownKept
<1> QED
  BY <1>1, <1>2, Invariance, PTL DEF Spec

\* With any calls but RegisterSubnet: an unforced DeleteVPC and an UnregisterVPC that
\* answer true leave no row of the VPC's subnets, whatever the meta DB and the driver do,
\* and however other calls on the VPC's subnets and restarts of the server come between.
THEOREM DeleteRemovesSubnetRowsHolds == NoRegisterSubnet => (Spec => []DeleteRemovesSubnetRows)
<1> SUFFICES ASSUME NoRegisterSubnet PROVE Spec => []DeleteRemovesSubnetRows
  OBVIOUS
<1>1. SubnetsKnown => DeleteRemovesSubnetRows
  BY DEF SubnetsKnown, Emptied, NoSubnetRows, DeleteRemovesSubnetRows, Succeeded, At
<1> QED
  BY <1>1, SubnetsInvariance, PTL

-----------------------------------------------------------------------------
(* When, besides, the meta DB does not fail and the server does not stop:  *)
(* what the calls know of the rows.                                        *)

Undisturbed == NoRegisterSubnet /\ ~DBFails /\ ~Crashes

\* The steps that undo what a failed insert leaves.
UndoPcs == {"create.undo", "create.rollback1", "create.rollback2", "create.rollback3",
            "add.rollback1", "add.rollback2"}
TodoPcs == {"create.vpcrow", "create.subnetrow", "register.vpcrow", "register.subnetrow"}
InsertPcs == {"create.subnetrow", "register.subnetrow"}
\* Where the row that the call has read is still the VPC's row.
RowPcs == {"add.csp", "add.insert", "remove.csp", "delete.kt", "delete.csp", "delete.vpcrow"}

Row(p) == vpcRow[job[p].v]
Functional(todo) == \A t, u \in todo : t[1] = u[1] => t = u

KnowsRows(p) ==
  /\ pc[p] \notin UndoPcs
  /\ pc[p] \in FreePcs => NoSubnetRows(job[p].v)
  /\ pc[p] \in TodoPcs => Functional(job[p].todo)
  /\ pc[p] = "create.subnetrow" => Row(p) = job[p].made
  /\ pc[p] = "register.subnetrow" => Row(p) = job[p].id
  /\ pc[p] \in InsertPcs => \A t \in job[p].todo : subnetRow[<<job[p].v, t[1]>>] = None
  /\ pc[p] \in RowPcs => Row(p) = job[p].row
  /\ pc[p] \in {"unregister.vpcrow", "remove.vpcrow"} => Row(p) # None
  /\ pc[p] \in {"remove.vpcrow", "remove.csp", "remove.delete"} =>
       job[p].sub \in SIds /\ subnetRow[<<job[p].v, job[p].s>>] \in {None, job[p].sub}

\* Rows of subnets without their VPC's row are about to be deleted.
Orphan(v) == vpcRow[v] = None /\ ~NoSubnetRows(v)
BeingDeleted(v) == \E p \in Procs : pc[p] \in DeletedPcs /\ job[p].v = v

RowsKnown == (\A v \in VPCs : Orphan(v) => BeingDeleted(v)) /\ (\A p \in Procs : KnowsRows(p))

KnowsPcs == WritePcs \cup AddPcs \cup RemovePcs

\* At all these steps the call holds its VPC.
LEMMA Owners ==
  ASSUME IInv, SubnetsKnown, NEW p \in Procs, pc[p] \in KnowsPcs
  PROVE  /\ Own(p) /\ job[p].v \in VPCs
         /\ pc[p] \in AddPcs \cup RemovePcs => job[p].s \in Subnets
  BY DEF IInv, Places, Fits, Holds, SubnetsKnown, Own, KnowsPcs

\* Nobody deletes the rows of a VPC that another call holds.
LEMMA HeldNotOrphan ==
  ASSUME IInv, SubnetsKnown, RowsKnown, NEW p \in Procs, pc[p] \in KnowsPcs \ DeletedPcs
  PROVE  ~Orphan(job[p].v)
<1>1. Own(p) /\ job[p].v \in VPCs
  BY Owners
<1>2. SUFFICES ASSUME NEW q \in Procs, pc[q] \in DeletedPcs, job[q].v = job[p].v PROVE FALSE
  BY <1>1 DEF RowsKnown, BeingDeleted
<1>3. Own(q) /\ q # p
  BY <1>2, Owners DEF KnowsPcs
<1> QED
  BY <1>1, <1>2, <1>3, OwnersDiffer

\* The others know what they knew.
LEMMA OthersKnowRows ==
  ASSUME NoRegisterSubnet, IInv, SubnetsKnown, RowsKnown, NEW p \in Procs, Step(p), NEW q \in Procs, q # p
  PROVE  KnowsRows(q)'
<1>1. pc'[q] = pc[q] /\ job'[q] = job[q]
  BY OthersStay
<1>2. KnowsRows(q) /\ Fits(pc[q], job[q])
  BY DEF RowsKnown, IInv, Places
<1>3. CASE pc[q] \notin KnowsPcs
  BY <1>1, <1>2, <1>3 DEF KnowsRows, KnowsPcs, UndoPcs, TodoPcs, InsertPcs, RowPcs
<1>4. CASE pc[q] \in KnowsPcs
  <2>1. /\ Own(q) /\ job[q].v \in VPCs
        /\ pc[q] \in AddPcs \cup RemovePcs => job[q].s \in Subnets
    BY <1>4, Owners
  <2>2. /\ \A s \in Subnets : subnetRow'[<<job[q].v, s>>] \in {subnetRow[<<job[q].v, s>>], None}
        /\ vpcRow'[job[q].v] = vpcRow[job[q].v]
    BY <2>1, OthersRows
  <2>3. NoSubnetRows(job[q].v) => NoSubnetRows(job[q].v)'
    BY <1>1, <2>2 DEF NoSubnetRows
  <2>4. pc[q] \in InsertPcs => \A t \in job[q].todo : t[1] \in Subnets
    BY <1>2 DEF Fits, InsertPcs, SubnetTodo
  <2>5. pc[q] \in InsertPcs => \A t \in job[q].todo : subnetRow'[<<job[q].v, t[1]>>] = None
    BY <1>2, <2>2, <2>4 DEF KnowsRows
  <2>6. pc[q] \in {"remove.vpcrow", "remove.csp", "remove.delete"} =>
          job[q].sub \in SIds /\ subnetRow'[<<job[q].v, job[q].s>>] \in {None, job[q].sub}
    BY <1>2, <2>1, <2>2 DEF KnowsRows
  <2> QED
    BY <1>1, <1>2, <2>2, <2>3, <2>5, <2>6 DEF KnowsRows, Row
<1> QED
  BY <1>3, <1>4

\* Which action a goroutine takes at a step that changes rows or the cloud.
LEMMA Departs ==
  ASSUME IInv, NEW p \in Procs, Step(p)
  PROVE  /\ pc[p] = "create.vpcrow" => CreateVPC_insertVPC(p)
         /\ pc[p] = "create.subnetrow" => CreateVPC_insertSubnet(p)
         /\ pc[p] = "add.insert" => AddSubnet_insert(p)
         /\ pc[p] = "unregsub.delete" => UnregisterSubnet_delete(p)
         /\ pc[p] = "remove.csp" => RemoveSubnet_csp(p)
         /\ pc[p] = "remove.delete" => RemoveSubnet_delete(p)
         /\ pc[p] = "delete.csp" => DeleteVPC_csp(p)
         /\ pc[p] = "delete.vpcrow" => DeleteVPC_deleteVPC(p)
         /\ pc[p] = "unregister.vpcrow" => UnregisterVPC_deleteVPC(p)
         /\ pc[p] \in DeletedPcs => DeleteVPC_deleteSubnets(p) \/ UnregisterVPC_deleteSubnets(p)
<1>1. Fits(pc[p], job[p])
  BY DEF IInv, Places
<1>2. CASE Reading(p)
  BY <1>1, <1>2, VPCAssumption DEF Reading, Begin, TakeLock, Return, GetVPC, GetVPC_row, GetVPC_csp, ListVPC,
     ListVPC_rows,
     ListVPC_lock, ListVPC_get, At
<1>3. CASE InVPC(p)
  BY <1>3 DEF InVPC, CreateVPC, CreateVPC_exists, CreateVPC_single, CreateVPC_csp, CreateVPC_insertVPC,
     CreateVPC_undo, CreateVPC_insertSubnet, CreateVPC_rollbackCSP, CreateVPC_rollbackVPC,
     CreateVPC_rollbackSubnets,
     RegisterVPC, RegisterVPC_exists, RegisterVPC_csp, RegisterVPC_insertVPC, RegisterVPC_insertSubnet, At
<1>4. CASE InSubnet(p)
  BY <1>4 DEF InSubnet, RegisterSubnet, RegisterSubnet_exists, RegisterSubnet_getVPC, RegisterSubnet_csp,
     RegisterSubnet_insert, UnregisterSubnet, UnregisterSubnet_exists, UnregisterSubnet_delete, AddSubnet,
     AddSubnet_exists, AddSubnet_getVPC, AddSubnet_csp, AddSubnet_insert, AddSubnet_readback,
     AddSubnet_rollbackCSP, AddSubnet_rollbackRow, At
<1>5. CASE Leaving(p)
  BY <1>5 DEF Leaving, RemoveSubnet, RemoveSubnet_getSubnet, RemoveSubnet_getVPC, RemoveSubnet_csp,
     RemoveSubnet_delete,
     RemoveCSPSubnet, RemoveCSPSubnet_getVPC, RemoveCSPSubnet_csp, DeleteVPC, DeleteVPC_getVPC, DeleteVPC_kt,
     DeleteVPC_csp, DeleteVPC_deleteVPC, DeleteVPC_deleteSubnets, DeleteCSPVPC, UnregisterVPC, UnregisterVPC_exists,
     UnregisterVPC_deleteVPC, UnregisterVPC_deleteSubnets, At
<1> QED
  BY <1>2, <1>3, <1>4, <1>5, StepKinds

\* A call that has deleted its VPC's row deletes the subnets' rows next.
LEMMA Finishes ==
  ASSUME IInv, ~DBFails, NEW p \in Procs, Step(p), pc[p] \in DeletedPcs
  PROVE  NoSubnetRows(job[p].v)'
<1>1. /\ pc \in [Procs -> Labels \cup Ops] /\ job \in [Procs -> Jobs] /\ Fits(pc[p], job[p])
  BY DEF IInv, TypeOK, Places
<1>2. DeleteVPC_deleteSubnets(p) \/ UnregisterVPC_deleteSubnets(p)
  BY Departs
<1>3. subnetRow' = [vs \in VPCs \X Subnets |-> IF vs[1] = job[p].v THEN None ELSE subnetRow[vs]]
  BY <1>2 DEF DeleteVPC_deleteSubnets, UnregisterVPC_deleteSubnets
<1>4. job'[p].v = job[p].v /\ job[p].v \in VPCs
  BY <1>1, <1>2 DEF DeleteVPC_deleteSubnets, UnregisterVPC_deleteSubnets, Answer, Jobs, Fits
<1> QED
  BY <1>3, <1>4 DEF NoSubnetRows

\* A row of a VPC that goes leaves orphans only while its call goes on to delete them,
\* and a subnet's row is only inserted where its VPC has one.
LEMMA OrphansKept ==
  ASSUME Undisturbed, IInv, SubnetsKnown, RowsKnown, NEW p \in Procs, Step(p), NEW v \in VPCs, Orphan(v)'
  PROVE  BeingDeleted(v)'
<1>1. /\ vpcRow \in [VPCs -> VIds \cup {None}]
      /\ subnetRow \in [VPCs \X Subnets -> SIds \cup {None}]
      /\ Fits(pc[p], job[p]) /\ KnowsRows(p)
  BY DEF IInv, TypeOK, Places, RowsKnown
<1>2. VPCRowMoves(p) /\ SubnetRowMoves(p) /\ (UNCHANGED vpcRow \/ UNCHANGED subnetRow)
  BY VPCRowStep, SubnetRowStep
<1>3. pc[p] \in KnowsPcs => job[p].v \in VPCs
  BY Owners
<1>4. CASE ~UNCHANGED vpcRow
  <2>1. UNCHANGED subnetRow
    BY <1>2, <1>4
  <2>2. CASE vpcRow[v] # None
    <3>1. /\ pc[p] \in {"delete.vpcrow", "unregister.vpcrow"} /\ pc'[p] \in DeletedPcs
          /\ job'[p] = job[p] /\ vpcRow' = [vpcRow EXCEPT ![job[p].v] = None]
      <4>1. \A r \in VIds : vpcRow' # [vpcRow EXCEPT ![job[p].v] = r]
        BY <1>1, <2>2, VPCAssumption DEF Orphan
      <4>2. /\ pc[p] = "create.vpcrow" => job[p].made \in VIds
            /\ pc[p] = "register.vpcrow" => job[p].id \in VIds
        BY <1>1 DEF Fits
      <4> QED
        BY <1>1, <1>2, <1>4, <4>1, <4>2 DEF VPCRowMoves, KnowsRows, UndoPcs
    <3>2. job[p].v = v
      BY <1>1, <2>2, <3>1 DEF Orphan
    <3> QED
      BY <3>1, <3>2 DEF BeingDeleted
  <2>3. CASE vpcRow[v] = None
    <3>1. Orphan(v)
      BY <2>1, <2>3 DEF Orphan, NoSubnetRows
    <3>2. PICK q \in Procs : pc[q] \in DeletedPcs /\ job[q].v = v
      BY <3>1 DEF RowsKnown, BeingDeleted
    <3>3. q # p
      BY <1>2, <1>4, <3>2 DEF VPCRowMoves
    <3> QED
      BY <3>2, <3>3, OthersStay DEF BeingDeleted
  <2> QED
    BY <2>2, <2>3
<1>5. CASE UNCHANGED vpcRow
  <2>1. vpcRow[v] = None
    BY <1>5 DEF Orphan
  <2>2. \A s \in Subnets : subnetRow'[<<v, s>>] \in {subnetRow[<<v, s>>], None}
    <3>1. ASSUME NEW s \in Subnets, NEW t, NEW r, job[p].v # v \/ r = None,
                 subnetRow' = [subnetRow EXCEPT ![<<job[p].v, t>>] = r]
          PROVE  subnetRow'[<<v, s>>] \in {subnetRow[<<v, s>>], None}
      BY <1>1, <3>1
    <3>2. pc[p] \in InsertPcs \cup {"add.insert"} => job[p].v # v
      <4>1. pc[p] = "create.subnetrow" => Row(p) \in VIds
        BY <1>1 DEF KnowsRows, Fits
      <4>2. pc[p] = "register.subnetrow" => Row(p) \in VIds
        BY <1>1 DEF KnowsRows, Fits
      <4>3. pc[p] = "add.insert" => Row(p) \in VIds
        BY <1>1 DEF KnowsRows, Fits, RowPcs
      <4> QED
        BY <2>1, <4>1, <4>2, <4>3, VPCAssumption DEF Row, InsertPcs
    <3>3. pc[p] # "regsub.insert"
      BY <1>1 DEF Fits, SubnetsKnown, NoRegisterSubnet, Undisturbed
    <3>4. CASE subnetRow' = [vs \in VPCs \X Subnets |-> IF vs[1] = job[p].v THEN None ELSE subnetRow[vs]]
      BY <3>4
    <3>5. \/ UNCHANGED subnetRow
          \/ /\ pc[p] \in InsertPcs \cup {"add.insert"}
             /\ \E t, r : subnetRow' = [subnetRow EXCEPT ![<<job[p].v, t>>] = r]
          \/ subnetRow' = [subnetRow EXCEPT ![<<job[p].v, job[p].s>>] = None]
          \/ subnetRow' = [vs \in VPCs \X Subnets |-> IF vs[1] = job[p].v THEN None ELSE subnetRow[vs]]
      BY <1>2, <3>3, Zenon DEF SubnetRowMoves, InsertPcs
    <3> QED
      BY <3>1, <3>2, <3>4, <3>5
  <2>3. Orphan(v)
    BY <2>1, <2>2 DEF Orphan, NoSubnetRows
  <2>4. PICK q \in Procs : pc[q] \in DeletedPcs /\ job[q].v = v
    BY <2>3 DEF RowsKnown, BeingDeleted
  <2>5. q # p
    <3>1. SUFFICES ASSUME q = p PROVE FALSE
      OBVIOUS
    <3>2. NoSubnetRows(job[p].v)' /\ job'[p].v = job[p].v
      <4>1. Serve(p) /\ ~Return(p)
        BY <2>4, <3>1, Between DEF Step
      <4> QED
        BY <2>4, <3>1, <4>1, Finishes, SameCall DEF Undisturbed, Keeps
    <3> QED
      BY <2>4, <3>1, <3>2 DEF Orphan, NoSubnetRows
  <2> QED
    BY <2>4, <2>5, OthersStay DEF BeingDeleted
<1> QED
  BY <1>4, <1>5

\* Whoever is about to insert a VPC's row after CreateVPC's call of the driver made it.
LEMMA MadeVPC ==
  ASSUME IInv, NEW p \in Procs, Step(p), pc'[p] = "create.vpcrow"
  PROVE  MakesVPC(p)
<1>1. pc \in [Procs -> Labels \cup Ops]
  BY DEF IInv, TypeOK
<1>2. CreateVPC_csp(p)
  BY Arrives
<1>3. ~Answer(p, "error")
  BY <1>1 DEF Answer, Goto
<1>4. PICK vid \in VIds : FreshV(vid) /\ cspVpc' = cspVpc \cup {vid}
  BY <1>2, <1>3 DEF CreateVPC_csp
<1>5. ~Shrinks
  BY <1>4 DEF FreshV, Shrinks
<1>6. ~MakesSubnet(p)
  BY DEF MakesSubnet
<1> QED
  BY <1>5, <1>6, CloudStep

\* What CreateVPC knows after a step.
LEMMA CreateKnows ==
  ASSUME Undisturbed, IInv, IInv', SubnetsKnown, RowsKnown, NEW p \in Procs, Serve(p), ~Return(p),
         pc'[p] \in CreatePcs
  PROVE  KnowsRows(p)'
<1>1. /\ pc \in [Procs -> Labels \cup Ops] /\ job \in [Procs -> Jobs] /\ Fits(pc[p], job[p]) /\ KnowsRows(p)
      /\ vpcRow \in [VPCs -> VIds \cup {None}] /\ subnetRow \in [VPCs \X Subnets -> SIds \cup {None}]
  BY DEF IInv, TypeOK, Places, RowsKnown
<1>2. Step(p) /\ Keeps(p)
  BY SameCall DEF Step
<1>3. pc'[p] \notin UndoPcs
  BY <1>1, <1>2, Arrives DEF Undisturbed, KnowsRows, UndoPcs, CreateVPC_rollbackCSP, CreateVPC_rollbackVPC, At
<1>4. CASE pc'[p] = "CreateVPC"
  BY <1>4 DEF KnowsRows, UndoPcs, TodoPcs, InsertPcs, RowPcs
<1>5. CASE pc'[p] \in {"create.single", "create.csp"}
  <2>1. CASE CreateVPC_exists(p)
    <3>1. pc[p] = "CreateVPC" /\ UNCHANGED <<vpcRow, subnetRow>> /\ vpcRow[job[p].v] = None
      BY <1>1, <1>5, <2>1 DEF CreateVPC_exists, Answer, DBError, Goto, Reads, db, At
    <3>2. NoSubnetRows(job[p].v)
      BY <3>1, HeldNotOrphan DEF KnowsPcs, Orphan
    <3>3. NoSubnetRows(job[p].v)'
      BY <1>2, <3>1, <3>2 DEF NoSubnetRows, Keeps
    <3> QED
      BY <1>5, <3>3 DEF KnowsRows, UndoPcs, TodoPcs, InsertPcs, RowPcs
  <2>2. CASE CreateVPC_single(p)
    <3>1. pc[p] = "create.single" /\ UNCHANGED <<vpcRow, subnetRow>>
      BY <2>2 DEF CreateVPC_single, Reads, db, At
    <3>2. NoSubnetRows(job[p].v)'
      BY <1>1, <1>2, <3>1 DEF NoSubnetRows, Keeps, KnowsRows
    <3> QED
      BY <1>5, <3>2 DEF KnowsRows, UndoPcs, TodoPcs, InsertPcs, RowPcs
  <2> QED
    BY <1>2, <1>5, <2>1, <2>2, Arrives
<1>6. CASE pc'[p] = "create.vpcrow"
  <2>1. pc[p] = "create.csp" /\ UNCHANGED <<vpcRow, subnetRow>>
    <3>1. CreateVPC_csp(p)
      BY <1>2, <1>6, Arrives
    <3> QED
      BY <3>1 DEF CreateVPC_csp, At, db
  <2>2. NoSubnetRows(job[p].v)'
    BY <1>1, <2>1, <1>2 DEF NoSubnetRows, Keeps, KnowsRows
  <2>3. Functional(job'[p].todo)
    <3>1. MakesVPC(p)
      BY <1>2, <1>6, MadeVPC
    <3>2. PICK vid \in VIds, names \in SUBSET Subnets : \E ids \in [names -> SIds] :
            /\ FreshV(vid) /\ \A s \in names : FreshS(ids[s])
            /\ \A s, t \in names : ids[s] = ids[t] => s = t
            /\ cspVpc' = cspVpc \cup {vid}
            /\ cspSubnet' = [sid \in SIds |-> IF \E s \in names : ids[s] = sid THEN vid ELSE cspSubnet[sid]]
            /\ job'[p] = [job[p] EXCEPT !.made = vid, !.todo = {<<s, ids[s]>> : s \in names}]
      BY <3>1, Zenon DEF MakesVPC
    <3>3. \E ids \in [names -> SIds] : job'[p].todo = {<<s, ids[s]>> : s \in names}
      BY <1>1, <3>2 DEF Jobs
    <3> QED
      BY <3>3 DEF Functional
  <2> QED
    BY <1>6, <2>2, <2>3 DEF KnowsRows, UndoPcs, TodoPcs, InsertPcs, RowPcs
<1>7. CASE pc'[p] = "create.subnetrow"
  <2>1. CASE CreateVPC_insertVPC(p)
    <3>1. /\ pc[p] = "create.vpcrow" /\ job' = job /\ subnetRow' = subnetRow
          /\ vpcRow' = [vpcRow EXCEPT ![job[p].v] = job[p].made]
      BY <2>1 DEF CreateVPC_insertVPC, At, Undisturbed
    <3>2. job[p].v \in VPCs /\ job[p].todo \in SubnetTodo
      BY <1>1, <3>1 DEF Fits
    <3>3. /\ Functional(job[p].todo) /\ vpcRow'[job[p].v] = job[p].made
          /\ \A t \in job[p].todo : subnetRow[<<job[p].v, t[1]>>] = None
      BY <1>1, <3>1, <3>2 DEF KnowsRows, NoSubnetRows, SubnetTodo, TodoPcs
    <3> QED
      BY <1>7, <3>1, <3>3 DEF KnowsRows, UndoPcs, InsertPcs, RowPcs, Row
  <2>2. CASE CreateVPC_insertSubnet(p)
    <3>1. pc[p] = "create.subnetrow" /\ vpcRow' = vpcRow
      BY <2>2 DEF CreateVPC_insertSubnet, At
    <3>2. PICK t \in job[p].todo : /\ subnetRow' = [subnetRow EXCEPT ![<<job[p].v, t[1]>>] = t[2]]
                                   /\ job' = [job EXCEPT ![p].todo = @ \ {t}]
      BY <1>1, <1>7, <2>2 DEF CreateVPC_insertSubnet, Answer, Goto, Undisturbed
    <3>3. /\ job'[p].todo = job[p].todo \ {t} /\ job'[p].v = job[p].v /\ job'[p].made = job[p].made
      BY <1>1, <3>2 DEF Jobs
    <3>4. job[p].v \in VPCs /\ job[p].todo \in SubnetTodo
      BY <1>1, <3>1 DEF Fits
    <3>5. /\ Functional(job[p].todo) /\ vpcRow[job[p].v] = job[p].made
          /\ \A u \in job[p].todo : subnetRow[<<job[p].v, u[1]>>] = None
      BY <1>1, <3>1 DEF KnowsRows, TodoPcs, InsertPcs, Row
    <3>6. \A u \in job[p].todo \ {t} : u[1] \in Subnets /\ t[1] \in Subnets /\ u[1] # t[1]
      BY <3>4, <3>5 DEF Functional, SubnetTodo
    <3>7. \A u \in job[p].todo \ {t} : subnetRow'[<<job[p].v, u[1]>>] = None
      BY <1>1, <3>2, <3>4, <3>5, <3>6
    <3>8. Functional(job[p].todo \ {t})
      BY <3>5 DEF Functional
    <3> QED
      BY <1>7, <3>1, <3>3, <3>5, <3>7, <3>8 DEF KnowsRows, UndoPcs, InsertPcs, RowPcs, Row
  <2> QED
    BY <1>2, <1>7, <2>1, <2>2, Arrives
<1> QED
  BY <1>3, <1>4, <1>5, <1>6, <1>7 DEF UndoPcs

\* What the calls of a VPC but CreateVPC know after a step.
LEMMA VPCKnows ==
  ASSUME Undisturbed, IInv, IInv', SubnetsKnown, RowsKnown, NEW p \in Procs, Serve(p), ~Return(p),
         pc'[p] \in RegisterPcs \cup DeletePcs \cup UnregisterPcs
  PROVE  KnowsRows(p)'
<1>1. /\ pc \in [Procs -> Labels \cup Ops] /\ job \in [Procs -> Jobs] /\ Fits(pc[p], job[p]) /\ KnowsRows(p)
      /\ vpcRow \in [VPCs -> VIds \cup {None}] /\ subnetRow \in [VPCs \X Subnets -> SIds \cup {None}]
  BY DEF IInv, TypeOK, Places, RowsKnown
<1>2. Step(p) /\ Keeps(p)
  BY SameCall DEF Step
<1>3. CASE pc'[p] \in {"RegisterVPC", "DeleteVPC", "UnregisterVPC", "delete.subnetrows", "unregister.subnetrows"}
  BY <1>3 DEF KnowsRows, UndoPcs, TodoPcs, InsertPcs, RowPcs
<1>4. CASE pc'[p] = "register.csp"
  <2>1. /\ pc[p] = "RegisterVPC" /\ UNCHANGED <<vpcRow, subnetRow>> /\ vpcRow[job[p].v] = None
    <3>1. RegisterVPC_exists(p)
      BY <1>2, <1>4, Arrives
    <3> QED
      BY <1>1, <1>4, <3>1 DEF RegisterVPC_exists, Answer, DBError, Goto, Reads, db, At
  <2>2. NoSubnetRows(job[p].v)
    BY <2>1, HeldNotOrphan DEF KnowsPcs, Orphan
  <2>3. NoSubnetRows(job[p].v)'
    BY <1>2, <2>1, <2>2 DEF NoSubnetRows, Keeps
  <2> QED
    BY <1>4, <2>3 DEF KnowsRows, UndoPcs, TodoPcs, InsertPcs, RowPcs
<1>5. CASE pc'[p] = "register.vpcrow"
  <2>1. RegisterVPC_csp(p)
    BY <1>2, <1>5, Arrives
  <2>2. pc[p] = "register.csp" /\ UNCHANGED <<vpcRow, subnetRow>>
    BY <2>1 DEF RegisterVPC_csp, Reads, db, At
  <2>3. NoSubnetRows(job[p].v)'
    BY <1>1, <1>2, <2>2 DEF NoSubnetRows, Keeps, KnowsRows
  <2>4. Functional(job'[p].todo)
    <3>1. PICK name \in [SubnetsOf(job[p].id) -> Subnets] :
            /\ \A a, b \in SubnetsOf(job[p].id) : name[a] = name[b] => a = b
            /\ job' = [job EXCEPT ![p].todo = {<<name[a], a>> : a \in SubnetsOf(job[p].id)}]
      BY <1>1, <1>5, <2>1 DEF RegisterVPC_csp, Answer, Goto
    <3>2. job'[p].todo = {<<name[a], a>> : a \in SubnetsOf(job[p].id)}
      BY <1>1, <3>1 DEF Jobs
    <3> QED
      BY <3>1, <3>2 DEF Functional
  <2> QED
    BY <1>5, <2>3, <2>4 DEF KnowsRows, UndoPcs, TodoPcs, InsertPcs, RowPcs
<1>6. CASE pc'[p] = "register.subnetrow"
  <2>1. CASE RegisterVPC_insertVPC(p)
    <3>1. /\ pc[p] = "register.vpcrow" /\ job' = job /\ subnetRow' = subnetRow
          /\ vpcRow' = [vpcRow EXCEPT ![job[p].v] = job[p].id]
      BY <2>1 DEF RegisterVPC_insertVPC, At, Undisturbed
    <3>2. job[p].v \in VPCs /\ job[p].todo \in SubnetTodo
      BY <1>1, <3>1 DEF Fits
    <3>3. /\ Functional(job[p].todo) /\ vpcRow'[job[p].v] = job[p].id
          /\ \A t \in job[p].todo : subnetRow[<<job[p].v, t[1]>>] = None
      BY <1>1, <3>1, <3>2 DEF KnowsRows, NoSubnetRows, SubnetTodo, TodoPcs
    <3> QED
      BY <1>6, <3>1, <3>3 DEF KnowsRows, UndoPcs, InsertPcs, RowPcs, Row
  <2>2. CASE RegisterVPC_insertSubnet(p)
    <3>1. pc[p] = "register.subnetrow" /\ vpcRow' = vpcRow
      BY <2>2 DEF RegisterVPC_insertSubnet, At
    <3>2. PICK t \in job[p].todo : /\ subnetRow' = [subnetRow EXCEPT ![<<job[p].v, t[1]>>] = t[2]]
                                   /\ job' = [job EXCEPT ![p].todo = @ \ {t}]
      BY <1>1, <1>6, <2>2 DEF RegisterVPC_insertSubnet, Answer, Goto, Undisturbed
    <3>3. /\ job'[p].todo = job[p].todo \ {t} /\ job'[p].v = job[p].v /\ job'[p].id = job[p].id
      BY <1>1, <3>2 DEF Jobs
    <3>4. job[p].v \in VPCs /\ job[p].todo \in SubnetTodo
      BY <1>1, <3>1 DEF Fits
    <3>5. /\ Functional(job[p].todo) /\ vpcRow[job[p].v] = job[p].id
          /\ \A u \in job[p].todo : subnetRow[<<job[p].v, u[1]>>] = None
      BY <1>1, <3>1 DEF KnowsRows, TodoPcs, InsertPcs, Row
    <3>6. \A u \in job[p].todo \ {t} : u[1] \in Subnets /\ t[1] \in Subnets /\ u[1] # t[1]
      BY <3>4, <3>5 DEF Functional, SubnetTodo
    <3>7. \A u \in job[p].todo \ {t} : subnetRow'[<<job[p].v, u[1]>>] = None
      BY <1>1, <3>2, <3>4, <3>5, <3>6
    <3>8. Functional(job[p].todo \ {t})
      BY <3>5 DEF Functional
    <3> QED
      BY <1>6, <3>1, <3>3, <3>5, <3>7, <3>8 DEF KnowsRows, UndoPcs, InsertPcs, RowPcs, Row
  <2> QED
    BY <1>2, <1>6, <2>1, <2>2, Arrives
<1>7. CASE pc'[p] \in {"delete.kt", "delete.csp", "delete.vpcrow"}
  <2>1. CASE DeleteVPC_getVPC(p)
    <3>1. job'[p].row = vpcRow[job[p].v] /\ job'[p].v = job[p].v /\ vpcRow' = vpcRow
      BY <1>1, <1>7, <2>1 DEF DeleteVPC_getVPC, Answer, DBError, Goto, Reads, db, Jobs
    <3> QED
      BY <1>7, <3>1 DEF KnowsRows, UndoPcs, TodoPcs, InsertPcs, RowPcs, Row
  <2>2. CASE DeleteVPC_kt(p) \/ DeleteVPC_csp(p)
    <3>1. pc[p] \in {"delete.kt", "delete.csp"} /\ vpcRow' = vpcRow
      BY <2>2 DEF DeleteVPC_kt, DeleteVPC_csp, At, db
    <3>2. job'[p].row = job[p].row /\ job'[p].v = job[p].v /\ Row(p) = job[p].row
      BY <1>1, <1>2, <3>1 DEF Keeps, KnowsRows, RowPcs
    <3> QED
      BY <1>7, <3>1, <3>2 DEF KnowsRows, UndoPcs, TodoPcs, InsertPcs, RowPcs, Row
  <2> QED
    BY <1>2, <1>7, <2>1, <2>2, Arrives
<1>8. CASE pc'[p] = "unregister.vpcrow"
  <2>1. UnregisterVPC_exists(p)
    BY <1>2, <1>8, Arrives
  <2>2. vpcRow[job[p].v] # None /\ job' = job /\ vpcRow' = vpcRow
    BY <1>1, <1>8, <2>1 DEF UnregisterVPC_exists, Answer, DBError, Goto, Reads, db
  <2> QED
    BY <1>8, <2>2 DEF KnowsRows, UndoPcs, TodoPcs, InsertPcs, RowPcs, Row
<1> QED
  BY <1>3, <1>4, <1>5, <1>6, <1>7, <1>8

\* What the calls of a subnet know after a step.
LEMMA SubnetKnows ==
  ASSUME Undisturbed, IInv, IInv', SubnetsKnown, RowsKnown, NEW p \in Procs, Serve(p), ~Return(p),
         pc'[p] \in AddPcs \cup RemovePcs
  PROVE  KnowsRows(p)'
<1>1. /\ pc \in [Procs -> Labels \cup Ops] /\ job \in [Procs -> Jobs] /\ Fits(pc[p], job[p]) /\ KnowsRows(p)
      /\ vpcRow \in [VPCs -> VIds \cup {None}] /\ subnetRow \in [VPCs \X Subnets -> SIds \cup {None}]
  BY DEF IInv, TypeOK, Places, RowsKnown
<1>2. Step(p) /\ Keeps(p)
  BY SameCall DEF Step
<1>3. pc'[p] \notin UndoPcs
  BY <1>1, <1>2, Arrives DEF Undisturbed, KnowsRows, UndoPcs, AddSubnet_rollbackCSP, At
<1>4. CASE pc'[p] \in {"AddSubnet", "add.vpcrow", "add.readback", "RemoveSubnet"}
  BY <1>4 DEF KnowsRows, UndoPcs, TodoPcs, InsertPcs, RowPcs
<1>5. CASE pc'[p] = "add.csp"
  <2>1. AddSubnet_getVPC(p)
    BY <1>2, <1>5, Arrives
  <2>2. job'[p].row = vpcRow[job[p].v] /\ job'[p].v = job[p].v /\ vpcRow' = vpcRow
    BY <1>1, <1>5, <2>1 DEF AddSubnet_getVPC, Answer, DBError, Goto, Reads, db, Jobs
  <2> QED
    BY <1>5, <2>2 DEF KnowsRows, UndoPcs, TodoPcs, InsertPcs, RowPcs, Row
<1>6. CASE pc'[p] = "add.insert"
  <2>1. AddSubnet_csp(p)
    BY <1>2, <1>6, Arrives
  <2>2. pc[p] = "add.csp" /\ vpcRow' = vpcRow
    BY <2>1 DEF AddSubnet_csp, At, db
  <2>3. job'[p].row = job[p].row /\ job'[p].v = job[p].v /\ Row(p) = job[p].row
    BY <1>1, <1>2, <2>2 DEF Keeps, KnowsRows, RowPcs
  <2> QED
    BY <1>6, <2>2, <2>3 DEF KnowsRows, UndoPcs, TodoPcs, InsertPcs, RowPcs, Row
<1>7. CASE pc'[p] = "remove.vpcrow"
  <2>1. RemoveSubnet_getSubnet(p)
    BY <1>2, <1>7, Arrives
  <2>2. /\ pc[p] = "RemoveSubnet" /\ subnetRow[<<job[p].v, job[p].s>>] # None
        /\ job' = [job EXCEPT ![p].sub = subnetRow[<<job[p].v, job[p].s>>]]
        /\ UNCHANGED <<vpcRow, subnetRow>>
    BY <1>1, <1>7, <2>1 DEF RemoveSubnet_getSubnet, Answer, DBError, Goto, Reads, db, At
  <2>3. job[p].v \in VPCs /\ job[p].s \in Subnets
    BY <2>2, Owners DEF KnowsPcs
  <2>4. Row(p) # None
    BY <2>2, <2>3, HeldNotOrphan DEF KnowsPcs, Orphan, NoSubnetRows, Row
  <2>5. /\ job'[p].v = job[p].v /\ job'[p].s = job[p].s
        /\ job'[p].sub = subnetRow[<<job[p].v, job[p].s>>]
    BY <1>1, <2>2 DEF Jobs
  <2>6. job'[p].sub \in SIds
    BY <1>1, <2>2, <2>3, <2>5
  <2> QED
    BY <1>7, <2>2, <2>4, <2>5, <2>6 DEF KnowsRows, UndoPcs, TodoPcs, InsertPcs, RowPcs, Row
<1>8. CASE pc'[p] \in {"remove.csp", "remove.delete"}
  <2>1. pc[p] \in {"remove.vpcrow", "remove.csp"} /\ UNCHANGED <<vpcRow, subnetRow>>
    BY <1>2, <1>8, Arrives DEF RemoveSubnet_getVPC, RemoveSubnet_csp, Reads, db, At
  <2>2. /\ job'[p].sub = job[p].sub /\ job'[p].v = job[p].v /\ job'[p].s = job[p].s
        /\ job[p].sub \in SIds /\ subnetRow[<<job[p].v, job[p].s>>] \in {None, job[p].sub}
    BY <1>1, <1>2, <2>1 DEF Keeps, KnowsRows
  <2>3. pc'[p] = "remove.csp" => job'[p].row = vpcRow[job[p].v]
    <3>1. ASSUME pc'[p] = "remove.csp" PROVE RemoveSubnet_getVPC(p)
      BY <1>2, <3>1, Arrives
    <3> QED
      BY <1>1, <3>1 DEF RemoveSubnet_getVPC, Answer, DBError, Goto, Jobs
  <2> QED
    BY <1>8, <2>1, <2>2, <2>3 DEF KnowsRows, UndoPcs, TodoPcs, InsertPcs, RowPcs, Row
<1> QED
  BY <1>3, <1>4, <1>5, <1>6, <1>7, <1>8 DEF UndoPcs

LEMMA RowsKnownKept ==
  ASSUME Undisturbed, IInv, IInv', SubnetsKnown, RowsKnown, [Next]_vars
  PROVE  RowsKnown'
<1>1. ASSUME NEW p \in Procs, pc'[p] \notin KnowsPcs PROVE KnowsRows(p)'
  BY <1>1 DEF KnowsRows, KnowsPcs, UndoPcs, TodoPcs, InsertPcs, RowPcs
<1>2. ASSUME NEW p \in Procs, Step(p) PROVE KnowsRows(p)'
  <2>1. CASE Begin(p) \/ Return(p)
    BY <1>1, <2>1, Between DEF Lockless, KnowsPcs
  <2>2. CASE Serve(p) /\ ~Return(p)
    BY <1>1, <2>2, CreateKnows, VPCKnows, SubnetKnows DEF KnowsPcs
  <2> QED
    BY <1>2, <2>1, <2>2 DEF Step
<1>3. ASSUME NEW p \in Procs, Step(p) PROVE RowsKnown'
  <2>1. \A q \in Procs : KnowsRows(q)'
    BY <1>2, <1>3, OthersKnowRows DEF Undisturbed
  <2>2. \A v \in VPCs : Orphan(v)' => BeingDeleted(v)'
    BY <1>3, OrphansKept
  <2> QED
    BY <2>1, <2>2 DEF RowsKnown
<1>4. CASE UNCHANGED vars
  BY <1>4 DEF vars, db, RowsKnown, Orphan, BeingDeleted, NoSubnetRows, KnowsRows, Row
<1> QED
  BY <1>3, <1>4 DEF Next, Step, Undisturbed, Crash

\* What the calls know of the rows, they know in every state.
LEMMA RowsInvariance == Undisturbed => (Spec => []RowsKnown)
<1> SUFFICES ASSUME Undisturbed PROVE Spec => []RowsKnown
  OBVIOUS
<1>1. Init => RowsKnown
  <2>1. ASSUME Init PROVE \A p \in Procs : pc[p] = "idle"
    BY <2>1 DEF Init
  <2>2. ASSUME Init PROVE \A v \in VPCs : NoSubnetRows(v)
    BY <2>2 DEF Init, NoSubnetRows
  <2> QED
    BY <2>1, <2>2 DEF RowsKnown, Orphan, KnowsRows, UndoPcs, TodoPcs, InsertPcs, RowPcs
<1>2. IInv /\ IInv' /\ SubnetsKnown /\ RowsKnown /\ [Next]_vars => RowsKnown'
  BY RowsKnownKept
<1>3. Spec => []SubnetsKnown
  BY SubnetsInvariance DEF Undisturbed
<1> QED
  BY <1>1, <1>2, <1>3, Invariance, PTL DEF Spec

\* A subnet's row has its VPC's row whenever no call holds the VPC: whatever the calls
\* are, except RegisterSubnet, AddSubnet does not put a subnet into a VPC that is being
\* deleted, and DeleteVPC and UnregisterVPC delete both before they unlock.
THEOREM SubnetRowsOwnedHolds == Undisturbed => (Spec => []SubnetRowsOwned)
<1> SUFFICES ASSUME Undisturbed PROVE Spec => []SubnetRowsOwned
  OBVIOUS
<1>1. IInv /\ RowsKnown => SubnetRowsOwned
  <2> SUFFICES ASSUME IInv, RowsKnown, NEW v \in VPCs, NEW s \in Subnets, Quiet(v), subnetRow[<<v, s>>] # None,
                      vpcRow[v] = None
               PROVE  FALSE
    BY DEF SubnetRowsOwned
  <2>1. PICK p \in Procs : pc[p] \in DeletedPcs /\ job[p].v = v
    BY DEF RowsKnown, Orphan, NoSubnetRows, BeingDeleted
  <2>2. grant[p] = <<v, "W">>
    BY <2>1 DEF IInv, Places, Holds
  <2> QED
    BY <2>2 DEF Quiet
<1> QED
  BY <1>1, Invariance, RowsInvariance, PTL

\* A step sets a row of a subnet only where there was none.
LEMMA StepReplacesNoSubnetRow ==
  ASSUME Undisturbed, IInv, SubnetsKnown, RowsKnown, [Next]_vars
  PROVE  \A vs \in VPCs \X Subnets :
           subnetRow[vs] # None /\ subnetRow'[vs] # None => subnetRow'[vs] = subnetRow[vs]
<1>1. CASE UNCHANGED subnetRow
  BY <1>1
<1>2. ASSUME NEW p \in Procs, Step(p), NEW vs \in VPCs \X Subnets, subnetRow[vs] # None, subnetRow'[vs] # None
      PROVE  subnetRow'[vs] = subnetRow[vs]
  <2>1. /\ subnetRow \in [VPCs \X Subnets -> SIds \cup {None}] /\ Fits(pc[p], job[p]) /\ KnowsRows(p)
    BY DEF IInv, TypeOK, Places, RowsKnown
  <2>2. SubnetRowMoves(p)
    BY <1>2, SubnetRowStep
  <2>3. ASSUME NEW a, NEW r, subnetRow[a] = None, subnetRow' = [subnetRow EXCEPT ![a] = r]
        PROVE  subnetRow'[vs] = subnetRow[vs]
    BY <1>2, <2>1, <2>3
  <2>4. pc[p] \in InsertPcs => \A t \in job[p].todo : subnetRow[<<job[p].v, t[1]>>] = None
    BY <2>1 DEF KnowsRows
  <2>5. pc[p] = "add.insert" => subnetRow[<<job[p].v, job[p].s>>] = None
    BY DEF SubnetsKnown, FreeSubnetPcs
  <2>6. pc[p] # "regsub.insert"
    BY <2>1 DEF Fits, SubnetsKnown, NoRegisterSubnet, Undisturbed
  <2>7. CASE subnetRow' = [subnetRow EXCEPT ![<<job[p].v, job[p].s>>] = None]
    BY <1>2, <2>1, <2>7
  <2>8. CASE subnetRow' = [us \in VPCs \X Subnets |-> IF us[1] = job[p].v THEN None ELSE subnetRow[us]]
    BY <1>2, <2>8
  <2>9. CASE /\ pc[p] \in InsertPcs
             /\ \E t \in job[p].todo : subnetRow' = [subnetRow EXCEPT ![<<job[p].v, t[1]>>] = t[2]]
    BY <2>3, <2>4, <2>9
  <2>10. CASE pc[p] = "add.insert" /\ subnetRow' = [subnetRow EXCEPT ![<<job[p].v, job[p].s>>] = job[p].made]
    BY <2>3, <2>5, <2>10
  <2> QED
    BY <1>1, <2>2, <2>6, <2>7, <2>8, <2>9, <2>10, Zenon DEF SubnetRowMoves, InsertPcs
<1> QED
  BY <1>1, <1>2 DEF Next, Step, Crash, vars, db

\* No step replaces a subnet's row by another: CreateVPC, RegisterVPC and AddSubnet, whose
\* Insert is an upsert, insert under a name that their VPC's lock keeps free.
THEOREM SubnetRowsNeverReplacedHolds == Undisturbed => (Spec => SubnetRowsNeverReplaced)
<1> SUFFICES ASSUME Undisturbed PROVE Spec => SubnetRowsNeverReplaced
  OBVIOUS
<1>1. IInv /\ SubnetsKnown /\ RowsKnown /\ [Next]_vars =>
        [\A vs \in VPCs \X Subnets :
           subnetRow[vs] # None /\ subnetRow'[vs] # None => subnetRow'[vs] = subnetRow[vs]]_vars
  BY StepReplacesNoSubnetRow
<1>2. Spec => []SubnetsKnown
  BY SubnetsInvariance DEF Undisturbed
<1> QED
  BY <1>1, <1>2, Invariance, RowsInvariance, PTL DEF Spec, SubnetRowsNeverReplaced

-----------------------------------------------------------------------------
(* ... and what the calls know of the cloud.                               *)

\* The subnet is in this VPC, or no more.
In(sid, vid) == cspSubnet[sid] \in {None, vid}

CreatedPcs == {"create.vpcrow", "create.subnetrow"}
RegisteredPcs == {"register.vpcrow", "register.subnetrow"}

KnowsCloud(p) ==
  /\ pc[p] \in CreatedPcs => \A t \in job[p].todo : In(t[2], job[p].made)
  /\ pc[p] \in RegisteredPcs => \A t \in job[p].todo : In(t[2], job[p].id)
  /\ pc[p] = "add.insert" => In(job[p].made, job[p].row)
  /\ pc[p] \in {"remove.vpcrow", "remove.csp"} => In(job[p].sub, Row(p))
  /\ pc[p] = "remove.delete" => SettledS(job[p].sub)
  /\ pc[p] = "delete.vpcrow" => job[p].row \in VIds /\ SettledV(job[p].row)
  /\ pc[p] \in {"delete.vpcrow"} \cup DeletedPcs =>
       \A s \in Subnets : subnetRow[<<job[p].v, s>>] # None => SettledS(subnetRow[<<job[p].v, s>>])

\* A subnet's row names a subnet of the VPC's row.
RowsAgree ==
  \A v \in VPCs, s \in Subnets :
    vpcRow[v] # None /\ subnetRow[<<v, s>>] # None => In(subnetRow[<<v, s>>], vpcRow[v])

\* The subnets that a call has made and not yet inserted.
Pending(p) ==
  CASE pc[p] \in CreatedPcs -> {t[2] : t \in job[p].todo}
    [] pc[p] = "add.insert" -> {job[p].made}
    [] OTHER -> {}

KeptV == \A vid \in VIds : SettledV(vid) \/ (\E v \in VPCs : vpcRow[v] = vid)
                           \/ (\E p \in Procs : pc[p] = "create.vpcrow" /\ job[p].made = vid)
KeptS == \A sid \in SIds : SettledS(sid) \/ (\E vs \in VPCs \X Subnets : subnetRow[vs] = sid)
                           \/ (\E p \in Procs : sid \in Pending(p))

CloudKnown == RowsAgree /\ KeptV /\ KeptS /\ \A p \in Procs : KnowsCloud(p)

\* No id in a row or a call is fresh.
LEMMA NotFresh ==
  /\ \A v \in VPCs : ~FreshV(vpcRow[v])
  /\ \A vs \in VPCs \X Subnets : ~FreshS(subnetRow[vs])
  /\ \A q \in Procs : ~FreshV(job[q].row) /\ ~FreshV(job[q].made)
  /\ \A q \in Procs : ~FreshS(job[q].sub) /\ ~FreshS(job[q].made)
  /\ \A q \in Procs : \A t \in job[q].todo : ~FreshS(t[2])
BY DEF FreshV, FreshS

\* What is not fresh can only go, and what is settled stays so.
LEMMA OldIds ==
  ASSUME IInv, NEW p \in Procs, Step(p)
  PROVE  /\ \A sid \in SIds : ~FreshS(sid) => /\ cspSubnet'[sid] \in {cspSubnet[sid], None}
                                              /\ SettledS(sid) => SettledS(sid)'
         /\ \A vid \in VIds : ~FreshV(vid) => /\ vid \in cspVpc' => vid \in cspVpc
                                              /\ SettledV(vid) => SettledV(vid)'
<1>1. cspSubnet \in [SIds -> cspVpc \cup {None}]
  BY DEF IInv, TypeOK
<1>2. CASE Shrinks
  BY <1>2 DEF Shrinks
<1>3. CASE MakesVPC(p)
  <2>1. PICK vid \in VIds, names \in SUBSET Subnets : \E ids \in [names -> SIds] :
            /\ FreshV(vid) /\ \A s \in names : FreshS(ids[s])
            /\ \A s, t \in names : ids[s] = ids[t] => s = t
            /\ cspVpc' = cspVpc \cup {vid}
            /\ cspSubnet' = [sid \in SIds |-> IF \E s \in names : ids[s] = sid THEN vid ELSE cspSubnet[sid]]
            /\ job'[p] = [job[p] EXCEPT !.made = vid, !.todo = {<<s, ids[s]>> : s \in names}]
    BY <1>3, Zenon DEF MakesVPC
  <2>2. unmanaged' = unmanaged
    BY <1>3 DEF MakesVPC
  <2>3. \A sid \in SIds : ~FreshS(sid) => cspSubnet'[sid] = cspSubnet[sid]
    BY <2>1
  <2>4. \A w \in VIds : ~FreshV(w) => (w \in cspVpc' <=> w \in cspVpc)
    BY <2>1
  <2> QED
    BY <2>2, <2>3, <2>4 DEF SettledV, SettledS
<1>4. CASE MakesSubnet(p)
  <2>1. PICK sid \in SIds : FreshS(sid) /\ cspSubnet' = [cspSubnet EXCEPT ![sid] = job[p].row]
    BY <1>4 DEF MakesSubnet
  <2>2. UNCHANGED <<cspVpc, unmanaged>>
    BY <1>4 DEF MakesSubnet
  <2>3. \A i \in SIds : ~FreshS(i) => cspSubnet'[i] = cspSubnet[i]
    BY <1>1, <2>1
  <2> QED
    BY <2>2, <2>3 DEF SettledV, SettledS
<1> QED
  BY <1>2, <1>3, <1>4, CloudStep

LEMMA OthersKnowCloud ==
  ASSUME NoRegisterSubnet, IInv, SubnetsKnown, RowsKnown, CloudKnown, NEW p \in Procs, Step(p), NEW q \in Procs, q # p
  PROVE  KnowsCloud(q)'
<1>1. pc'[q] = pc[q] /\ job'[q] = job[q]
  BY OthersStay
<1>2. KnowsCloud(q) /\ KnowsRows(q) /\ Fits(pc[q], job[q]) /\ subnetRow \in [VPCs \X Subnets -> SIds \cup {None}]
  BY DEF RowsKnown, CloudKnown, IInv, Places, TypeOK
<1>3. pc[q] \in KnowsPcs =>
        /\ vpcRow'[job[q].v] = vpcRow[job[q].v]
        /\ job[q].v \in VPCs
        /\ \A s \in Subnets : subnetRow'[<<job[q].v, s>>] \in {subnetRow[<<job[q].v, s>>], None}
  BY Owners, OthersRows
<1>4. pc[q] \in CreatedPcs \cup RegisteredPcs =>
        \A t \in job[q].todo : cspSubnet'[t[2]] \in {cspSubnet[t[2]], None}
  <2>1. pc[q] \in CreatedPcs \cup RegisteredPcs => \A t \in job[q].todo : t[2] \in SIds
    BY <1>2 DEF Fits, SubnetTodo, CreatedPcs, RegisteredPcs
  <2> QED
    BY <2>1, NotFresh, OldIds
<1>5. pc[q] = "add.insert" => cspSubnet'[job[q].made] \in {cspSubnet[job[q].made], None}
  BY <1>2, NotFresh, OldIds DEF Fits
<1>6. pc[q] \in {"remove.vpcrow", "remove.csp"} => cspSubnet'[job[q].sub] \in {cspSubnet[job[q].sub], None}
  BY <1>2, NotFresh, OldIds DEF Fits
<1>7. pc[q] = "remove.delete" => SettledS(job[q].sub)'
  <2>1. pc[q] = "remove.delete" => job[q].sub \in SIds
    BY <1>2 DEF KnowsRows
  <2> QED
    BY <1>1, <1>2, <2>1, NotFresh, OldIds DEF KnowsCloud, SettledS
<1>8. pc[q] = "delete.vpcrow" => SettledV(job[q].row)'
  <2>1. pc[q] = "delete.vpcrow" => job[q].row \in VIds
    BY <1>2 DEF KnowsCloud
  <2> QED
    BY <1>1, <1>2, <2>1, NotFresh, OldIds DEF KnowsCloud, SettledV
<1>9. ASSUME pc[q] \in {"delete.vpcrow"} \cup DeletedPcs, NEW s \in Subnets, subnetRow'[<<job[q].v, s>>] # None
      PROVE  SettledS(subnetRow[<<job[q].v, s>>])'
  <2>1. subnetRow'[<<job[q].v, s>>] = subnetRow[<<job[q].v, s>>] /\ job[q].v \in VPCs
    BY <1>3, <1>9 DEF KnowsPcs
  <2>2. subnetRow[<<job[q].v, s>>] \in SIds
    BY <1>2, <1>9, <2>1
  <2>3. SettledS(subnetRow[<<job[q].v, s>>])
    BY <1>2, <1>9, <2>1 DEF KnowsCloud
  <2> QED
    BY <1>1, <2>1, <2>2, <2>3, NotFresh, OldIds DEF SettledS
<1> QED
  BY <1>1, <1>2, <1>3, <1>4, <1>5, <1>6, <1>7, <1>8, <1>9 DEF KnowsCloud, In, Row, KnowsPcs

\* What the call that takes the step knows of the cloud after it.
LEMMA CreateKnowsCloud ==
  ASSUME Undisturbed, IInv, IInv', SubnetsKnown, RowsKnown, CloudKnown, NEW p \in Procs, Serve(p), ~Return(p),
         pc'[p] \in CreatedPcs \cup RegisteredPcs
  PROVE  KnowsCloud(p)'
<1>1. /\ pc \in [Procs -> Labels \cup Ops] /\ job \in [Procs -> Jobs] /\ Fits(pc[p], job[p])
      /\ KnowsCloud(p) /\ cspSubnet \in [SIds -> cspVpc \cup {None}]
  BY DEF IInv, TypeOK, Places, CloudKnown
<1>2. Step(p) /\ Keeps(p)
  BY SameCall DEF Step
<1>3. ASSUME UNCHANGED cspSubnet, job'[p].todo \subseteq job[p].todo, job'[p].made = job[p].made,
             \/ pc[p] \in CreatedPcs /\ pc'[p] \in CreatedPcs
             \/ pc[p] \in RegisteredPcs /\ pc'[p] \in RegisteredPcs
      PROVE  KnowsCloud(p)'
  BY <1>1, <1>2, <1>3 DEF KnowsCloud, In, Keeps, CreatedPcs, RegisteredPcs
<1>4. CASE CreateVPC_csp(p)
  <2>1. pc'[p] = "create.vpcrow"
    BY <1>1, <1>4 DEF CreateVPC_csp, Answer, Goto, CreatedPcs, RegisteredPcs
  <2>2. PICK vid \in VIds, names \in SUBSET Subnets : \E ids \in [names -> SIds] :
          /\ FreshV(vid) /\ \A s \in names : FreshS(ids[s])
          /\ \A s, t \in names : ids[s] = ids[t] => s = t
          /\ cspVpc' = cspVpc \cup {vid}
          /\ cspSubnet' = [sid \in SIds |-> IF \E s \in names : ids[s] = sid THEN vid ELSE cspSubnet[sid]]
          /\ job'[p] = [job[p] EXCEPT !.made = vid, !.todo = {<<s, ids[s]>> : s \in names}]
    <3>1. MakesVPC(p)
      BY <1>2, <2>1, MadeVPC
    <3> QED
      BY <3>1, Zenon DEF MakesVPC
  <2>3. PICK ids \in [names -> SIds] :
          /\ cspSubnet' = [sid \in SIds |-> IF \E s \in names : ids[s] = sid THEN vid ELSE cspSubnet[sid]]
          /\ job'[p] = [job[p] EXCEPT !.made = vid, !.todo = {<<s, ids[s]>> : s \in names}]
    BY <2>2
  <2>4. job[p] \in Jobs
    BY <1>1
  <2>5. job'[p].made = vid /\ job'[p].todo = {<<s, ids[s]>> : s \in names}
    BY <2>3, <2>4 DEF Jobs
  <2>6. ASSUME NEW t \in job'[p].todo PROVE cspSubnet'[t[2]] = vid
    <3>1. PICK s \in names : t = <<s, ids[s]>>
      BY <2>5
    <3>2. ids[s] \in SIds /\ t[2] = ids[s]
      BY <3>1
    <3> QED
      BY <2>3, <3>2
  <2> QED
    BY <2>1, <2>5, <2>6 DEF KnowsCloud, In, CreatedPcs, RegisteredPcs
<1>5. CASE RegisterVPC_csp(p)
  <2>1. pc'[p] = "register.vpcrow" /\ UNCHANGED cspSubnet
    BY <1>1, <1>5 DEF RegisterVPC_csp, Answer, Goto, CreatedPcs, RegisteredPcs, Reads, cloud
  <2>2. PICK name \in [SubnetsOf(job[p].id) -> Subnets] :
          job' = [job EXCEPT ![p].todo = {<<name[a], a>> : a \in SubnetsOf(job[p].id)}]
    BY <1>1, <2>1, <1>5 DEF RegisterVPC_csp, Answer, Goto
  <2>3. job'[p].todo = {<<name[a], a>> : a \in SubnetsOf(job[p].id)} /\ job'[p].id = job[p].id
    BY <1>1, <2>2 DEF Jobs
  <2>4. \A t \in job'[p].todo : cspSubnet'[t[2]] = job'[p].id
    BY <2>1, <2>3 DEF SubnetsOf
  <2> QED
    BY <2>1, <2>4 DEF KnowsCloud, In, CreatedPcs, RegisteredPcs
<1>6. CASE CreateVPC_insertVPC(p) \/ RegisterVPC_insertVPC(p)
  <2>1. UNCHANGED <<cspSubnet, job>>
    BY <1>1, <1>6 DEF CreateVPC_insertVPC, RegisterVPC_insertVPC, Undisturbed, cloud
  <2>2. \/ pc[p] \in CreatedPcs /\ pc'[p] \in CreatedPcs
        \/ pc[p] \in RegisteredPcs /\ pc'[p] \in RegisteredPcs
    BY <1>1, <1>6 DEF CreateVPC_insertVPC, RegisterVPC_insertVPC, Undisturbed, Goto, At, CreatedPcs, RegisteredPcs
  <2> QED
    BY <1>3, <2>1, <2>2
<1>7. CASE CreateVPC_insertSubnet(p) \/ RegisterVPC_insertSubnet(p)
  <2>1. PICK t \in job[p].todo : pc' = pc /\ job' = [job EXCEPT ![p].todo = @ \ {t}]
    BY <1>1, <1>7 DEF CreateVPC_insertSubnet, RegisterVPC_insertSubnet, Answer, Goto, Undisturbed, CreatedPcs,
       RegisteredPcs
  <2>2. UNCHANGED cspSubnet
    BY <1>7 DEF CreateVPC_insertSubnet, RegisterVPC_insertSubnet, cloud
  <2>3. job'[p].todo = job[p].todo \ {t} /\ job'[p].made = job[p].made
    BY <1>1, <2>1 DEF Jobs
  <2>4. pc[p] \in CreatedPcs \cup RegisteredPcs
    BY <1>7 DEF CreateVPC_insertSubnet, RegisterVPC_insertSubnet, At, CreatedPcs, RegisteredPcs
  <2> QED
    BY <1>3, <2>1, <2>2, <2>3, <2>4
<1> QED
  BY <1>2, <1>4, <1>5, <1>6, <1>7, Arrives DEF CreatedPcs, RegisteredPcs

\* The driver's delete removes a VPC with its subnets, or the call has reported them.
LEMMA DeleteSettles ==
  ASSUME TypeOK, NEW vid \in VIds,
         RemoveVpcFromCsp(vid) \/ LeaveVpcInCsp(vid, TRUE)
           \/ (vid \notin cspVpc /\ \E known \in BOOLEAN : LeaveVpcInCsp(vid, known))
  PROVE  SettledV(vid)' /\ \A sid \in SIds : In(sid, vid) => SettledS(sid)'
<1>1. CASE RemoveVpcFromCsp(vid)
  BY <1>1, VPCAssumption DEF RemoveVpcFromCsp, SettledV, SettledS, In, TypeOK
<1>2. CASE LeaveVpcInCsp(vid, TRUE)
  <2>1. unmanaged' = unmanaged \cup ({vid} \cap cspVpc) \cup SubnetsOf(vid) /\ UNCHANGED <<cspVpc, cspSubnet>>
    BY <1>2 DEF LeaveVpcInCsp
  <2> QED
    BY <2>1 DEF SettledV, SettledS, In, SubnetsOf
<1>3. CASE vid \notin cspVpc /\ \E known \in BOOLEAN : LeaveVpcInCsp(vid, known)
  <2>1. UNCHANGED <<cspVpc, cspSubnet>>
    BY <1>3 DEF LeaveVpcInCsp
  <2>2. \A sid \in SIds : cspSubnet[sid] # vid
    BY <1>3, VPCAssumption DEF TypeOK
  <2> QED
    BY <1>3, <2>1, <2>2 DEF SettledV, SettledS, In
<1> QED
  BY <1>1, <1>2, <1>3

LEMMA DeleteKnowsCloud ==
  ASSUME Undisturbed, IInv, IInv', SubnetsKnown, RowsKnown, CloudKnown, NEW p \in Procs, Serve(p), ~Return(p),
         pc'[p] \in {"delete.vpcrow"} \cup DeletedPcs
  PROVE  KnowsCloud(p)'
<1>1. /\ pc \in [Procs -> Labels \cup Ops] /\ job \in [Procs -> Jobs] /\ Fits(pc[p], job[p])
      /\ KnowsCloud(p) /\ KnowsRows(p) /\ TypeOK /\ subnetRow \in [VPCs \X Subnets -> SIds \cup {None}]
  BY DEF IInv, TypeOK, Places, CloudKnown, RowsKnown
<1>2. Step(p) /\ Keeps(p)
  BY SameCall DEF Step
<1>3. ASSUME pc[p] \in KnowsPcs, NEW s \in Subnets, subnetRow[<<job[p].v, s>>] # None, Row(p) # None
      PROVE  subnetRow[<<job[p].v, s>>] \in SIds /\ In(subnetRow[<<job[p].v, s>>], Row(p))
  <2>1. job[p].v \in VPCs
    BY <1>3, Owners
  <2> QED
    BY <1>1, <1>3, <2>1 DEF CloudKnown, RowsAgree, Row
<1>4. CASE DeleteVPC_csp(p)
  <2>1. /\ pc[p] = "delete.csp" /\ UNCHANGED db /\ pc'[p] = "delete.vpcrow"
        /\ job'[p].v = job[p].v /\ job'[p].row = job[p].row /\ job[p].row \in VIds
    <3>1. pc[p] = "delete.csp" /\ UNCHANGED db
      BY <1>4 DEF DeleteVPC_csp, At
    <3>2. pc'[p] = "delete.vpcrow"
      BY <1>1, <1>4 DEF DeleteVPC_csp, AfterDriverDelete, Answer, Goto
    <3> QED
      BY <1>1, <1>2, <3>1, <3>2 DEF Keeps, Fits
  <2>2. SettledV(job[p].row)' /\ \A sid \in SIds : In(sid, job[p].row) => SettledS(sid)'
    <3>1. PICK out \in Outcomes(job[p].row \in cspVpc) :
            /\ IF Removes(out) THEN RemoveVpcFromCsp(job[p].row)
                               ELSE LeaveVpcInCsp(job[p].row, job[p].force)
            /\ AfterDriverDelete(p, out, "delete.vpcrow")
      BY <1>4 DEF DeleteVPC_csp
    <3>2. out \in {"ok", "notfound"} \/ job[p].force
      BY <1>1, <2>1, <3>1 DEF AfterDriverDelete, Answer, Goto
    <3>3. out = "notfound" => job[p].row \notin cspVpc
      BY VPCAssumption DEF Outcomes
    <3>4. job[p].force \in BOOLEAN
      BY <1>1 DEF Jobs
    <3>5. \/ RemoveVpcFromCsp(job[p].row) \/ LeaveVpcInCsp(job[p].row, TRUE)
          \/ job[p].row \notin cspVpc /\ \E known \in BOOLEAN : LeaveVpcInCsp(job[p].row, known)
      <4>1. CASE Removes(out)
        BY <3>1, <4>1
      <4>2. CASE ~Removes(out) /\ job[p].force
        <5>1. job[p].force = TRUE
          BY <3>4, <4>2
        <5> QED
          BY <3>1, <4>2, <5>1
      <4>3. CASE ~Removes(out) /\ ~job[p].force
        <5>1. job[p].row \notin cspVpc
          BY <3>2, <3>3, <4>3 DEF Removes
        <5> QED
          BY <3>1, <3>4, <4>3, <5>1
      <4> QED
        BY <4>1, <4>2, <4>3
    <3>6. \A vid \in VIds :
            \/ RemoveVpcFromCsp(vid) \/ LeaveVpcInCsp(vid, TRUE)
            \/ vid \notin cspVpc /\ \E known \in BOOLEAN : LeaveVpcInCsp(vid, known)
            => (vid \notin cspVpc' \/ vid \in unmanaged') /\ \A sid \in SIds : In(sid, vid) => SettledS(sid)'
      BY <1>1, DeleteSettles DEF SettledV
    <3>7. (job[p].row \notin cspVpc' \/ job[p].row \in unmanaged')
          /\ \A sid \in SIds : In(sid, job[p].row) => SettledS(sid)'
      BY <2>1, <3>5, <3>6
    <3> QED
      BY <2>1, <3>7 DEF SettledV
  <2>3. Row(p) = job[p].row /\ Row(p) # None
    BY <1>1, <2>1, VPCAssumption DEF KnowsRows, RowPcs
  <2>4. ASSUME NEW s \in Subnets, subnetRow'[<<job'[p].v, s>>] # None
        PROVE  SettledS(subnetRow[<<job[p].v, s>>])'
    <3>1. subnetRow[<<job[p].v, s>>] \in SIds /\ In(subnetRow[<<job[p].v, s>>], job[p].row)
      BY <1>3, <2>1, <2>3, <2>4 DEF KnowsPcs, db
    <3>2. ASSUME NEW sid \in SIds, In(sid, job[p].row) PROVE cspSubnet'[sid] = None \/ sid \in unmanaged'
      BY <2>2, <3>2 DEF SettledS
    <3> QED
      BY <2>1, <3>1, <3>2 DEF SettledS, db
  <2> QED
    BY <2>1, <2>2, <2>4 DEF KnowsCloud, CreatedPcs, RegisteredPcs, SettledS
<1>5. CASE DeleteVPC_deleteVPC(p)
  <2>1. pc[p] = "delete.vpcrow" /\ pc'[p] = "delete.subnetrows" /\ UNCHANGED <<job, subnetRow, cloud>>
    BY <1>1, <1>5 DEF DeleteVPC_deleteVPC, Goto, At, Undisturbed
  <2> QED
    BY <1>1, <2>1 DEF KnowsCloud, CreatedPcs, RegisteredPcs, SettledS, cloud
<1>6. CASE UnregisterVPC_deleteVPC(p)
  <2>1. /\ pc[p] = "unregister.vpcrow" /\ pc'[p] = "unregister.subnetrows"
        /\ UNCHANGED <<job, subnetRow, cspVpc, cspSubnet>>
        /\ unmanaged' = unmanaged \cup ({Row(p)} \cap cspVpc) \cup SubnetsOf(Row(p))
    BY <1>1, <1>6 DEF UnregisterVPC_deleteVPC, Goto, At, Undisturbed, Row
  <2>2. Row(p) # None
    BY <1>1, <2>1 DEF KnowsRows
  <2>3. ASSUME NEW sid \in SIds, In(sid, Row(p)) PROVE cspSubnet'[sid] = None \/ sid \in unmanaged'
    BY <2>1, <2>3 DEF In, SubnetsOf
  <2> QED
    BY <1>3, <2>1, <2>2, <2>3 DEF KnowsCloud, CreatedPcs, RegisteredPcs, SettledS, KnowsPcs
<1> QED
  BY <1>2, <1>4, <1>5, <1>6, Arrives

LEMMA SubnetKnowsCloud ==
  ASSUME Undisturbed, IInv, IInv', SubnetsKnown, RowsKnown, CloudKnown, NEW p \in Procs, Serve(p), ~Return(p),
         pc'[p] \in {"add.insert", "remove.vpcrow", "remove.csp", "remove.delete"}
  PROVE  KnowsCloud(p)'
<1>1. /\ pc \in [Procs -> Labels \cup Ops] /\ job \in [Procs -> Jobs] /\ Fits(pc[p], job[p])
      /\ KnowsCloud(p) /\ KnowsRows(p) /\ subnetRow \in [VPCs \X Subnets -> SIds \cup {None}]
      /\ cspSubnet \in [SIds -> cspVpc \cup {None}]
  BY DEF IInv, TypeOK, Places, CloudKnown, RowsKnown
<1>2. Step(p) /\ Keeps(p)
  BY SameCall DEF Step
<1>3. CASE pc'[p] = "add.insert"
  <2>1. AddSubnet_csp(p) /\ ~Answer(p, "error")
    BY <1>1, <1>2, <1>3, Arrives DEF Answer, Goto
  <2>2. PICK sid \in SIds : cspSubnet' = [cspSubnet EXCEPT ![sid] = job[p].row] /\ job' = [job EXCEPT ![p].made = sid]
    BY <2>1 DEF AddSubnet_csp
  <2>3. job'[p].made = sid /\ job'[p].row = job[p].row
    BY <1>1, <2>2 DEF Jobs
  <2> QED
    BY <1>1, <1>3, <2>2, <2>3 DEF KnowsCloud, In, CreatedPcs, RegisteredPcs
<1>4. CASE pc'[p] = "remove.vpcrow"
  <2>1. RemoveSubnet_getSubnet(p)
    BY <1>2, <1>4, Arrives
  <2>2. /\ pc[p] = "RemoveSubnet" /\ subnetRow[<<job[p].v, job[p].s>>] # None
        /\ job' = [job EXCEPT ![p].sub = subnetRow[<<job[p].v, job[p].s>>]]
        /\ UNCHANGED <<vpcRow, subnetRow, cspSubnet>>
    BY <1>1, <1>4, <2>1 DEF RemoveSubnet_getSubnet, Answer, DBError, Goto, Reads, db, cloud, At
  <2>3. job[p].v \in VPCs /\ job[p].s \in Subnets
    BY <2>2, Owners DEF KnowsPcs
  <2>4. Row(p) # None
    BY <2>2, <2>3, HeldNotOrphan DEF KnowsPcs, Orphan, NoSubnetRows, Row
  <2>5. job'[p].v = job[p].v /\ job'[p].sub = subnetRow[<<job[p].v, job[p].s>>]
    BY <1>1, <2>2 DEF Jobs
  <2>6. In(subnetRow[<<job[p].v, job[p].s>>], vpcRow[job[p].v])
    BY <2>2, <2>3, <2>4 DEF CloudKnown, RowsAgree, Row
  <2> QED
    BY <1>4, <2>2, <2>5, <2>6 DEF KnowsCloud, In, Row, CreatedPcs, RegisteredPcs
<1>5. CASE pc'[p] = "remove.csp"
  <2>1. RemoveSubnet_getVPC(p)
    BY <1>2, <1>5, Arrives
  <2>2. pc[p] = "remove.vpcrow" /\ UNCHANGED <<vpcRow, cspSubnet>>
    BY <2>1 DEF RemoveSubnet_getVPC, Reads, db, cloud, At
  <2> QED
    BY <1>1, <1>2, <1>5, <2>2 DEF KnowsCloud, Keeps, In, Row, CreatedPcs, RegisteredPcs
<1>6. CASE pc'[p] = "remove.delete"
  <2>1. RemoveSubnet_csp(p)
    BY <1>2, <1>6, Arrives
  <2>2. pc[p] = "remove.csp"
    BY <2>1 DEF RemoveSubnet_csp, At
  <2>3. job[p].sub \in SIds /\ In(job[p].sub, job[p].row) /\ job'[p].sub = job[p].sub /\ job[p].force \in BOOLEAN
    <3>1. Row(p) = job[p].row
      BY <1>1, <2>2 DEF KnowsRows, RowPcs
    <3> QED
      BY <1>1, <1>2, <2>2, <3>1 DEF KnowsCloud, Fits, Keeps, Jobs
  <2>4. PICK out \in Outcomes(cspSubnet[job[p].sub] = job[p].row) :
          /\ IF Removes(out) THEN RemoveSubnetFromCsp(job[p].sub)
                             ELSE LeaveSubnetInCsp(job[p].sub, job[p].force)
          /\ AfterDriverDelete(p, out, "remove.delete")
    BY <2>1 DEF RemoveSubnet_csp
  <2>5. out \in {"ok", "notfound"} \/ job[p].force
    BY <1>1, <1>6, <2>4 DEF AfterDriverDelete, Answer, Goto
  <2>6. out = "notfound" => cspSubnet[job[p].sub] = None
    BY <2>3, VPCAssumption DEF Outcomes, In
  <2>7. cspSubnet'[job[p].sub] = None \/ job[p].sub \in unmanaged'
    <3>1. CASE Removes(out)
      BY <1>1, <2>3, <2>4, <3>1 DEF RemoveSubnetFromCsp
    <3>2. CASE ~Removes(out)
      <4>1. LeaveSubnetInCsp(job[p].sub, job[p].force)
        BY <2>4, <3>2
      <4>2. job[p].force \/ cspSubnet[job[p].sub] = None
        BY <2>5, <2>6, <3>2 DEF Removes
      <4> QED
        BY <4>1, <4>2 DEF LeaveSubnetInCsp
    <3> QED
      BY <3>1, <3>2
  <2> QED
    BY <1>6, <2>3, <2>7 DEF KnowsCloud, SettledS, CreatedPcs, RegisteredPcs
<1> QED
  BY <1>3, <1>4, <1>5, <1>6

\* A row is inserted with the id of what the driver made, or found, in the row's VPC.
LEMMA RowsAgreeKept ==
  ASSUME Undisturbed, IInv, SubnetsKnown, RowsKnown, CloudKnown, NEW p \in Procs, Step(p)
  PROVE  RowsAgree'
<1>1. /\ vpcRow \in [VPCs -> VIds \cup {None}] /\ subnetRow \in [VPCs \X Subnets -> SIds \cup {None}]
      /\ Fits(pc[p], job[p]) /\ KnowsRows(p) /\ KnowsCloud(p) /\ RowsAgree
  BY DEF IInv, TypeOK, Places, RowsKnown, CloudKnown
<1>2. VPCRowMoves(p) /\ SubnetRowMoves(p) /\ (UNCHANGED vpcRow \/ UNCHANGED subnetRow)
  BY VPCRowStep, SubnetRowStep
<1>3. ASSUME NEW v \in VPCs, NEW s \in Subnets, vpcRow'[v] # None, subnetRow'[<<v, s>>] # None
      PROVE  cspSubnet'[subnetRow'[<<v, s>>]] \in {None, vpcRow'[v]}
  <2>1. CASE vpcRow'[v] = vpcRow[v] /\ subnetRow'[<<v, s>>] = subnetRow[<<v, s>>]
    <3>1. In(subnetRow[<<v, s>>], vpcRow[v]) /\ subnetRow[<<v, s>>] \in SIds
      BY <1>1, <1>3, <2>1 DEF RowsAgree
    <3> QED
      BY <2>1, <3>1, NotFresh, OldIds DEF In
  <2>2. CASE vpcRow'[v] # vpcRow[v]
    <3>1. UNCHANGED subnetRow /\ pc[p] \in {"create.vpcrow", "register.vpcrow"} /\ v = job[p].v
      BY <1>1, <1>2, <1>3, <2>2 DEF VPCRowMoves
    <3> QED
      BY <1>1, <1>3, <3>1 DEF KnowsRows, NoSubnetRows
  <2>3. CASE vpcRow'[v] = vpcRow[v] /\ subnetRow'[<<v, s>>] # subnetRow[<<v, s>>]
    <3>1. ASSUME NEW t \in Subnets, NEW r \in SIds, subnetRow' = [subnetRow EXCEPT ![<<job[p].v, t>>] = r],
                 In(r, Row(p)), ~FreshS(r)
          PROVE  cspSubnet'[subnetRow'[<<v, s>>]] \in {None, vpcRow'[v]}
      <4>1. v = job[p].v /\ subnetRow'[<<v, s>>] = r
        BY <1>1, <2>3, <3>1
      <4> QED
        BY <2>3, <3>1, <4>1, OldIds DEF In, Row
    <3>2. CASE /\ pc[p] \in InsertPcs
               /\ \E t \in job[p].todo : subnetRow' = [subnetRow EXCEPT ![<<job[p].v, t[1]>>] = t[2]]
      <4>1. \A t \in job[p].todo : t[1] \in Subnets /\ t[2] \in SIds
        BY <1>1, <3>2 DEF Fits, SubnetTodo, InsertPcs
      <4>2. \A t \in job[p].todo : In(t[2], Row(p))
        BY <1>1, <3>2 DEF KnowsCloud, KnowsRows, InsertPcs, CreatedPcs, RegisteredPcs
      <4> QED
        BY <3>1, <3>2, <4>1, <4>2, NotFresh
    <3>3. CASE pc[p] = "add.insert" /\ subnetRow' = [subnetRow EXCEPT ![<<job[p].v, job[p].s>>] = job[p].made]
      <4>1. job[p].s \in Subnets /\ job[p].made \in SIds
        BY <1>1, <3>3 DEF Fits
      <4>2. In(job[p].made, Row(p))
        BY <1>1, <3>3 DEF KnowsCloud, KnowsRows, RowPcs
      <4> QED
        BY <3>1, <3>3, <4>1, <4>2, NotFresh
    <3>4. pc[p] # "regsub.insert"
      BY <1>1 DEF Fits, SubnetsKnown, NoRegisterSubnet, Undisturbed
    <3>5. subnetRow' # [subnetRow EXCEPT ![<<job[p].v, job[p].s>>] = None]
      BY <1>1, <1>3, <2>3
    <3>6. subnetRow' # [vs \in VPCs \X Subnets |-> IF vs[1] = job[p].v THEN None ELSE subnetRow[vs]]
      BY <1>3, <2>3
    <3> QED
      BY <1>2, <2>3, <3>2, <3>3, <3>4, <3>5, <3>6, Zenon DEF SubnetRowMoves, InsertPcs
  <2> QED
    BY <2>1, <2>2, <2>3
<1> QED
  BY <1>3 DEF RowsAgree, In

\* A VPC made by Spider has its row, or the call that made it is about to insert it.
LEMMA KeptVKept ==
  ASSUME Undisturbed, IInv, SubnetsKnown, RowsKnown, CloudKnown, NEW p \in Procs, Step(p)
  PROVE  KeptV'
<1>1. /\ vpcRow \in [VPCs -> VIds \cup {None}] /\ KnowsRows(p) /\ KnowsCloud(p) /\ Fits(pc[p], job[p])
      /\ Knows(pc[p], job[p], vpcRow) /\ pc \in [Procs -> Labels \cup Ops] /\ job \in [Procs -> Jobs]
  BY DEF IInv, TypeOK, Places, RowsKnown, CloudKnown
<1>2. ASSUME NEW vid \in VIds, FreshV(vid), ~SettledV(vid)'
      PROVE  \E q \in Procs : pc'[q] = "create.vpcrow" /\ job'[q].made = vid
  <2>1. vid \notin cspVpc /\ SettledV(vid)
    BY <1>2 DEF FreshV, SettledV
  <2>2. ~Shrinks
    BY <1>2, <2>1 DEF Shrinks
  <2>3. ~MakesSubnet(p)
    BY <1>2, <2>1 DEF MakesSubnet, SettledV
  <2>4. MakesVPC(p)
    BY <2>2, <2>3, CloudStep
  <2>5. PICK new \in VIds, names \in SUBSET Subnets : \E ids \in [names -> SIds] :
            /\ FreshV(new) /\ \A s \in names : FreshS(ids[s])
            /\ \A s, t \in names : ids[s] = ids[t] => s = t
            /\ cspVpc' = cspVpc \cup {new}
            /\ cspSubnet' = [sid \in SIds |-> IF \E s \in names : ids[s] = sid THEN new ELSE cspSubnet[sid]]
            /\ job'[p] = [job[p] EXCEPT !.made = new, !.todo = {<<s, ids[s]>> : s \in names}]
    BY <2>4, Zenon DEF MakesVPC
  <2>6. new = vid
    BY <1>2, <2>1, <2>5 DEF SettledV
  <2>7. job'[p].made = vid
    BY <1>1, <2>5, <2>6 DEF Jobs
  <2> QED
    BY <2>4, <2>7 DEF MakesVPC
<1>3. ASSUME NEW vid \in VIds, ~FreshV(vid), ~SettledV(vid)', NEW v \in VPCs, vpcRow[v] = vid
      PROVE  vpcRow'[v] = vid
  <2>1. ~SettledV(vid)
    BY <1>3, OldIds
  <2>2. SUFFICES ASSUME vpcRow'[v] # vid PROVE FALSE
    OBVIOUS
  <2>3. vpcRow[v] # None
    BY <1>3, VPCAssumption
  <2>4. pc[p] \in {"delete.vpcrow", "unregister.vpcrow"} /\ v = job[p].v
    BY <1>1, <1>3, <2>2, <2>3, VPCRowStep DEF VPCRowMoves, Knows, KnowsRows, UndoPcs
  <2>5. pc[p] # "delete.vpcrow"
    BY <1>1, <1>3, <2>1, <2>4 DEF KnowsCloud, KnowsRows, RowPcs, Row
  <2>6. UnregisterVPC_deleteVPC(p)
    BY <2>4, <2>5, Departs
  <2>7. unmanaged' = unmanaged \cup ({vid} \cap cspVpc) \cup SubnetsOf(vid) /\ UNCHANGED cspVpc
    BY <1>3, <2>4, <2>6 DEF UnregisterVPC_deleteVPC, Undisturbed
  <2> QED
    BY <1>3, <2>7 DEF SettledV
<1>4. ASSUME NEW vid \in VIds, NEW q \in Procs, pc[q] = "create.vpcrow", job[q].made = vid
      PROVE  (\E v \in VPCs : vpcRow'[v] = vid) \/ (pc'[q] = "create.vpcrow" /\ job'[q].made = vid)
  <2>1. CASE q # p
    BY <1>4, <2>1, OthersStay
  <2>2. CASE q = p
    <3>1. vpcRow' = [vpcRow EXCEPT ![job[p].v] = vid]
      BY <1>4, <2>2, Departs DEF CreateVPC_insertVPC, Undisturbed
    <3>2. job[p].v \in VPCs
      BY <1>1, <1>4, <2>2 DEF Fits
    <3> QED
      BY <1>1, <3>1, <3>2
  <2> QED
    BY <2>1, <2>2
<1>5. ASSUME NEW vid \in VIds, ~SettledV(vid)'
      PROVE  (\E v \in VPCs : vpcRow'[v] = vid) \/ (\E q \in Procs : pc'[q] = "create.vpcrow" /\ job'[q].made = vid)
  <2>1. CASE FreshV(vid)
    BY <1>2, <1>5, <2>1
  <2>2. CASE ~FreshV(vid)
    <3>1. ~SettledV(vid)
      BY <1>5, <2>2, OldIds
    <3>2. (\E v \in VPCs : vpcRow[v] = vid) \/ (\E q \in Procs : pc[q] = "create.vpcrow" /\ job[q].made = vid)
      BY <3>1 DEF CloudKnown, KeptV
    <3> QED
      BY <1>3, <1>4, <1>5, <2>2, <3>2
  <2> QED
    BY <2>1, <2>2
<1> QED
  BY <1>5 DEF KeptV, SettledV

\* Its subnets, too.
LEMMA KeptSKept ==
  ASSUME Undisturbed, IInv, SubnetsKnown, RowsKnown, CloudKnown, NEW p \in Procs, Step(p)
  PROVE  KeptS'
<1>1. /\ subnetRow \in [VPCs \X Subnets -> SIds \cup {None}] /\ KnowsRows(p) /\ KnowsCloud(p) /\ Fits(pc[p], job[p])
      /\ pc \in [Procs -> Labels \cup Ops] /\ job \in [Procs -> Jobs] /\ cspSubnet \in [SIds -> cspVpc \cup {None}]
  BY DEF IInv, TypeOK, Places, RowsKnown, CloudKnown
<1>2. ASSUME NEW sid \in SIds, FreshS(sid), ~SettledS(sid)'
      PROVE  sid \in Pending(p)'
  <2>1. cspSubnet[sid] = None /\ SettledS(sid)
    BY <1>2 DEF FreshS, SettledS
  <2>2. CASE Shrinks
    BY <1>2, <2>1, <2>2 DEF Shrinks
  <2>3. CASE MakesVPC(p)
    <3>1. PICK vid \in VIds, names \in SUBSET Subnets : \E ids \in [names -> SIds] :
            /\ FreshV(vid) /\ \A s \in names : FreshS(ids[s])
            /\ \A s, t \in names : ids[s] = ids[t] => s = t
            /\ cspVpc' = cspVpc \cup {vid}
            /\ cspSubnet' = [i \in SIds |-> IF \E s \in names : ids[s] = i THEN vid ELSE cspSubnet[i]]
            /\ job'[p] = [job[p] EXCEPT !.made = vid, !.todo = {<<s, ids[s]>> : s \in names}]
      BY <2>3, Zenon DEF MakesVPC
    <3>2. PICK ids \in [names -> SIds] :
            /\ cspSubnet' = [i \in SIds |-> IF \E s \in names : ids[s] = i THEN vid ELSE cspSubnet[i]]
            /\ job'[p] = [job[p] EXCEPT !.made = vid, !.todo = {<<s, ids[s]>> : s \in names}]
      BY <3>1
    <3>3. job[p] \in Jobs
      BY <1>1
    <3>4. job'[p].todo = {<<s, ids[s]>> : s \in names}
      BY <3>2, <3>3 DEF Jobs
    <3>5. PICK s \in names : ids[s] = sid
      BY <1>2, <2>1, <3>2 DEF SettledS
    <3>6. <<s, ids[s]>> \in job'[p].todo /\ <<s, ids[s]>>[2] = sid
      BY <3>4, <3>5
    <3>7. sid \in {t[2] : t \in job'[p].todo}
      BY <3>6
    <3>8. pc'[p] = "create.vpcrow"
      BY <2>3 DEF MakesVPC
    <3> QED
      BY <3>7, <3>8 DEF Pending, CreatedPcs
  <2>4. CASE MakesSubnet(p)
    <3>1. PICK i \in SIds : cspSubnet' = [cspSubnet EXCEPT ![i] = job[p].row] /\ job'[p] = [job[p] EXCEPT !.made = i]
      BY <2>4 DEF MakesSubnet
    <3>2. i = sid
      BY <1>1, <1>2, <2>1, <3>1 DEF SettledS
    <3>3. job'[p].made = sid
      BY <1>1, <3>1, <3>2 DEF Jobs
    <3>4. pc'[p] = "add.insert"
      BY <2>4 DEF MakesSubnet
    <3> QED
      BY <3>3, <3>4 DEF Pending, CreatedPcs
  <2> QED
    BY <2>2, <2>3, <2>4, CloudStep
<1>3. ASSUME NEW sid \in SIds, ~SettledS(sid), ~SettledS(sid)', NEW vs \in VPCs \X Subnets, subnetRow[vs] = sid
      PROVE  subnetRow'[vs] = sid
  <2>1. SUFFICES ASSUME subnetRow'[vs] # sid PROVE FALSE
    OBVIOUS
  <2>2. subnetRow[vs] # None /\ vs = <<vs[1], vs[2]>> /\ vs[1] \in VPCs /\ vs[2] \in Subnets
    BY <1>3, VPCAssumption
  <2>3. subnetRow'[vs] = None
    <3>1. [Next]_vars
      BY DEF Step, Next
    <3> QED
      BY <1>3, <2>1, <2>2, <3>1, StepReplacesNoSubnetRow
  <2>4. CASE /\ pc[p] \in {"unregsub.delete", "remove.delete"}
             /\ subnetRow' = [subnetRow EXCEPT ![<<job[p].v, job[p].s>>] = None]
    <3>1. vs = <<job[p].v, job[p].s>>
      BY <1>1, <2>2, <2>3, <2>4
    <3>2. pc[p] # "remove.delete"
      BY <1>1, <1>3, <2>2, <3>1 DEF KnowsRows, KnowsCloud
    <3>3. UnregisterSubnet_delete(p)
      BY <2>4, <3>2, Departs
    <3>4. sid \in unmanaged' \/ cspSubnet'[sid] = None
      BY <1>3, <3>1, <3>3 DEF UnregisterSubnet_delete, Undisturbed
    <3> QED
      BY <1>3, <3>4 DEF SettledS
  <2>5. CASE /\ pc[p] \in DeletedPcs
             /\ subnetRow' = [us \in VPCs \X Subnets |-> IF us[1] = job[p].v THEN None ELSE subnetRow[us]]
    <3>1. vs[1] = job[p].v
      BY <2>2, <2>3, <2>5
    <3> QED
      BY <1>1, <1>3, <2>2, <2>5, <3>1 DEF KnowsCloud
  <2>6. \A a, r : r # None => subnetRow' # [subnetRow EXCEPT ![a] = r]
    BY <1>1, <2>2, <2>3
  <2>7. CASE pc[p] \in InsertPcs 
              /\ \E t \in job[p].todo : subnetRow' = [subnetRow EXCEPT ![<<job[p].v, t[1]>>] = t[2]]
    <3>1. \A t \in job[p].todo : t[2] # None
      BY <1>1, <2>7, VPCAssumption DEF Fits, SubnetTodo, InsertPcs
    <3> QED
      BY <2>6, <2>7, <3>1
  <2>8. CASE pc[p] = "add.insert" /\ subnetRow' = [subnetRow EXCEPT ![<<job[p].v, job[p].s>>] = job[p].made]
    <3>1. job[p].made # None
      BY <1>1, <2>8, VPCAssumption DEF Fits
    <3> QED
      BY <2>6, <2>8, <3>1
  <2>9. pc[p] # "regsub.insert" /\ pc[p] \notin UndoPcs
    BY <1>1 DEF Fits, SubnetsKnown, NoRegisterSubnet, Undisturbed, KnowsRows
  <2>10. ~UNCHANGED subnetRow
    BY <2>2, <2>3
  <2> QED
    BY <2>4, <2>5, <2>7, <2>8, <2>9, <2>10, SubnetRowStep, Zenon DEF SubnetRowMoves, InsertPcs, UndoPcs
<1>4. ASSUME NEW sid \in SIds, NEW q \in Procs, sid \in Pending(q)
      PROVE  (\E vs \in VPCs \X Subnets : subnetRow'[vs] = sid) \/ sid \in Pending(q)'
  <2>1. CASE q # p
    <3>1. pc'[q] = pc[q] /\ job'[q] = job[q]
      BY <2>1, OthersStay
    <3> QED
      BY <1>4, <3>1 DEF Pending
  <2>2. CASE q = p /\ pc[p] = "create.vpcrow"
    <3>1. job' = job /\ pc'[p] = "create.subnetrow"
      BY <1>1, <2>2, Departs DEF CreateVPC_insertVPC, Goto, Undisturbed
    <3> QED
      BY <1>4, <2>2, <3>1 DEF Pending, CreatedPcs
  <2>3. CASE q = p /\ pc[p] = "create.subnetrow"
    <3>1. PICK u \in job[p].todo : u[2] = sid
      BY <1>4, <2>3 DEF Pending, CreatedPcs
    <3>2. CreateVPC_insertSubnet(p)
      BY <2>3, Departs
    <3>3. PICK t \in job[p].todo : /\ subnetRow' = [subnetRow EXCEPT ![<<job[p].v, t[1]>>] = t[2]]
                                   /\ job' = [job EXCEPT ![p].todo = @ \ {t}]
                                   /\ UNCHANGED pc
      BY <3>1, <3>2 DEF CreateVPC_insertSubnet, Undisturbed
    <3>4. job'[p].todo = job[p].todo \ {t}
      BY <1>1, <3>3 DEF Jobs
    <3>5. CASE u = t
      <4>1. <<job[p].v, t[1]>> \in VPCs \X Subnets
        BY <1>1, <2>3 DEF Fits, SubnetTodo
      <4> QED
        BY <1>1, <3>1, <3>3, <3>5, <4>1
    <3>6. CASE u # t
      <4>1. u \in job'[p].todo
        BY <3>4, <3>6
      <4>2. sid \in {w[2] : w \in job'[p].todo}
        BY <3>1, <4>1
      <4> QED
        BY <2>3, <3>3, <4>2 DEF Pending, CreatedPcs
    <3> QED
      BY <3>5, <3>6
  <2>4. CASE q = p /\ pc[p] = "add.insert"
    <3>1. subnetRow' = [subnetRow EXCEPT ![<<job[p].v, job[p].s>>] = job[p].made]
      BY <2>4, Departs DEF AddSubnet_insert, Undisturbed
    <3>2. <<job[p].v, job[p].s>> \in VPCs \X Subnets
      BY <1>1, <2>4 DEF Fits
    <3>3. sid = job[p].made
      BY <1>4, <2>4 DEF Pending, CreatedPcs
    <3> QED
      BY <1>1, <3>1, <3>2, <3>3
  <2> QED
    BY <1>4, <2>1, <2>2, <2>3, <2>4 DEF Pending, CreatedPcs
<1>5. ASSUME NEW sid \in SIds, ~SettledS(sid)'
      PROVE  (\E vs \in VPCs \X Subnets : subnetRow'[vs] = sid) \/ (\E q \in Procs : sid \in Pending(q)')
  <2>1. CASE FreshS(sid)
    BY <1>2, <1>5, <2>1
  <2>2. CASE ~FreshS(sid)
    <3>1. ~SettledS(sid)
      BY <1>5, <2>2, OldIds
    <3>2. (\E vs \in VPCs \X Subnets : subnetRow[vs] = sid) \/ (\E q \in Procs : sid \in Pending(q))
      BY <3>1 DEF CloudKnown, KeptS
    <3> QED
      BY <1>3, <1>4, <1>5, <3>1, <3>2
  <2> QED
    BY <2>1, <2>2
<1> QED
  BY <1>5 DEF KeptS, SettledS

CloudPcs == CreatedPcs \cup RegisteredPcs \cup {"delete.vpcrow"} \cup DeletedPcs
              \cup {"add.insert", "remove.vpcrow", "remove.csp", "remove.delete"}

LEMMA CloudKnownKept ==
  ASSUME Undisturbed, IInv, IInv', SubnetsKnown, RowsKnown, CloudKnown, [Next]_vars
  PROVE  CloudKnown'
<1>1. ASSUME NEW p \in Procs, pc'[p] \notin CloudPcs PROVE KnowsCloud(p)'
  BY <1>1 DEF KnowsCloud, CloudPcs
<1>2. ASSUME NEW p \in Procs, Step(p) PROVE KnowsCloud(p)'
  <2>1. CASE Begin(p) \/ Return(p)
    BY <1>1, <2>1, Between DEF Lockless, CloudPcs, CreatedPcs, RegisteredPcs
  <2>2. CASE Serve(p) /\ ~Return(p)
    BY <1>1, <2>2, CreateKnowsCloud, DeleteKnowsCloud, SubnetKnowsCloud DEF CloudPcs
  <2> QED
    BY <1>2, <2>1, <2>2 DEF Step
<1>3. ASSUME NEW p \in Procs, Step(p) PROVE CloudKnown'
  <2>1. \A q \in Procs : KnowsCloud(q)'
    BY <1>2, <1>3, OthersKnowCloud DEF Undisturbed
  <2> QED
    BY <1>3, <2>1, RowsAgreeKept, KeptVKept, KeptSKept DEF CloudKnown
<1>4. CASE UNCHANGED vars
  <2>1. /\ vpcRow' = vpcRow /\ subnetRow' = subnetRow /\ cspVpc' = cspVpc /\ cspSubnet' = cspSubnet
        /\ unmanaged' = unmanaged /\ pc' = pc /\ job' = job
    BY <1>4 DEF vars, db, cloud
  <2>2. RowsAgree' /\ \A p \in Procs : KnowsCloud(p)'
    BY <2>1 DEF CloudKnown, RowsAgree, KnowsCloud, In, SettledV, SettledS, Row
  <2>3. KeptV' /\ KeptS'
    BY <2>1 DEF CloudKnown, KeptV, KeptS, SettledV, SettledS, Pending
  <2> QED
    BY <2>2, <2>3 DEF CloudKnown
<1> QED
  BY <1>3, <1>4 DEF Next, Step, Undisturbed, Crash

\* What the calls know of the cloud, they know in every state.
LEMMA CloudInvariance == Undisturbed => (Spec => []CloudKnown)
<1> SUFFICES ASSUME Undisturbed PROVE Spec => []CloudKnown
  OBVIOUS
<1>1. ASSUME Init PROVE CloudKnown
  <2>1. (\A p \in Procs : pc[p] = "idle") /\ (\A v \in VPCs : vpcRow[v] = None)
    BY <1>1 DEF Init
  <2>2. cspVpc = Foreign /\ unmanaged = Foreign \cup {sid \in SIds : cspSubnet[sid] # None}
    BY <1>1 DEF Init
  <2>3. KeptV /\ KeptS
    BY <2>2 DEF KeptV, KeptS, SettledV, SettledS
  <2> QED
    BY <2>1, <2>3 DEF CloudKnown, RowsAgree, KnowsCloud, CreatedPcs, RegisteredPcs
<1>2. IInv /\ IInv' /\ SubnetsKnown /\ RowsKnown /\ CloudKnown /\ [Next]_vars => CloudKnown'
  BY CloudKnownKept
<1>3. Spec => []SubnetsKnown
  BY SubnetsInvariance DEF Undisturbed
<1> QED
  BY <1>1, <1>2, <1>3, Invariance, RowsInvariance, PTL DEF Spec

\* What Spider made in the cloud has its row, or the call that made it has yet to insert
\* it, or was left there with an error or on request: whatever the driver refuses, loses
\* or reports, no VPC and no subnet is forgotten by DeleteVPC, RemoveSubnet,
\* UnregisterSubnet and UnregisterVPC.
THEOREM NothingLostHolds == Undisturbed => (Spec => []NothingLost)
<1> SUFFICES ASSUME Undisturbed PROVE Spec => []NothingLost
  OBVIOUS
<1>1. IInv /\ CloudKnown => NothingLost
  <2> SUFFICES ASSUME IInv, CloudKnown PROVE NothingLost
    OBVIOUS
  <2>1. ASSUME NEW vid \in cspVpc \ unmanaged
        PROVE  (\E v \in VPCs : vpcRow[v] = vid) \/ (\E p \in Procs : job[p].made = vid)
    BY <2>1 DEF CloudKnown, KeptV, SettledV, IInv, TypeOK
  <2>2. ASSUME NEW sid \in SIds, cspSubnet[sid] # None, sid \notin unmanaged
        PROVE  \/ \E v \in VPCs, s \in Subnets : subnetRow[<<v, s>>] = sid
               \/ \E p \in Procs : job[p].made = sid \/ \E t \in job[p].todo : t[2] = sid
    <3>1. (\E vs \in VPCs \X Subnets : subnetRow[vs] = sid) \/ (\E p \in Procs : sid \in Pending(p))
      BY <2>2 DEF CloudKnown, KeptS, SettledS
    <3>2. ASSUME NEW p \in Procs, sid \in Pending(p)
          PROVE  job[p].made = sid \/ \E t \in job[p].todo : t[2] = sid
      BY <3>2 DEF Pending
    <3> QED
      BY <3>1, <3>2
  <2> QED
    BY <2>1, <2>2 DEF NothingLost
<1> QED
  BY <1>1, Invariance, CloudInvariance, PTL

-----------------------------------------------------------------------------
(* When, besides, all calls name what Spider made (no RegisterVPC of a VPC *)
(* that another name may have, no delete by CSP id), and the driver does   *)
(* what it says: whose each id of the cloud is, and that it exists.        *)

OnlyByName ==
  /\ Undisturbed
  /\ Ops \cap {"RegisterVPC", "RemoveCSPSubnet", "DeleteCSPVPC"} = {}
  /\ "lost" \notin CSPFaults /\ ~KT

RemovingPcs == {"remove.vpcrow", "remove.csp"}

\* A VPC's id is in one row, or with the one call that made it.
AloneV ==
  /\ \A v, w \in VPCs : vpcRow[v] # None /\ vpcRow[v] = vpcRow[w] => v = w
  /\ \A p, q \in Procs : pc[p] = "create.vpcrow" /\ pc[q] = "create.vpcrow" /\ job[p].made = job[q].made => p = q
  /\ \A p \in Procs : pc[p] = "create.vpcrow" => \A v \in VPCs : vpcRow[v] # job[p].made

\* So is a subnet's, and the subnet that a call removes is that of the row it read.
AloneS ==
  /\ \A a, b \in VPCs \X Subnets : subnetRow[a] # None /\ subnetRow[a] = subnetRow[b] => a = b
  /\ \A p, q \in Procs : p # q => \A sid \in Pending(p) : sid \notin Pending(q)
  /\ \A p \in Procs : \A a \in VPCs \X Subnets : subnetRow[a] \notin Pending(p)
  /\ \A p \in Procs : pc[p] \in CreatedPcs => \A t, u \in job[p].todo : t[2] = u[2] => t = u
  /\ \A p \in Procs : pc[p] \in RemovingPcs =>
       /\ \A a \in VPCs \X Subnets : subnetRow[a] = job[p].sub => a = <<job[p].v, job[p].s>>
       /\ \A q \in Procs : job[p].sub \notin Pending(q)

\* Nobody is at a step of the calls that are not made, nor undoes anything.
LEMMA NotMade ==
  ASSUME OnlyByName, IInv, SubnetsKnown, RowsKnown, NEW p \in Procs
  PROVE  pc[p] \notin RegisterPcs \cup RegisterSubnetPcs \cup RemoveCSPPcs \cup UndoPcs \cup {"DeleteCSPVPC"}
<1>1. Fits(pc[p], job[p]) /\ job[p].op \in Ops \cup {"none"} /\ pc[p] \notin UndoPcs
  BY DEF IInv, Places, SubnetsKnown, RowsKnown, KnowsRows
<1>2. job[p].op \notin {"RegisterVPC", "RegisterSubnet", "RemoveCSPSubnet", "DeleteCSPVPC"}
  BY <1>1 DEF OnlyByName, Undisturbed, NoRegisterSubnet
<1> QED
  BY <1>1, <1>2 DEF Fits

\* A VPC's row is only set to what the call made.
LEMMA VPCIdsMove ==
  ASSUME OnlyByName, IInv, SubnetsKnown, RowsKnown, NEW p \in Procs, Step(p)
  PROVE  \/ \A v \in VPCs : vpcRow'[v] \in {vpcRow[v], None}
         \/ /\ pc[p] = "create.vpcrow" /\ pc'[p] = "create.subnetrow" /\ job[p].v \in VPCs
            /\ vpcRow' = [vpcRow EXCEPT ![job[p].v] = job[p].made]
<1>1. vpcRow \in [VPCs -> VIds \cup {None}] /\ Fits(pc[p], job[p])
  BY DEF IInv, TypeOK, Places
<1> QED
  BY <1>1, NotMade, VPCRowStep DEF VPCRowMoves, Fits

LEMMA AloneVKept ==
  ASSUME OnlyByName, IInv, SubnetsKnown, RowsKnown, AloneV, NEW p \in Procs, Step(p)
  PROVE  AloneV'
<1>1. vpcRow \in [VPCs -> VIds \cup {None}] /\ job \in [Procs -> Jobs] /\ Fits(pc[p], job[p])
  BY DEF IInv, TypeOK, Places
<1>2. \A q \in Procs : q # p => pc'[q] = pc[q] /\ job'[q].made = job[q].made
  BY OthersStay
<1>3. pc'[p] = "create.vpcrow" => UNCHANGED vpcRow /\ FreshV(job'[p].made)
  <2>1. SUFFICES ASSUME pc'[p] = "create.vpcrow" PROVE UNCHANGED vpcRow /\ FreshV(job'[p].made)
    OBVIOUS
  <2>2. MakesVPC(p)
    BY <2>1, MadeVPC
  <2>3. PICK vid \in VIds, names \in SUBSET Subnets : \E ids \in [names -> SIds] :
            /\ FreshV(vid) /\ \A s \in names : FreshS(ids[s])
            /\ \A s, t \in names : ids[s] = ids[t] => s = t
            /\ cspVpc' = cspVpc \cup {vid}
            /\ cspSubnet' = [sid \in SIds |-> IF \E s \in names : ids[s] = sid THEN vid ELSE cspSubnet[sid]]
            /\ job'[p] = [job[p] EXCEPT !.made = vid, !.todo = {<<s, ids[s]>> : s \in names}]
    BY <2>2, Zenon DEF MakesVPC
  <2>4. job[p] \in Jobs
    BY <1>1
  <2>5. job'[p].made = vid
    BY <2>3, <2>4 DEF Jobs
  <2> QED
    BY <2>2, <2>3, <2>5 DEF MakesVPC, db
<1>4. CASE \A v \in VPCs : vpcRow'[v] \in {vpcRow[v], None}
  <2>1. \A v, w \in VPCs : vpcRow'[v] # None /\ vpcRow'[v] = vpcRow'[w] => v = w
    BY <1>4 DEF AloneV
  <2>2. \A q, r \in Procs :
          pc'[q] = "create.vpcrow" /\ pc'[r] = "create.vpcrow" /\ job'[q].made = job'[r].made => q = r
    BY <1>2, <1>3 DEF AloneV, FreshV
  <2>3. ASSUME NEW q \in Procs, pc'[q] = "create.vpcrow", NEW v \in VPCs PROVE vpcRow'[v] # job'[q].made
    <3>1. CASE q = p
      BY <1>3, <2>3, <3>1 DEF FreshV
    <3>2. CASE q # p
      <4>1. vpcRow[v] # job'[q].made
        BY <1>2, <2>3, <3>2 DEF AloneV
      <4>2. job'[q].made # None
        <5>1. job'[q].made \in VIds
          BY <1>2, <2>3, <3>2 DEF IInv, Places, Fits
        <5> QED
          BY <5>1, VPCAssumption
      <4> QED
        BY <1>4, <4>1, <4>2
    <3> QED
      BY <3>1, <3>2
  <2> QED
    BY <2>1, <2>2, <2>3 DEF AloneV
<1>5. CASE /\ pc[p] = "create.vpcrow" /\ pc'[p] = "create.subnetrow" /\ job[p].v \in VPCs
           /\ vpcRow' = [vpcRow EXCEPT ![job[p].v] = job[p].made]
  <2>1. \A v \in VPCs : vpcRow'[v] = IF v = job[p].v THEN job[p].made ELSE vpcRow[v]
    BY <1>1, <1>5
  <2>2. \A v \in VPCs : vpcRow[v] # job[p].made
    BY <1>5 DEF AloneV
  <2>3. \A v, w \in VPCs : vpcRow'[v] # None /\ vpcRow'[v] = vpcRow'[w] => v = w
    BY <2>1, <2>2 DEF AloneV
  <2>4. \A q \in Procs : pc'[q] = "create.vpcrow" => q # p /\ pc[q] = "create.vpcrow" /\ job'[q].made = job[q].made
    BY <1>2, <1>5
  <2>5. \A q \in Procs : pc'[q] = "create.vpcrow" => job[q].made # job[p].made
    BY <1>5, <2>4 DEF AloneV
  <2> QED
    BY <2>1, <2>3, <2>4, <2>5 DEF AloneV
<1> QED
  BY <1>4, <1>5, VPCIdsMove

\* What a step does to the ids of the rows of the subnets and of those still to insert:
\* rows and ids go, new ids come, or the id of a pending subnet becomes that of a row.
SubnetsGo(p) ==
  /\ \A a \in VPCs \X Subnets : subnetRow'[a] \in {subnetRow[a], None}
  /\ Pending(p)' \subseteq Pending(p)
  /\ pc'[p] \in CreatedPcs => pc[p] \in CreatedPcs /\ job'[p].todo \subseteq job[p].todo
SubnetsCome(p) ==
  /\ UNCHANGED subnetRow
  /\ \A sid \in Pending(p)' : FreshS(sid)
  /\ pc'[p] \in CreatedPcs => \A t, u \in job'[p].todo : t[2] = u[2] => t = u
  /\ pc'[p] \notin RemovingPcs
SubnetInserted(p) ==
  /\ \E a \in VPCs \X Subnets, r \in Pending(p) :
       subnetRow' = [subnetRow EXCEPT ![a] = r] /\ Pending(p)' \subseteq Pending(p) \ {r}
  /\ pc'[p] \in CreatedPcs => pc[p] \in CreatedPcs /\ job'[p].todo \subseteq job[p].todo
  /\ pc'[p] \notin RemovingPcs

LEMMA SubnetsComeStep ==
  ASSUME OnlyByName, IInv, NEW p \in Procs, Step(p), pc'[p] \in {"create.vpcrow", "add.insert"}
  PROVE  SubnetsCome(p)
<1>1. job[p] \in Jobs /\ pc \in [Procs -> Labels \cup Ops] /\ job \in [Procs -> Jobs]
  BY DEF IInv, TypeOK
<1>2. CASE pc'[p] = "create.vpcrow"
  <2>1. MakesVPC(p)
    BY <1>2, MadeVPC
  <2>2. PICK vid \in VIds, names \in SUBSET Subnets : \E ids \in [names -> SIds] :
            /\ FreshV(vid) /\ \A s \in names : FreshS(ids[s])
            /\ \A s, t \in names : ids[s] = ids[t] => s = t
            /\ cspVpc' = cspVpc \cup {vid}
            /\ cspSubnet' = [sid \in SIds |-> IF \E s \in names : ids[s] = sid THEN vid ELSE cspSubnet[sid]]
            /\ job'[p] = [job[p] EXCEPT !.made = vid, !.todo = {<<s, ids[s]>> : s \in names}]
    BY <2>1, Zenon DEF MakesVPC
  <2>3. PICK ids \in [names -> SIds] :
            /\ \A s \in names : FreshS(ids[s])
            /\ \A s, t \in names : ids[s] = ids[t] => s = t
            /\ job'[p] = [job[p] EXCEPT !.made = vid, !.todo = {<<s, ids[s]>> : s \in names}]
    BY <2>2
  <2>4. job'[p].todo = {<<s, ids[s]>> : s \in names}
    BY <1>1, <2>3 DEF Jobs
  <2>5. \A t \in job'[p].todo : FreshS(t[2])
    BY <2>3, <2>4
  <2>6. \A t, u \in job'[p].todo : t[2] = u[2] => t = u
    BY <2>3, <2>4
  <2>7. Pending(p)' = {t[2] : t \in job'[p].todo}
    BY <1>2 DEF Pending, CreatedPcs
  <2> QED
    BY <1>2, <2>1, <2>5, <2>6, <2>7 DEF SubnetsCome, MakesVPC, db, RemovingPcs
<1>3. CASE pc'[p] = "add.insert"
  <2>1. AddSubnet_csp(p) /\ ~Answer(p, "error")
    BY <1>1, <1>3, Arrives DEF Answer, Goto
  <2>2. PICK sid \in SIds : FreshS(sid) /\ job' = [job EXCEPT ![p].made = sid]
    BY <2>1 DEF AddSubnet_csp
  <2>3. UNCHANGED subnetRow
    BY <2>1 DEF AddSubnet_csp, db
  <2>4. job'[p].made = sid
    BY <1>1, <2>2 DEF Jobs
  <2>5. Pending(p)' = {sid}
    BY <1>3, <2>4 DEF Pending, CreatedPcs
  <2> QED
    BY <1>3, <2>2, <2>3, <2>5 DEF SubnetsCome, CreatedPcs, RemovingPcs
<1> QED
  BY <1>2, <1>3

LEMMA SubnetIdsMove ==
  ASSUME OnlyByName, IInv, SubnetsKnown, RowsKnown, AloneS, NEW p \in Procs, Step(p)
  PROVE  SubnetsGo(p) \/ SubnetsCome(p) \/ SubnetInserted(p)
<1>1. /\ job[p] \in Jobs /\ pc \in [Procs -> Labels \cup Ops] /\ job \in [Procs -> Jobs] /\ Fits(pc[p], job[p])
      /\ subnetRow \in [VPCs \X Subnets -> SIds \cup {None}]
  BY DEF IInv, TypeOK, Places
<1>2. SubnetRowMoves(p) /\ pc[p] \notin RegisterPcs \cup RegisterSubnetPcs \cup RemoveCSPPcs \cup UndoPcs
  BY NotMade, SubnetRowStep
<1>3. CASE pc'[p] \in {"create.vpcrow", "add.insert"}
  BY <1>3, SubnetsComeStep
<1>4. CASE pc'[p] = "create.subnetrow" /\ UNCHANGED subnetRow
  <2>1. CreateVPC_insertVPC(p) \/ CreateVPC_insertSubnet(p)
    BY <1>4, Arrives
  <2>2. CASE CreateVPC_insertVPC(p)
    <3>1. pc[p] = "create.vpcrow" /\ UNCHANGED job
      BY <2>2 DEF CreateVPC_insertVPC, At
    <3> QED
      BY <1>4, <3>1 DEF SubnetsGo, Pending, CreatedPcs
  <2>3. CASE CreateVPC_insertSubnet(p)
    <3>1. pc[p] = "create.subnetrow"
      BY <2>3 DEF CreateVPC_insertSubnet, At
    <3>2. job'[p].todo \subseteq job[p].todo
      <4>1. \/ \E r : job' = [job EXCEPT ![p].resp = r]
            \/ \E t \in job[p].todo : job' = [job EXCEPT ![p].todo = @ \ {t}]
            \/ UNCHANGED job
        BY <2>3 DEF CreateVPC_insertSubnet, Answer
      <4> QED
        BY <1>1, <4>1 DEF Jobs
    <3> QED
      BY <1>4, <3>1, <3>2 DEF SubnetsGo, Pending, CreatedPcs
  <2> QED
    BY <2>1, <2>2, <2>3
<1>5. CASE pc'[p] = "create.subnetrow" /\ ~UNCHANGED subnetRow
  <2>1. PICK t \in job[p].todo : /\ pc[p] \in {"create.subnetrow", "register.subnetrow"}
                                 /\ subnetRow' = [subnetRow EXCEPT ![<<job[p].v, t[1]>>] = t[2]]
                                 /\ job'[p] = [job[p] EXCEPT !.todo = @ \ {t}]
    BY <1>2, <1>5 DEF SubnetRowMoves
  <2>2. pc[p] = "create.subnetrow" /\ <<job[p].v, t[1]>> \in VPCs \X Subnets
    BY <1>1, <1>5, <2>1, NotMade DEF Fits, SubnetTodo
  <2>3. job'[p].todo = job[p].todo \ {t}
    BY <1>1, <2>1 DEF Jobs
  <2>4. \A u \in job[p].todo : u[2] = t[2] => u = t
    BY <2>2 DEF AloneS, CreatedPcs
  <2>5. Pending(p) = {u[2] : u \in job[p].todo} /\ Pending(p)' = {u[2] : u \in job'[p].todo}
    BY <1>5, <2>2 DEF Pending, CreatedPcs
  <2>6. t[2] \in Pending(p) /\ Pending(p)' \subseteq Pending(p) \ {t[2]}
    BY <2>3, <2>4, <2>5
  <2> QED
    BY <1>5, <2>1, <2>2, <2>3, <2>6 DEF SubnetInserted, CreatedPcs, RemovingPcs
<1>6. CASE pc'[p] \notin {"create.vpcrow", "create.subnetrow", "add.insert"}
  <2>1. Pending(p)' = {} /\ pc'[p] \notin CreatedPcs
    BY <1>6 DEF Pending, CreatedPcs
  <2>2. CASE \A a \in VPCs \X Subnets : subnetRow'[a] \in {subnetRow[a], None}
    BY <2>1, <2>2 DEF SubnetsGo
  <2>3. CASE ~\A a \in VPCs \X Subnets : subnetRow'[a] \in {subnetRow[a], None}
    <3>1. pc[p] = "add.insert" /\ pc'[p] = "add.readback"
          /\ subnetRow' = [subnetRow EXCEPT ![<<job[p].v, job[p].s>>] = job[p].made]
      <4>1. \/ /\ pc[p] = "add.insert" /\ pc'[p] = "add.readback"
               /\ subnetRow' = [subnetRow EXCEPT ![<<job[p].v, job[p].s>>] = job[p].made]
            \/ subnetRow' = [subnetRow EXCEPT ![<<job[p].v, job[p].s>>] = None]
            \/ subnetRow' = [vs \in VPCs \X Subnets |-> IF vs[1] = job[p].v THEN None ELSE subnetRow[vs]]
            \/ UNCHANGED subnetRow
        BY <1>2, <1>6 DEF SubnetRowMoves
      <4> QED
        BY <1>1, <2>3, <4>1
    <3>2. <<job[p].v, job[p].s>> \in VPCs \X Subnets /\ Pending(p) = {job[p].made}
      BY <1>1, <3>1 DEF Fits, Pending, CreatedPcs
    <3> QED
      BY <2>1, <3>1, <3>2 DEF SubnetInserted, RemovingPcs
  <2> QED
    BY <2>2, <2>3
<1> QED
  BY <1>3, <1>4, <1>5, <1>6

LEMMA PendingIds ==
  ASSUME IInv, NEW q \in Procs
  PROVE  /\ Pending(q) \subseteq SIds /\ None \notin Pending(q)
         /\ \A sid \in Pending(q) : ~FreshS(sid)
<1>1. Fits(pc[q], job[q])
  BY DEF IInv, Places
<1>2. Pending(q) \subseteq SIds
  BY <1>1 DEF Pending, Fits, CreatedPcs, SubnetTodo
<1>3. \A sid \in Pending(q) : ~FreshS(sid)
  BY NotFresh DEF Pending
<1> QED
  BY <1>2, <1>3, VPCAssumption

LEMMA AloneSKept ==
  ASSUME OnlyByName, IInv, SubnetsKnown, RowsKnown, AloneS, NEW p \in Procs, Step(p)
  PROVE  AloneS'
<1>1. /\ subnetRow \in [VPCs \X Subnets -> SIds \cup {None}] /\ job \in [Procs -> Jobs]
      /\ pc \in [Procs -> Labels \cup Ops] /\ None \notin SIds
  BY VPCAssumption DEF IInv, TypeOK
<1>2. ASSUME NEW q \in Procs, q # p
      PROVE  pc'[q] = pc[q] /\ job'[q] = job[q] /\ Pending(q)' = Pending(q)
  BY <1>2, OthersStay DEF Pending
<1>3. ASSUME NEW q \in Procs
      PROVE  Pending(q) \subseteq SIds /\ None \notin Pending(q) /\ \A sid \in Pending(q) : ~FreshS(sid)
  BY PendingIds
<1>4. /\ \A a, b \in VPCs \X Subnets : subnetRow[a] # None /\ subnetRow[a] = subnetRow[b] => a = b
      /\ \A q, r \in Procs : q # r => \A sid \in Pending(q) : sid \notin Pending(r)
      /\ \A q \in Procs : \A a \in VPCs \X Subnets : subnetRow[a] \notin Pending(q)
      /\ \A q \in Procs : pc[q] \in CreatedPcs => \A t, u \in job[q].todo : t[2] = u[2] => t = u
  BY DEF AloneS
<1>5. \A q \in Procs : pc'[q] \in CreatedPcs => \A t, u \in job'[q].todo : t[2] = u[2] => t = u
  BY <1>2, <1>4, SubnetIdsMove DEF SubnetsGo, SubnetsCome, SubnetInserted
<1>6. \A sid \in Pending(p)' : sid \in Pending(p) \/ FreshS(sid)
  BY SubnetIdsMove DEF SubnetsGo, SubnetsCome, SubnetInserted
<1>7. ASSUME NEW q \in Procs, NEW r \in Procs, q # r, NEW sid \in Pending(q)'
      PROVE  sid \notin Pending(r)'
  <2>1. CASE q = p
    BY <1>2, <1>3, <1>4, <1>6, <1>7, <2>1
  <2>2. CASE r = p
    BY <1>2, <1>3, <1>4, <1>6, <1>7, <2>2
  <2>3. CASE q # p /\ r # p
    BY <1>2, <1>4, <1>7, <2>3
  <2> QED
    BY <2>1, <2>2, <2>3
<1>8. \A a \in VPCs \X Subnets : ~FreshS(subnetRow[a])
  BY NotFresh
<1>9. /\ \A a, b \in VPCs \X Subnets : subnetRow'[a] # None /\ subnetRow'[a] = subnetRow'[b] => a = b
      /\ \A q \in Procs : \A a \in VPCs \X Subnets : subnetRow'[a] \notin Pending(q)'
  <2>1. CASE SubnetsGo(p)
    <3>1. \A q \in Procs : Pending(q)' \subseteq Pending(q)
      BY <1>2, <2>1 DEF SubnetsGo
    <3>2. \A a \in VPCs \X Subnets : subnetRow'[a] \in {subnetRow[a], None}
      BY <2>1 DEF SubnetsGo
    <3>3. \A q \in Procs : \A a \in VPCs \X Subnets : subnetRow'[a] \notin Pending(q)
      BY <1>3, <1>4, <3>2
    <3> QED
      BY <1>4, <3>1, <3>2, <3>3
  <2>2. CASE SubnetsCome(p)
    <3>1. subnetRow' = subnetRow /\ \A sid \in Pending(p)' : FreshS(sid)
      BY <2>2 DEF SubnetsCome
    <3> QED
      BY <1>2, <1>4, <1>8, <3>1
  <2>3. CASE SubnetInserted(p)
    <3>1. PICK c \in VPCs \X Subnets, r \in Pending(p) :
            subnetRow' = [subnetRow EXCEPT ![c] = r] /\ Pending(p)' \subseteq Pending(p) \ {r}
      BY <2>3 DEF SubnetInserted
    <3>2. \A a \in VPCs \X Subnets : subnetRow'[a] = IF a = c THEN r ELSE subnetRow[a]
      BY <1>1, <3>1
    <3>3. \A a \in VPCs \X Subnets : subnetRow[a] # r
      BY <1>4, <3>1
    <3>4. \A q \in Procs : r \notin Pending(q)' /\ Pending(q)' \subseteq Pending(q)
      BY <1>2, <1>4, <3>1
    <3> QED
      BY <1>4, <3>2, <3>3, <3>4
  <2> QED
    BY <2>1, <2>2, <2>3, SubnetIdsMove
\* The subnet that a call removes.
<1>10. ASSUME NEW q \in Procs, pc[q] \in RemovingPcs, pc'[q] \in RemovingPcs, job'[q].v = job[q].v,
              job'[q].s = job[q].s, job'[q].sub = job[q].sub
       PROVE  /\ \A a \in VPCs \X Subnets : subnetRow'[a] = job'[q].sub => a = <<job'[q].v, job'[q].s>>
              /\ \A r \in Procs : job'[q].sub \notin Pending(r)'
  <2>1. /\ \A a \in VPCs \X Subnets : subnetRow[a] = job[q].sub => a = <<job[q].v, job[q].s>>
        /\ \A r \in Procs : job[q].sub \notin Pending(r)
    BY <1>10 DEF AloneS
  <2>2. job[q].sub \in SIds /\ ~FreshS(job[q].sub)
    BY <1>10, NotFresh DEF RowsKnown, KnowsRows, RemovingPcs
  <2>3. \A a \in VPCs \X Subnets : subnetRow'[a] = job[q].sub => subnetRow[a] = job[q].sub
    <3>1. CASE SubnetsGo(p)
      BY <1>1, <2>2, <3>1 DEF SubnetsGo
    <3>2. CASE SubnetsCome(p)
      BY <3>2 DEF SubnetsCome
    <3>3. CASE SubnetInserted(p)
      BY <1>1, <2>1, <3>3 DEF SubnetInserted
    <3> QED
      BY <3>1, <3>2, <3>3, SubnetIdsMove
  <2>4. \A r \in Procs : job[q].sub \notin Pending(r)'
    BY <1>2, <1>6, <2>1, <2>2
  <2> QED
    BY <1>10, <2>1, <2>3, <2>4
<1>11. ASSUME pc'[p] \in RemovingPcs, pc[p] \notin RemovingPcs
       PROVE  /\ \A a \in VPCs \X Subnets : subnetRow'[a] = job'[p].sub => a = <<job'[p].v, job'[p].s>>
              /\ \A r \in Procs : job'[p].sub \notin Pending(r)'
  <2>1. RemoveSubnet_getSubnet(p)
    BY <1>11, Arrives DEF RemovingPcs, RemoveSubnet_getVPC, At
  <2>2. /\ pc[p] = "RemoveSubnet" /\ UNCHANGED subnetRow /\ subnetRow[<<job[p].v, job[p].s>>] # None
        /\ job' = [job EXCEPT ![p].sub = subnetRow[<<job[p].v, job[p].s>>]]
    BY <1>1, <1>11, <2>1 DEF RemoveSubnet_getSubnet, Answer, DBError, Goto, Reads, db, At, RemovingPcs
  <2>3. <<job[p].v, job[p].s>> \in VPCs \X Subnets
    BY <2>2, Owners DEF KnowsPcs
  <2>4. job'[p].v = job[p].v /\ job'[p].s = job[p].s /\ job'[p].sub = subnetRow[<<job[p].v, job[p].s>>]
    BY <1>1, <2>2 DEF Jobs
  <2>5. \A a \in VPCs \X Subnets : subnetRow'[a] = job'[p].sub => a = <<job'[p].v, job'[p].s>>
    BY <1>4, <2>2, <2>3, <2>4
  <2>6. \A r \in Procs : job'[p].sub \notin Pending(r)'
    BY <1>9, <2>2, <2>3, <2>4
  <2> QED
    BY <2>5, <2>6
<1>12. ASSUME NEW q \in Procs, pc'[q] \in RemovingPcs
       PROVE  /\ \A a \in VPCs \X Subnets : subnetRow'[a] = job'[q].sub => a = <<job'[q].v, job'[q].s>>
              /\ \A r \in Procs : job'[q].sub \notin Pending(r)'
  <2>1. CASE q # p
    BY <1>2, <1>10, <1>12, <2>1
  <2>2. CASE q = p /\ pc[p] \notin RemovingPcs
    BY <1>11, <1>12, <2>2
  <2>3. CASE q = p /\ pc[p] \in RemovingPcs
    <3>1. Serve(p) /\ ~Return(p)
      BY <1>12, <2>3, Between DEF Step, RemovingPcs, Lockless
    <3>2. Keeps(p)
      BY <3>1, SameCall
    <3> QED
      BY <1>10, <1>12, <2>3, <3>2 DEF Keeps, RemovingPcs
  <2> QED
    BY <2>1, <2>2, <2>3
<1> QED
  BY <1>5, <1>7, <1>9, <1>12 DEF AloneS

\* What a step does to what exists: nothing goes but by the driver's delete of the VPC or
\* of the subnet of the call's own row, which the call takes for done.
Grows ==
  /\ cspVpc \subseteq cspVpc'
  /\ \A sid \in SIds : cspSubnet[sid] # None => cspSubnet'[sid] = cspSubnet[sid]
DeletesVPC(p) ==
  /\ pc[p] = "delete.csp" /\ pc'[p] = "delete.vpcrow" /\ job'[p].v = job[p].v /\ UNCHANGED db
  /\ cspVpc' = cspVpc \ {job[p].row}
  /\ cspSubnet' = [sid \in SIds |-> IF cspSubnet[sid] = job[p].row THEN None ELSE cspSubnet[sid]]
DeletesSubnet(p) ==
  /\ pc[p] = "remove.csp" /\ pc'[p] = "remove.delete" /\ job'[p].v = job[p].v /\ job'[p].s = job[p].s
  /\ UNCHANGED <<db, cspVpc>>
  /\ cspSubnet' = [cspSubnet EXCEPT ![job[p].sub] = None]

LEMMA OnlyDeletes ==
  ASSUME OnlyByName, IInv, SubnetsKnown, RowsKnown, NEW p \in Procs, Step(p), pc[p] # "delete.kt"
  PROVE  Grows \/ DeletesVPC(p) \/ DeletesSubnet(p)
<1>1. /\ pc \in [Procs -> Labels \cup Ops] /\ job \in [Procs -> Jobs] /\ Fits(pc[p], job[p])
      /\ cspSubnet \in [SIds -> cspVpc \cup {None}]
  BY DEF IInv, TypeOK, Places
<1>2. pc[p] \notin RegisterPcs \cup RegisterSubnetPcs \cup RemoveCSPPcs \cup UndoPcs \cup {"DeleteCSPVPC"}
  BY NotMade
<1>3. CASE UNCHANGED <<cspVpc, cspSubnet>>
  BY <1>3 DEF Grows
<1>4. CASE Reading(p)
  <2>1. UNCHANGED <<cspVpc, cspSubnet>>
    BY <1>4 DEF Reading, Begin, TakeLock, Return, GetVPC, GetVPC_row, GetVPC_csp, ListVPC, ListVPC_rows, ListVPC_lock,
     ListVPC_get, Reads, cloud
  <2> QED
    BY <1>3, <2>1
<1>5. CASE InVPC(p)
  <2>1. CASE CreateVPC_csp(p)
    <3>1. CASE UNCHANGED cloud
      BY <1>3, <3>1 DEF cloud
    <3>2. CASE ~UNCHANGED cloud
      <4>1. PICK vid \in VIds, names \in SUBSET Subnets : \E ids \in [names -> SIds] :
              /\ FreshV(vid)
              /\ \A s \in names : FreshS(ids[s])
              /\ \A s, t \in names : ids[s] = ids[t] => s = t
              /\ cspVpc' = cspVpc \cup {vid}
              /\ cspSubnet' = [sid \in SIds |-> IF \E s \in names : ids[s] = sid THEN vid
                                                                               ELSE cspSubnet[sid]]
              /\ job' = [job EXCEPT ![p].made = vid, ![p].todo = {<<s, ids[s]>> : s \in names}]
              /\ Goto(p, "create.vpcrow")
              /\ UNCHANGED <<db, unmanaged, grant>>
        BY <2>1, <3>2, Zenon DEF CreateVPC_csp
      <4> QED
        BY <4>1 DEF Grows, FreshS
    <3> QED
      BY <3>1, <3>2
  <2>2. CASE ~CreateVPC_csp(p)
    <3>1. UNCHANGED <<cspVpc, cspSubnet>>
      BY <1>2, <1>5, <2>2 DEF InVPC, CreateVPC, CreateVPC_exists, CreateVPC_single, CreateVPC_insertVPC,
       CreateVPC_undo, CreateVPC_insertSubnet, CreateVPC_rollbackCSP, CreateVPC_rollbackVPC,
       CreateVPC_rollbackSubnets,
       RegisterVPC, RegisterVPC_exists, RegisterVPC_csp, RegisterVPC_insertVPC, RegisterVPC_insertSubnet,
       Reads, cloud, At, UndoPcs
    <3> QED
      BY <1>3, <3>1
  <2> QED
    BY <2>1, <2>2
<1>6. CASE InSubnet(p)
  <2>1. CASE AddSubnet_csp(p)
    <3>1. CASE UNCHANGED cloud
      BY <1>3, <3>1 DEF cloud
    <3>2. CASE ~UNCHANGED cloud
      <4>1. PICK sid \in SIds :
              FreshS(sid) /\ cspSubnet' = [cspSubnet EXCEPT ![sid] = job[p].row] /\ cspVpc' = cspVpc
        BY <2>1, <3>2 DEF AddSubnet_csp
      <4> QED
        BY <1>1, <4>1 DEF Grows, FreshS
    <3> QED
      BY <3>1, <3>2
  <2>2. CASE ~AddSubnet_csp(p)
    <3>1. UNCHANGED <<cspVpc, cspSubnet>>
      BY <1>2, <1>6, <2>2 DEF InSubnet, RegisterSubnet, RegisterSubnet_exists, RegisterSubnet_getVPC,
       RegisterSubnet_csp, RegisterSubnet_insert, UnregisterSubnet, UnregisterSubnet_exists, UnregisterSubnet_delete,
       AddSubnet, AddSubnet_exists, AddSubnet_getVPC, AddSubnet_insert, AddSubnet_readback,
       AddSubnet_rollbackCSP, AddSubnet_rollbackRow, Reads, cloud, At, UndoPcs
    <3> QED
      BY <1>3, <3>1
  <2> QED
    BY <2>1, <2>2
<1>7. CASE Leaving(p)
  <2>1. CASE RemoveSubnet_csp(p)
    <3>1. PICK out \in Outcomes(cspSubnet[job[p].sub] = job[p].row) :
            /\ IF Removes(out) THEN RemoveSubnetFromCsp(job[p].sub)
                               ELSE LeaveSubnetInCsp(job[p].sub, job[p].force)
            /\ AfterDriverDelete(p, out, "remove.delete")
      BY <2>1 DEF RemoveSubnet_csp
    <3>2. pc[p] = "remove.csp" /\ UNCHANGED db
      BY <2>1 DEF RemoveSubnet_csp, At
    <3>3. CASE Removes(out)
      <4>1. out = "ok"
        BY <3>3, VPCAssumption DEF Removes, Outcomes, OnlyByName
      <4>2. pc'[p] = "remove.delete"
        BY <1>1, <3>1, <4>1 DEF AfterDriverDelete, Goto
      <4>3. cspSubnet' = [cspSubnet EXCEPT ![job[p].sub] = None] /\ UNCHANGED cspVpc
        BY <3>1, <3>3 DEF RemoveSubnetFromCsp
      <4>4. Keeps(p)
        BY <2>1, <3>2, SameCall DEF Serve, RemoveSubnet, Return, At
      <4> QED
        BY <3>2, <4>2, <4>3, <4>4 DEF DeletesSubnet, Keeps
    <3>4. CASE ~Removes(out)
      BY <1>3, <3>1, <3>4 DEF LeaveSubnetInCsp
    <3> QED
      BY <3>3, <3>4
  <2>2. CASE DeleteVPC_csp(p)
    <3>1. PICK out \in Outcomes(job[p].row \in cspVpc) :
            /\ IF Removes(out) THEN RemoveVpcFromCsp(job[p].row)
                               ELSE LeaveVpcInCsp(job[p].row, job[p].force)
            /\ AfterDriverDelete(p, out, "delete.vpcrow")
      BY <2>2 DEF DeleteVPC_csp
    <3>2. pc[p] = "delete.csp" /\ UNCHANGED db
      BY <2>2 DEF DeleteVPC_csp, At
    <3>3. CASE Removes(out)
      <4>1. out = "ok"
        BY <3>3, VPCAssumption DEF Removes, Outcomes, OnlyByName
      <4>2. pc'[p] = "delete.vpcrow"
        BY <1>1, <3>1, <4>1 DEF AfterDriverDelete, Goto
      <4>3. /\ cspVpc' = cspVpc \ {job[p].row}
            /\ cspSubnet' = [sid \in SIds |-> IF cspSubnet[sid] = job[p].row THEN None ELSE cspSubnet[sid]]
        BY <3>1, <3>3 DEF RemoveVpcFromCsp
      <4>4. Keeps(p)
        BY <2>2, <3>2, SameCall DEF Serve, DeleteVPC, Return, At
      <4> QED
        BY <3>2, <4>2, <4>3, <4>4 DEF DeletesVPC, Keeps
    <3>4. CASE ~Removes(out)
      BY <1>3, <3>1, <3>4 DEF LeaveVpcInCsp
    <3> QED
      BY <3>3, <3>4
  <2>3. CASE ~(RemoveSubnet_csp(p) \/ DeleteVPC_csp(p))
    <3>1. UNCHANGED <<cspVpc, cspSubnet>>
      BY <1>2, <1>7, <2>3 DEF Leaving, RemoveSubnet, RemoveSubnet_getSubnet, RemoveSubnet_getVPC, RemoveSubnet_delete,
       RemoveCSPSubnet, RemoveCSPSubnet_getVPC, RemoveCSPSubnet_csp, DeleteVPC, DeleteVPC_getVPC, DeleteVPC_kt,
       DeleteVPC_deleteVPC, DeleteVPC_deleteSubnets, DeleteCSPVPC, UnregisterVPC, UnregisterVPC_exists,
       UnregisterVPC_deleteVPC, UnregisterVPC_deleteSubnets, Reads, cloud, At
    <3> QED
      BY <1>3, <3>1
  <2> QED
    BY <2>1, <2>2, <2>3
<1> QED
  BY <1>4, <1>5, <1>6, <1>7, StepKinds

\* What the rows name exists, but of a VPC or a subnet that a call has deleted in the CSP
\* and is about to delete here.
VPCGone(v) == \E p \in Procs : pc[p] = "delete.vpcrow" /\ job[p].v = v
SubnetGone(v, s) ==
  \E p \in Procs : /\ job[p].v = v
                   /\ pc[p] \in {"delete.vpcrow"} \cup DeletedPcs \/ (pc[p] = "remove.delete" /\ job[p].s = s)

RowsExist ==
  /\ \A v \in VPCs : vpcRow[v] # None => vpcRow[v] \in cspVpc \/ VPCGone(v)
  /\ \A v \in VPCs, s \in Subnets :
       subnetRow[<<v, s>>] # None => cspSubnet[subnetRow[<<v, s>>]] = vpcRow[v] \/ SubnetGone(v, s)

\* What the calls know exists.
KnowsExists(p) ==
  /\ pc[p] \in CreatedPcs => job[p].made \in cspVpc /\ \A t \in job[p].todo : cspSubnet[t[2]] = job[p].made
  /\ pc[p] = "add.insert" => cspSubnet[job[p].made] = job[p].row
  /\ pc[p] # "delete.kt"
  /\ pc[p] \in {"GetVPC", "get.csp", "list.get"} => grant[p] = <<job[p].v, "R">>
  /\ pc[p] = "get.csp" => Row(p) = job[p].row
  /\ pc[p] = "list.get" => job[p].row \in VIds
  /\ Succeeded(p) /\ job[p].op = "CreateVPC" =>
       Own(p) /\ job[p].made \in VIds /\ job[p].made \in cspVpc /\ Row(p) = job[p].made

Existence == AloneV /\ AloneS /\ RowsExist /\ \A p \in Procs : KnowsExists(p)

\* The VPC that a call deletes is that of its own name, which nobody else holds.
LEMMA DeletesOwn ==
  ASSUME OnlyByName, IInv, SubnetsKnown, RowsKnown, Existence, NEW p \in Procs, DeletesVPC(p)
  PROVE  /\ job[p].row \in VIds /\ Row(p) = job[p].row /\ Own(p) /\ job[p].v \in VPCs
         /\ \A v \in VPCs : vpcRow[v] = job[p].row => v = job[p].v
<1>1. pc[p] = "delete.csp" /\ Fits(pc[p], job[p]) /\ KnowsRows(p)
  BY DEF DeletesVPC, IInv, Places, RowsKnown
<1>2. job[p].row \in VIds /\ Row(p) = job[p].row
  BY <1>1 DEF KnowsRows, RowPcs, Fits
<1>3. Own(p) /\ job[p].v \in VPCs
  BY <1>1, Owners DEF KnowsPcs
<1> QED
  BY <1>2, <1>3, VPCAssumption DEF Existence, AloneV, Row

LEMMA DeletesOwnSubnet ==
  ASSUME IInv, RowsKnown, Existence, NEW p \in Procs, DeletesSubnet(p)
  PROVE  /\ job[p].sub \in SIds
         /\ \A a \in VPCs \X Subnets : subnetRow[a] = job[p].sub => a = <<job[p].v, job[p].s>>
         /\ \A q \in Procs : job[p].sub \notin Pending(q)
  BY DEF DeletesSubnet, RowsKnown, KnowsRows, Existence, AloneS, RemovingPcs

\* A row of a VPC that stays names a VPC that stays, or that the step deletes.
LEMMA VPCsExist ==
  ASSUME OnlyByName, IInv, SubnetsKnown, RowsKnown, Existence, NEW p \in Procs, Step(p),
         NEW v \in VPCs, vpcRow'[v] # None
  PROVE  vpcRow'[v] \in cspVpc' \/ VPCGone(v)'
<1>1. /\ vpcRow \in [VPCs -> VIds \cup {None}] /\ Fits(pc[p], job[p]) /\ KnowsExists(p)
      /\ vpcRow[v] # None => vpcRow[v] \in cspVpc \/ VPCGone(v)
  BY DEF IInv, TypeOK, Places, Existence, RowsExist
<1>2. ASSUME NEW q \in Procs, q # p PROVE pc'[q] = pc[q] /\ job'[q] = job[q]
  BY <1>2, OthersStay
<1>3. Grows \/ DeletesVPC(p) \/ DeletesSubnet(p)
  BY <1>1, OnlyDeletes DEF KnowsExists
<1>4. CASE vpcRow'[v] = vpcRow[v]
  <2>1. CASE vpcRow[v] \in cspVpc
    <3>1. CASE Grows \/ DeletesSubnet(p)
      BY <1>4, <2>1, <3>1 DEF Grows, DeletesSubnet
    <3>2. CASE DeletesVPC(p)
      <4>1. vpcRow[v] = job[p].row => VPCGone(v)'
        BY <3>2, DeletesOwn DEF DeletesVPC, VPCGone
      <4>2. vpcRow[v] # job[p].row => vpcRow'[v] \in cspVpc'
        BY <1>4, <2>1, <3>2 DEF DeletesVPC
      <4> QED
        BY <4>1, <4>2
    <3> QED
      BY <1>3, <3>1, <3>2
  <2>2. CASE VPCGone(v)
    <3>1. PICK q \in Procs : pc[q] = "delete.vpcrow" /\ job[q].v = v
      BY <2>2 DEF VPCGone
    <3>2. CASE q # p
      BY <1>2, <3>1, <3>2 DEF VPCGone
    <3>3. CASE q = p
      <4>1. vpcRow' = [vpcRow EXCEPT ![v] = None]
        BY <3>1, <3>3, Departs DEF DeleteVPC_deleteVPC, OnlyByName, Undisturbed
      <4> QED
        BY <1>1, <4>1
    <3> QED
      BY <3>2, <3>3
  <2> QED
    BY <1>1, <1>4, <2>1, <2>2
<1>5. CASE vpcRow'[v] # vpcRow[v]
  <2>1. pc[p] = "create.vpcrow" /\ vpcRow'[v] = job[p].made
    BY <1>1, <1>5, VPCIdsMove
  <2>2. job[p].made \in cspVpc
    BY <1>1, <2>1 DEF KnowsExists, CreatedPcs
  <2>3. cspVpc \subseteq cspVpc'
    BY <1>3, <2>1 DEF Grows, DeletesVPC, DeletesSubnet
  <2> QED
    BY <2>1, <2>2, <2>3
<1> QED
  BY <1>4, <1>5

\* So does a row of a subnet.
LEMMA SubnetsExist ==
  ASSUME OnlyByName, IInv, SubnetsKnown, RowsKnown, Existence, NEW p \in Procs, Step(p),
         NEW v \in VPCs, NEW s \in Subnets, subnetRow'[<<v, s>>] # None
  PROVE  cspSubnet'[subnetRow'[<<v, s>>]] = vpcRow'[v] \/ SubnetGone(v, s)'
<1> DEFINE vs == <<v, s>>
<1>1. /\ vpcRow \in [VPCs -> VIds \cup {None}] /\ subnetRow \in [VPCs \X Subnets -> SIds \cup {None}]
      /\ Fits(pc[p], job[p]) /\ KnowsExists(p) /\ KnowsRows(p) /\ cspSubnet \in [SIds -> cspVpc \cup {None}]
      /\ job \in [Procs -> Jobs] /\ vs \in VPCs \X Subnets
  BY DEF IInv, TypeOK, Places, Existence, RowsKnown
<1>2. ASSUME NEW q \in Procs, q # p PROVE pc'[q] = pc[q] /\ job'[q] = job[q]
  BY <1>2, OthersStay
<1>3. Grows \/ DeletesVPC(p) \/ DeletesSubnet(p)
  BY <1>1, OnlyDeletes DEF KnowsExists
<1>4. /\ VPCRowMoves(p) /\ SubnetRowMoves(p) /\ (UNCHANGED vpcRow \/ UNCHANGED subnetRow)
      /\ pc[p] \notin RegisterPcs \cup RegisterSubnetPcs \cup RemoveCSPPcs \cup UndoPcs \cup {"DeleteCSPVPC"}
  BY VPCRowStep, SubnetRowStep, NotMade
<1>5. ASSUME SubnetGone(v, s), subnetRow'[vs] = subnetRow[vs]
      PROVE  SubnetGone(v, s)'
  <2>1. PICK q \in Procs : /\ job[q].v = v
                           /\ pc[q] \in {"delete.vpcrow"} \cup DeletedPcs \/ (pc[q] = "remove.delete" /\ job[q].s = s)
    BY <1>5 DEF SubnetGone
  <2>2. CASE q # p
    BY <1>2, <2>1, <2>2 DEF SubnetGone
  <2>3. CASE q = p /\ pc[p] = "delete.vpcrow"
    <3>1. pc'[p] = "delete.subnetrows" /\ job' = job
      BY <1>4, <2>3, Departs DEF DeleteVPC_deleteVPC, OnlyByName, Undisturbed, VPCRowMoves, Goto, IInv, TypeOK
    <3> QED
      BY <2>1, <2>3, <3>1 DEF SubnetGone
  <2>4. CASE q = p /\ pc[p] \in DeletedPcs
    <3>1. subnetRow' = [a \in VPCs \X Subnets |-> IF a[1] = job[p].v THEN None ELSE subnetRow[a]]
      BY <2>4, Departs DEF DeleteVPC_deleteSubnets, UnregisterVPC_deleteSubnets, OnlyByName, Undisturbed
    <3> QED
      BY <1>1, <2>1, <2>4, <3>1
  <2>5. CASE q = p /\ pc[p] = "remove.delete"
    <3>1. subnetRow' = [subnetRow EXCEPT ![vs] = None]
      BY <2>1, <2>5, Departs DEF RemoveSubnet_delete, OnlyByName, Undisturbed
    <3> QED
      BY <1>1, <3>1
  <2> QED
    BY <2>1, <2>2, <2>3, <2>4, <2>5
<1>6. CASE subnetRow'[vs] = subnetRow[vs] /\ vpcRow[v] = None
  <2>1. SubnetGone(v, s)
    BY <1>6 DEF RowsKnown, Orphan, NoSubnetRows, BeingDeleted, SubnetGone
  <2> QED
    BY <1>5, <1>6, <2>1
<1>7. CASE subnetRow'[vs] = subnetRow[vs] /\ vpcRow[v] # None /\ vpcRow'[v] # vpcRow[v]
  <2>1. ~NoSubnetRows(v) /\ pc[p] # "create.vpcrow"
    BY <1>1, <1>4, <1>7 DEF NoSubnetRows, KnowsRows, VPCRowMoves
  <2>2. pc'[p] \in DeletedPcs /\ job'[p].v = v
    BY <1>1, <1>4, <1>7, <2>1 DEF VPCRowMoves, UndoPcs
  <2> QED
    BY <2>2 DEF SubnetGone
<1>8. CASE subnetRow'[vs] = subnetRow[vs] /\ vpcRow[v] # None /\ vpcRow'[v] = vpcRow[v]
  <2>1. CASE SubnetGone(v, s)
    BY <1>5, <1>8, <2>1
  <2>2. CASE cspSubnet[subnetRow[vs]] = vpcRow[v]
    <3>1. subnetRow[vs] \in SIds
      BY <1>1, <1>8
    <3>2. CASE Grows
      BY <1>8, <2>2, <3>1, <3>2 DEF Grows
    <3>3. CASE DeletesSubnet(p)
      <4>1. CASE subnetRow[vs] = job[p].sub
        <5>1. job[p].v = v /\ job[p].s = s
          BY <1>1, <3>3, <4>1, DeletesOwnSubnet
        <5> QED
          BY <3>3, <5>1 DEF DeletesSubnet, SubnetGone
      <4>2. CASE subnetRow[vs] # job[p].sub
        BY <1>1, <1>8, <2>2, <3>1, <3>3, <4>2 DEF DeletesSubnet
      <4> QED
        BY <4>1, <4>2
    <3>4. CASE DeletesVPC(p)
      <4>1. CASE vpcRow[v] = job[p].row
        <5>1. job[p].v = v
          BY <3>4, <4>1, DeletesOwn
        <5> QED
          BY <3>4, <5>1 DEF DeletesVPC, SubnetGone
      <4>2. CASE vpcRow[v] # job[p].row
        BY <1>8, <2>2, <3>1, <3>4, <4>2 DEF DeletesVPC
      <4> QED
        BY <4>1, <4>2
    <3> QED
      BY <1>3, <3>2, <3>3, <3>4
  <2> QED
    BY <1>8, <2>1, <2>2 DEF Existence, RowsExist
<1>9. CASE subnetRow'[vs] # subnetRow[vs]
  <2>1. CASE pc[p] = "create.subnetrow" /\ \E t \in job[p].todo :
               subnetRow' = [subnetRow EXCEPT ![<<job[p].v, t[1]>>] = t[2]]
    <3>1. PICK t \in job[p].todo : subnetRow' = [subnetRow EXCEPT ![<<job[p].v, t[1]>>] = t[2]]
      BY <2>1
    <3>2. subnetRow'[vs] = t[2] /\ job[p].v = v /\ t[2] \in SIds /\ job[p].made \in VIds
      BY <1>1, <1>9, <2>1, <3>1 DEF Fits, SubnetTodo
    <3>3. vpcRow'[v] = job[p].made /\ cspSubnet[t[2]] = job[p].made
      BY <1>1, <1>4, <1>9, <2>1, <3>2 DEF KnowsRows, KnowsExists, CreatedPcs, Row
    <3>4. Grows
      BY <1>3, <2>1 DEF DeletesVPC, DeletesSubnet
    <3> QED
      BY <3>2, <3>3, <3>4, VPCAssumption DEF Grows
  <2>2. CASE pc[p] = "add.insert" /\ subnetRow' = [subnetRow EXCEPT ![<<job[p].v, job[p].s>>] = job[p].made]
    <3>1. subnetRow'[vs] = job[p].made /\ job[p].v = v /\ job[p].made \in SIds /\ job[p].row \in VIds
      BY <1>1, <1>9, <2>2 DEF Fits
    <3>2. vpcRow'[v] = job[p].row /\ cspSubnet[job[p].made] = job[p].row
      BY <1>1, <1>4, <1>9, <2>2, <3>1 DEF KnowsRows, KnowsExists, RowPcs, Row
    <3>3. Grows
      BY <1>3, <2>2 DEF DeletesVPC, DeletesSubnet
    <3> QED
      BY <3>1, <3>2, <3>3, VPCAssumption DEF Grows
  <2>3. \/ pc[p] = "create.subnetrow" /\ \E t \in job[p].todo :
             subnetRow' = [subnetRow EXCEPT ![<<job[p].v, t[1]>>] = t[2]]
        \/ pc[p] = "add.insert" /\ subnetRow' = [subnetRow EXCEPT ![<<job[p].v, job[p].s>>] = job[p].made]
        \/ subnetRow' = [subnetRow EXCEPT ![<<job[p].v, job[p].s>>] = None]
        \/ subnetRow' = [a \in VPCs \X Subnets |-> IF a[1] = job[p].v THEN None ELSE subnetRow[a]]
        \/ UNCHANGED subnetRow
    BY <1>4 DEF SubnetRowMoves
  <2> QED
    BY <1>1, <1>9, <2>1, <2>2, <2>3
<1> QED
  BY <1>6, <1>7, <1>8, <1>9

\* Who reads a VPC's row under its lock shares the lock with no writer.
LEMMA ReadersApart ==
  ASSUME IInv, NEW q \in Procs, NEW r \in Procs, NEW v \in VPCs, grant[q] = <<v, "R">>, grant[r] = <<v, "W">>
  PROVE  FALSE
<1>1. q # r /\ grant[q] # None /\ grant[r] # None
  BY VPCAssumption
<1>2. ~Lock!Conflict(grant[q], grant[r])
  BY <1>1 DEF IInv, Exclusive
<1> QED
  BY <1>2 DEF Lock!Conflict

LEMMA OthersKnowExists ==
  ASSUME OnlyByName, IInv, SubnetsKnown, RowsKnown, Existence, NEW p \in Procs, Step(p),
         NEW q \in Procs, q # p
  PROVE  KnowsExists(q)'
<1>1. /\ KnowsExists(q) /\ KnowsRows(q) /\ Fits(pc[q], job[q]) /\ KnowsExists(p)
      /\ vpcRow \in [VPCs -> VIds \cup {None}] /\ cspSubnet \in [SIds -> cspVpc \cup {None}]
  BY DEF Existence, RowsKnown, IInv, Places, TypeOK
<1>2. pc'[q] = pc[q] /\ job'[q] = job[q] /\ grant'[q] = grant[q]
  BY OthersStay
<1>3. Grows \/ DeletesVPC(p) \/ DeletesSubnet(p)
  BY <1>1, OnlyDeletes DEF KnowsExists
<1>4. pc[q] \in CreatedPcs \cup {"add.insert"} => Own(q) /\ job[q].v \in VPCs
  BY Owners DEF KnowsPcs, CreatedPcs
\* The VPC that p deletes is not that of a call that holds its own.
<1>5. ASSUME Own(q), job[q].v \in VPCs, DeletesVPC(p) PROVE Row(q) # job[p].row
  BY <1>5, DeletesOwn, OwnersDiffer DEF Row
<1>6. ASSUME pc[q] \in CreatedPcs, DeletesVPC(p) PROVE job[q].made # job[p].row
  <2>1. CASE pc[q] = "create.vpcrow"
    BY <1>6, <2>1, DeletesOwn DEF Existence, AloneV, Row
  <2>2. CASE pc[q] = "create.subnetrow"
    BY <1>1, <1>4, <1>5, <1>6, <2>2 DEF KnowsRows
  <2> QED
    BY <1>6, <2>1, <2>2 DEF CreatedPcs
<1>7. ASSUME pc[q] \in CreatedPcs
      PROVE  job[q].made \in cspVpc' /\ \A t \in job[q].todo : cspSubnet'[t[2]] = job[q].made
  <2>1. /\ job[q].made \in cspVpc /\ \A t \in job[q].todo : t[2] \in SIds /\ cspSubnet[t[2]] = job[q].made
        /\ job[q].made # None
    BY <1>1, <1>7, VPCAssumption DEF KnowsExists, Fits, CreatedPcs, SubnetTodo
  <2>2. CASE Grows
    BY <2>1, <2>2 DEF Grows
  <2>3. CASE DeletesVPC(p)
    BY <1>6, <1>7, <2>1, <2>3 DEF DeletesVPC
  <2>4. CASE DeletesSubnet(p)
    <3>1. \A t \in job[q].todo : t[2] # job[p].sub
      <4>1. Pending(q) = {t[2] : t \in job[q].todo}
        BY <1>7 DEF Pending, CreatedPcs
      <4> QED
        BY <2>4, <4>1, DeletesOwnSubnet
    <3> QED
      BY <1>1, <2>1, <2>4, <3>1 DEF DeletesSubnet
  <2> QED
    BY <1>3, <2>2, <2>3, <2>4
<1>8. ASSUME pc[q] = "add.insert" PROVE cspSubnet'[job[q].made] = job[q].row
  <2>1. /\ job[q].made \in SIds /\ cspSubnet[job[q].made] = job[q].row /\ job[q].row # None
        /\ Row(q) = job[q].row
    BY <1>1, <1>8, VPCAssumption DEF KnowsExists, KnowsRows, RowPcs, Fits
  <2>2. CASE Grows
    BY <2>1, <2>2 DEF Grows
  <2>3. CASE DeletesVPC(p)
    BY <1>4, <1>5, <1>8, <2>1, <2>3 DEF DeletesVPC
  <2>4. CASE DeletesSubnet(p)
    <3>1. job[q].made # job[p].sub
      BY <1>8, <2>4, DeletesOwnSubnet DEF Pending, CreatedPcs
    <3> QED
      BY <1>1, <2>1, <2>4, <3>1 DEF DeletesSubnet
  <2> QED
    BY <1>3, <2>2, <2>3, <2>4
<1>9. ASSUME pc[q] = "get.csp" PROVE vpcRow'[job[q].v] = vpcRow[job[q].v]
  <2>1. grant[q] = <<job[q].v, "R">> /\ job[q].v \in VPCs
    BY <1>1, <1>9 DEF KnowsExists, Fits
  <2>2. Own(p) => job[p].v # job[q].v
    BY <2>1, ReadersApart DEF Own
  <2>3. UNCHANGED vpcRow \/ (Own(p) /\ \E r : vpcRow' = [vpcRow EXCEPT ![job[p].v] = r])
    BY VPCRowStep, Owners DEF VPCRowMoves, KnowsPcs
  <2> QED
    BY <1>1, <2>1, <2>2, <2>3
<1>10. ASSUME Succeeded(q), job[q].op = "CreateVPC"
       PROVE  job[q].made \in cspVpc' /\ vpcRow'[job[q].v] = vpcRow[job[q].v]
  <2>1. /\ Own(q) /\ job[q].v \in VPCs /\ job[q].made \in VIds /\ job[q].made \in cspVpc
        /\ Row(q) = job[q].made
    BY <1>1, <1>10 DEF KnowsExists, Fits, Succeeded, At
  <2>2. vpcRow'[job[q].v] = vpcRow[job[q].v]
    BY <2>1, OthersRows DEF OnlyByName, Undisturbed
  <2>3. job[q].made \in cspVpc'
    BY <1>3, <1>5, <2>1 DEF Grows, DeletesVPC, DeletesSubnet
  <2> QED
    BY <2>2, <2>3
<1> QED
  BY <1>1, <1>2, <1>7, <1>8, <1>9, <1>10 DEF KnowsExists, Row, Own, Succeeded, At

\* CreateVPC answers with success only when all rows are inserted.
LEMMA CreateSucceeds ==
  ASSUME OnlyByName, IInv, SubnetsKnown, RowsKnown, NEW p \in Procs, Serve(p), ~Return(p),
         pc'[p] = "done", job'[p].op = "CreateVPC", job'[p].resp \in {"ok", "nil"}
  PROVE  pc[p] = "create.subnetrow" /\ UNCHANGED <<vpcRow, cspVpc, grant>>
<1>1. /\ pc \in [Procs -> Labels \cup Ops] /\ job \in [Procs -> Jobs] /\ Fits(pc[p], job[p])
  BY DEF IInv, TypeOK, Places
<1>2. job[p].op = "CreateVPC"
  BY SameCall DEF Keeps
<1>3. pc[p] \notin UndoPcs
  BY NotMade
<1>4. ~TakeLock(p)
  BY <1>1, VPCAssumption DEF TakeLock, Goto, AllOps, Fits, At, Lockless
<1>5. /\ ~GetVPC(p) /\ ~ListVPC(p) /\ ~RegisterVPC(p) /\ ~RegisterSubnet(p) /\ ~UnregisterSubnet(p)
      /\ ~AddSubnet(p)
  BY <1>1, <1>2 DEF GetVPC, GetVPC_row, GetVPC_csp, ListVPC, ListVPC_rows, ListVPC_lock, ListVPC_get,
     RegisterVPC, RegisterVPC_exists, RegisterVPC_csp, RegisterVPC_insertVPC, RegisterVPC_insertSubnet,
     RegisterSubnet, RegisterSubnet_exists, RegisterSubnet_getVPC, RegisterSubnet_csp, RegisterSubnet_insert,
     UnregisterSubnet, UnregisterSubnet_exists, UnregisterSubnet_delete, AddSubnet, AddSubnet_exists,
     AddSubnet_getVPC, AddSubnet_csp, AddSubnet_insert, AddSubnet_readback, AddSubnet_rollbackCSP,
     AddSubnet_rollbackRow, At, Fits
<1>6. /\ ~RemoveSubnet(p) /\ ~RemoveCSPSubnet(p) /\ ~DeleteVPC(p) /\ ~DeleteCSPVPC(p) /\ ~UnregisterVPC(p)
  BY <1>1, <1>2 DEF RemoveSubnet, RemoveSubnet_getSubnet, RemoveSubnet_getVPC, RemoveSubnet_csp, RemoveSubnet_delete,
     RemoveCSPSubnet, RemoveCSPSubnet_getVPC, RemoveCSPSubnet_csp, DeleteVPC, DeleteVPC_getVPC, DeleteVPC_kt,
     DeleteVPC_csp, DeleteVPC_deleteVPC, DeleteVPC_deleteSubnets, DeleteCSPVPC, UnregisterVPC, UnregisterVPC_exists,
     UnregisterVPC_deleteVPC, UnregisterVPC_deleteSubnets, At, Fits
<1>7. CreateVPC(p)
  BY <1>4, <1>5, <1>6 DEF Serve
<1>8. ~Answer(p, "error")
  BY <1>1 DEF Answer, Jobs
<1>9. ~CreateVPC_exists(p) /\ ~CreateVPC_single(p) /\ ~CreateVPC_insertVPC(p)
  BY <1>1, <1>8 DEF CreateVPC_exists, CreateVPC_single, CreateVPC_insertVPC, Goto, DBError
<1>10. ~CreateVPC_csp(p)
  BY <1>1, <1>8 DEF CreateVPC_csp, Goto
<1>11. ~CreateVPC_undo(p) /\ ~CreateVPC_rollbackCSP(p) /\ ~CreateVPC_rollbackVPC(p) /\ ~CreateVPC_rollbackSubnets(p)
  BY <1>3 DEF CreateVPC_undo, CreateVPC_rollbackCSP, CreateVPC_rollbackVPC, CreateVPC_rollbackSubnets, At, UndoPcs
<1>12. CreateVPC_insertSubnet(p)
  BY <1>7, <1>9, <1>10, <1>11 DEF CreateVPC
<1> QED
  BY <1>12 DEF CreateVPC_insertSubnet, At, cloud

\* What the call that takes the step knows to exist after it.
LEMMA CreateKnowsExists ==
  ASSUME OnlyByName, IInv, SubnetsKnown, RowsKnown, Existence, NEW p \in Procs, Serve(p), ~Return(p),
         pc'[p] \in CreatedPcs \cup {"add.insert"}
  PROVE  KnowsExists(p)'
<1>1. /\ job[p] \in Jobs /\ pc \in [Procs -> Labels \cup Ops] /\ job \in [Procs -> Jobs] /\ Fits(pc[p], job[p])
      /\ cspSubnet \in [SIds -> cspVpc \cup {None}] /\ KnowsExists(p)
  BY DEF IInv, TypeOK, Places, Existence
<1>2. Step(p)
  BY DEF Step
<1>3. CASE pc'[p] = "create.vpcrow"
  <2>1. MakesVPC(p)
    BY <1>2, <1>3, MadeVPC
  <2>2. PICK vid \in VIds, names \in SUBSET Subnets : \E ids \in [names -> SIds] :
            /\ FreshV(vid) /\ \A s \in names : FreshS(ids[s])
            /\ \A s, t \in names : ids[s] = ids[t] => s = t
            /\ cspVpc' = cspVpc \cup {vid}
            /\ cspSubnet' = [sid \in SIds |-> IF \E s \in names : ids[s] = sid THEN vid ELSE cspSubnet[sid]]
            /\ job'[p] = [job[p] EXCEPT !.made = vid, !.todo = {<<s, ids[s]>> : s \in names}]
    BY <2>1, Zenon DEF MakesVPC
  <2>3. PICK ids \in [names -> SIds] :
          /\ cspVpc' = cspVpc \cup {vid}
          /\ cspSubnet' = [sid \in SIds |-> IF \E s \in names : ids[s] = sid THEN vid ELSE cspSubnet[sid]]
          /\ job'[p] = [job[p] EXCEPT !.made = vid, !.todo = {<<s, ids[s]>> : s \in names}]
    BY <2>2
  <2>4. job'[p].made = vid /\ job'[p].todo = {<<s, ids[s]>> : s \in names}
    BY <1>1, <2>3 DEF Jobs
  <2>5. ASSUME NEW t \in job'[p].todo PROVE cspSubnet'[t[2]] = vid
    <3>1. PICK s \in names : t = <<s, ids[s]>>
      BY <2>4
    <3>2. ids[s] \in SIds /\ t[2] = ids[s]
      BY <3>1
    <3> QED
      BY <2>3, <3>2
  <2> QED
    BY <1>3, <2>3, <2>4, <2>5 DEF KnowsExists, Succeeded, At, CreatedPcs
<1>4. CASE pc'[p] = "create.subnetrow"
  <2>1. CASE CreateVPC_insertVPC(p)
    <3>1. pc[p] = "create.vpcrow" /\ UNCHANGED <<job, cspVpc, cspSubnet>>
      BY <2>1 DEF CreateVPC_insertVPC, At, cloud
    <3> QED
      BY <1>1, <1>4, <3>1 DEF KnowsExists, Succeeded, At, CreatedPcs
  <2>2. CASE CreateVPC_insertSubnet(p)
    <3>1. pc[p] = "create.subnetrow" /\ UNCHANGED <<cspVpc, cspSubnet>>
      BY <2>2 DEF CreateVPC_insertSubnet, At, cloud
    <3>2. PICK t \in job[p].todo : job' = [job EXCEPT ![p].todo = @ \ {t}]
      BY <1>1, <1>4, <2>2 DEF CreateVPC_insertSubnet, Answer, Goto, OnlyByName, Undisturbed
    <3>3. job'[p].todo \subseteq job[p].todo /\ job'[p].made = job[p].made
      BY <1>1, <3>2 DEF Jobs
    <3> QED
      BY <1>1, <1>4, <3>1, <3>3 DEF KnowsExists, Succeeded, At, CreatedPcs
  <2> QED
    BY <1>2, <1>4, <2>1, <2>2, Arrives
<1>5. CASE pc'[p] = "add.insert"
  <2>1. AddSubnet_csp(p) /\ ~Answer(p, "error")
    BY <1>1, <1>2, <1>5, Arrives DEF Answer, Goto
  <2>2. PICK sid \in SIds : cspSubnet' = [cspSubnet EXCEPT ![sid] = job[p].row] /\ job' = [job EXCEPT ![p].made = sid]
    BY <2>1 DEF AddSubnet_csp
  <2>3. job'[p].made = sid /\ job'[p].row = job[p].row
    BY <1>1, <2>2 DEF Jobs
  <2> QED
    BY <1>1, <1>5, <2>2, <2>3 DEF KnowsExists, Succeeded, At, CreatedPcs
<1> QED
  BY <1>3, <1>4, <1>5 DEF CreatedPcs

LEMMA ReadKnowsExists ==
  ASSUME OnlyByName, IInv, SubnetsKnown, RowsKnown, Existence, NEW p \in Procs, Serve(p), ~Return(p),
         pc'[p] \in {"GetVPC", "get.csp", "list.get", "delete.kt"}
  PROVE  KnowsExists(p)'
<1>1. /\ job[p] \in Jobs /\ pc \in [Procs -> Labels \cup Ops] /\ job \in [Procs -> Jobs] /\ Fits(pc[p], job[p])
      /\ grant \in [Procs -> ((VPCs \cup Subnets) \X {"R", "W"}) \cup {None}] /\ KnowsExists(p)
      /\ vpcRow \in [VPCs -> VIds \cup {None}]
  BY DEF IInv, TypeOK, Places, Existence
<1>2. Step(p) /\ Keeps(p)
  BY SameCall DEF Step
<1>3. CASE pc'[p] = "GetVPC"
  <2>1. TakeLock(p)
    <3>1. ~Begin(p)
      BY <1>1, <1>3 DEF Begin, Goto, Lockless
    <3> QED
      BY <1>2, <1>3, <3>1, Arrives DEF AllOps
  <2>2. job[p].op = "GetVPC" /\ UNCHANGED job
    BY <1>1, <1>3, <2>1 DEF TakeLock, Goto
  <2>3. grant' = [grant EXCEPT ![p] = <<job[p].v, "R">>]
    BY <2>1, <2>2 DEF TakeLock, LockedName, LockKind, Lock!Acquire
  <2> QED
    BY <1>1, <1>3, <2>2, <2>3 DEF KnowsExists, Succeeded, At, CreatedPcs
<1>4. CASE pc'[p] = "get.csp"
  <2>1. GetVPC_row(p)
    BY <1>2, <1>4, Arrives
  <2>2. /\ pc[p] = "GetVPC" /\ UNCHANGED <<vpcRow, grant>>
        /\ job' = [job EXCEPT ![p].row = vpcRow[job[p].v]]
    BY <1>1, <1>4, <2>1 DEF GetVPC_row, Answer, DBError, Goto, Reads, db, At
  <2>3. job'[p].row = vpcRow[job[p].v] /\ job'[p].v = job[p].v
    BY <1>1, <2>2 DEF Jobs
  <2> QED
    BY <1>1, <1>4, <2>2, <2>3 DEF KnowsExists, Succeeded, At, CreatedPcs, Row
<1>5. CASE pc'[p] = "list.get"
  <2>1. ListVPC_lock(p) /\ pc[p] = "list.next"
    BY <1>2, <1>5, Arrives DEF ListVPC_lock, At
  <2>2. PICK t \in job[p].todo :
          /\ Lock!Acquire(p, <<t[1], "R">>)
          /\ job' = [job EXCEPT ![p].v = t[1], ![p].row = t[2], ![p].todo = @ \ {t}]
    BY <1>1, <1>5, <2>1 DEF ListVPC_lock, Answer, Goto
  <2>3. job'[p].v = t[1] /\ job'[p].row = t[2] /\ t[2] \in VIds
    BY <1>1, <2>1, <2>2 DEF Jobs, Fits, VPCTodo
  <2>4. grant'[p] = <<t[1], "R">>
    BY <1>1, <2>2 DEF Lock!Acquire
  <2> QED
    BY <1>5, <2>3, <2>4 DEF KnowsExists, Succeeded, At, CreatedPcs
<1>6. CASE pc'[p] = "delete.kt"
  <2>1. DeleteVPC_getVPC(p)
    BY <1>2, <1>6, Arrives
  <2>2. pc'[p] \in {"delete.csp", "done"}
    BY <1>1, <2>1 DEF DeleteVPC_getVPC, Answer, DBError, Goto, OnlyByName
  <2> QED
    BY <1>6, <2>2
<1> QED
  BY <1>3, <1>4, <1>5, <1>6

LEMMA SuccessKnowsExists ==
  ASSUME OnlyByName, IInv, SubnetsKnown, RowsKnown, Existence, NEW p \in Procs, Serve(p), ~Return(p),
         pc'[p] = "done"
  PROVE  KnowsExists(p)'
<1>1. SUFFICES ASSUME job'[p].op = "CreateVPC", job'[p].resp \in {"ok", "nil"}
               PROVE  /\ grant'[p] = <<job'[p].v, "W">> /\ job'[p].made \in VIds /\ job'[p].made \in cspVpc'
                      /\ vpcRow'[job'[p].v] = job'[p].made
  BY DEF KnowsExists, Succeeded, At, CreatedPcs, Own, Row
<1>2. pc[p] = "create.subnetrow" /\ UNCHANGED <<vpcRow, cspVpc, grant>>
  BY <1>1, CreateSucceeds
<1>3. job'[p].v = job[p].v /\ job'[p].made = job[p].made
  BY <1>2, SameCall DEF Keeps
<1>4. Own(p) /\ job[p].made \in VIds /\ job[p].made \in cspVpc /\ Row(p) = job[p].made
  <2>1. KnowsExists(p) /\ KnowsRows(p) /\ Fits(pc[p], job[p])
    BY DEF Existence, RowsKnown, IInv, Places
  <2> QED
    BY <1>2, <2>1, Owners DEF KnowsExists, KnowsRows, Fits, CreatedPcs, KnowsPcs
<1> QED
  BY <1>2, <1>3, <1>4 DEF Own, Row

LEMMA ExistenceKept ==
  ASSUME OnlyByName, IInv, IInv', SubnetsKnown, RowsKnown, Existence, [Next]_vars
  PROVE  Existence'
<1>1. ASSUME NEW p \in Procs, Step(p) PROVE KnowsExists(p)'
  <2>1. CASE Begin(p) \/ Return(p)
    BY <2>1, Between DEF KnowsExists, Succeeded, At, CreatedPcs, Lockless
  <2>2. CASE Serve(p) /\ ~Return(p)
    <3>1. ASSUME pc'[p] \notin CreatedPcs \cup {"add.insert", "GetVPC", "get.csp", "list.get", "delete.kt", "done"}
          PROVE  KnowsExists(p)'
      BY <3>1 DEF KnowsExists, Succeeded, At
    <3> QED
      BY <2>2, <3>1, CreateKnowsExists, ReadKnowsExists, SuccessKnowsExists
  <2> QED
    BY <1>1, <2>1, <2>2 DEF Step
<1>2. ASSUME NEW p \in Procs, Step(p) PROVE Existence'
  <2>1. AloneV' /\ AloneS'
    BY <1>2, AloneVKept, AloneSKept DEF Existence
  <2>2. RowsExist'
    BY <1>2, VPCsExist, SubnetsExist DEF RowsExist
  <2>3. \A q \in Procs : KnowsExists(q)'
    BY <1>1, <1>2, OthersKnowExists
  <2> QED
    BY <2>1, <2>2, <2>3 DEF Existence
<1>3. CASE UNCHANGED vars
  <2>1. /\ vpcRow' = vpcRow /\ subnetRow' = subnetRow /\ cspVpc' = cspVpc /\ cspSubnet' = cspSubnet
        /\ grant' = grant /\ pc' = pc /\ job' = job
    BY <1>3 DEF vars, db, cloud
  <2>2. AloneV' /\ AloneS'
    BY <2>1 DEF Existence, AloneV, AloneS, Pending
  <2>3. RowsExist'
    BY <2>1 DEF Existence, RowsExist, VPCGone, SubnetGone
  <2>4. \A p \in Procs : KnowsExists(p)'
    BY <2>1 DEF Existence, KnowsExists, Succeeded, At, Own, Row
  <2> QED
    BY <2>2, <2>3, <2>4 DEF Existence
<1> QED
  BY <1>2, <1>3 DEF Next, Step, OnlyByName, Undisturbed, Crash

\* The rows and what the calls know exist in every state.
LEMMA ExistenceInvariance == OnlyByName => (Spec => []Existence)
<1> SUFFICES ASSUME OnlyByName PROVE Spec => []Existence
  OBVIOUS
<1>1. ASSUME Init PROVE Existence
  <2>1. /\ \A p \in Procs : pc[p] = "idle"
        /\ \A v \in VPCs : vpcRow[v] = None
        /\ \A vs \in VPCs \X Subnets : subnetRow[vs] = None
    BY <1>1 DEF Init
  <2>2. \A p \in Procs : Pending(p) = {}
    BY <2>1 DEF Pending, CreatedPcs
  <2> QED
    BY <2>1, <2>2 DEF Existence, AloneV, AloneS, RowsExist, KnowsExists, Succeeded, At, CreatedPcs, RemovingPcs
<1>2. IInv /\ IInv' /\ SubnetsKnown /\ RowsKnown /\ Existence /\ [Next]_vars => Existence'
  BY ExistenceKept
<1>3. (Spec => []SubnetsKnown) /\ (Spec => []RowsKnown)
  BY SubnetsInvariance, RowsInvariance DEF OnlyByName, Undisturbed
<1> QED
  BY <1>1, <1>2, <1>3, Invariance, PTL DEF Spec

\* What Spider lists exists: with no call on the VPC under way, its row's VPC is in the CSP
\* and each row of its subnets names a subnet of that VPC, whatever CreateVPC, AddSubnet,
\* RemoveSubnet, DeleteVPC and the Unregister calls have done to it before, and whatever the
\* driver refused or failed at.
THEOREM RowsExistInCSPHolds == OnlyByName => (Spec => []RowsExistInCSP)
<1> SUFFICES ASSUME OnlyByName PROVE Spec => []RowsExistInCSP
  OBVIOUS
<1>1. IInv /\ SubnetsKnown /\ Existence => RowsExistInCSP
  <2> SUFFICES ASSUME IInv, SubnetsKnown, Existence, NEW v \in VPCs, Quiet(v), vpcRow[v] # None
               PROVE  /\ vpcRow[v] \in cspVpc
                      /\ \A s \in Subnets :
                           subnetRow[<<v, s>>] # None => cspSubnet[subnetRow[<<v, s>>]] = vpcRow[v]
    BY DEF RowsExistInCSP
  <2>1. ASSUME NEW p \in Procs, pc[p] \in KnowsPcs PROVE job[p].v # v
    BY <2>1, Owners DEF Quiet, Own
  <2>2. ~VPCGone(v) /\ \A s \in Subnets : ~SubnetGone(v, s)
    BY <2>1 DEF VPCGone, SubnetGone, KnowsPcs
  <2> QED
    BY <2>2 DEF Existence, RowsExist
<1>2. Spec => []SubnetsKnown
  BY SubnetsInvariance DEF OnlyByName, Undisturbed
<1> QED
  BY <1>1, <1>2, Invariance, ExistenceInvariance, PTL

\* GetVPC and ListVPC, which read a VPC's row and ask the driver for it under the lock for
\* reading, never meet a DeleteVPC or a CreateVPC half done.
THEOREM ReadersFindResourceHolds == OnlyByName => (Spec => []ReadersFindResource)
<1> SUFFICES ASSUME OnlyByName PROVE Spec => []ReadersFindResource
  OBVIOUS
<1>1. IInv /\ SubnetsKnown /\ Existence => ReadersFindResource
  <2> SUFFICES ASSUME IInv, SubnetsKnown, Existence, NEW p \in Procs,
                      At(p, "get.csp") \/ (At(p, "list.get") /\ vpcRow[job[p].v] = job[p].row)
               PROVE  job[p].row \in cspVpc
    BY DEF ReadersFindResource
  <2>1. pc[p] \in {"get.csp", "list.get"} /\ KnowsExists(p) /\ Fits(pc[p], job[p])
    BY DEF At, Existence, IInv, Places
  <2>2. job[p].v \in VPCs /\ grant[p] = <<job[p].v, "R">> /\ job[p].row \in VIds
    BY <2>1 DEF Fits, KnowsExists
  <2>3. vpcRow[job[p].v] = job[p].row /\ job[p].row # None
    BY <2>1, <2>2, VPCAssumption DEF KnowsExists, Row, At
  <2>4. ~VPCGone(job[p].v)
    <3>1. ASSUME NEW q \in Procs, pc[q] = "delete.vpcrow", job[q].v = job[p].v PROVE FALSE
      BY <2>2, <3>1, Owners, ReadersApart DEF Own, KnowsPcs
    <3> QED
      BY <3>1 DEF VPCGone
  <2> QED
    BY <2>2, <2>3, <2>4 DEF Existence, RowsExist
<1>2. Spec => []SubnetsKnown
  BY SubnetsInvariance DEF OnlyByName, Undisturbed
<1> QED
  BY <1>1, <1>2, Invariance, ExistenceInvariance, PTL

\* A CreateVPC that answers without an error has made the VPC, and its row names it until
\* the call gives its lock back.
THEOREM SuccessMeansCreatedHolds == OnlyByName => (Spec => []SuccessMeansCreated)
<1> SUFFICES ASSUME OnlyByName PROVE Spec => []SuccessMeansCreated
  OBVIOUS
<1>1. Existence => SuccessMeansCreated
  BY VPCAssumption DEF Existence, KnowsExists, SuccessMeansCreated, Row
<1> QED
  BY <1>1, ExistenceInvariance, PTL
=============================================================================
