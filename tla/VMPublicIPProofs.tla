-------------------------- MODULE VMPublicIPProofs --------------------------
(***************************************************************************)
(* The default public IP of a VM, for any number of VMs and public IPs:    *)
(* a call that runs alone, and whose own calls answer, deletes no public   *)
(* IP under its user, if the driver's list names the VM or the driver's    *)
(* RemoveDefaultPublicIP deletes nothing.  With two calls at a time, with  *)
(* an error of the list, or with a driver that deletes and does not name   *)
(* the VM, it is false (TLC shows a trace of each).                        *)
(***************************************************************************)
EXTENDS VMPublicIP, TLAPS

\* Where a driver deletes, its list names the VM that has an address.
Named == \A d \in Drivers : d.names \/ d.removes # "deletes"

\* An address that is in the cloud has a row.
Known == \A n \in Names : addr[n] # "none" => n \in row

\* The address that Unassign is about to take, or has taken, is not a user's.
Spared ==
  \A p \in Procs :
    /\ pc[p] = "unassign.remove" /\ driver.removes = "deletes" => \A n \in UserIPs : addr[n] # job[p].m
    /\ pc[p] = "unassign.destroy" => job[p].n \notin UserIPs

Good == UserIPKept /\ Known

-----------------------------------------------------------------------------
(* The calls of the other managers on the tables.                          *)

\* CreatePublicIP gives a new name a row and a free address.
LEMMA CreateKeeps ==
  ASSUME Tables, NEW n \in Names, Create(n)
  PROVE  Tables' /\ (Good => Good')
  BY DEF Tables, Create, Good, UserIPKept, Known

\* AssociatePublicIP frees the address that the VM had.
LEMMA AssociateKeeps ==
  ASSUME "none" \notin VMs, Tables, NEW n \in Names, NEW m \in VMs, CanAssociate(n), Associate(n, m)
  PROVE  Tables' /\ (Good => Good')
  BY DEF Tables, CanAssociate, Associate, Good, UserIPKept, Known, Names

\* DisassociatePublicIP frees it.
LEMMA DisassociateKeeps ==
  ASSUME Tables, NEW n \in Names, CanDisassociate(n), Disassociate(n)
  PROVE  Tables' /\ (Good => Good')
  BY DEF Tables, CanDisassociate, Disassociate, Good, UserIPKept, Known, Names

\* DeletePublicIP takes the row with the address.
LEMMA DeleteKeeps ==
  ASSUME Tables, NEW n \in Names, Delete(n)
  PROVE  Tables' /\ (Good => Good')
  BY DEF Tables, Delete, Good, UserIPKept, Known, Names

\* A call that only reads keeps the tables.
LEMMA KeepKeeps ==
  ASSUME Tables, Keep
  PROVE  Tables' /\ (Good => Good')
  BY DEF Tables, Keep, Good, UserIPKept, Known

\* Going on with a call, or ending it, keeps the calls in order.
LEMMA OnKeeps ==
  ASSUME Calls, NEW p \in Procs, pc[p] # "idle", NEW label \in Labels, On(p, label)
  PROVE  Calls'
  BY DEF Calls, On, Goto

LEMMA OverKeeps ==
  ASSUME Calls, NEW p \in Procs, Over(p)
  PROVE  Calls'
  BY DEF Calls, Over, Goto, NoJob, Labels

-----------------------------------------------------------------------------
\* Every step keeps the types, and, while Unassign spares them, the users' addresses.
LEMMA StepKeeps ==
  ASSUME "none" \notin VMs, TypeOK, [Next]_vars
  PROVE  TypeOK' /\ (Good /\ Spared => Good')
<1> USE DEF TypeOK
<1> DEFINE Kept == TypeOK' /\ (Good /\ Spared => Good')
<1>1. ASSUME NEW p \in Procs, Begin(p) PROVE Kept
  <2>1. Tables' /\ (Good => Good')
    BY <1>1, KeepKeeps DEF Begin
  <2>2. PICK op \in {"Assign", "Unassign", "Attach", "Detach"}, m \in VMs, n \in UserIPs :
          /\ job' = [job EXCEPT ![p] = [op |-> op, m |-> m,
                                        n |-> IF op \in {"Attach", "Detach"} THEN n ELSE Default(m)]]
          /\ Goto(p, op)
    BY <1>1 DEF Begin
  <2>3. n \in Names /\ Default(m) \in Names
    BY DEF Names
  <2>4. Calls'
    BY <2>2, <2>3 DEF Calls, Goto, Labels
  <2> QED BY <2>1, <2>4
<1>2. ASSUME NEW p \in Procs, Assign(p) PROVE Kept
  <2>1. pc[p] # "idle" /\ job[p].m \in VMs /\ job[p].n \in Names
    BY <1>2 DEF Assign, At, Calls
  <2>2. Tables' /\ (Good => Good')
    BY <1>2, <2>1, KeepKeeps, CreateKeeps, AssociateKeeps, DeleteKeeps DEF Assign, Error
  <2>3. Calls'
    BY <1>2, <2>1, OnKeeps, OverKeeps DEF Assign, Labels
  <2> QED BY <2>2, <2>3
<1>3. ASSUME NEW p \in Procs, Unassign(p) PROVE Kept
  <2>1. pc[p] # "idle" /\ job[p].m \in VMs /\ job[p].n \in Names
    BY <1>3 DEF Unassign, Unassign_get, Unassign_default, deletePublicIPWithRetry,
                findTrackedPublicIPNameForVM, removeNativeDefaultPublicIP,
                destroyDefaultPublicIP, At, Calls
  <2>2. CASE Unassign_get(p)
    <3>1. Tables' /\ (Good => Good')
      BY <2>2, KeepKeeps DEF Unassign_get
    <3>2. Calls'
      BY <2>1, <2>2, OnKeeps, OverKeeps DEF Unassign_get, Labels
    <3> QED BY <3>1, <3>2
  <2>3. CASE Unassign_default(p)
    <3>1. Tables' /\ (Good => Good')
      BY <2>1, <2>3, KeepKeeps, DisassociateKeeps DEF Unassign_default, Error
    <3>2. Calls'
      BY <2>1, <2>3, OnKeeps DEF Unassign_default, Labels
    <3> QED BY <3>1, <3>2
  <2>4. CASE deletePublicIPWithRetry(p)
    <3>1. Tables' /\ (Good => Good')
      BY <2>1, <2>4, KeepKeeps, DeleteKeeps DEF deletePublicIPWithRetry, Error
    <3>2. Calls'
      BY <2>4, OverKeeps DEF deletePublicIPWithRetry
    <3> QED BY <3>1, <3>2
  <2>5. CASE findTrackedPublicIPNameForVM(p)
    <3>1. Tables' /\ (Good => Good')
      BY <2>5, KeepKeeps DEF findTrackedPublicIPNameForVM
    <3>2. Calls'
      BY <2>1, <2>5, OnKeeps, OverKeeps DEF findTrackedPublicIPNameForVM, Labels
    <3> QED BY <3>1, <3>2
  <2>6. CASE removeNativeDefaultPublicIP(p)
    <3>1. CASE Keep /\ Over(p)
      BY <3>1, KeepKeeps, OverKeeps
    <3>2. CASE /\ Over(p) /\ native' = native \ {job[p].m} /\ UNCHANGED <<driver, row>>
               /\ addr' = [n \in Names |-> IF addr[n] = job[p].m /\ driver.removes = "detaches"
                                            THEN "free" ELSE addr[n]]
      BY <2>1, <3>2, OverKeeps DEF Tables, Good, UserIPKept, Known, Names
    <3>3. CASE /\ \E n \in Names :
                    /\ addr[n] = job[p].m /\ addr' = [addr EXCEPT ![n] = "free"]
                    /\ job' = [job EXCEPT ![p].n = n]
               /\ Goto(p, "unassign.destroy") /\ UNCHANGED <<driver, row, native>>
      <4>1. PICK n \in Names : /\ addr[n] = job[p].m /\ addr' = [addr EXCEPT ![n] = "free"]
                               /\ job' = [job EXCEPT ![p].n = n]
        BY <3>3
      <4>2. Calls'
        BY <2>1, <3>3, <4>1 DEF Calls, Goto, Labels
      <4>3. Tables'
        BY <3>3, <4>1 DEF Tables
      <4>4. Good => Good'
        BY <2>1, <3>3, <4>1 DEF Tables, Good, UserIPKept, Known, Names
      <4> QED BY <4>2, <4>3, <4>4
    <3> QED BY <2>6, <3>1, <3>2, <3>3 DEF removeNativeDefaultPublicIP, Error
  <2>7. CASE destroyDefaultPublicIP(p)
    <3>1. Calls'
      BY <2>7, OverKeeps DEF destroyDefaultPublicIP
    <3>2. CASE Keep
      BY <3>1, <3>2, KeepKeeps
    <3>3. CASE addr' = [addr EXCEPT ![job[p].n] = "none"] /\ UNCHANGED <<driver, row, native>>
      <4>1. Tables'
        BY <3>3 DEF Tables
      <4>2. ASSUME Good, Spared PROVE Good'
        BY <2>7, <3>3, <4>2 DEF destroyDefaultPublicIP, At, Spared, Tables, Good, UserIPKept, Known, Names
      <4> QED BY <3>1, <4>1, <4>2
    <3> QED BY <2>7, <3>2, <3>3 DEF destroyDefaultPublicIP, Error
  <2> QED BY <1>3, <2>2, <2>3, <2>4, <2>5, <2>6, <2>7 DEF Unassign
<1>4. ASSUME NEW p \in Procs, AttachVMPublicIP(p) PROVE Kept
  <2>1. pc[p] # "idle" /\ job[p].m \in VMs /\ job[p].n \in Names
    BY <1>4 DEF AttachVMPublicIP, At, Calls
  <2>2. Tables' /\ (Good => Good')
    BY <1>4, <2>1, KeepKeeps, AssociateKeeps DEF AttachVMPublicIP, Error
  <2>3. Calls'
    BY <1>4, <2>1, OnKeeps, OverKeeps DEF AttachVMPublicIP, Labels
  <2> QED BY <2>2, <2>3
<1>5. ASSUME NEW p \in Procs, DetachVMPublicIP(p) PROVE Kept
  <2>1. pc[p] # "idle" /\ job[p].m \in VMs /\ job[p].n \in Names
    BY <1>5 DEF DetachVMPublicIP, At, Calls
  <2>2. Tables' /\ (Good => Good')
    BY <1>5, <2>1, KeepKeeps, DisassociateKeeps DEF DetachVMPublicIP, Error
  <2>3. Calls'
    BY <1>5, <2>1, OnKeeps, OverKeeps DEF DetachVMPublicIP, Labels
  <2> QED BY <2>2, <2>3
<1>6. ASSUME NEW n \in UserIPs, UserCreates(n) \/ UserDeletes(n) PROVE Kept
  <2>1. Tables' /\ (Good => Good')
    BY <1>6, CreateKeeps, DeleteKeeps DEF UserCreates, UserDeletes, Names
  <2>2. Calls'
    BY <1>6 DEF UserCreates, UserDeletes, Calls
  <2> QED BY <2>1, <2>2
<1>7. ASSUME UNCHANGED vars PROVE Kept
  BY <1>7 DEF vars, Tables, Calls, Good, UserIPKept, Known
<1> QED BY <1>1, <1>2, <1>3, <1>4, <1>5, <1>6, <1>7 DEF Next

\* One call at a time: nobody attaches an address between the list and the removal.
LEMMA SparedKeeps ==
  ASSUME "none" \notin VMs, "free" \notin VMs, TypeOK, Good, Spared, Named, ~Faults,
         NEW q, Procs = {q}, [Next]_vars
  PROVE  Spared'
<1>1. CASE findTrackedPublicIPNameForVM(q)
  <2>1. /\ At(q, "unassign.list") /\ Keep
        /\ \/ (driver.names /\ \E n \in row : addr[n] = job[q].m) /\ Over(q)
           \/ ~(driver.names /\ \E n \in row : addr[n] = job[q].m) /\ On(q, "unassign.remove")
    BY <1>1 DEF findTrackedPublicIPNameForVM
  <2>2. CASE Over(q)
    BY <2>2 DEF Over, Goto, Spared, TypeOK, Calls
  <2>3. CASE ~(driver.names /\ \E n \in row : addr[n] = job[q].m) /\ On(q, "unassign.remove")
    <3>1. pc'[q] = "unassign.remove" /\ job' = job /\ addr' = addr /\ driver' = driver
      BY <2>1, <2>3 DEF On, Goto, Keep, TypeOK, Calls
    <3>2. job[q].m \in VMs /\ job[q].m # "none" /\ driver \in Drivers
      BY <2>1 DEF At, TypeOK, Calls, Tables
    <3>3. ASSUME driver.removes = "deletes", NEW n \in UserIPs PROVE addr[n] # job[q].m
      BY <2>3, <3>2, <3>3 DEF Named, Good, Known, Names
    <3> QED BY <3>1, <3>3 DEF Spared
  <2> QED BY <2>1, <2>2, <2>3
<1>2. CASE removeNativeDefaultPublicIP(q)
  <2>1. CASE Over(q)
    BY <2>1 DEF Over, Goto, Spared, TypeOK, Calls
  <2>2. CASE /\ At(q, "unassign.remove") /\ driver.removes = "deletes"
             /\ \E n \in Names : addr[n] = job[q].m /\ job' = [job EXCEPT ![q].n = n]
             /\ Goto(q, "unassign.destroy")
    <3>1. PICK n \in Names : addr[n] = job[q].m /\ job' = [job EXCEPT ![q].n = n]
      BY <2>2
    <3>2. n \notin UserIPs
      BY <2>2, <3>1 DEF Spared, At
    <3>3. pc'[q] = "unassign.destroy" /\ job'[q].n = n
      BY <2>2, <3>1 DEF Goto, TypeOK, Calls
    <3> QED BY <3>2, <3>3 DEF Spared
  <2> QED BY <1>2, <2>1, <2>2 DEF removeNativeDefaultPublicIP
<1>3. CASE \E n \in UserIPs : UserCreates(n) \/ UserDeletes(n)
  <2>1. PICK n \in UserIPs : UserCreates(n) \/ UserDeletes(n)
    BY <1>3
  <2>2. pc' = pc /\ job' = job /\ driver' = driver
    BY <2>1 DEF UserCreates, UserDeletes, Create, Delete
  <2>3. ASSUME pc[q] = "unassign.remove", NEW k \in UserIPs, addr[k] # job[q].m
        PROVE  addr'[k] # job[q].m
    <3>1. job[q].m \in VMs
      BY <2>3 DEF TypeOK, Calls
    <3>2. CASE addr'[k] = addr[k]
      BY <2>3, <3>2
    <3>3. CASE addr'[k] # addr[k]
      <4>1. CASE UserDeletes(n)
        BY <3>1, <4>1, <3>3 DEF UserDeletes, Delete, TypeOK, Tables, Names
      <4>2. CASE UserCreates(n)
        BY <2>3, <3>1, <3>3, <4>2 DEF UserCreates, Create, TypeOK, Tables, Names
      <4> QED BY <2>1, <4>1, <4>2
    <3> QED BY <3>2, <3>3
  <2> QED BY <2>2, <2>3 DEF Spared
<1>4. CASE UNCHANGED vars
  BY <1>4 DEF vars, Spared
<1>5. CASE \/ Begin(q) \/ Assign(q) \/ Unassign_get(q) \/ Unassign_default(q) \/ deletePublicIPWithRetry(q)
           \/ destroyDefaultPublicIP(q) \/ AttachVMPublicIP(q) \/ DetachVMPublicIP(q)
  <2>1. pc'[q] \notin {"unassign.remove", "unassign.destroy"}
    BY <1>5 DEF Begin, Assign, Unassign_get, Unassign_default, deletePublicIPWithRetry, destroyDefaultPublicIP,
                AttachVMPublicIP, DetachVMPublicIP, Goto, Over, On, TypeOK, Calls
  <2> QED BY <2>1 DEF Spared
<1> QED BY <1>1, <1>2, <1>3, <1>4, <1>5 DEF Next, Unassign

\* Init: nobody has a public IP.
LEMMA InitHolds == Init => TypeOK /\ Good /\ Spared
<1> SUFFICES ASSUME Init PROVE TypeOK /\ Good /\ Spared
  OBVIOUS
<1>1. Tables
  BY DEF Init, Tables
<1>2. Calls
  BY DEF Init, Calls, NoJob, Labels
<1>3. Good
  BY DEF Init, Good, UserIPKept, Known
<1>4. Spared
  BY DEF Init, Spared
<1> QED BY <1>1, <1>2, <1>3, <1>4 DEF TypeOK

-----------------------------------------------------------------------------
\* The types of the tables and of the calls under way.
THEOREM TypeCorrect == ASSUME "none" \notin VMs PROVE Spec => []TypeOK
<1>1. TypeOK /\ [Next]_vars => TypeOK'
  BY StepKeeps
<1> QED BY InitHolds, <1>1, PTL DEF Spec

\* A public IP that a user made is there until the user deletes it, as long as the
\* calls of VMPublicIPManager.go come one at a time and no call of theirs fails: a
\* driver that deletes finds only what AssignVMDefaultPublicIP made, if its list names
\* the VM.  ("none" and "free" are this module's marks of an address that does not
\* exist, or is on no VM.)
THEOREM UserIPIsKept ==
  ASSUME "none" \notin VMs, "free" \notin VMs, Named, ~Faults, NEW q, Procs = {q}
  PROVE  Spec => []UserIPKept
<1> DEFINE IInv == TypeOK /\ Good /\ Spared
<1>1. IInv /\ [Next]_vars => IInv'
  BY StepKeeps, SparedKeeps
<1>2. IInv => UserIPKept
  BY DEF Good
<1>3. Init => IInv
  BY InitHolds
<1> HIDE DEF IInv
<1> QED BY <1>1, <1>2, <1>3, PTL DEF Spec
=============================================================================
