----------------------------- MODULE VMManager -----------------------------
(***************************************************************************)
(* api-runtime/common-runtime/VMManager.go, with UnregisterResource and    *)
(* DeleteCSPResource of CommonManager.go for VMs, on one connection.       *)
(*                                                                         *)
(* A member of Procs is a goroutine serving a REST call; each call of the  *)
(* meta DB, of the driver and of vmSPLock is a step.  A VM terminates in   *)
(* the CSP in its own time, so DeleteVM waits for it, polling until it is  *)
(* gone or a WAITER says that the time is up.                              *)
(*                                                                         *)
(* VMs are those of public images: the disks of a MyImage's VM, which      *)
(* StartVM registers, are not modelled, nor is the list of recent VMs for  *)
(* the admin web, nor the lookups of names that only fill in the answer.   *)
(***************************************************************************)
EXTENDS Naturals, FiniteSets

CONSTANTS
  Procs,        \* goroutines serving calls
  Names,        \* names of VMs
  Ids,          \* ids of VMs in the CSP
  Foreign,      \* those that run from the start, not made by Spider
  None,
  Ops,          \* the calls that this instance makes
  Polls,        \* how often a WAITER lets its caller sleep
  DBFails,      \* may a meta DB operation fail?
  CSPFaults,    \* subset of {"error", "lost", "failed"}: a driver call fails; fails
                \* after it did its work; reports the status Failed with the error
  AccessCheck,  \* is SPIDER_ENABLE_VM_ACCESS_CHECK set?
  ConnFails     \* may the connection of a VM's zone be unusable?

AllOps == {"StartVM", "RegisterVM", "UnregisterVM", "GetVM", "GetVMStatus", "ControlVM",
           "ListVM", "DeleteVM", "DeleteCSPVM"}

ASSUME VMAssumption ==
  /\ None \notin Ids \cup Names \cup (Names \X {"R", "W"})
  /\ Foreign \subseteq Ids
  /\ Ops \subseteq AllOps
  /\ Polls \in Nat
  /\ CSPFaults \subseteq {"error", "lost", "failed"}
  /\ {DBFails, AccessCheck, ConnFails} \subseteq BOOLEAN

VARIABLES
  row,     \* VMIIDInfo table: name -> id, or None
  vm,      \* status in the CSP of each id, or "none"
  told,    \* history: what is known to have gone wrong, or to be outside Spider, with
           \* a VM (see Kinds)
  grant,   \* vmSPLock
  pc,      \* where each goroutine is
  job      \* the call a goroutine serves, with its local variables

vmVars == <<row, vm, told, grant, pc, job>>

Lock == INSTANCE RWLockTable WITH Keys <- Names

Statuses == {"running", "suspended", "terminating", "terminated"}
Alive == {"running", "suspended"}

\* <<id, kind>> in told.  "vm": the VM may run without a row, as a caller was told or
\* asked for.  "row": a row may be without the VM: a delete failed, and said so; a
\* forced one could not remove the row, and answered "true" all the same; or
\* RegisterVM took the VM although it was ending or had a name already.
Kinds == {"vm", "row"}

\* op and arguments; row: the id read; made: the id that the driver returned;
\* polls: what the WAITER allows; todo: VMs still to list; lost: has a goroutine
\* of the list given up without a word?
NoJob == [op |-> "none", name |-> None, id |-> None, force |-> "no", row |-> None,
          made |-> None, polls |-> 0, todo |-> {}, lost |-> FALSE, resp |-> "none"]

Init ==
  /\ row = [n \in Names |-> None]
  /\ vm = [id \in Ids |-> IF id \in Foreign THEN "running" ELSE "none"]
  /\ told = Foreign \X {"vm"}
  /\ grant = [p \in Procs |-> None]
  /\ pc = [p \in Procs |-> "idle"]
  /\ job = [p \in Procs |-> NoJob]

-----------------------------------------------------------------------------
At(p, label) == pc[p] = label
Goto(p, label) == pc' = [pc EXCEPT ![p] = label]

\* The call is over; of its variables only those are kept that its answer is about.
Answer(p, r) ==
  /\ Goto(p, "done")
  /\ job' = [job EXCEPT ![p] = [NoJob EXCEPT !.op = job[p].op, !.name = job[p].name, !.id = job[p].id,
                                            !.force = job[p].force, !.row = job[p].row, !.resp = r]]

\* A read: nothing shared changes.
Reads == UNCHANGED <<row, vm, told, grant>>

DBError(p) == DBFails /\ Reads /\ Answer(p, "error")
CSPError(p) == CSPFaults # {} /\ Reads /\ Answer(p, "error")

\* Ids the CSP may give out: not in use, and not remembered by a row or a call.
Fresh(id) ==
  /\ vm[id] = "none"
  /\ \A n \in Names : row[n] # id
  /\ \A q \in Procs : id \notin {job[q].id, job[q].row, job[q].made} \cup {t[2] : t \in job[q].todo}

\* What a driver's TerminateVM may do, and what then becomes of the VM.
Outcomes(id) == {IF vm[id] = "none" THEN "notfound" ELSE "ok"} \cup (CSPFaults \cap {"error", "lost"})
Terminates(id, out) == vm' = IF out \in {"ok", "lost"} /\ vm[id] \in Alive
                             THEN [vm EXCEPT ![id] = "terminating"] ELSE vm

\* The CSP's own steps: a VM that terminates is gone in the end, and may be shown
\* as terminated before.
Progress(id) ==
  /\ vm' \in {[vm EXCEPT ![id] = s] :
       s \in CASE vm[id] = "terminating" -> {"terminated", "none"}
               [] vm[id] = "terminated" -> {"none"}
               [] OTHER -> {}}
  /\ UNCHANGED <<row, told, grant, pc, job>>

-----------------------------------------------------------------------------
(* A call arrives, takes its lock, and gives it back with its answer.      *)

NamesOf(op) == IF op \in {"ListVM", "DeleteCSPVM"} THEN {None} ELSE Names
IdsOf(op) == IF op \in {"RegisterVM", "DeleteCSPVM"} THEN Ids ELSE {None}
ForcesOf(op) == IF op = "DeleteVM" THEN {"no", "asked"} ELSE {"no"}

\* GetVMStatus is "temporarily unlocked", and the others start without a name.
Lockless == {"ListVM", "DeleteCSPVM", "GetVMStatus"}

Begin(p) ==
  /\ At(p, "idle")
  /\ \E op \in Ops :
       \E n \in NamesOf(op), id \in IdsOf(op), force \in ForcesOf(op) :
         job' = [job EXCEPT ![p] = [NoJob EXCEPT !.op = op, !.name = n, !.id = id, !.force = force]]
  /\ Goto(p, IF job'[p].op \in Lockless THEN job'[p].op ELSE "lock")
  /\ Reads

\* Faulty: DeleteVM locks as ControlVM does.
FaultyLockKind(p) == IF job[p].op \in {"GetVM", "ControlVM", "DeleteVM"} THEN "R" ELSE "W"

LockKind(p) == IF job[p].op \in {"GetVM", "ControlVM"} THEN "R" ELSE "W"

TakeLock(p) ==
  /\ At(p, "lock")
  /\ Lock!Acquire(p, <<job[p].name, LockKind(p)>>)
  /\ Goto(p, job[p].op)
  /\ UNCHANGED <<row, vm, told, job>>

\* What the caller knows from the answer: a delete that failed may have ended the
\* VM, one that was forced may not have, and UnregisterResource leaves it.
About(j) ==
  CASE j.op = "DeleteVM" /\ j.resp = "error" /\ j.row # None -> {<<j.row, "row">>}
    [] j.op = "DeleteVM" /\ j.resp = "ok" /\ j.force = "asked" -> {<<j.row, "vm">>}
    [] j.op = "UnregisterVM" /\ j.resp = "ok" -> {<<j.row, "vm">>}
    [] j.op = "DeleteCSPVM" -> {<<j.id, "row">>}
    [] OTHER -> {}

\* Faulty: an error returns without unlocking.
FaultyReturn(p) ==
  /\ At(p, "done")
  /\ IF grant[p] = None \/ job[p].resp = "error" THEN UNCHANGED grant ELSE Lock!Release(p)
  /\ told' = {t \in told \cup About(job[p]) : ~Fresh(t[1])}
  /\ Goto(p, "idle")
  /\ job' = [job EXCEPT ![p] = NoJob]
  /\ UNCHANGED <<row, vm>>

Return(p) ==
  /\ At(p, "done")
  /\ IF grant[p] = None THEN UNCHANGED grant ELSE Lock!Release(p)
  /\ told' = {t \in told \cup About(job[p]) : ~Fresh(t[1])}
  /\ Goto(p, "idle")
  /\ job' = [job EXCEPT ![p] = NoJob]
  /\ UNCHANGED <<row, vm>>

\* Faulty: the call goes on without a row.
FaultyReadRow(p, op, next) ==
  /\ At(p, op)
  /\ job' = [job EXCEPT ![p].row = row[job[p].name]]
  /\ Goto(p, next) /\ Reads

\* Several calls begin by reading the row of their VM.
ReadRow(p, op, next) ==
  /\ At(p, op)
  /\ \/ /\ row[job[p].name] # None
        /\ job' = [job EXCEPT ![p].row = row[job[p].name]]
        /\ Goto(p, next) /\ Reads
     \/ row[job[p].name] = None /\ Answer(p, "error") /\ Reads
     \/ DBError(p)

-----------------------------------------------------------------------------
(* StartVM.                                                                *)

\* The name must be free, the subnet's row there, and the zone reachable.
StartVM_exists(p) ==
  /\ At(p, "StartVM")
  /\ \/ /\ row[job[p].name] = None
        /\ Goto(p, "start.csp") /\ Reads /\ UNCHANGED job
     \/ row[job[p].name] # None /\ Answer(p, "error") /\ Reads
     \/ DBError(p)

\* handler.StartVM makes a VM, or fails; what it leaves then, nobody knows.  (Nothing
\* was told of a VM that is new.)
StartVM_csp(p) ==
  /\ At(p, "start.csp")
  /\ \/ \E id \in Ids :
          /\ Fresh(id)
          /\ vm' = [vm EXCEPT ![id] = "running"]
          /\ \/ /\ job' = [job EXCEPT ![p].made = id, ![p].polls = Polls]
                /\ Goto(p, IF AccessCheck THEN "start.access" ELSE "start.insert")
                /\ told' = told \ ({id} \X Kinds)
             \/ /\ "lost" \in CSPFaults /\ Answer(p, "error")
                /\ told' = (told \ ({id} \X Kinds)) \cup {<<id, "vm">>}
          /\ UNCHANGED <<row, grant>>
     \/ (\A id \in Ids : ~Fresh(id)) /\ Answer(p, "error") /\ Reads
     \/ CSPError(p)

\* With the access check StartVM polls until the VM is there and has its public
\* IP.  While the VM is not found it polls on without a WAITER; an error ends
\* the call, and the VM is left alone; when the time is up it goes on.
StartVM_access(p) ==
  /\ At(p, "start.access")
  /\ \/ /\ vm[job[p].made] # "none"
        /\ Goto(p, "start.insert") /\ Reads /\ UNCHANGED job
     \/ /\ vm[job[p].made] # "none" /\ job[p].polls > 0
        /\ job' = [job EXCEPT ![p].polls = @ - 1] /\ Reads /\ UNCHANGED pc
     \/ /\ CSPFaults # {} /\ Answer(p, "error")
        /\ told' = told \cup {<<job[p].made, "vm">>} /\ UNCHANGED <<row, vm, grant>>

\* Faulty: what was started is not terminated when its row cannot be inserted.
FaultyStartVM_insert(p) ==
  /\ At(p, "start.insert")
  /\ \/ /\ row' = [row EXCEPT ![job[p].name] = job[p].made]
        /\ Answer(p, "ok")
     \/ DBFails /\ Answer(p, "error") /\ UNCHANGED row
  /\ UNCHANGED <<vm, told, grant>>

StartVM_insert(p) ==
  /\ At(p, "start.insert")
  /\ \/ /\ row' = [row EXCEPT ![job[p].name] = job[p].made]
        /\ Answer(p, "ok")
     \/ DBFails /\ Goto(p, "start.undo") /\ UNCHANGED <<row, job>>
  /\ UNCHANGED <<vm, told, grant>>

\* The rollback does not wait for the VM to terminate.
StartVM_undo(p) ==
  /\ At(p, "start.undo")
  /\ \E out \in Outcomes(job[p].made) :
       /\ Terminates(job[p].made, out)
       /\ told' = IF out = "ok" THEN told ELSE told \cup {<<job[p].made, "vm">>}
  /\ Answer(p, "error")
  /\ UNCHANGED <<row, grant>>

StartVM(p) == StartVM_exists(p) \/ StartVM_csp(p) \/ StartVM_access(p)
              \/ StartVM_insert(p) \/ StartVM_undo(p)

-----------------------------------------------------------------------------
(* RegisterVM and UnregisterResource.                                      *)

\* Does a call make the VM, or is it about to record it?
Claim(p) == IF At(p, "register.insert") THEN job[p].id ELSE job[p].made

\* RegisterVM asks only whether the name is free and whether the CSP finds the VM: not
\* whether it is ending, and not whether another name, or call, has it.
Doubtful(id) == vm[id] \notin Alive \/ (\E n \in Names : row[n] = id) \/ (\E q \in Procs : Claim(q) = id)

RegisterVM(p) ==
  \/ /\ At(p, "RegisterVM")
     /\ \/ /\ row[job[p].name] = None
           /\ Goto(p, "register.csp") /\ Reads /\ UNCHANGED job
        \/ row[job[p].name] # None /\ Answer(p, "error") /\ Reads
        \/ DBError(p)
  \/ /\ At(p, "register.csp")
     /\ \/ /\ vm[job[p].id] # "none" /\ Goto(p, "register.insert") /\ UNCHANGED <<row, vm, grant, job>>
           /\ told' = IF Doubtful(job[p].id) THEN told \cup {<<job[p].id, "row">>} ELSE told
        \/ vm[job[p].id] = "none" /\ Answer(p, "error") /\ Reads
        \/ CSPError(p)
  \/ /\ At(p, "register.insert")
     /\ \/ /\ row' = [row EXCEPT ![job[p].name] = job[p].id]
           /\ Answer(p, "ok") /\ told' = told \ {<<job[p].id, "vm">>} /\ UNCHANGED <<vm, grant>>
        \/ DBError(p)

UnregisterVM(p) ==
  \/ ReadRow(p, "UnregisterVM", "unregister.delete")
  \/ /\ At(p, "unregister.delete")
     /\ \/ /\ row' = [row EXCEPT ![job[p].name] = None]
           /\ Answer(p, "ok") /\ UNCHANGED <<vm, told, grant>>
        \/ DBError(p)

-----------------------------------------------------------------------------
(* Reads and control.                                                      *)

GetVM(p) ==
  \/ ReadRow(p, "GetVM", "get.csp")
  \/ /\ At(p, "get.csp")
     /\ \/ Answer(p, IF vm[job[p].row] # "none" THEN "ok" ELSE "error") /\ Reads
        \/ CSPError(p)

\* A status that Spider does not know is asked for again, for a while.
GetVMStatus(p) ==
  \/ ReadRow(p, "GetVMStatus", "status.poll")
  \/ /\ At(p, "status.poll")
     /\ \/ Answer(p, IF vm[job[p].row] # "none" THEN "ok" ELSE "error") /\ Reads
        \/ CSPError(p)

\* Suspend and resume, under the read lock; to reboot changes nothing here.
ControlVM(p) ==
  \/ ReadRow(p, "ControlVM", "control.csp")
  \/ /\ At(p, "control.csp")
     /\ \/ \E to \in {"running", "suspended"} :
             /\ vm[job[p].row] \in {"running", "suspended"}
             /\ vm' = [vm EXCEPT ![job[p].row] = to]
             /\ Answer(p, "ok") /\ UNCHANGED <<row, told, grant>>
        \/ vm[job[p].row] \notin {"running", "suspended"} /\ Answer(p, "error") /\ Reads
        \/ CSPError(p)

\* The rows are read without a lock, and a goroutine of its own gets each VM
\* under the read lock of its name.  (They run one after another here: all they
\* share is the list.)
ListVM_rows(p) ==
  /\ At(p, "ListVM")
  /\ \/ /\ job' = [job EXCEPT ![p].todo = {<<n, row[n]>> : n \in {m \in Names : row[m] # None}}]
        /\ Goto(p, "list.each") /\ Reads
     \/ DBError(p)

\* A goroutine that gets no connection returns without sending its result.
ListVM_start(p) ==
  /\ At(p, "list.each")
  /\ \E t \in job[p].todo :
       \/ /\ Lock!Acquire(p, <<t[1], "R">>)
          /\ job' = [job EXCEPT ![p].row = t[2], ![p].todo = @ \ {t}]
          /\ Goto(p, "list.get")
       \/ /\ ConnFails
          /\ job' = [job EXCEPT ![p].lost = TRUE, ![p].todo = @ \ {t}]
          /\ UNCHANGED <<pc, grant>>
  /\ UNCHANGED <<row, vm, told>>

\* A VM that cannot be got is listed by its name.
ListVM_get(p) ==
  /\ At(p, "list.get")
  /\ Lock!Release(p)
  /\ job' = [job EXCEPT ![p].row = None]
  /\ Goto(p, "list.each")
  /\ UNCHANGED <<row, vm, told>>

\* ListVM receives one result from each.
ListVM_end(p) ==
  /\ At(p, "list.each") /\ job[p].todo = {} /\ ~job[p].lost
  /\ Answer(p, "ok") /\ Reads

ListVM(p) == ListVM_rows(p) \/ ListVM_start(p) \/ ListVM_get(p) \/ ListVM_end(p)

-----------------------------------------------------------------------------
(* DeleteVM and DeleteCSPResource.                                         *)

\* An error ends the call unless it is forced; "not found" forces it.
DeleteVM_terminate(p) ==
  /\ At(p, "delete.terminate")
  /\ \E out \in Outcomes(job[p].row) :
       /\ Terminates(job[p].row, out)
       /\ IF out \in {"ok", "notfound"} \/ job[p].force # "no"
          THEN /\ job' = [job EXCEPT ![p].force = IF @ = "no" /\ out = "notfound" THEN "notfound" ELSE @,
                                     ![p].polls = Polls]
               /\ Goto(p, "delete.wait")
          ELSE Answer(p, "error")
  /\ UNCHANGED <<row, told, grant>>

\* Faulty: an unforced delete whose time is up answers as if all was well.
FaultyDeleteVM_wait(p) ==
  /\ At(p, "delete.wait") /\ Reads
  /\ \/ /\ \/ vm[job[p].row] \in {"none", "terminated"} \/ "failed" \in CSPFaults
           \/ job[p].force # "no" /\ CSPFaults # {}
        /\ Goto(p, "delete.row") /\ UNCHANGED job
     \/ job[p].force = "no" /\ CSPError(p)
     \/ /\ vm[job[p].row] \in Alive \cup {"terminating"} /\ job[p].polls > 0
        /\ job' = [job EXCEPT ![p].polls = @ - 1] /\ UNCHANGED pc
     \/ /\ vm[job[p].row] \in Alive \cup {"terminating"} /\ job[p].polls = 0 /\ job[p].force = "no"
        /\ Answer(p, "ok")

\* The status is asked for until the VM is gone or terminated.  The status
\* Failed with an error counts as gone, and so does any error of a forced
\* delete.  When the time is up an unforced delete gives up; a forced one has no
\* branch for it and asks on.
DeleteVM_wait(p) ==
  /\ At(p, "delete.wait") /\ Reads
  /\ \/ /\ \/ vm[job[p].row] \in {"none", "terminated"} \/ "failed" \in CSPFaults
           \/ job[p].force # "no" /\ CSPFaults # {}
        /\ Goto(p, "delete.row") /\ UNCHANGED job
     \/ job[p].force = "no" /\ CSPError(p)
     \/ /\ vm[job[p].row] \in Alive \cup {"terminating"} /\ job[p].polls > 0
        /\ job' = [job EXCEPT ![p].polls = @ - 1] /\ UNCHANGED pc
     \/ /\ vm[job[p].row] \in Alive \cup {"terminating"} /\ job[p].polls = 0 /\ job[p].force = "no"
        /\ Answer(p, "error")

\* A delete that the caller or "not found" forced does not mind the row.
DeleteVM_row(p) ==
  /\ At(p, "delete.row")
  /\ \/ row' = [row EXCEPT ![job[p].name] = None] /\ Answer(p, "ok") /\ UNCHANGED told
     \/ /\ DBFails /\ job[p].force = "no"
        /\ Answer(p, "error") /\ UNCHANGED <<row, told>>
     \/ /\ DBFails /\ job[p].force # "no"
        /\ Answer(p, "ok") /\ told' = told \cup {<<job[p].row, "row">>} /\ UNCHANGED row
  /\ UNCHANGED <<vm, grant>>

DeleteVM(p) == ReadRow(p, "DeleteVM", "delete.terminate") \/ DeleteVM_terminate(p)
               \/ DeleteVM_wait(p) \/ DeleteVM_row(p)

\* DeleteCSPResource: any VM by its id, without lock and row.
DeleteCSPVM(p) ==
  /\ At(p, "DeleteCSPVM")
  /\ \E out \in Outcomes(job[p].id) :
       Terminates(job[p].id, out) /\ Answer(p, IF out = "ok" THEN "ok" ELSE "error")
  /\ UNCHANGED <<row, told, grant>>

-----------------------------------------------------------------------------
Work(p) == StartVM(p) \/ RegisterVM(p) \/ UnregisterVM(p) \/ GetVM(p) \/ GetVMStatus(p) \/ ControlVM(p)
           \/ ListVM(p) \/ DeleteVM(p) \/ DeleteCSPVM(p) \/ Return(p)

Next == (\E p \in Procs : Begin(p) \/ TakeLock(p) \/ Work(p)) \/ (\E id \in Ids : Progress(id))

Spec == Init /\ [][Next]_vmVars

\* A goroutine that can go on does, one whose lock is free again and again gets it
\* (LockReturns of SPLock.tla), and the CSP ends what it has begun.
FairSpec ==
  /\ Spec
  /\ \A p \in Procs : WF_vmVars(Work(p)) /\ SF_vmVars(TakeLock(p) \/ ListVM_start(p))
  /\ \A id \in Ids : WF_vmVars(Progress(id))

-----------------------------------------------------------------------------
Labels == {"idle", "lock", "done",
  "StartVM", "start.csp", "start.access", "start.insert", "start.undo",
  "RegisterVM", "register.csp", "register.insert", "UnregisterVM", "unregister.delete",
  "GetVM", "get.csp", "GetVMStatus", "status.poll", "ControlVM", "control.csp",
  "ListVM", "list.each", "list.get",
  "DeleteVM", "delete.terminate", "delete.wait", "delete.row", "DeleteCSPVM"}

Jobs == [op : AllOps \cup {"none"}, name : Names \cup {None}, id : Ids \cup {None},
         force : {"no", "asked", "notfound"},
         row : Ids \cup {None}, made : Ids \cup {None}, polls : Nat,
         todo : SUBSET (Names \X Ids), lost : BOOLEAN, resp : {"none", "ok", "error"}]

\* The values of the variables; nothing is done to a VM whose id was not read or
\* returned.
TypeOK ==
  /\ row \in [Names -> Ids \cup {None}]
  /\ vm \in [Ids -> Statuses \cup {"none"}]
  /\ told \subseteq Ids \X Kinds
  /\ grant \in [Procs -> (Names \X {"R", "W"}) \cup {None}]
  /\ pc \in [Procs -> Labels] /\ job \in [Procs -> Jobs]
  /\ \A p \in Procs :
       pc[p] \in {"get.csp", "status.poll", "control.csp", "unregister.delete", "delete.terminate",
                  "delete.wait"} => job[p].row \in Ids
  /\ \A p \in Procs : pc[p] \in {"start.access", "start.insert", "start.undo"} => job[p].made \in Ids

\* A VM that runs, and costs, has a row, or the call that makes it has still to
\* insert it, unless a caller was told or asked for it: StartVM takes back what it
\* cannot record, and DeleteVM, unless forced, removes the row of a VM that has ended.
VMsAreKnown ==
  \A id \in Ids :
    vm[id] \in Alive => \/ <<id, "vm">> \in told
                        \/ \E n \in Names : row[n] = id
                        \/ \E p \in Procs : job[p].made = id
                                              \/ (job[p].op \in {"DeleteVM", "UnregisterVM"} /\ job[p].row = id)

\* A delete of the VM is under way, or has failed and not yet returned.
Ending(id) ==
  \E p \in Procs : \/ job[p].op = "DeleteVM" /\ job[p].row = id /\ job[p].resp # "ok"
                   \/ job[p].op = "DeleteCSPVM" /\ job[p].id = id

\* A row whose VM is gone is that of a delete under way or of one that failed, or
\* RegisterVM took it in doubt: a delete that removes its row leaves no other row of
\* the VM.  (One that failed may have answered "true", see DeleteRemovesRow.)
RowsHaveVMs ==
  \A n \in Names : row[n] # None /\ vm[row[n]] = "none" => <<row[n], "row">> \in told \/ Ending(row[n])

\* GetVM and ControlVM, which read the row under the read lock, ask for a VM that
\* the CSP has, unless its row is in doubt: no DeleteVM is between its two steps.
\* (ListVM reads the rows first: it may list a VM that was deleted meanwhile.)
ReadersFindVM ==
  \A p \in Procs :
    pc[p] \in {"get.csp", "control.csp"} /\ vm[job[p].row] = "none" =>
      <<job[p].row, "row">> \in told \/ \E q \in Procs : job[q].op = "DeleteCSPVM" /\ job[q].id = job[p].row

\* Not so, and no run checks it: DeleteVM that answers "true" has removed the row.
\* When it was forced, or "not found" forced it, it ignores that the row stays.
DeleteRemovesRow ==
  \A p \in Procs : At(p, "done") /\ job[p].op = "DeleteVM" /\ job[p].resp = "ok" => row[job[p].name] = None

\* The calls that may never return: StartVM while the VM it made is not found, a
\* forced delete of a VM that stays, ListVM when a goroutine gave up in silence.
NeverReturns(p) ==
  \/ At(p, "start.access") /\ vm[job[p].made] = "none"
  \/ At(p, "delete.wait") /\ job[p].force # "no" /\ job[p].polls = 0
  \/ At(p, "list.each") /\ job[p].todo = {} /\ job[p].lost

\* Every call returns, unless one of those three holds it up, or holds the lock
\* that it waits for.
CallsReturn ==
  (\A p \in Procs : []<>At(p, "idle")) \/ <>[](\E p \in Procs : NeverReturns(p))
=============================================================================
