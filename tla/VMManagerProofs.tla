--------------------------- MODULE VMManagerProofs ---------------------------
(***************************************************************************)
(* The VM manager, for any number of goroutines, names and VMs, whatever   *)
(* fails: VMs and rows agree, and the readers find their VM.               *)
(*                                                                         *)
(* The inductive invariant IInv says what each goroutine knows of the      *)
(* tables from the lock it holds (Knows): from its read of the row until   *)
(* its answer, the row of the name is the one it read.  That rests on      *)
(* Exclusive, and on OneRow: a VM has two rows, or a row and a call that   *)
(* will record it, only if RegisterVM took it in doubt.                    *)
(***************************************************************************)
EXTENDS VMManager, TLAPS

\* Where a call has made a VM, has found the name free, has read the row.
MadePcs == {"start.access", "start.insert", "start.undo"}
FreePcs == {"start.csp", "register.csp", "register.insert"} \cup MadePcs
DeletePcs == {"delete.terminate", "delete.wait", "delete.row"}
RowPcs == {"unregister.delete", "get.csp", "control.csp"} \cup DeletePcs

\* Where it holds the lock of its name, for writing and for reading.
WritePcs == {"StartVM", "RegisterVM", "UnregisterVM", "unregister.delete", "DeleteVM"} \cup FreePcs \cup DeletePcs
ReadPcs == {"GetVM", "get.csp", "ControlVM", "control.csp"}

\* The step fits the call, and the call its arguments.
OwnOp(p) ==
  /\ pc[p] \in {"StartVM", "start.csp"} \cup MadePcs => job[p].op = "StartVM"
  /\ pc[p] \in {"RegisterVM", "register.csp", "register.insert"} => job[p].op = "RegisterVM"
  /\ pc[p] \in {"UnregisterVM", "unregister.delete"} => job[p].op = "UnregisterVM"
  /\ pc[p] \in {"GetVM", "get.csp"} => job[p].op = "GetVM"
  /\ pc[p] \in {"ControlVM", "control.csp"} => job[p].op = "ControlVM"
  /\ pc[p] \in {"GetVMStatus", "status.poll"} => job[p].op = "GetVMStatus"
  /\ pc[p] \in {"ListVM", "list.each", "list.get"} => job[p].op = "ListVM"
  /\ pc[p] = "DeleteCSPVM" => job[p].op = "DeleteCSPVM"
  /\ pc[p] \in {"DeleteVM"} \cup DeletePcs => job[p].op = "DeleteVM"
  /\ pc[p] = "lock" => job[p].op \in AllOps \ Lockless
  /\ pc[p] \in {"lock"} \cup AllOps => job[p].row = None
  /\ pc[p] = "idle" => job[p] = NoJob
  /\ job[p].op \in AllOps \ {"ListVM", "DeleteCSPVM"} => job[p].name \in Names
  /\ job[p].op = "RegisterVM" => job[p].id \in Ids
  /\ job[p].op = "DeleteCSPVM" => job[p].id \in Ids /\ job[p].row = None
  /\ job[p].op \notin {"RegisterVM", "DeleteCSPVM"} => job[p].id = None
  /\ job[p].op = "DeleteVM" => pc[p] \in {"lock", "DeleteVM", "done"} \cup DeletePcs
  /\ job[p].op = "UnregisterVM" => pc[p] \in {"lock", "UnregisterVM", "unregister.delete", "done"}
  /\ job[p].made # None => pc[p] \in MadePcs
  /\ pc[p] \in {"lock", "DeleteVM", "delete.terminate"} => job[p].force # "notfound"
  /\ IF pc[p] = "done" THEN job[p].resp \in {"ok", "error"} ELSE job[p].resp = "none"

Removing(p) == job[p].op \in {"DeleteVM", "UnregisterVM"} /\ pc[p] = "done"

Holds(p) ==
  /\ pc[p] \in WritePcs \/ Removing(p) => grant[p] = <<job[p].name, "W">>
  /\ pc[p] \in ReadPcs => grant[p] = <<job[p].name, "R">>

Exclusive ==
  \A p, q \in Procs :
    p # q /\ grant[p] # None /\ grant[q] # None => ~Lock!Conflict(grant[p], grant[q])

\* What a goroutine knows of the row of its name, and of the VM it deletes.
Knows(p) ==
  /\ pc[p] \in FreePcs => row[job[p].name] = None
  /\ pc[p] \in RowPcs => row[job[p].name] = job[p].row /\ job[p].row \in Ids
  /\ pc[p] \in {"delete.wait", "delete.row"} => job[p].force = "asked" \/ vm[job[p].row] \notin Alive
  /\ Removing(p) /\ job[p].resp = "error" /\ job[p].row # None => row[job[p].name] = job[p].row
  /\ Removing(p) /\ job[p].resp = "ok" =>
       job[p].row \in Ids /\ (job[p].op = "UnregisterVM" \/ job[p].force = "asked" \/ vm[job[p].row] \notin Alive)

Places == \A p \in Procs : OwnOp(p) /\ Holds(p) /\ Knows(p)

\* RegisterVM took it in doubt, or a delete of it failed.
InDoubt(id) == <<id, "row">> \in told

\* A VM has at most one row, or one call that will record it, unless it is in doubt.
OneRow ==
  /\ \A n, m \in Names : row[n] = row[m] /\ row[n] # None /\ ~InDoubt(row[n]) => n = m
  /\ \A p \in Procs : Claim(p) # None /\ ~InDoubt(Claim(p)) =>
       /\ \A n \in Names : row[n] # Claim(p)
       /\ \A q \in Procs : q # p => Claim(q) # Claim(p)

Used(id) == (\E n \in Names : row[n] = id) \/ (\E p \in Procs : Claim(p) = id)

\* A VM that has a row, or is to have one, runs, unless it is in doubt or a call is
\* deleting it.
UsedRuns == \A id \in Ids : Used(id) /\ vm[id] \notin Alive => InDoubt(id) \/ Ending(id)

Tables == Exclusive /\ OneRow /\ UsedRuns /\ VMsAreKnown

IInv == TypeOK /\ Places /\ Tables

-----------------------------------------------------------------------------
(* Steps of a goroutine p.                                                 *)

\* The other goroutines stay where they are.
OthersKeep(p) ==
  \A q \in Procs \ {p} : pc'[q] = pc[q] /\ job'[q] = job[q] /\ grant'[q] = grant[q]

\* The call goes on, or is answered: it keeps its arguments, and the row it has read
\* (ListVM reads one after another); or it begins.
SameCall(p) ==
  \/ job[p].op = "none"
  \/ /\ job'[p].op = job[p].op /\ job'[p].name = job[p].name /\ job'[p].id = job[p].id
     /\ job'[p].row = job[p].row \/ job[p].row = None \/ job[p].op = "ListVM"
     /\ job'[p].resp = "ok" /\ job[p].op = "DeleteVM" => InDoubt(job[p].row)'

\* No VM starts, and what ends is in doubt, or being deleted, or not used.
NoneStarts ==
  /\ told \subseteq told'
  /\ \A id \in Ids : vm'[id] \in Alive => vm[id] \in Alive
  /\ \A id \in Ids : vm[id] \in Alive /\ vm'[id] \notin Alive =>
       InDoubt(id)' \/ Ending(id)' \/ ~Used(id)'

\* The VM that the call made is still in its hands, or told, or ended; and the call
\* is about to record no other VM.
KeepsMade(p) ==
  /\ \/ job'[p].made = job[p].made
     \/ /\ job'[p].made = None
        /\ job[p].made = None \/ <<job[p].made, "vm">> \in told' \/ vm'[job[p].made] \notin Alive
  /\ Claim(p)' \in {Claim(p), None}

\* The initial state satisfies the inductive invariant.
LEMMA InitIInv == Init => IInv
<1> SUFFICES ASSUME Init PROVE IInv
  OBVIOUS
<1>1. NoJob \in Jobs
  BY DEF NoJob, Jobs
<1>2. TypeOK
  BY <1>1, VMAssumption DEF Init, TypeOK, Labels, Statuses, Kinds
<1>3. Places
  BY DEF Init, Places, OwnOp, Holds, Knows, Removing, NoJob, AllOps, MadePcs, FreePcs, DeletePcs,
         RowPcs, WritePcs, ReadPcs
<1>4. Tables
  <2>1. Exclusive /\ OneRow
    BY DEF Init, Exclusive, OneRow, Claim, At, NoJob
  <2>2. UsedRuns /\ VMsAreKnown
    BY VMAssumption DEF Init, UsedRuns, Used, VMsAreKnown, Claim, At, NoJob, Alive
  <2> QED
    BY <2>1, <2>2 DEF Tables
<1> QED
  BY <1>2, <1>3, <1>4 DEF IInv

\* A step that changes no row and starts no VM: it remains to look at the goroutine
\* that makes it.
LEMMA Quiet ==
  ASSUME IInv, NEW p \in Procs, TypeOK', row' = row, OthersKeep(p), SameCall(p), NoneStarts,
         KeepsMade(p), Exclusive', OwnOp(p)', Holds(p)', Knows(p)'
  PROVE  IInv'
<1> USE DEF IInv, Tables, OthersKeep, SameCall, NoneStarts, KeepsMade
<1>0. None \notin Ids
  BY VMAssumption
<1>1. \A q \in Procs : job'[q].made \in {job[q].made, None} /\ Claim(q)' \in {Claim(q), None}
  BY DEF Claim, At
<1>2. \A id : InDoubt(id) => InDoubt(id)'
  BY DEF InDoubt
<1>3. Places'
  <2> SUFFICES ASSUME NEW q \in Procs, q # p PROVE OwnOp(q)' /\ Holds(q)' /\ Knows(q)'
    BY DEF Places
  <2>1. OwnOp(q)' /\ Holds(q)'
    BY DEF Places, OwnOp, Holds, Removing
  <2>2. job'[q] = job[q] /\ pc'[q] = pc[q]
    OBVIOUS
  <2>3. job[q].row \in Ids \cup {None}
    BY DEF TypeOK, Jobs
  <2>4. job[q].row \in Ids /\ vm'[job[q].row] \in Alive => vm[job[q].row] \in Alive
    OBVIOUS
  <2>5. Knows(q)'
    BY <1>0, <2>2, <2>3, <2>4 DEF Places, Knows, Removing, RowPcs, DeletePcs
  <2> QED
    BY <2>1, <2>5
<1>4. OneRow'
  <2>1. \A n, m \in Names : row[n] = row[m] /\ row[n] # None /\ ~InDoubt(row[n])' => n = m
    BY <1>2 DEF OneRow
  <2>2. ASSUME NEW q \in Procs, Claim(q)' # None, ~InDoubt(Claim(q))'
        PROVE  /\ \A n \in Names : row[n] # Claim(q)'
               /\ \A o \in Procs : o # q => Claim(o)' # Claim(q)'
    BY <1>1, <1>2, <2>2 DEF OneRow
  <2> QED
    BY <2>1, <2>2 DEF OneRow
<1>5. UsedRuns'
  <2> SUFFICES ASSUME NEW id \in Ids, Used(id)', vm'[id] \notin Alive
               PROVE  InDoubt(id)' \/ Ending(id)'
    BY DEF UsedRuns
  <2>1. Used(id)
    BY <1>0, <1>1 DEF Used
  <2>2. CASE vm[id] \in Alive
    BY <2>2
  <2>3. CASE vm[id] \notin Alive /\ InDoubt(id)
    BY <1>2, <2>3
  <2>4. CASE Ending(id)
    <3>1. PICK q \in Procs : \/ job[q].op = "DeleteVM" /\ job[q].row = id /\ job[q].resp # "ok"
                             \/ job[q].op = "DeleteCSPVM" /\ job[q].id = id
      BY <2>4 DEF Ending
    <3>2. \/ job'[q].op = "DeleteVM" /\ job'[q].row = id /\ job'[q].resp # "ok"
          \/ job'[q].op = "DeleteCSPVM" /\ job'[q].id = id
          \/ InDoubt(id)'
      BY <1>0, <3>1
    <3> QED
      BY <3>2 DEF Ending
  <2> QED
    BY <2>1, <2>2, <2>3, <2>4 DEF UsedRuns
<1>6. VMsAreKnown'
  <2> SUFFICES ASSUME NEW id \in Ids, <<id, "vm">> \notin told', vm'[id] \in Alive
               PROVE  \/ \E n \in Names : row'[n] = id
                      \/ \E q \in Procs : job'[q].made = id \/ (job'[q].op \in {"DeleteVM", "UnregisterVM"} /\ job'[q].row = id)
    BY DEF VMsAreKnown
  <2>1. CASE \E n \in Names : row[n] = id
    BY <2>1
  <2>2. ASSUME NEW q \in Procs, job[q].made = id PROVE job'[q].made = id
    BY <2>2, VMAssumption
  <2>3. ASSUME NEW q \in Procs, job[q].op \in {"DeleteVM", "UnregisterVM"}, job[q].row = id
        PROVE  job'[q].op \in {"DeleteVM", "UnregisterVM"} /\ job'[q].row = id
    BY <2>3, VMAssumption
  <2> QED
    BY <2>1, <2>2, <2>3 DEF VMsAreKnown
<1> QED
  BY <1>3, <1>4, <1>5, <1>6

-----------------------------------------------------------------------------
(* The call is answered.                                                   *)

\* What Answer does to the goroutine and to its call.
LEMMA Answered ==
  ASSUME TypeOK, NEW p \in Procs, NEW r \in {"ok", "error"}, Answer(p, r)
  PROVE  /\ pc' \in [Procs -> Labels] /\ job' \in [Procs -> Jobs]
         /\ \A q \in Procs \ {p} : pc'[q] = pc[q] /\ job'[q] = job[q]
         /\ pc'[p] = "done" /\ job'[p].resp = r /\ job'[p].made = None
         /\ job'[p].op = job[p].op /\ job'[p].name = job[p].name /\ job'[p].id = job[p].id
         /\ job'[p].force = job[p].force /\ job'[p].row = job[p].row
<1> DEFINE j == [NoJob EXCEPT !.op = job[p].op, !.name = job[p].name, !.id = job[p].id,
                              !.force = job[p].force, !.row = job[p].row, !.resp = r]
<1>1. job' = [job EXCEPT ![p] = j] /\ pc' = [pc EXCEPT ![p] = "done"]
  BY DEF Answer, Goto
<1>2. job[p] \in Jobs /\ job \in [Procs -> Jobs] /\ pc \in [Procs -> Labels]
  BY DEF TypeOK
<1>3. j \in Jobs
  <2>1. /\ job[p].op \in AllOps \cup {"none"} /\ job[p].name \in Names \cup {None}
        /\ job[p].id \in Ids \cup {None} /\ job[p].force \in {"no", "asked", "notfound"} /\ job[p].row \in Ids \cup {None}
    BY <1>2 DEF Jobs
  <2> DEFINE k == [NoJob EXCEPT !.op = job[p].op, !.name = job[p].name, !.id = job[p].id]
  <2>2. k \in Jobs
    BY <2>1 DEF Jobs, NoJob
  <2>3. j = [k EXCEPT !.force = job[p].force, !.row = job[p].row, !.resp = r]
    OBVIOUS
  <2> HIDE DEF j, k
  <2> QED
    BY <2>1, <2>2, <2>3 DEF Jobs
<1>4. /\ j.resp = r /\ j.made = None /\ j.op = job[p].op /\ j.name = job[p].name
      /\ j.id = job[p].id /\ j.force = job[p].force /\ j.row = job[p].row
  BY DEF NoJob
<1> HIDE DEF j
<1> QED
  BY <1>1, <1>2, <1>3, <1>4 DEF Labels

\* An answer that leaves the rows and the locks alone keeps the invariant.
LEMMA AnswerKeeps ==
  ASSUME IInv, NEW p \in Procs, NEW r \in {"ok", "error"}, Answer(p, r),
         pc[p] \notin {"idle", "lock", "done"}, row' = row, grant' = grant,
         vm' \in [Ids -> Statuses \cup {"none"}], told' \subseteq Ids \X Kinds, NoneStarts,
         job[p].made = None \/ <<job[p].made, "vm">> \in told' \/ vm'[job[p].made] \notin Alive,
         r = "error" \/ job[p].op \notin {"DeleteVM", "UnregisterVM"} \/ (pc[p] = "delete.row" /\ InDoubt(job[p].row)')
  PROVE  IInv'
<1>1. TypeOK
  BY DEF IInv
<1>2. /\ pc' \in [Procs -> Labels] /\ job' \in [Procs -> Jobs]
      /\ \A q \in Procs \ {p} : pc'[q] = pc[q] /\ job'[q] = job[q]
      /\ pc'[p] = "done" /\ job'[p].resp = r /\ job'[p].made = None
      /\ job'[p].op = job[p].op /\ job'[p].name = job[p].name /\ job'[p].id = job[p].id
      /\ job'[p].force = job[p].force /\ job'[p].row = job[p].row
  BY <1>1, Answered
<1>3. TypeOK'
  BY <1>1, <1>2 DEF TypeOK
<1>4. OthersKeep(p) /\ SameCall(p) /\ KeepsMade(p) /\ Exclusive'
  BY <1>2 DEF OthersKeep, SameCall, KeepsMade, Claim, At, IInv, Tables, Exclusive
<1>5. OwnOp(p) /\ Holds(p) /\ Knows(p)
  BY DEF IInv, Places
<1>6. OwnOp(p)'
  BY <1>2, <1>5 DEF OwnOp, MadePcs, DeletePcs, AllOps, Lockless, NoJob
<1>7. /\ job[p].op = "DeleteVM" => pc[p] \in {"DeleteVM"} \cup DeletePcs
      /\ job[p].op = "UnregisterVM" => pc[p] \in {"UnregisterVM", "unregister.delete"}
  BY <1>5 DEF OwnOp
<1>8. Holds(p)'
  BY <1>2, <1>5, <1>7 DEF Holds, Removing, WritePcs, ReadPcs, FreePcs, MadePcs, DeletePcs
<1>9. Knows(p)'
  <2>1. Removing(p)' /\ r = "error" /\ job[p].row # None => row[job[p].name] = job[p].row
    BY <1>2, <1>5, <1>7 DEF Knows, OwnOp, Removing, RowPcs, DeletePcs, AllOps
  <2>2. ASSUME Removing(p)', r = "ok"
        PROVE  job[p].row \in Ids /\ (job[p].force = "asked" \/ vm'[job[p].row] \notin Alive)
    <3>1. pc[p] = "delete.row"
      BY <1>2, <2>2 DEF Removing
    <3>2. job[p].row \in Ids /\ (job[p].force = "asked" \/ vm[job[p].row] \notin Alive)
      BY <1>5, <3>1 DEF Knows, RowPcs, DeletePcs
    <3> QED
      BY <3>2 DEF NoneStarts
  <2>3. pc'[p] \notin RowPcs \cup FreePcs \cup {"delete.wait", "delete.row"}
    BY <1>2 DEF RowPcs, FreePcs, MadePcs, DeletePcs
  <2> HIDE DEF RowPcs, FreePcs
  <2>4. Removing(p)' /\ job'[p].resp = "error" /\ job'[p].row # None => row'[job'[p].name] = job'[p].row
    BY <1>2, <2>1
  <2>5. Removing(p)' /\ job'[p].resp = "ok" =>
          job'[p].row \in Ids /\ (job'[p].op = "UnregisterVM" \/ job'[p].force = "asked" \/ vm'[job'[p].row] \notin Alive)
    BY <1>2, <2>2
  <2> QED
    BY <2>3, <2>4, <2>5 DEF Knows
<1> QED
  BY <1>3, <1>4, <1>6, <1>8, <1>9, Quiet

\* So does an answer that has only read.
LEMMA ReadAnswer ==
  ASSUME IInv, NEW p \in Procs, NEW r \in {"ok", "error"}, Answer(p, r), Reads,
         pc[p] \notin {"idle", "lock", "done"} \cup MadePcs,
         r = "error" \/ job[p].op \notin {"DeleteVM", "UnregisterVM"}
  PROVE  IInv'
<1>1. TypeOK /\ OwnOp(p)
  BY DEF IInv, Places
<1>2. job[p].made = None
  BY <1>1 DEF OwnOp
<1>3. NoneStarts
  BY DEF NoneStarts, Reads
<1> QED
  BY <1>1, <1>2, <1>3, AnswerKeeps DEF Reads, TypeOK

-----------------------------------------------------------------------------
(* Steps that change neither rows nor VMs.                                 *)

\* A step that only reads and goes on, perhaps with the row or the polls changed.
LEMMA MoveKeeps ==
  ASSUME IInv, NEW p \in Procs, NEW l \in Labels, NEW j \in Jobs,
         pc' = [pc EXCEPT ![p] = l], job' = [job EXCEPT ![p] = j], Reads,
         j.op = job[p].op, j.name = job[p].name, j.id = job[p].id, j.made = job[p].made,
         j.row = job[p].row \/ job[p].row = None \/ job[p].op = "ListVM",
         l \in RowPcs \cup {"status.poll"} => j.row \in Ids, l \in MadePcs => j.made \in Ids,
         l \notin {"register.insert", "done"},
         OwnOp(p)', Holds(p)', Knows(p)'
  PROVE  IInv'
<1>1. TypeOK
  BY DEF IInv
<1>2. /\ pc' \in [Procs -> Labels] /\ job' \in [Procs -> Jobs] /\ pc'[p] = l /\ job'[p] = j
      /\ \A q \in Procs \ {p} : pc'[q] = pc[q] /\ job'[q] = job[q]
  BY <1>1 DEF TypeOK
<1>3. TypeOK'
  BY <1>1, <1>2 DEF TypeOK, Reads, RowPcs, DeletePcs, MadePcs
<1>4. OthersKeep(p) /\ SameCall(p) /\ KeepsMade(p) /\ NoneStarts /\ Exclusive' /\ row' = row
  <2>1. job'[p].resp # "ok" /\ Claim(p)' = job[p].made /\ Claim(p) \in {job[p].made, None, job[p].id}
    BY <1>2 DEF OwnOp, Claim, At
  <2>2. pc[p] = "register.insert" => job[p].made = None
    BY DEF IInv, Places, OwnOp, MadePcs
  <2>3. Claim(p)' \in {Claim(p), None}
    BY <2>1, <2>2 DEF Claim, At
  <2> QED
    BY <1>2, <2>1, <2>3 DEF OthersKeep, SameCall, KeepsMade, NoneStarts, Reads, IInv, Tables, Exclusive
<1> QED
  BY <1>3, <1>4, Quiet

\* The read of a row at the start of a call.
LEMMA ReadRowStep ==
  ASSUME IInv, NEW p \in Procs, NEW op, NEW next, ReadRow(p, op, next),
         \/ op = "UnregisterVM" /\ next = "unregister.delete"
         \/ op = "GetVM" /\ next = "get.csp"
         \/ op = "GetVMStatus" /\ next = "status.poll"
         \/ op = "ControlVM" /\ next = "control.csp"
         \/ op = "DeleteVM" /\ next = "delete.terminate"
  PROVE  IInv'
<1>1. TypeOK /\ OwnOp(p) /\ Holds(p) /\ Knows(p)
  BY DEF IInv, Places
<1>2. pc[p] = op /\ op \in AllOps /\ next \in Labels /\ job[p].op = op /\ job[p].name \in Names
  BY <1>1 DEF ReadRow, At, AllOps, Labels, OwnOp
<1>3. CASE row[job[p].name] # None /\ job' = [job EXCEPT ![p].row = row[job[p].name]]
           /\ Goto(p, next) /\ Reads
  <2> DEFINE j == [job[p] EXCEPT !.row = row[job[p].name]]
  <2>1. row[job[p].name] \in Ids /\ job[p] \in Jobs
    BY <1>1, <1>2, <1>3 DEF TypeOK
  <2>2. /\ j \in Jobs /\ j.row = row[job[p].name] /\ j.op = job[p].op /\ j.name = job[p].name
        /\ j.id = job[p].id /\ j.made = job[p].made /\ j.resp = job[p].resp /\ j.force = job[p].force
    BY <2>1 DEF Jobs
  <2>3. job' = [job EXCEPT ![p] = j] /\ job'[p] = j /\ pc' = [pc EXCEPT ![p] = next] /\ pc'[p] = next
    BY <1>1, <1>3 DEF Goto, TypeOK
  <2> HIDE DEF j
  <2>4. job[p].row = None
    BY <1>1, <1>2 DEF OwnOp
  <2>5. OwnOp(p)'
    BY <1>1, <1>2, <2>2, <2>3 DEF OwnOp, MadePcs, DeletePcs, AllOps, Lockless
  <2>6. Holds(p)'
    BY <1>1, <1>2, <1>3, <2>2, <2>3 DEF Holds, Removing, WritePcs, ReadPcs, FreePcs, MadePcs, DeletePcs, Reads
  <2>7. Knows(p)'
    BY <1>2, <1>3, <2>1, <2>2, <2>3 DEF Knows, Removing, RowPcs, FreePcs, MadePcs, DeletePcs, Reads
  <2> QED
    BY <1>2, <1>3, <2>1, <2>2, <2>3, <2>4, <2>5, <2>6, <2>7, MoveKeeps DEF MadePcs
<1>4. CASE Answer(p, "error") /\ Reads
  BY <1>2, <1>4, ReadAnswer DEF AllOps, MadePcs
<1> QED
  BY <1>3, <1>4 DEF ReadRow, DBError

\* A step of a label only, the call and the tables unchanged.
LEMMA GotoKeeps ==
  ASSUME IInv, NEW p \in Procs, NEW l \in Labels, Goto(p, l), UNCHANGED job, Reads,
         l \in RowPcs \cup {"status.poll"} => job[p].row \in Ids, l \in MadePcs => job[p].made \in Ids,
         l \notin {"register.insert", "done"},
         OwnOp(p)', Holds(p)', Knows(p)'
  PROVE  IInv'
<1>1. job[p] \in Jobs /\ job' = [job EXCEPT ![p] = job[p]] /\ pc' = [pc EXCEPT ![p] = l]
  BY DEF IInv, TypeOK, Goto
<1> QED
  BY <1>1, MoveKeeps

\* A call takes its lock.
LEMMA TakeLockStep ==
  ASSUME IInv, NEW p \in Procs, TakeLock(p)
  PROVE  IInv'
<1>1. TypeOK /\ OwnOp(p) /\ Holds(p) /\ Knows(p) /\ Exclusive
  BY DEF IInv, Places, Tables
<1>2. pc[p] = "lock" /\ job[p].op \in AllOps \ Lockless /\ job[p].name \in Names /\ job[p].row = None
  BY <1>1 DEF TakeLock, At, OwnOp, Lockless
<1> DEFINE g == <<job[p].name, LockKind(p)>>
<1>3. g \in Names \X {"R", "W"} /\ g # None /\ g[1] = job[p].name /\ g[2] = LockKind(p)
  BY <1>2, VMAssumption DEF LockKind
<1>4. LockKind(p) = IF job[p].op \in {"GetVM", "ControlVM"} THEN "R" ELSE "W"
  BY DEF LockKind
<1>5. /\ grant[p] = None /\ grant' = [grant EXCEPT ![p] = g]
      /\ \A q \in Procs : grant[q] # None => ~Lock!Conflict(grant[q], g)
      /\ pc' = [pc EXCEPT ![p] = job[p].op] /\ UNCHANGED <<row, vm, told, job>>
  BY DEF TakeLock, Lock!Acquire, Goto
<1> HIDE DEF g
<1>6. TypeOK'
  BY <1>1, <1>2, <1>3, <1>5 DEF TypeOK, Labels, AllOps, Lockless
<1>7. /\ grant'[p] = g /\ pc'[p] = job[p].op
      /\ \A q \in Procs \ {p} : grant'[q] = grant[q] /\ pc'[q] = pc[q]
  BY <1>1, <1>5 DEF TypeOK
<1>8. Exclusive'
  BY <1>1, <1>3, <1>5, <1>7 DEF Exclusive, Lock!Conflict
<1>9. OthersKeep(p) /\ SameCall(p) /\ KeepsMade(p) /\ NoneStarts /\ row' = row
  <2>1. Claim(p)' = Claim(p)
    BY <1>2, <1>5, <1>7 DEF Claim, At, AllOps
  <2>2. job[p].resp # "ok"
    BY <1>1, <1>2 DEF OwnOp
  <2> QED
    BY <1>5, <1>7, <2>1, <2>2 DEF OthersKeep, SameCall, KeepsMade, NoneStarts
<1>10. OwnOp(p)'
  BY <1>1, <1>2, <1>5, <1>7 DEF OwnOp, MadePcs, DeletePcs, AllOps, Lockless
<1>11. Holds(p)'
  <2>1. grant'[p] = <<job'[p].name, LockKind(p)>>
    BY <1>5, <1>7 DEF g
  <2> QED
    BY <1>2, <1>4, <1>5, <1>7, <2>1 DEF Holds, Removing, WritePcs, ReadPcs, FreePcs, MadePcs, DeletePcs, AllOps, Lockless
<1>12. Knows(p)'
  BY <1>2, <1>5, <1>7 DEF Knows, Removing, RowPcs, FreePcs, MadePcs, DeletePcs, AllOps, Lockless
<1> QED
  BY <1>6, <1>8, <1>9, <1>10, <1>11, <1>12, Quiet

\* What TerminateVM of a driver does to the VMs.
LEMMA Terminating ==
  ASSUME TypeOK, NEW id \in Ids, NEW out, Terminates(id, out)
  PROVE  /\ vm' \in [Ids -> Statuses \cup {"none"}]
         /\ \A i \in Ids : vm'[i] \in Alive => vm[i] \in Alive
         /\ \A i \in Ids \ {id} : vm'[i] = vm[i]
         /\ out \in {"ok", "lost"} => vm'[id] \notin Alive
BY DEF TypeOK, Terminates, Statuses, Alive

\* The steps of StartVM that neither make a VM nor insert its row.
LEMMA StartSteps ==
  ASSUME IInv, NEW p \in Procs, StartVM_exists(p) \/ StartVM_access(p) \/ StartVM_undo(p)
  PROVE  IInv'
<1>1. TypeOK /\ OwnOp(p) /\ Holds(p) /\ Knows(p)
  BY DEF IInv, Places
<1>2. CASE StartVM_exists(p)
  <2>1. pc[p] = "StartVM" /\ job[p].op = "StartVM" /\ job[p].made = None
    BY <1>1, <1>2 DEF StartVM_exists, At, OwnOp, MadePcs
  <2>2. CASE row[job[p].name] = None /\ Goto(p, "start.csp") /\ Reads /\ UNCHANGED job
    <3>1. pc'[p] = "start.csp"
      BY <1>1, <2>2 DEF Goto, TypeOK
    <3>2. OwnOp(p)'
      BY <1>1, <2>1, <2>2, <3>1 DEF OwnOp, MadePcs, DeletePcs, AllOps, Lockless
    <3>3. Holds(p)'
      BY <1>1, <2>1, <2>2, <3>1 DEF Holds, Removing, WritePcs, ReadPcs, FreePcs, MadePcs, DeletePcs, Reads
    <3>4. Knows(p)'
      BY <2>1, <2>2, <3>1 DEF Knows, Removing, RowPcs, FreePcs, MadePcs, DeletePcs, Reads
    <3> QED
      BY <2>2, <3>2, <3>3, <3>4, GotoKeeps DEF Labels, RowPcs, DeletePcs, MadePcs
  <2>3. CASE Answer(p, "error") /\ Reads
    BY <2>1, <2>3, ReadAnswer DEF MadePcs
  <2> QED
    BY <1>2, <2>2, <2>3 DEF StartVM_exists, DBError
<1>3. CASE StartVM_access(p)
  <2>1. pc[p] = "start.access" /\ job[p].op = "StartVM" /\ job[p].made \in Ids
    BY <1>1, <1>3 DEF StartVM_access, At, OwnOp, MadePcs, TypeOK
  <2>2. CASE Goto(p, "start.insert") /\ Reads /\ UNCHANGED job
    <3>1. pc'[p] = "start.insert"
      BY <1>1, <2>2 DEF Goto, TypeOK
    <3>2. OwnOp(p)'
      BY <1>1, <2>1, <2>2, <3>1 DEF OwnOp, MadePcs, DeletePcs, AllOps, Lockless
    <3>3. Holds(p)'
      BY <1>1, <2>1, <2>2, <3>1 DEF Holds, Removing, WritePcs, ReadPcs, FreePcs, MadePcs, DeletePcs, Reads
    <3>4. Knows(p)'
      BY <1>1, <2>1, <2>2, <3>1 DEF Knows, Removing, RowPcs, FreePcs, MadePcs, DeletePcs, Reads
    <3> QED
      BY <2>1, <2>2, <3>2, <3>3, <3>4, GotoKeeps DEF Labels, RowPcs, DeletePcs
  <2>3. CASE job[p].polls > 0 /\ job' = [job EXCEPT ![p].polls = @ - 1] /\ Reads /\ UNCHANGED pc
    <3> DEFINE j == [job[p] EXCEPT !.polls = @ - 1]
    <3>1. /\ j \in Jobs /\ j.row = job[p].row /\ j.op = job[p].op /\ j.name = job[p].name
          /\ j.id = job[p].id /\ j.made = job[p].made /\ j.resp = job[p].resp
      <4>1. job[p] \in Jobs /\ job[p].polls - 1 \in Nat
        BY <1>1, <2>3 DEF TypeOK, Jobs
      <4> QED
        BY <4>1 DEF Jobs
    <3>2. /\ job' = [job EXCEPT ![p] = j] /\ job'[p] = j /\ pc' = [pc EXCEPT ![p] = "start.access"]
          /\ pc'[p] = "start.access"
      BY <1>1, <2>1, <2>3 DEF TypeOK
    <3> HIDE DEF j
    <3>3. OwnOp(p)'
      BY <1>1, <2>1, <3>1, <3>2 DEF OwnOp, MadePcs, DeletePcs, AllOps, Lockless
    <3>4. Holds(p)'
      BY <1>1, <2>1, <2>3, <3>1, <3>2 DEF Holds, Removing, WritePcs, ReadPcs, FreePcs, MadePcs, DeletePcs, Reads
    <3>5. Knows(p)'
      BY <1>1, <2>1, <2>3, <3>1, <3>2 DEF Knows, Removing, RowPcs, FreePcs, MadePcs, DeletePcs, Reads
    <3> QED
      BY <2>1, <2>3, <3>1, <3>2, <3>3, <3>4, <3>5, MoveKeeps DEF Labels, RowPcs, DeletePcs
  <2>4. CASE Answer(p, "error") /\ told' = told \cup {<<job[p].made, "vm">>} /\ UNCHANGED <<row, vm, grant>>
    <3>1. NoneStarts /\ told' \subseteq Ids \X Kinds
      BY <1>1, <2>1, <2>4 DEF NoneStarts, TypeOK, Kinds
    <3> QED
      BY <1>1, <2>1, <2>4, <3>1, AnswerKeeps DEF TypeOK
  <2> QED
    BY <1>3, <2>2, <2>3, <2>4 DEF StartVM_access
<1>4. CASE StartVM_undo(p)
  <2>1. pc[p] = "start.undo" /\ job[p].op = "StartVM" /\ job[p].made \in Ids
    BY <1>1, <1>4 DEF StartVM_undo, At, OwnOp, MadePcs, TypeOK
  <2> PICK id \in Ids : id = job[p].made
    BY <2>1
  <2>2. PICK out \in Outcomes(id) :
          Terminates(id, out) /\ told' = IF out = "ok" THEN told ELSE told \cup {<<id, "vm">>}
    BY <1>4 DEF StartVM_undo
  <2>3. Answer(p, "error") /\ UNCHANGED <<row, grant>>
    BY <1>4 DEF StartVM_undo
  <2>4. /\ vm' \in [Ids -> Statuses \cup {"none"}]
        /\ \A i \in Ids : vm'[i] \in Alive => vm[i] \in Alive
        /\ \A i \in Ids \ {id} : vm'[i] = vm[i]
        /\ out = "ok" => vm'[id] \notin Alive
    BY <1>1, <2>1, <2>2, Terminating
  <2>5. told' \subseteq Ids \X Kinds /\ (<<id, "vm">> \in told' \/ vm'[id] \notin Alive)
    BY <1>1, <2>1, <2>2, <2>4 DEF TypeOK, Kinds
  <2>6. InDoubt(id)' \/ ~Used(id)'
    <3>1. CASE InDoubt(id)
      BY <2>2, <3>1 DEF InDoubt
    <3>2. CASE ~InDoubt(id)
      <4>1. Claim(p) = id
        BY <2>1 DEF Claim, At
      <4>2. /\ \A n \in Names : row[n] # id
            /\ \A q \in Procs : q # p => Claim(q) # id
        BY <2>1, <3>2, <4>1, VMAssumption DEF IInv, Tables, OneRow
      <4>3. /\ job'[p].made = None /\ pc'[p] = "done"
            /\ \A q \in Procs \ {p} : job'[q] = job[q] /\ pc'[q] = pc[q]
        BY <1>1, <2>3, Answered
      <4>4. \A q \in Procs : Claim(q)' # id
        BY <2>1, <4>2, <4>3, VMAssumption DEF Claim, At
      <4> QED
        BY <2>3, <4>2, <4>4 DEF Used
    <3> QED
      BY <3>1, <3>2
  <2>7. NoneStarts
    BY <2>2, <2>4, <2>6 DEF NoneStarts
  <2> QED
    BY <2>1, <2>3, <2>4, <2>5, <2>7, AnswerKeeps
<1> QED
  BY <1>2, <1>3, <1>4

\* GetVM and GetVMStatus.
LEMMA GetSteps ==
  ASSUME IInv, NEW p \in Procs, GetVM(p) \/ GetVMStatus(p)
  PROVE  IInv'
<1>1. OwnOp(p)
  BY DEF IInv, Places
<1>2. CASE ReadRow(p, "GetVM", "get.csp") \/ ReadRow(p, "GetVMStatus", "status.poll")
  BY <1>2, ReadRowStep
<1>3. CASE /\ At(p, "get.csp") \/ At(p, "status.poll")
           /\ \E r \in {"ok", "error"} : Answer(p, r) /\ Reads
  BY <1>1, <1>3, ReadAnswer DEF At, OwnOp, MadePcs
<1>4. GetVM(p) => ReadRow(p, "GetVM", "get.csp") \/ (At(p, "get.csp") /\ \E r \in {"ok", "error"} : Answer(p, r) /\ Reads)
  BY DEF GetVM, CSPError
<1>5. GetVMStatus(p) => ReadRow(p, "GetVMStatus", "status.poll") \/ (At(p, "status.poll") /\ \E r \in {"ok", "error"} : Answer(p, r) /\ Reads)
  BY DEF GetVMStatus, CSPError
<1> QED
  BY <1>2, <1>3, <1>4, <1>5

\* ControlVM: a VM that runs or is suspended stays so.
LEMMA ControlStep ==
  ASSUME IInv, NEW p \in Procs, ControlVM(p)
  PROVE  IInv'
<1>1. TypeOK /\ OwnOp(p)
  BY DEF IInv, Places
<1>2. CASE ReadRow(p, "ControlVM", "control.csp")
  BY <1>2, ReadRowStep
<1>3. CASE At(p, "control.csp") /\ Answer(p, "error") /\ Reads
  BY <1>1, <1>3, ReadAnswer DEF At, OwnOp, MadePcs
<1>4. ASSUME At(p, "control.csp"), NEW to \in {"running", "suspended"}, vm[job[p].row] \in {"running", "suspended"},
             vm' = [vm EXCEPT ![job[p].row] = to], Answer(p, "ok"), UNCHANGED <<row, told, grant>>
      PROVE  IInv'
  <2>1. pc[p] = "control.csp" /\ job[p].op = "ControlVM" /\ job[p].made = None /\ job[p].row \in Ids
    BY <1>1, <1>4 DEF At, OwnOp, MadePcs, TypeOK
  <2>2. vm' \in [Ids -> Statuses \cup {"none"}] /\ \A id \in Ids : vm'[id] \in Alive <=> vm[id] \in Alive
    BY <1>1, <1>4, <2>1 DEF TypeOK, Statuses, Alive
  <2>3. NoneStarts /\ told' \subseteq Ids \X Kinds
    BY <1>1, <1>4, <2>2 DEF NoneStarts, TypeOK
  <2> QED
    BY <1>4, <2>1, <2>2, <2>3, AnswerKeeps
<1> QED
  BY <1>2, <1>3, <1>4 DEF ControlVM, CSPError

\* ListVM: its goroutines take and return read locks.
LEMMA ListSteps ==
  ASSUME IInv, NEW p \in Procs, ListVM(p)
  PROVE  IInv'
<1>1. TypeOK /\ OwnOp(p) /\ Holds(p) /\ Knows(p) /\ Exclusive
  BY DEF IInv, Places, Tables
<1>2. job[p].op = "ListVM" /\ pc[p] \in {"ListVM", "list.each", "list.get"} /\ job[p] \in Jobs /\ job[p].made = None
      /\ job[p].resp = "none"
  BY <1>1 DEF ListVM, ListVM_rows, ListVM_start, ListVM_get, ListVM_end, At, OwnOp, MadePcs, TypeOK
\* Whatever becomes of its locks and of its list, nothing is known of a list.
<1>3. ASSUME NEW l \in {"list.each", "list.get"}, NEW j \in Jobs, pc' = [pc EXCEPT ![p] = l], job' = [job EXCEPT ![p] = j],
             j.op = "ListVM", j.name = job[p].name, j.id = job[p].id, j.made = None, j.resp = "none",
             UNCHANGED <<row, vm, told>>,
             grant' \in [Procs -> (Names \X {"R", "W"}) \cup {None}], \A q \in Procs \ {p} : grant'[q] = grant[q],
             Exclusive'
      PROVE  IInv'
  <2>1. /\ pc' \in [Procs -> Labels] /\ job' \in [Procs -> Jobs] /\ pc'[p] = l /\ job'[p] = j
        /\ \A q \in Procs \ {p} : pc'[q] = pc[q] /\ job'[q] = job[q]
    BY <1>1, <1>3 DEF TypeOK, Labels
  <2>2. TypeOK'
    BY <1>1, <1>3, <2>1 DEF TypeOK
  <2>3. OthersKeep(p) /\ SameCall(p) /\ KeepsMade(p) /\ NoneStarts /\ row' = row
    BY <1>2, <1>3, <2>1 DEF OthersKeep, SameCall, KeepsMade, NoneStarts, Claim, At
  <2>4. OwnOp(p)'
    BY <1>1, <1>2, <1>3, <2>1 DEF OwnOp, MadePcs, DeletePcs, AllOps, Lockless
  <2>5. Holds(p)'
    BY <1>3, <2>1 DEF Holds, Removing, WritePcs, ReadPcs, FreePcs, MadePcs, DeletePcs
  <2>6. Knows(p)'
    BY <1>3, <2>1 DEF Knows, Removing, RowPcs, FreePcs, MadePcs, DeletePcs
  <2> QED
    BY <1>3, <2>2, <2>3, <2>4, <2>5, <2>6, Quiet
<1>4. CASE ListVM_rows(p)
  <2>1. CASE Answer(p, "error") /\ Reads
    BY <1>2, <1>4, <2>1, ReadAnswer DEF ListVM_rows, At, MadePcs
  <2>2. ASSUME NEW todo \in SUBSET (Names \X Ids), job' = [job EXCEPT ![p].todo = todo],
               Goto(p, "list.each"), Reads
        PROVE  IInv'
    <3> DEFINE j == [job[p] EXCEPT !.todo = todo]
    <3>1. j \in Jobs /\ j.op = "ListVM" /\ j.name = job[p].name /\ j.id = job[p].id /\ j.made = None /\ j.resp = "none"
      BY <1>2 DEF Jobs
    <3>2. job' = [job EXCEPT ![p] = j]
      BY <1>1, <2>2 DEF TypeOK
    <3> HIDE DEF j
    <3>3. grant' = grant /\ grant \in [Procs -> (Names \X {"R", "W"}) \cup {None}] /\ Exclusive'
      BY <1>1, <2>2 DEF Reads, TypeOK, Exclusive
    <3> QED
      BY <1>3, <2>2, <3>1, <3>2, <3>3 DEF Goto, Reads
  <2>3. {<<n, row[n]>> : n \in {m \in Names : row[m] # None}} \in SUBSET (Names \X Ids)
    BY <1>1 DEF TypeOK
  <2> QED
    BY <1>4, <2>1, <2>2, <2>3 DEF ListVM_rows, DBError
<1>5. CASE ListVM_start(p)
  <2>1. PICK t \in job[p].todo :
          \/ /\ Lock!Acquire(p, <<t[1], "R">>)
             /\ job' = [job EXCEPT ![p].row = t[2], ![p].todo = @ \ {t}]
             /\ Goto(p, "list.get")
          \/ /\ job' = [job EXCEPT ![p].lost = TRUE, ![p].todo = @ \ {t}]
             /\ UNCHANGED <<pc, grant>>
    BY <1>5 DEF ListVM_start
  <2>2. t \in Names \X Ids /\ UNCHANGED <<row, vm, told>> /\ pc[p] = "list.each"
    BY <1>2, <1>5 DEF Jobs, ListVM_start, At
  <2>3. CASE Lock!Acquire(p, <<t[1], "R">>) /\ job' = [job EXCEPT ![p].row = t[2], ![p].todo = @ \ {t}]
             /\ Goto(p, "list.get")
    <3> DEFINE j == [job[p] EXCEPT !.row = t[2], !.todo = @ \ {t}]
               g == <<t[1], "R">>
    <3>1. j \in Jobs /\ j.op = "ListVM" /\ j.name = job[p].name /\ j.id = job[p].id /\ j.made = None /\ j.resp = "none"
      BY <1>2, <2>2 DEF Jobs
    <3>2. job' = [job EXCEPT ![p] = j]
      BY <1>1, <2>3 DEF TypeOK
    <3>3. g \in Names \X {"R", "W"} /\ g # None
      BY <2>2, VMAssumption
    <3> HIDE DEF j, g
    <3>4. grant' = [grant EXCEPT ![p] = g] /\ \A q \in Procs : grant[q] # None => ~Lock!Conflict(grant[q], g)
      BY <2>3 DEF Lock!Acquire, g
    <3>5. /\ grant' \in [Procs -> (Names \X {"R", "W"}) \cup {None}] /\ grant'[p] = g
          /\ \A q \in Procs \ {p} : grant'[q] = grant[q]
      BY <1>1, <3>3, <3>4 DEF TypeOK
    <3>6. Exclusive'
      BY <1>1, <3>4, <3>5 DEF Exclusive, Lock!Conflict
    <3> QED
      BY <1>3, <2>2, <2>3, <3>1, <3>2, <3>5, <3>6 DEF Goto
  <2>4. CASE job' = [job EXCEPT ![p].lost = TRUE, ![p].todo = @ \ {t}] /\ UNCHANGED <<pc, grant>>
    <3> DEFINE j == [job[p] EXCEPT !.lost = TRUE, !.todo = @ \ {t}]
    <3>1. j \in Jobs /\ j.op = "ListVM" /\ j.name = job[p].name /\ j.id = job[p].id /\ j.made = None /\ j.resp = "none"
      BY <1>2, <2>2 DEF Jobs
    <3>2. job' = [job EXCEPT ![p] = j] /\ pc' = [pc EXCEPT ![p] = "list.each"]
      BY <1>1, <2>2, <2>4 DEF TypeOK
    <3> HIDE DEF j
    <3>3. grant' = grant /\ grant \in [Procs -> (Names \X {"R", "W"}) \cup {None}] /\ Exclusive'
      BY <1>1, <2>4 DEF TypeOK, Exclusive
    <3> QED
      BY <1>3, <2>2, <3>1, <3>2, <3>3
  <2> QED
    BY <2>1, <2>3, <2>4
<1>6. CASE ListVM_get(p)
  <2> DEFINE j == [job[p] EXCEPT !.row = None]
  <2>1. /\ grant' = [grant EXCEPT ![p] = None] /\ pc' = [pc EXCEPT ![p] = "list.each"]
        /\ UNCHANGED <<row, vm, told>>
    BY <1>6 DEF ListVM_get, Lock!Release, Goto
  <2>2. /\ grant' \in [Procs -> (Names \X {"R", "W"}) \cup {None}] /\ grant'[p] = None
        /\ \A q \in Procs \ {p} : grant'[q] = grant[q]
    BY <1>1, <2>1 DEF TypeOK
  <2>3. Exclusive' /\ job' = [job EXCEPT ![p] = j]
    BY <1>1, <1>6, <2>1, <2>2 DEF Exclusive, TypeOK, ListVM_get
  <2>4. j \in Jobs /\ j.op = "ListVM" /\ j.name = job[p].name /\ j.id = job[p].id /\ j.made = None /\ j.resp = "none"
    BY <1>2 DEF Jobs
  <2> HIDE DEF j
  <2> QED
    BY <1>3, <2>1, <2>2, <2>3, <2>4
<1>7. CASE ListVM_end(p)
  BY <1>2, <1>7, ReadAnswer DEF ListVM_end, MadePcs
<1> QED
  BY <1>4, <1>5, <1>6, <1>7 DEF ListVM

\* DeleteVM until it removes the row, and DeleteCSPResource.
LEMMA DeleteSteps ==
  ASSUME IInv, NEW p \in Procs, DeleteVM_terminate(p) \/ DeleteVM_wait(p) \/ DeleteCSPVM(p)
  PROVE  IInv'
<1>1. TypeOK /\ OwnOp(p) /\ Holds(p) /\ Knows(p)
  BY DEF IInv, Places
<1>2. CASE DeleteVM_terminate(p)
  <2>1. pc[p] = "delete.terminate" /\ job[p].op = "DeleteVM" /\ job[p].row \in Ids /\ job[p].made = None
    BY <1>1, <1>2 DEF DeleteVM_terminate, At, OwnOp, MadePcs, DeletePcs, TypeOK
  <2> PICK id \in Ids : id = job[p].row
    BY <2>1
  <2>2. PICK out \in Outcomes(id) :
          /\ Terminates(id, out)
          /\ IF out \in {"ok", "notfound"} \/ job[p].force # "no"
             THEN /\ job' = [job EXCEPT ![p].force = IF @ = "no" /\ out = "notfound" THEN "notfound" ELSE @,
                                        ![p].polls = Polls]
                  /\ Goto(p, "delete.wait")
             ELSE Answer(p, "error")
    BY <1>2 DEF DeleteVM_terminate
  <2>3. UNCHANGED <<row, told, grant>>
    BY <1>2 DEF DeleteVM_terminate
  <2>4. /\ vm' \in [Ids -> Statuses \cup {"none"}]
        /\ \A i \in Ids : vm'[i] \in Alive => vm[i] \in Alive
        /\ \A i \in Ids \ {id} : vm'[i] = vm[i]
        /\ out \in {"ok", "notfound"} => vm'[id] \notin Alive
    <3>1. out = "notfound" => vm[id] = "none"
      BY <2>2 DEF Outcomes
    <3> QED
      BY <1>1, <2>2, <3>1, Terminating DEF Alive
  <2>5. ASSUME job'[p].op = "DeleteVM", job'[p].row = id, job'[p].resp # "ok"
        PROVE  NoneStarts
    BY <2>3, <2>4, <2>5 DEF NoneStarts, Ending
  <2>6. CASE Answer(p, "error")
    <3>1. NoneStarts
      BY <1>1, <2>1, <2>5, <2>6, Answered
    <3> QED
      BY <1>1, <2>1, <2>3, <2>4, <2>6, <3>1, AnswerKeeps DEF TypeOK
  <2>7. CASE /\ job' = [job EXCEPT ![p].force = IF @ = "no" /\ out = "notfound" THEN "notfound" ELSE @,
                                   ![p].polls = Polls]
             /\ Goto(p, "delete.wait") /\ (out \in {"ok", "notfound"} \/ job[p].force # "no")
    <3> DEFINE fo == IF job[p].force = "no" /\ out = "notfound" THEN "notfound" ELSE job[p].force
               j == [job[p] EXCEPT !.force = fo, !.polls = Polls]
    <3>1. job[p] \in Jobs /\ fo \in {"no", "asked", "notfound"}
      BY <1>1 DEF TypeOK, Jobs
    <3>2. /\ j \in Jobs /\ j.row = id /\ j.op = "DeleteVM" /\ j.name = job[p].name
          /\ j.id = job[p].id /\ j.made = None /\ j.resp = job[p].resp
      BY <2>1, <3>1, VMAssumption DEF Jobs
    <3>3. j.force = fo
      BY <3>1 DEF Jobs
    <3>4. job' = [job EXCEPT ![p] = j]
      BY <1>1, <2>7 DEF TypeOK
    <3> HIDE DEF j
    <3>5. /\ job'[p] = j /\ pc'[p] = "delete.wait" /\ pc' \in [Procs -> Labels] /\ job' \in [Procs -> Jobs]
          /\ \A q \in Procs \ {p} : pc'[q] = pc[q] /\ job'[q] = job[q]
      <4>1. job \in [Procs -> Jobs] /\ pc \in [Procs -> Labels] /\ "delete.wait" \in Labels
        BY <1>1 DEF TypeOK, Labels
      <4>2. pc' = [pc EXCEPT ![p] = "delete.wait"]
        BY <2>7 DEF Goto
      <4> HIDE DEF Labels
      <4> QED
        BY <3>2, <3>4, <4>1, <4>2
    <3>6. TypeOK'
      BY <1>1, <2>3, <2>4, <3>2, <3>5 DEF TypeOK
    <3>7. NoneStarts /\ OthersKeep(p) /\ SameCall(p) /\ KeepsMade(p) /\ Exclusive' /\ row' = row
      <4>1. job[p].resp = "none"
        BY <1>1, <2>1 DEF OwnOp
      <4> QED
        BY <2>1, <2>3, <2>5, <3>2, <3>5, <4>1 DEF OthersKeep, SameCall, KeepsMade, Claim, At, IInv, Tables, Exclusive
    <3>8. OwnOp(p)'
      BY <1>1, <2>1, <3>2, <3>5 DEF OwnOp, MadePcs, DeletePcs, AllOps, Lockless
    <3>9. Holds(p)'
      BY <1>1, <2>1, <2>3, <3>2, <3>5 DEF Holds, Removing, WritePcs, ReadPcs, FreePcs, MadePcs, DeletePcs
    <3>10. j.force = "asked" \/ vm'[id] \notin Alive
      BY <1>1, <2>1, <2>4, <2>7, <3>1, <3>3 DEF OwnOp
    <3>11. Knows(p)'
      BY <1>1, <2>1, <2>3, <3>2, <3>5, <3>10 DEF Knows, Removing, RowPcs, FreePcs, MadePcs, DeletePcs
    <3> QED
      BY <3>6, <3>7, <3>8, <3>9, <3>11, Quiet
  <2> QED
    BY <2>2, <2>6, <2>7
<1>3. CASE DeleteVM_wait(p)
  <2>1. pc[p] = "delete.wait" /\ job[p].op = "DeleteVM" /\ job[p].row \in Ids /\ job[p].made = None /\ Reads
    BY <1>1, <1>3 DEF DeleteVM_wait, At, OwnOp, MadePcs, DeletePcs, TypeOK
  <2>2. CASE Goto(p, "delete.row") /\ UNCHANGED job
    <3>1. pc'[p] = "delete.row"
      BY <1>1, <2>2 DEF Goto, TypeOK
    <3>2. OwnOp(p)'
      BY <1>1, <2>1, <2>2, <3>1 DEF OwnOp, MadePcs, DeletePcs, AllOps, Lockless
    <3>3. Holds(p)'
      BY <1>1, <2>1, <2>2, <3>1 DEF Holds, Removing, WritePcs, ReadPcs, FreePcs, MadePcs, DeletePcs, Reads
    <3>4. Knows(p)'
      BY <1>1, <2>1, <2>2, <3>1 DEF Knows, Removing, RowPcs, FreePcs, MadePcs, DeletePcs, Reads
    <3> QED
      BY <2>1, <2>2, <3>2, <3>3, <3>4, GotoKeeps DEF Labels, MadePcs
  <2>3. CASE job[p].polls > 0 /\ job' = [job EXCEPT ![p].polls = @ - 1] /\ UNCHANGED pc
    <3> DEFINE j == [job[p] EXCEPT !.polls = @ - 1]
    <3>1. /\ j \in Jobs /\ j.row = job[p].row /\ j.op = job[p].op /\ j.name = job[p].name
          /\ j.id = job[p].id /\ j.made = job[p].made /\ j.force = job[p].force /\ j.resp = job[p].resp
      <4>1. job[p] \in Jobs /\ job[p].polls - 1 \in Nat
        BY <1>1, <2>3 DEF TypeOK, Jobs
      <4> QED
        BY <4>1 DEF Jobs
    <3>2. /\ job' = [job EXCEPT ![p] = j] /\ job'[p] = j /\ pc' = [pc EXCEPT ![p] = "delete.wait"]
          /\ pc'[p] = "delete.wait"
      BY <1>1, <2>1, <2>3 DEF TypeOK
    <3> HIDE DEF j
    <3>3. OwnOp(p)'
      BY <1>1, <2>1, <3>1, <3>2 DEF OwnOp, MadePcs, DeletePcs, AllOps, Lockless
    <3>4. Holds(p)'
      BY <1>1, <2>1, <2>3, <3>1, <3>2 DEF Holds, Removing, WritePcs, ReadPcs, FreePcs, MadePcs, DeletePcs, Reads
    <3>5. Knows(p)'
      BY <1>1, <2>1, <2>3, <3>1, <3>2 DEF Knows, Removing, RowPcs, FreePcs, MadePcs, DeletePcs, Reads
    <3> QED
      BY <2>1, <2>3, <3>1, <3>2, <3>3, <3>4, <3>5, MoveKeeps DEF Labels, MadePcs
  <2>4. CASE Answer(p, "error")
    BY <2>1, <2>4, ReadAnswer DEF MadePcs
  <2> QED
    BY <1>3, <2>2, <2>3, <2>4 DEF DeleteVM_wait, CSPError
<1>4. CASE DeleteCSPVM(p)
  <2>1. pc[p] = "DeleteCSPVM" /\ job[p].op = "DeleteCSPVM" /\ job[p].id \in Ids /\ job[p].made = None
    BY <1>1, <1>4 DEF DeleteCSPVM, At, OwnOp, MadePcs
  <2> PICK id \in Ids : id = job[p].id
    BY <2>1
  <2>2. PICK out \in Outcomes(id) : Terminates(id, out) /\ Answer(p, IF out = "ok" THEN "ok" ELSE "error")
    BY <1>4 DEF DeleteCSPVM
  <2>3. UNCHANGED <<row, told, grant>>
    BY <1>4 DEF DeleteCSPVM
  <2>4. /\ vm' \in [Ids -> Statuses \cup {"none"}]
        /\ \A i \in Ids : vm'[i] \in Alive => vm[i] \in Alive
        /\ \A i \in Ids \ {id} : vm'[i] = vm[i]
    BY <1>1, <2>2, Terminating
  <2> PICK r \in {"ok", "error"} : r = IF out = "ok" THEN "ok" ELSE "error"
    OBVIOUS
  <2>5. job'[p].op = "DeleteCSPVM" /\ job'[p].id = id
    BY <1>1, <2>1, <2>2, Answered
  <2>6. NoneStarts
    BY <2>3, <2>4, <2>5 DEF NoneStarts, Ending
  <2> QED
    BY <1>1, <2>1, <2>2, <2>3, <2>4, <2>6, AnswerKeeps DEF TypeOK
<1> QED
  BY <1>2, <1>3, <1>4

\* RegisterVM until it inserts the row.
LEMMA RegisterSteps ==
  ASSUME IInv, NEW p \in Procs, RegisterVM(p), pc[p] # "register.insert"
  PROVE  IInv'
<1>1. TypeOK /\ OwnOp(p) /\ Holds(p) /\ Knows(p)
  BY DEF IInv, Places
<1>2. /\ pc[p] \in {"RegisterVM", "register.csp"} /\ job[p].op = "RegisterVM" /\ job[p].made = None
      /\ job[p].id \in Ids /\ (pc[p] = "register.csp" => row[job[p].name] = None)
  BY <1>1 DEF RegisterVM, At, OwnOp, MadePcs, Knows, FreePcs
<1>3. ASSUME NEW l \in {"register.csp", "register.insert"}, Goto(p, l), UNCHANGED <<row, vm, grant, job>>,
             row[job[p].name] = None
      PROVE  pc'[p] = l /\ OwnOp(p)' /\ Holds(p)' /\ Knows(p)'
  <2>1. pc'[p] = l
    BY <1>1, <1>3 DEF Goto, TypeOK
  <2>2. OwnOp(p)'
    BY <1>1, <1>2, <1>3, <2>1 DEF OwnOp, MadePcs, DeletePcs, AllOps, Lockless
  <2>3. Holds(p)'
    BY <1>1, <1>2, <1>3, <2>1 DEF Holds, Removing, WritePcs, ReadPcs, FreePcs, MadePcs, DeletePcs
  <2>4. Knows(p)'
    BY <1>1, <1>2, <1>3, <2>1 DEF Knows, Removing, RowPcs, FreePcs, MadePcs, DeletePcs
  <2> QED
    BY <2>1, <2>2, <2>3, <2>4
<1>4. CASE Answer(p, "error") /\ Reads
  BY <1>2, <1>4, ReadAnswer DEF MadePcs
<1>5. CASE Goto(p, "register.csp") /\ Reads /\ UNCHANGED job /\ row[job[p].name] = None
  BY <1>2, <1>3, <1>5, GotoKeeps DEF Labels, MadePcs, RowPcs, DeletePcs, Reads
<1>6. CASE /\ pc[p] = "register.csp" /\ Goto(p, "register.insert") /\ UNCHANGED <<row, vm, grant, job>>
           /\ told' = IF Doubtful(job[p].id) THEN told \cup {<<job[p].id, "row">>} ELSE told
  <2> PICK id \in Ids : id = job[p].id
    BY <1>2
  <2>0. None \notin Ids
    BY VMAssumption
  <2>1. pc'[p] = "register.insert" /\ OwnOp(p)' /\ Holds(p)' /\ Knows(p)'
    BY <1>2, <1>3, <1>6
  <2>2. \A q \in Procs \ {p} : pc'[q] = pc[q]
    BY <1>1, <1>6 DEF Goto, TypeOK
  <2>3. /\ told \subseteq told' /\ told' \subseteq Ids \X Kinds /\ (Doubtful(id) => InDoubt(id)')
        /\ \A i \in Ids : <<i, "vm">> \in told' <=> <<i, "vm">> \in told
    BY <1>1, <1>6 DEF TypeOK, Kinds, InDoubt
  <2>4. TypeOK'
    BY <1>1, <1>6, <2>1, <2>3 DEF TypeOK, Goto, Labels
  <2>5. Claim(p)' = id /\ Claim(p) = None /\ \A q \in Procs \ {p} : Claim(q)' = Claim(q)
    BY <1>2, <1>6, <2>1, <2>2 DEF Claim, At
  <2>6. Places'
    <3>1. ASSUME NEW q \in Procs, q # p PROVE OwnOp(q)' /\ Holds(q)' /\ Knows(q)'
      BY <1>6, <2>2, <3>1 DEF IInv, Places, OwnOp, Holds, Knows, Removing
    <3> QED
      BY <2>1, <3>1 DEF Places
  <2>7. \A i : InDoubt(i) => InDoubt(i)'
    BY <2>3 DEF InDoubt
  <2>8. OneRow'
    <3>1. OneRow /\ row' = row
      BY <1>6 DEF IInv, Tables
    <3>2. \A n, m \in Names : row'[n] = row'[m] /\ row'[n] # None /\ ~InDoubt(row[n])' => n = m
      BY <2>7, <3>1 DEF OneRow, InDoubt
    <3>3. ~InDoubt(id)' => (\A n \in Names : row[n] # id) /\ (\A q \in Procs : Claim(q) # id)
      BY <2>3 DEF Doubtful
    <3>4. ASSUME NEW q \in Procs, Claim(q)' # None, ~InDoubt(Claim(q))'
          PROVE  /\ \A n \in Names : row'[n] # Claim(q)'
                 /\ \A o \in Procs : o # q => Claim(o)' # Claim(q)'
      <4>1. CASE q = p
        BY <2>5, <3>1, <3>3, <3>4, <4>1 DEF InDoubt
      <4>2. CASE q # p
        <5>1. Claim(q)' = Claim(q) /\ ~InDoubt(Claim(q))
          BY <2>3, <2>5, <3>4, <4>2 DEF InDoubt
        <5>2. Claim(q) # id
          BY <2>5, <3>3, <3>4, <4>2 DEF InDoubt
        <5> QED
          BY <2>5, <3>1, <3>4, <4>2, <5>1, <5>2 DEF OneRow
      <4> QED
        BY <4>1, <4>2
    <3> QED
      BY <3>2, <3>4 DEF OneRow, InDoubt
  <2>9. UsedRuns'
    <3> SUFFICES ASSUME NEW i \in Ids, Used(i)', vm[i] \notin Alive PROVE InDoubt(i)' \/ Ending(i)'
      BY <1>6 DEF UsedRuns
    <3>1. CASE i = id
      BY <2>3, <3>1 DEF Doubtful
    <3>2. CASE i # id
      <4>1. Used(i)
        BY <1>6, <2>5, <3>2 DEF Used
      <4>2. Ending(i) => Ending(i)'
        BY <1>6 DEF Ending
      <4> QED
        BY <2>7, <4>1, <4>2 DEF IInv, Tables, UsedRuns
    <3> QED
      BY <3>1, <3>2
  <2>10. VMsAreKnown' /\ Exclusive'
    BY <1>6, <2>3 DEF IInv, Tables, VMsAreKnown, Exclusive
  <2> QED
    BY <2>4, <2>6, <2>8, <2>9, <2>10 DEF IInv, Tables
<1> QED
  BY <1>2, <1>4, <1>5, <1>6 DEF RegisterVM, At, DBError, CSPError

\* A call begins.
LEMMA BeginStep ==
  ASSUME IInv, NEW p \in Procs, Begin(p)
  PROVE  IInv'
<1>1. TypeOK /\ OwnOp(p) /\ pc[p] = "idle" /\ job[p] = NoJob /\ Reads
  BY DEF IInv, Places, Begin, At, OwnOp
<1>2. PICK op \in Ops : \E n \in NamesOf(op), id \in IdsOf(op), force \in ForcesOf(op) :
         job' = [job EXCEPT ![p] = [NoJob EXCEPT !.op = op, !.name = n, !.id = id, !.force = force]]
  BY DEF Begin
<1>3. PICK n \in NamesOf(op), id \in IdsOf(op), force \in ForcesOf(op) :
         job' = [job EXCEPT ![p] = [NoJob EXCEPT !.op = op, !.name = n, !.id = id, !.force = force]]
  BY <1>2
<1>4. op \in AllOps
  BY VMAssumption
<1>5. /\ n \in Names \cup {None} /\ (op \notin {"ListVM", "DeleteCSPVM"} => n \in Names)
      /\ id \in Ids \cup {None} /\ (op = "RegisterVM" => id \in Ids) /\ (op = "DeleteCSPVM" => id \in Ids)
      /\ (op \notin {"RegisterVM", "DeleteCSPVM"} => id = None) /\ force \in {"no", "asked"}
  BY VMAssumption DEF NamesOf, IdsOf, ForcesOf
<1> DEFINE j == [NoJob EXCEPT !.op = op, !.name = n, !.id = id, !.force = force]
<1>6. /\ j \in Jobs /\ j.op = op /\ j.name = n /\ j.id = id /\ j.row = None /\ j.made = None
      /\ j.resp = "none" /\ j.force = force
  BY <1>4, <1>5 DEF Jobs, NoJob
<1>7. job' = [job EXCEPT ![p] = j]
  BY <1>3
<1> HIDE DEF j
<1> DEFINE l == IF op \in Lockless THEN op ELSE "lock"
<1>8. /\ pc' = [pc EXCEPT ![p] = l] /\ job'[p] = j /\ \A q \in Procs \ {p} : job'[q] = job[q]
      /\ job' \in [Procs -> Jobs]
  BY <1>1, <1>6, <1>7 DEF Begin, Goto, TypeOK
<1>9. l \in Labels /\ l \in {"lock", "ListVM", "DeleteCSPVM", "GetVMStatus"} /\ (l # "lock" => l = op)
      /\ (l = "lock" => op \notin Lockless)
  BY <1>4 DEF Labels, AllOps, Lockless
<1> HIDE DEF l
<1>10. pc'[p] = l /\ pc' \in [Procs -> Labels] /\ \A q \in Procs \ {p} : pc'[q] = pc[q]
  BY <1>1, <1>8, <1>9 DEF TypeOK
<1>11. TypeOK'
  BY <1>1, <1>8, <1>9, <1>10 DEF TypeOK, Reads
<1>12. job[p].op = "none" /\ job[p].made = None
  BY <1>1 DEF NoJob
<1>13. OthersKeep(p) /\ SameCall(p) /\ KeepsMade(p) /\ NoneStarts /\ Exclusive' /\ row' = row
  BY <1>1, <1>6, <1>8, <1>9, <1>10, <1>12 DEF OthersKeep, SameCall, KeepsMade, Claim, At, NoneStarts, Reads, IInv, Tables, Exclusive
<1>14. OwnOp(p)'
  BY <1>4, <1>5, <1>6, <1>8, <1>9, <1>10 DEF OwnOp, MadePcs, DeletePcs, AllOps, Lockless
<1>15. Holds(p)'
  BY <1>8, <1>9, <1>10 DEF Holds, Removing, WritePcs, ReadPcs, FreePcs, MadePcs, DeletePcs
<1>16. Knows(p)'
  BY <1>8, <1>9, <1>10 DEF Knows, Removing, RowPcs, FreePcs, MadePcs, DeletePcs
<1> QED
  BY <1>11, <1>13, <1>14, <1>15, <1>16, Quiet

-----------------------------------------------------------------------------
(* Steps that start a VM or change a row.                                  *)

\* The CSP makes a VM with an id that nobody knows.
LEMMA Started ==
  ASSUME IInv, NEW p \in Procs, NEW id \in Ids, Fresh(id), vm' = [vm EXCEPT ![id] = "running"],
         UNCHANGED <<row, grant>>, TypeOK', OthersKeep(p), 
         told' \in {told \ ({id} \X Kinds), (told \ ({id} \X Kinds)) \cup {<<id, "vm">>}},
         job[p].op = "StartVM", job'[p].op = "StartVM", job[p].made = None, job'[p].made \in {None, id},
         job'[p].made = id \/ <<id, "vm">> \in told', pc[p] # "register.insert", pc'[p] # "register.insert",
         OwnOp(p)', Holds(p)', Knows(p)'
  PROVE  IInv'
<1> USE DEF IInv, Tables, OthersKeep
<1>0. None \notin Ids
  BY VMAssumption
<1>1. /\ vm[id] = "none" /\ \A n \in Names : row[n] # id
      /\ \A q \in Procs : job[q].id # id /\ job[q].row # id /\ job[q].made # id
  BY DEF Fresh
<1>2. vm'[id] = "running" /\ \A i \in Ids \ {id} : vm'[i] = vm[i]
  BY DEF TypeOK
<1>3. Places'
  <2> SUFFICES ASSUME NEW q \in Procs, q # p PROVE OwnOp(q)' /\ Holds(q)' /\ Knows(q)'
    BY DEF Places
  <2>1. OwnOp(q)' /\ Holds(q)'
    BY DEF Places, OwnOp, Holds, Removing
  <2>2. job'[q] = job[q] /\ pc'[q] = pc[q]
    OBVIOUS
  <2>3. job[q].row \in Ids \cup {None} /\ job[q].row # id
    BY <1>1 DEF TypeOK, Jobs
  <2>4. job[q].row \in Ids => vm'[job[q].row] = vm[job[q].row]
    BY <1>2, <2>3
  <2>5. Knows(q)'
    BY <1>0, <2>2, <2>3, <2>4 DEF Places, Knows, Removing, RowPcs, DeletePcs
  <2> QED
    BY <2>1, <2>5
<1>a. \A i : i # id => (InDoubt(i)' <=> InDoubt(i)) /\ (<<i, "vm">> \in told' <=> <<i, "vm">> \in told)
  BY DEF InDoubt, Kinds
<1>b. /\ \A q \in Procs : Claim(q) # id
      /\ \A q \in Procs \ {p} : Claim(q)' = Claim(q)
      /\ Claim(p) = None /\ Claim(p)' \in {None, id}
  BY <1>1 DEF Claim, At
<1>4. OneRow'
  <2>1. \A n, m \in Names : row'[n] = row'[m] /\ row'[n] # None /\ ~InDoubt(row[n])' => n = m
    BY <1>1, <1>a DEF OneRow, InDoubt
  <2>2. ASSUME NEW q \in Procs, Claim(q)' # None, ~InDoubt(Claim(q))'
        PROVE  /\ \A n \in Names : row'[n] # Claim(q)'
               /\ \A o \in Procs : o # q => Claim(o)' # Claim(q)'
    <3>1. CASE q = p
      BY <1>0, <1>1, <1>b, <2>2, <3>1
    <3>2. CASE q # p
      <4>1. Claim(q)' = Claim(q) /\ ~InDoubt(Claim(q)) /\ Claim(q) # None /\ Claim(q) # id
        BY <1>a, <1>b, <2>2, <3>2 DEF InDoubt
      <4> QED
        BY <1>0, <1>b, <4>1 DEF OneRow
    <3> QED
      BY <3>1, <3>2
  <2> QED
    BY <2>1, <2>2 DEF OneRow, InDoubt
<1>5. UsedRuns'
  <2> SUFFICES ASSUME NEW i \in Ids, Used(i)', vm'[i] \notin Alive PROVE InDoubt(i)' \/ Ending(i)'
    BY DEF UsedRuns
  <2>1. i # id /\ vm[i] \notin Alive
    BY <1>2 DEF Alive
  <2>2. Used(i)
    BY <1>0, <1>b, <2>1 DEF Used
  <2>3. Ending(i) => Ending(i)'
    BY DEF Ending
  <2> QED
    BY <1>a, <2>1, <2>2, <2>3 DEF UsedRuns
<1>6. VMsAreKnown'
  <2> SUFFICES ASSUME NEW i \in Ids, vm'[i] \in Alive
               PROVE  \/ <<i, "vm">> \in told'
                      \/ \E n \in Names : row'[n] = i
                      \/ \E q \in Procs : job'[q].made = i \/ (job'[q].op \in {"DeleteVM", "UnregisterVM"} /\ job'[q].row = i)
    BY DEF VMsAreKnown
  <2>1. CASE i = id
    BY <2>1
  <2>2. CASE i # id
    BY <1>0, <1>2, <1>a, <2>2 DEF VMsAreKnown
  <2> QED
    BY <2>1, <2>2
<1>7. Exclusive'
  BY DEF Exclusive
<1> QED
  BY <1>3, <1>4, <1>5, <1>6, <1>7

\* handler.StartVM.
LEMMA StartStep ==
  ASSUME IInv, NEW p \in Procs, StartVM_csp(p)
  PROVE  IInv'
<1>1. TypeOK /\ OwnOp(p) /\ Holds(p) /\ Knows(p)
  BY DEF IInv, Places
<1>2. pc[p] = "start.csp" /\ job[p].op = "StartVM" /\ job[p].made = None
  BY <1>1 DEF StartVM_csp, At, OwnOp, MadePcs
<1>3. CASE Answer(p, "error") /\ Reads
  BY <1>2, <1>3, ReadAnswer DEF MadePcs
<1>4. ASSUME NEW id \in Ids, Fresh(id), vm' = [vm EXCEPT ![id] = "running"], UNCHANGED <<row, grant>>,
             Answer(p, "error"),
             told' = (told \ ({id} \X Kinds)) \cup {<<id, "vm">>}
      PROVE  IInv'
  <2>1. /\ pc' \in [Procs -> Labels] /\ job' \in [Procs -> Jobs]
        /\ \A q \in Procs \ {p} : pc'[q] = pc[q] /\ job'[q] = job[q]
        /\ pc'[p] = "done" /\ job'[p].made = None /\ job'[p].resp = "error"
        /\ job'[p].op = job[p].op /\ job'[p].name = job[p].name /\ job'[p].id = job[p].id
        /\ job'[p].row = job[p].row
    BY <1>1, <1>4, Answered
  <2>2. vm' \in [Ids -> Statuses \cup {"none"}] /\ told' \subseteq Ids \X Kinds
    BY <1>1, <1>4 DEF TypeOK, Statuses, Kinds
  <2>3. TypeOK' /\ OthersKeep(p)
    BY <1>1, <1>4, <2>1, <2>2 DEF TypeOK, OthersKeep
  <2>4. OwnOp(p)'
    BY <1>1, <1>2, <2>1 DEF OwnOp, MadePcs, DeletePcs, AllOps, Lockless, NoJob
  <2>5. Holds(p)' /\ Knows(p)'
    BY <1>2, <2>1 DEF Holds, Knows, Removing, WritePcs, ReadPcs, FreePcs, MadePcs, DeletePcs, RowPcs
  <2> QED
    BY <1>2, <1>4, <2>1, <2>3, <2>4, <2>5, Started
<1>5. ASSUME NEW id \in Ids, Fresh(id), vm' = [vm EXCEPT ![id] = "running"], UNCHANGED <<row, grant>>,
             told' = told \ ({id} \X Kinds),
             job' = [job EXCEPT ![p].made = id, ![p].polls = Polls],
             NEW l \in {"start.access", "start.insert"}, Goto(p, l)
      PROVE  IInv'
  <2> DEFINE j == [job[p] EXCEPT !.made = id, !.polls = Polls]
  <2>1. /\ j \in Jobs /\ j.op = job[p].op /\ j.name = job[p].name /\ j.id = job[p].id /\ j.row = job[p].row
        /\ j.made = id /\ j.resp = job[p].resp
    <3>1. job[p] \in Jobs /\ Polls \in Nat
      BY <1>1, VMAssumption DEF TypeOK
    <3> QED
      BY <3>1 DEF Jobs
  <2>2. job' = [job EXCEPT ![p] = j] /\ pc' = [pc EXCEPT ![p] = l]
    BY <1>1, <1>5 DEF TypeOK, Goto
  <2> HIDE DEF j
  <2>3. /\ pc' \in [Procs -> Labels] /\ job' \in [Procs -> Jobs] /\ job'[p] = j /\ pc'[p] = l
        /\ \A q \in Procs \ {p} : pc'[q] = pc[q] /\ job'[q] = job[q]
    BY <1>1, <2>1, <2>2 DEF TypeOK, Labels
  <2>4. vm' \in [Ids -> Statuses \cup {"none"}]
    BY <1>1, <1>5 DEF TypeOK, Statuses
  <2>5. TypeOK' /\ OthersKeep(p)
    BY <1>1, <1>5, <2>1, <2>3, <2>4 DEF TypeOK, OthersKeep
  <2>6. OwnOp(p)'
    BY <1>1, <1>2, <2>1, <2>3 DEF OwnOp, MadePcs, DeletePcs, AllOps, Lockless
  <2>7. Holds(p)'
    BY <1>1, <1>2, <1>5, <2>1, <2>3 DEF Holds, Removing, WritePcs, ReadPcs, FreePcs, MadePcs, DeletePcs
  <2>8. Knows(p)'
    BY <1>1, <1>2, <1>5, <2>1, <2>3 DEF Knows, Removing, WritePcs, ReadPcs, FreePcs, MadePcs, DeletePcs, RowPcs
  <2> QED
    BY <1>2, <1>5, <2>1, <2>3, <2>5, <2>6, <2>7, <2>8, Started
<1> QED
  BY <1>3, <1>4, <1>5 DEF StartVM_csp, CSPError

\* A goroutine that holds the lock of a name for writing is alone with it.
LEMMA Alone ==
  ASSUME IInv, NEW p \in Procs, NEW q \in Procs, p # q, grant[p] = <<job[p].name, "W">>,
         pc[q] \in WritePcs \cup ReadPcs \/ Removing(q), job[p].name \in Names
  PROVE  job[q].name # job[p].name
<1>1. Holds(q) /\ OwnOp(q) /\ Exclusive
  BY DEF IInv, Places, Tables
<1>2. PICK kind \in {"R", "W"} : grant[q] = <<job[q].name, kind>>
  BY <1>1 DEF Holds
<1>3. job[q].name \in Names
  BY <1>1 DEF OwnOp, WritePcs, ReadPcs, FreePcs, MadePcs, DeletePcs, AllOps, Removing
<1>4. grant[p] # None /\ grant[q] # None
  BY <1>2, <1>3, VMAssumption
<1>5. ~Lock!Conflict(grant[p], grant[q])
  BY <1>1, <1>4 DEF Exclusive
<1> QED
  BY <1>2, <1>5 DEF Lock!Conflict

\* The others know of their rows what they knew: they have other names.
LEMMA RowKeepsOthers ==
  ASSUME IInv, NEW p \in Procs, NEW v, row' = [row EXCEPT ![job[p].name] = v],
         grant[p] = <<job[p].name, "W">>, job[p].name \in Names,
         UNCHANGED <<vm, grant>>, OthersKeep(p), NEW q \in Procs, q # p
  PROVE  OwnOp(q)' /\ Holds(q)' /\ Knows(q)'
<1> USE DEF IInv, OthersKeep
<1>0. None \notin Ids
  BY VMAssumption
<1>1. OwnOp(q)' /\ Holds(q)'
  BY DEF Places, OwnOp, Holds, Removing
<1>2. job'[q] = job[q] /\ pc'[q] = pc[q] /\ OwnOp(q)
  BY DEF Places
<1>3. \A n \in Names \ {job[p].name} : row'[n] = row[n]
  BY DEF TypeOK
<1>4. pc[q] \in WritePcs \cup ReadPcs \/ Removing(q) => job[q].name \in Names /\ row'[job[q].name] = row[job[q].name]
  BY <1>2, <1>3, Alone DEF OwnOp, WritePcs, ReadPcs, FreePcs, MadePcs, DeletePcs, AllOps, Removing
<1>5. job[q].row \in Ids \cup {None}
  BY DEF TypeOK, Jobs
<1>6. Knows(q)
  BY DEF Places
<1>7. Knows(q)'
  BY <1>0, <1>2, <1>4, <1>5, <1>6
  DEF Knows, Removing, RowPcs, DeletePcs, WritePcs, ReadPcs, FreePcs, MadePcs
<1> QED
  BY <1>1, <1>7

\* StartVM and RegisterVM insert the row.
LEMMA InsertStep ==
  ASSUME IInv, NEW p \in Procs, NEW id \in Ids,
         row' = [row EXCEPT ![job[p].name] = id], Answer(p, "ok"), UNCHANGED <<vm, grant>>,
         told' \in {told, told \ {<<id, "vm">>}},
         \/ pc[p] = "start.insert" /\ id = job[p].made
         \/ pc[p] = "register.insert" /\ id = job[p].id
  PROVE  IInv'
<1> USE DEF IInv, Tables
<1>0. None \notin Ids
  BY VMAssumption
<1>1. TypeOK /\ OwnOp(p) /\ Holds(p) /\ Knows(p)
  BY DEF Places
<1>2. /\ pc' \in [Procs -> Labels] /\ job' \in [Procs -> Jobs]
      /\ \A q \in Procs \ {p} : pc'[q] = pc[q] /\ job'[q] = job[q]
      /\ pc'[p] = "done" /\ job'[p].made = None /\ job'[p].resp = "ok"
      /\ job'[p].op = job[p].op /\ job'[p].name = job[p].name /\ job'[p].id = job[p].id
  BY <1>1, Answered
<1>3. /\ job[p].name \in Names /\ grant[p] = <<job[p].name, "W">> /\ row[job[p].name] = None
      /\ job[p].op \in {"StartVM", "RegisterVM"} /\ (job[p].made = id \/ job[p].made = None)
      /\ Claim(p) = id
  BY <1>1 DEF OwnOp, Holds, Knows, AllOps, FreePcs, MadePcs, WritePcs, Claim, At
<1>4. /\ row' \in [Names -> Ids \cup {None}] /\ row'[job[p].name] = id
      /\ \A n \in Names \ {job[p].name} : row'[n] = row[n]
  BY <1>1, <1>3 DEF TypeOK
<1>5. TypeOK' /\ OthersKeep(p)
  BY <1>1, <1>2, <1>4 DEF TypeOK, OthersKeep
<1>6. Places'
  <2>1. OwnOp(p)'
    BY <1>1, <1>2, <1>3 DEF OwnOp, MadePcs, DeletePcs, AllOps, Lockless, NoJob
  <2>2. Holds(p)' /\ Knows(p)'
    BY <1>2, <1>3 DEF Holds, Knows, Removing, WritePcs, ReadPcs, FreePcs, MadePcs, DeletePcs, RowPcs
  <2>3. \A q \in Procs \ {p} : OwnOp(q)' /\ Holds(q)' /\ Knows(q)'
    BY <1>2, <1>3, <1>5, RowKeepsOthers
  <2> QED
    BY <2>1, <2>2, <2>3 DEF Places
<1>a. \A i : InDoubt(i)' <=> InDoubt(i)
  BY DEF InDoubt
<1>b. Claim(p)' = None /\ \A q \in Procs \ {p} : Claim(q)' = Claim(q)
  BY <1>2 DEF Claim, At
<1>7. OneRow'
  <2>1. ~InDoubt(id) => /\ \A n \in Names : row[n] # id
                        /\ \A q \in Procs \ {p} : Claim(q) # id
    BY <1>0, <1>3 DEF OneRow
  <2>2. \A n, m \in Names : row'[n] = row'[m] /\ row'[n] # None /\ ~InDoubt(row[n])' => n = m
    BY <1>4, <1>a, <2>1 DEF OneRow, InDoubt
  <2>3. ASSUME NEW q \in Procs, Claim(q)' # None, ~InDoubt(Claim(q))'
        PROVE  /\ \A n \in Names : row'[n] # Claim(q)'
               /\ \A o \in Procs : o # q => Claim(o)' # Claim(q)'
    <3>1. q # p /\ Claim(q)' = Claim(q) /\ ~InDoubt(Claim(q))
      BY <1>a, <1>b, <2>3 DEF InDoubt
    <3> QED
      BY <1>3, <1>4, <1>b, <2>1, <2>3, <3>1 DEF OneRow
  <2> QED
    BY <2>2, <2>3 DEF OneRow, InDoubt
<1>8. UsedRuns'
  <2> SUFFICES ASSUME NEW i \in Ids, Used(i)', vm'[i] \notin Alive PROVE InDoubt(i)' \/ Ending(i)'
    BY DEF UsedRuns
  <2>1. Used(i)
    BY <1>0, <1>3, <1>4, <1>b DEF Used
  <2>2. Ending(i) => Ending(i)'
    BY <1>2, <1>3 DEF Ending
  <2> QED
    BY <1>a, <2>1, <2>2 DEF UsedRuns
<1>9. VMsAreKnown'
  <2> SUFFICES ASSUME NEW i \in Ids, vm[i] \in Alive
               PROVE  \/ <<i, "vm">> \in told'
                      \/ \E n \in Names : row'[n] = i
                      \/ \E q \in Procs : job'[q].made = i \/ (job'[q].op \in {"DeleteVM", "UnregisterVM"} /\ job'[q].row = i)
    BY DEF VMsAreKnown
  <2>1. CASE i = id
    BY <1>3, <1>4, <2>1
  <2>2. CASE i # id /\ <<i, "vm">> \in told
    BY <2>2
  <2>3. CASE i # id /\ \E n \in Names : row[n] = i
    BY <1>0, <1>3, <1>4, <2>3
  <2>4. CASE i # id /\ \E q \in Procs : job[q].made = i
    BY <1>0, <1>2, <1>3, <2>4
  <2>5. CASE \E q \in Procs : job[q].op \in {"DeleteVM", "UnregisterVM"} /\ job[q].row = i
    BY <1>2, <1>3, <2>5
  <2> QED
    BY <2>1, <2>2, <2>3, <2>4, <2>5 DEF VMsAreKnown
<1>10. Exclusive'
  BY DEF Exclusive
<1> QED
  BY <1>5, <1>6, <1>7, <1>8, <1>9, <1>10

\* UnregisterVM and DeleteVM remove the row.
LEMMA RemoveStep ==
  ASSUME IInv, NEW p \in Procs, pc[p] \in {"unregister.delete", "delete.row"},
         row' = [row EXCEPT ![job[p].name] = None], Answer(p, "ok"), UNCHANGED <<vm, told, grant>>
  PROVE  IInv'
<1> USE DEF IInv, Tables
<1>0. None \notin Ids
  BY VMAssumption
<1>1. TypeOK /\ OwnOp(p) /\ Holds(p) /\ Knows(p)
  BY DEF Places
<1>2. /\ pc' \in [Procs -> Labels] /\ job' \in [Procs -> Jobs]
      /\ \A q \in Procs \ {p} : pc'[q] = pc[q] /\ job'[q] = job[q]
      /\ pc'[p] = "done" /\ job'[p].made = None /\ job'[p].resp = "ok"
      /\ job'[p].op = job[p].op /\ job'[p].name = job[p].name /\ job'[p].id = job[p].id
      /\ job'[p].force = job[p].force /\ job'[p].row = job[p].row
  BY <1>1, Answered
<1> PICK id \in Ids : id = job[p].row
  BY <1>1 DEF Knows, RowPcs, DeletePcs
<1>3. /\ job[p].name \in Names /\ grant[p] = <<job[p].name, "W">> /\ row[job[p].name] = id
      /\ job[p].op \in {"UnregisterVM", "DeleteVM"} /\ job[p].made = None
      /\ (job[p].op = "DeleteVM" => job[p].force = "asked" \/ vm[id] \notin Alive)
  BY <1>1 DEF OwnOp, Holds, Knows, AllOps, FreePcs, MadePcs, WritePcs, RowPcs, DeletePcs
<1>4. /\ row' \in [Names -> Ids \cup {None}] /\ row'[job[p].name] = None
      /\ \A n \in Names \ {job[p].name} : row'[n] = row[n]
  BY <1>1, <1>3 DEF TypeOK
<1>5. TypeOK' /\ OthersKeep(p)
  BY <1>1, <1>2, <1>4 DEF TypeOK, OthersKeep
<1>7. Places'
  <2>1. OwnOp(p)'
    BY <1>1, <1>2, <1>3 DEF OwnOp, MadePcs, DeletePcs, AllOps, Lockless, NoJob
  <2>2. Holds(p)'
    BY <1>2, <1>3 DEF Holds, Removing, WritePcs, ReadPcs, FreePcs, MadePcs, DeletePcs
  <2>3. Knows(p)'
    BY <1>2, <1>3 DEF Knows, Removing, FreePcs, MadePcs, DeletePcs, RowPcs
  <2>4. \A q \in Procs \ {p} : OwnOp(q)' /\ Holds(q)' /\ Knows(q)'
    BY <1>2, <1>3, <1>5, RowKeepsOthers
  <2> QED
    BY <2>1, <2>2, <2>3, <2>4 DEF Places
<1>a. \A q \in Procs : Claim(q)' = Claim(q)
  BY <1>1, <1>2, <1>3 DEF Claim, At
<1>8. OneRow'
  BY <1>2, <1>4, <1>a DEF OneRow, InDoubt
<1>9. UsedRuns'
  <2> SUFFICES ASSUME NEW i \in Ids, Used(i)', vm'[i] \notin Alive PROVE InDoubt(i)' \/ Ending(i)'
    BY DEF UsedRuns
  <2>1. Used(i)
    BY <1>0, <1>4, <1>a DEF Used
  <2>2. InDoubt(i) => InDoubt(i)'
    BY DEF InDoubt
  <2>3. CASE i = id /\ ~InDoubt(i)
    <3>1. (\E n \in Names \ {job[p].name} : row[n] = id) \/ (\E q \in Procs : Claim(q) = id)
      BY <1>0, <1>4, <1>a, <2>3 DEF Used
    <3> QED
      BY <1>0, <1>3, <2>3, <3>1 DEF OneRow
  <2>4. CASE i # id
    <3>1. Ending(i) => Ending(i)'
      BY <1>0, <1>2, <1>3, <2>4 DEF Ending
    <3> QED
      BY <2>1, <2>2, <2>4, <3>1 DEF UsedRuns
  <2> QED
    BY <2>2, <2>3, <2>4
<1>10. VMsAreKnown'
  BY <1>2, <1>3, <1>4 DEF VMsAreKnown
<1>11. Exclusive'
  BY DEF Exclusive
<1> QED
  BY <1>5, <1>7, <1>8, <1>9, <1>10, <1>11

-----------------------------------------------------------------------------
(* Calls return, VMs end.                                                  *)

\* The answer goes out, and with it what the call knew.
LEMMA ReturnStep ==
  ASSUME IInv, NEW p \in Procs, Return(p)
  PROVE  IInv'
<1> USE DEF IInv, Tables
<1>0. None \notin Ids
  BY VMAssumption
<1>1. TypeOK /\ OwnOp(p) /\ Knows(p) /\ pc[p] = "done"
  BY DEF Places, Return, At
<1>2. /\ pc' = [pc EXCEPT ![p] = "idle"] /\ job' = [job EXCEPT ![p] = NoJob] /\ UNCHANGED <<row, vm>>
      /\ told' = {t \in told \cup About(job[p]) : ~Fresh(t[1])}
  BY DEF Return, Goto
<1>3. /\ grant' \in [Procs -> (Names \X {"R", "W"}) \cup {None}] /\ grant'[p] = None
      /\ \A q \in Procs \ {p} : grant'[q] = grant[q]
  BY <1>1 DEF Return, Lock!Release, TypeOK
<1>4. NoJob \in Jobs /\ NoJob.op = "none" /\ NoJob.made = None /\ NoJob.row = None /\ NoJob.id = None
      /\ NoJob.resp = "none"
  BY DEF NoJob, Jobs
<1>5. /\ pc' \in [Procs -> Labels] /\ job' \in [Procs -> Jobs] /\ pc'[p] = "idle" /\ job'[p] = NoJob
      /\ \A q \in Procs \ {p} : pc'[q] = pc[q] /\ job'[q] = job[q]
  BY <1>1, <1>2, <1>4 DEF TypeOK, Labels
<1>6. About(job[p]) \subseteq Ids \X Kinds
  BY <1>1 DEF About, TypeOK, Jobs, OwnOp, Knows, Removing, Kinds
<1>7. TypeOK'
  BY <1>1, <1>2, <1>3, <1>5, <1>6 DEF TypeOK
<1>8. /\ \A q \in Procs : Claim(q)' = Claim(q)
      /\ job[p].made = None /\ job[p].resp \in {"ok", "error"}
  BY <1>1, <1>4, <1>5 DEF Claim, At, OwnOp, MadePcs
<1>9. Exclusive'
  BY <1>3 DEF Exclusive
<1>10. Places'
  <2>1. OwnOp(p)' /\ Holds(p)' /\ Knows(p)'
    BY <1>4, <1>5 DEF OwnOp, Holds, Knows, Removing, AllOps, Lockless, MadePcs, FreePcs, DeletePcs, RowPcs, WritePcs, ReadPcs
  <2>2. ASSUME NEW q \in Procs, q # p PROVE OwnOp(q)' /\ Holds(q)' /\ Knows(q)'
    <3>1. OwnOp(q)' /\ Holds(q)'
      BY <1>3, <1>5, <2>2 DEF Places, OwnOp, Holds, Removing
    <3>2. job'[q] = job[q] /\ pc'[q] = pc[q]
      BY <1>5, <2>2
    <3>3. job[q].row \in Ids \cup {None}
      BY <1>1 DEF TypeOK, Jobs
    <3>4. Knows(q)'
      BY <1>0, <1>2, <3>2, <3>3 DEF Places, Knows, Removing, RowPcs, DeletePcs
    <3> QED
      BY <3>1, <3>4
  <2> QED
    BY <2>1, <2>2 DEF Places
\* What was told stays told while the VM has a row or runs.
<1>11. ASSUME NEW t \in told \cup About(job[p]), Used(t[1]) \/ vm[t[1]] \in Alive, t[1] \in Ids
       PROVE  t \in told'
  <2>1. ~Fresh(t[1])
    BY <1>0, <1>11 DEF Fresh, Used, Claim, Alive
  <2> QED
    BY <1>2, <2>1
<1>12. ASSUME NEW id \in Ids, InDoubt(id), Used(id)
       PROVE  InDoubt(id)'
  BY <1>11, <1>12 DEF InDoubt
<1>13. OneRow'
  <2>1. \A n, m \in Names : row'[n] = row'[m] /\ row'[n] # None /\ ~InDoubt(row[n])' => n = m
    <3> SUFFICES ASSUME NEW n \in Names, NEW m \in Names, row[n] = row[m], row[n] # None, ~InDoubt(row[n])'
                 PROVE  n = m
      BY <1>2
    <3>1. row[n] \in Ids /\ Used(row[n])
      BY <1>1 DEF TypeOK, Used
    <3>2. ~InDoubt(row[n])
      BY <1>2, <1>12, <3>1 DEF InDoubt
    <3> QED
      BY <3>2 DEF OneRow
  <2>2. ASSUME NEW q \in Procs, Claim(q)' # None, ~InDoubt(Claim(q))'
        PROVE  /\ \A n \in Names : row'[n] # Claim(q)'
               /\ \A o \in Procs : o # q => Claim(o)' # Claim(q)'
    <3>1. Claim(q) \in Ids /\ Used(Claim(q))
      BY <1>1, <1>8, <2>2 DEF TypeOK, Jobs, Claim, Used
    <3>2. ~InDoubt(Claim(q))
      <4>1. ASSUME NEW id \in Ids, id = Claim(q) PROVE ~InDoubt(id)
        BY <1>8, <1>12, <2>2, <3>1, <4>1 DEF InDoubt
      <4> QED
        BY <3>1, <4>1
    <3> QED
      BY <1>2, <1>8, <2>2, <3>2 DEF OneRow
  <2> QED
    BY <2>1, <2>2 DEF OneRow, InDoubt
\* A delete of the VM that ends with the call did not succeed.
<1>14. UsedRuns'
  <2> SUFFICES ASSUME NEW i \in Ids, Used(i)', vm'[i] \notin Alive PROVE InDoubt(i)' \/ Ending(i)'
    BY DEF UsedRuns
  <2>1. Used(i) /\ vm[i] \notin Alive
    BY <1>2, <1>8 DEF Used
  <2>2. CASE InDoubt(i)
    BY <1>12, <2>1, <2>2
  <2>3. CASE Ending(i)
    <3>1. PICK q \in Procs : \/ job[q].op = "DeleteVM" /\ job[q].row = i /\ job[q].resp # "ok"
                             \/ job[q].op = "DeleteCSPVM" /\ job[q].id = i
      BY <2>3 DEF Ending
    <3>2. CASE q # p
      BY <1>5, <3>1, <3>2 DEF Ending
    <3>3. CASE q = p
      <4>1. <<i, "row">> \in About(job[p])
        BY <1>0, <1>8, <3>1, <3>3 DEF About
      <4> QED
        BY <1>11, <2>1, <4>1 DEF InDoubt
    <3> QED
      BY <3>2, <3>3
  <2> QED
    BY <2>1, <2>2, <2>3 DEF UsedRuns
<1>15. VMsAreKnown'
  <2> SUFFICES ASSUME NEW i \in Ids, <<i, "vm">> \notin told', vm[i] \in Alive
               PROVE  \/ \E n \in Names : row[n] = i
                      \/ \E q \in Procs : job'[q].made = i \/ (job'[q].op \in {"DeleteVM", "UnregisterVM"} /\ job'[q].row = i)
    BY <1>2 DEF VMsAreKnown
  <2>1. <<i, "vm">> \notin told /\ <<i, "vm">> \notin About(job[p])
    BY <1>11
  <2>2. ASSUME NEW q \in Procs, job[q].made = i PROVE job'[q].made = i
    BY <1>0, <1>5, <1>8, <2>2
  <2>3. ASSUME NEW q \in Procs, job[q].op \in {"DeleteVM", "UnregisterVM"}, job[q].row = i, ~\E n \in Names : row[n] = i
        PROVE  q # p
    <3> SUFFICES ASSUME q = p PROVE FALSE
      OBVIOUS
    <3>1. CASE job[p].op = "UnregisterVM"
      <4>1. job[p].resp = "error"
        BY <1>8, <2>1, <2>3, <3>1 DEF About
      <4> QED
        BY <1>0, <1>1, <2>3, <3>1, <4>1 DEF Knows, Removing, OwnOp, AllOps
    <3>2. CASE job[p].op = "DeleteVM" /\ job[p].resp = "error"
      BY <1>0, <1>1, <2>3, <3>2 DEF Knows, Removing, OwnOp, AllOps
    <3>3. CASE job[p].op = "DeleteVM" /\ job[p].resp = "ok"
      BY <1>1, <2>1, <2>3, <3>3 DEF Knows, Removing, About
    <3> QED
      BY <1>8, <2>3, <3>1, <3>2, <3>3
  <2> QED
    BY <1>5, <2>1, <2>2, <2>3 DEF VMsAreKnown
<1> QED
  BY <1>7, <1>9, <1>10, <1>13, <1>14, <1>15

\* A VM that terminates goes on to do so.
LEMMA ProgressStep ==
  ASSUME IInv, NEW i \in Ids, Progress(i)
  PROVE  IInv'
<1> USE DEF IInv, Tables
<1>1. TypeOK /\ UNCHANGED <<row, told, grant, pc, job>>
  BY DEF Progress
<1>2. vm' \in [Ids -> Statuses \cup {"none"}] /\ \A id \in Ids : vm'[id] \in Alive <=> vm[id] \in Alive
  <2>1. PICK s \in {"terminated", "none"} : vm' = [vm EXCEPT ![i] = s] /\ vm[i] \in {"terminating", "terminated"}
    BY DEF Progress
  <2> QED
    BY <1>1, <2>1 DEF TypeOK, Statuses, Alive
<1>3. TypeOK'
  BY <1>1, <1>2 DEF TypeOK
<1>4. Places'
  <2> SUFFICES ASSUME NEW q \in Procs PROVE OwnOp(q)' /\ Holds(q)' /\ Knows(q)'
    BY DEF Places
  <2>1. OwnOp(q)' /\ Holds(q)'
    BY <1>1 DEF Places, OwnOp, Holds, Removing
  <2>2. Knows(q)'
    <3>1. job[q].row \in Ids \cup {None}
      BY <1>1 DEF TypeOK, Jobs
    <3> QED
      BY <1>1, <1>2, <3>1, VMAssumption DEF Places, Knows, Removing, RowPcs, DeletePcs
  <2> QED
    BY <2>1, <2>2
<1>5. Exclusive' /\ OneRow'
  BY <1>1 DEF Exclusive, OneRow, Claim, At, InDoubt
<1>6. UsedRuns'
  BY <1>1, <1>2 DEF UsedRuns, Used, Ending, Claim, At, InDoubt
<1>7. VMsAreKnown'
  BY <1>1, <1>2 DEF VMsAreKnown
<1> QED
  BY <1>3, <1>4, <1>5, <1>6, <1>7

-----------------------------------------------------------------------------
(* The theorems.                                                           *)

\* The inductive invariant holds in every state, whatever the calls, the faults and
\* the number of goroutines, names and VMs.
THEOREM Invariance == Spec => []IInv
<1>1. ASSUME IInv, [Next]_vmVars PROVE IInv'
  <2>1. ASSUME NEW p \in Procs, Begin(p) PROVE IInv'
    BY <1>1, <2>1, BeginStep
  <2>2. ASSUME NEW p \in Procs, TakeLock(p) PROVE IInv'
    BY <1>1, <2>2, TakeLockStep
  <2>3. ASSUME NEW p \in Procs, StartVM(p) PROVE IInv'
    <3>1. CASE StartVM_insert(p)
      <4>1. TypeOK /\ OwnOp(p) /\ Holds(p) /\ Knows(p) /\ pc[p] = "start.insert" /\ UNCHANGED <<vm, told, grant>>
        BY <1>1, <3>1 DEF IInv, Places, StartVM_insert, At
      <4>2. job[p].made \in Ids /\ job[p].op = "StartVM"
        BY <4>1 DEF TypeOK, OwnOp, MadePcs
      <4>3. CASE row' = [row EXCEPT ![job[p].name] = job[p].made] /\ Answer(p, "ok")
        BY <1>1, <4>1, <4>2, <4>3, InsertStep
      <4>4. CASE Goto(p, "start.undo") /\ UNCHANGED <<row, job>>
        <5>1. pc'[p] = "start.undo"
          BY <4>1, <4>4 DEF Goto, TypeOK
        <5>2. OwnOp(p)'
          BY <4>1, <4>2, <4>4, <5>1 DEF OwnOp, MadePcs, DeletePcs, AllOps, Lockless
        <5>3. Holds(p)' /\ Knows(p)'
          BY <4>1, <4>2, <4>4, <5>1 DEF Holds, Knows, Removing, WritePcs, ReadPcs, FreePcs, MadePcs, DeletePcs, RowPcs
        <5> QED
          BY <1>1, <4>1, <4>2, <4>4, <5>2, <5>3, GotoKeeps DEF Labels, RowPcs, DeletePcs, Reads
      <4> QED
        BY <3>1, <4>3, <4>4 DEF StartVM_insert
    <3> QED
      BY <1>1, <2>3, <3>1, StartSteps, StartStep DEF StartVM
  <2>4. ASSUME NEW p \in Procs, RegisterVM(p) PROVE IInv'
    <3>1. CASE pc[p] = "register.insert"
      <4>1. job[p].id \in Ids
        BY <1>1, <3>1, VMAssumption DEF IInv, Places, OwnOp
      <4>2. \/ /\ row' = [row EXCEPT ![job[p].name] = job[p].id] /\ Answer(p, "ok") /\ UNCHANGED <<vm, grant>>
               /\ told' = told \ {<<job[p].id, "vm">>}
            \/ Answer(p, "error") /\ Reads
        BY <2>4, <3>1 DEF RegisterVM, At, DBError
      <4> QED
        BY <1>1, <3>1, <4>1, <4>2, InsertStep, ReadAnswer DEF MadePcs
    <3> QED
      BY <1>1, <2>4, <3>1, RegisterSteps
  <2>5. ASSUME NEW p \in Procs, UnregisterVM(p) PROVE IInv'
    <3>1. CASE ReadRow(p, "UnregisterVM", "unregister.delete")
      BY <1>1, <3>1, ReadRowStep
    <3>2. CASE /\ At(p, "unregister.delete")
               /\ \/ row' = [row EXCEPT ![job[p].name] = None] /\ Answer(p, "ok") /\ UNCHANGED <<vm, told, grant>>
                  \/ Answer(p, "error") /\ Reads
      BY <1>1, <3>2, RemoveStep, ReadAnswer DEF At, MadePcs
    <3> QED
      BY <2>5, <3>1, <3>2 DEF UnregisterVM, DBError
  <2>6. ASSUME NEW p \in Procs, DeleteVM(p) PROVE IInv'
    <3>1. CASE ReadRow(p, "DeleteVM", "delete.terminate")
      BY <1>1, <3>1, ReadRowStep
    <3>2. CASE DeleteVM_row(p)
      <4>1. CASE row' = [row EXCEPT ![job[p].name] = None] /\ Answer(p, "ok") /\ UNCHANGED told
        BY <1>1, <3>2, <4>1, RemoveStep DEF DeleteVM_row, At
      <4>2. CASE Answer(p, "error") /\ UNCHANGED <<row, told>>
        BY <1>1, <3>2, <4>2, ReadAnswer DEF DeleteVM_row, At, MadePcs, Reads
      <4>3. CASE Answer(p, "ok") /\ told' = told \cup {<<job[p].row, "row">>} /\ UNCHANGED row
        <5>1. TypeOK /\ OwnOp(p) /\ Knows(p) /\ pc[p] = "delete.row" /\ UNCHANGED <<vm, grant>>
          BY <1>1, <3>2 DEF IInv, Places, DeleteVM_row, At
        <5>2. job[p].row \in Ids /\ job[p].made = None
          BY <5>1 DEF Knows, RowPcs, DeletePcs, OwnOp, MadePcs
        <5>3. job'[p].row = job[p].row
          BY <4>3, <5>1, Answered
        <5>4. InDoubt(job[p].row)' /\ told' \subseteq Ids \X Kinds /\ NoneStarts
          BY <4>3, <5>1, <5>2, <5>3 DEF InDoubt, TypeOK, Kinds, NoneStarts
        <5>5. vm' \in [Ids -> Statuses \cup {"none"}]
          BY <5>1 DEF TypeOK
        <5> QED
          BY <1>1, <4>3, <5>1, <5>2, <5>4, <5>5, AnswerKeeps
      <4> QED
        BY <3>2, <4>1, <4>2, <4>3 DEF DeleteVM_row
    <3> QED
      BY <1>1, <2>6, <3>1, <3>2, DeleteSteps DEF DeleteVM
  <2>7. ASSUME NEW p \in Procs, Work(p) PROVE IInv'
    BY <1>1, <2>3, <2>4, <2>5, <2>6, <2>7, GetSteps, ControlStep, ListSteps, DeleteSteps, ReturnStep DEF Work
  <2>8. ASSUME NEW id \in Ids, Progress(id) PROVE IInv'
    BY <1>1, <2>8, ProgressStep
  <2>9. CASE UNCHANGED vmVars
    BY <1>1, <2>9
    DEF vmVars, IInv, TypeOK, Places, OwnOp, Holds, Knows, Removing, Tables, Exclusive, OneRow,
        UsedRuns, Used, Ending, Claim, At, InDoubt, VMsAreKnown
  <2> QED
    BY <1>1, <2>1, <2>2, <2>7, <2>8, <2>9 DEF Next
<1> QED
  BY InitIInv, <1>1, PTL DEF Spec

\* The variables keep their types; in particular, nothing is done to a VM whose id
\* the call has not read from its row or got from the driver.
THEOREM TypeCorrect == Spec => []TypeOK
<1>1. IInv => TypeOK
  BY DEF IInv
<1> QED
  BY <1>1, Invariance, PTL

\* A VM that runs has a row, or a call that has still to insert it or will delete it,
\* unless a caller was told or asked for it: StartVM takes back what it cannot record,
\* and DeleteVM, unless forced, removes the row of a VM that has ended.
THEOREM VMsAreKnownHolds == Spec => []VMsAreKnown
<1>1. IInv => VMsAreKnown
  BY DEF IInv, Tables
<1> QED
  BY <1>1, Invariance, PTL

\* A row whose VM is gone is that of a delete under way or of one that failed, or
\* RegisterVM took it in doubt: a delete that removes its row leaves no other row of
\* the VM, and a VM that RegisterVM took when it ran is as good as one of StartVM.
THEOREM RowsHaveVMsHolds == Spec => []RowsHaveVMs
<1>1. IInv => RowsHaveVMs
  <2> SUFFICES ASSUME IInv, NEW n \in Names, row[n] # None, vm[row[n]] = "none", <<row[n], "row">> \notin told
               PROVE  Ending(row[n])
    BY DEF RowsHaveVMs
  <2>1. row[n] \in Ids /\ vm[row[n]] \notin Alive
    BY DEF IInv, TypeOK, Alive
  <2> QED
    BY <2>1 DEF IInv, Tables, UsedRuns, Used, InDoubt
<1> QED
  BY <1>1, Invariance, PTL

\* GetVM and ControlVM ask for a VM that the CSP has, unless its row is in doubt or
\* DeleteCSPResource, which takes no lock, is deleting it: no DeleteVM is between
\* its read of the row and its delete of it.
THEOREM ReadersFindVMHolds == Spec => []ReadersFindVM
<1>1. IInv => ReadersFindVM
  <2> SUFFICES ASSUME IInv, NEW p \in Procs, pc[p] \in {"get.csp", "control.csp"},
                      vm[job[p].row] = "none", ~InDoubt(job[p].row)
               PROVE  \E q \in Procs : job[q].op = "DeleteCSPVM" /\ job[q].id = job[p].row
    BY DEF ReadersFindVM, InDoubt
  <2>0. None \notin Ids
    BY VMAssumption
  <2> PICK id \in Ids : id = job[p].row
    BY DEF IInv, Places, Knows, RowPcs
  <2>1. /\ OwnOp(p) /\ Knows(p) /\ Holds(p) /\ row[job[p].name] = id /\ job[p].name \in Names
        /\ grant[p] = <<job[p].name, "R">>
    BY DEF IInv, Places, OwnOp, Holds, Knows, RowPcs, ReadPcs, AllOps
  <2>2. ~InDoubt(id) /\ vm[id] \notin Alive
    BY DEF Alive
  <2>3. Ending(id)
    BY <2>1, <2>2 DEF IInv, Tables, UsedRuns, Used
  <2>4. PICK q \in Procs : \/ job[q].op = "DeleteVM" /\ job[q].row = id /\ job[q].resp # "ok"
                           \/ job[q].op = "DeleteCSPVM" /\ job[q].id = id
    BY <2>3 DEF Ending
  <2>5. TypeOK /\ OwnOp(q) /\ Knows(q) /\ Holds(q)
    BY DEF IInv, Places
  <2>6. CASE job[q].op = "DeleteVM" /\ job[q].row = id /\ job[q].resp # "ok"
    <3>1. id = job[q].row /\ pc[q] \in {"done"} \cup DeletePcs
      BY <2>0, <2>4, <2>5, <2>6 DEF OwnOp, AllOps
    <3>2. grant[q] = <<job[q].name, "W">> /\ job[q].name \in Names
      BY <2>5, <2>6, <3>1 DEF OwnOp, Holds, Removing, WritePcs, AllOps
    <3>3. row[job[q].name] = id
      BY <2>0, <2>5, <2>6, <3>1 DEF OwnOp, Knows, RowPcs, Removing
    <3>4. job[q].name = job[p].name
      BY <2>0, <2>1, <2>2, <3>2, <3>3 DEF IInv, Tables, OneRow
    <3>5. p # q /\ grant[p] # None /\ grant[q] # None
      BY <2>1, <3>1, <3>2, VMAssumption DEF DeletePcs
    <3>6. ~Lock!Conflict(grant[p], grant[q])
      BY <3>5 DEF IInv, Tables, Exclusive
    <3> QED
      BY <2>1, <3>2, <3>4, <3>6 DEF Lock!Conflict
  <2>7. CASE job[q].op = "DeleteCSPVM" /\ job[q].id = id
    BY <2>7
  <2> QED
    BY <2>4, <2>6, <2>7
<1> QED
  BY <1>1, Invariance, PTL

=============================================================================
