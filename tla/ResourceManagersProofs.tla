----------------------- MODULE ResourceManagersProofs -----------------------
(***************************************************************************)
(* ResourceManagers, for any number of goroutines, owners, names and ids,  *)
(* all thirteen managers, every failure: no row is replaced by another     *)
(* resource's but where a cluster or a zone comes with what is in it, rows *)
(* are only written under owners that have a row, and nothing that a       *)
(* careful manager made is lost.                                           *)
(*                                                                         *)
(* The functions of the managers differ in the order of their steps, so    *)
(* the argument is about orders.  What the sequences have in common        *)
(* (Ordered: locks before checks, checks before what the driver makes,     *)
(* that before the insert; Left: which steps a kind of call has) is shown  *)
(* of every function once (OperationsFit), and of what is left of it after *)
(* a step (TailFits).  The invariant RowsInv says of each call alone what  *)
(* it must know and hold for the steps it has left (JobFits, LocksFit),    *)
(* and that a call which has checked its name, and will write, finds the   *)
(* name free (FreeFits).  The calls meet in that last one: two that may    *)
(* write one row hold the same lock (GuardsExclude, OthersFree); those that*)
(* write the rows of what is in a cluster hold its lock alone.             *)
(*                                                                         *)
(* KeptInv rests on RowsInv: what a careful call has read and is to take   *)
(* out of the table is still what the table has (RowHeld), only the insert,*)
(* or its undo, comes after the driver made something, and what is in the  *)
(* CSP, was not given up and has no row is in the hands of such a call     *)
(* (Held).                                                                 *)
(***************************************************************************)
EXTENDS ResourceManagers, TLAPS

-----------------------------------------------------------------------------
(* What the sequences of steps have in common.                             *)

OwnerLocks == {"ownerLock", "ownerRLock"}
Checks == {"free", "freeInOwner", "freeOrSame"}
Gives == {"make", "find", "replace"}
Inserts == {"insert", "insertOrUndo"}
Reads == {"row", "rowInOwner"}
Drops == {"drop", "dropIgnoringFalse"}
RowDeletes == {"deleteRows", "deleteRow", "deleteRowsOrError"}
ListSteps == {"rows", "each", "eachOrStub", "eachUnlocked", "get", "getOrStub"}
PartInserts == {"insertParts", "insertPartsOrRollback"}
PartSteps == PartInserts \cup {"findOwner", "makeOwner", "insertOwnerOrUndo", "undoOwner", "releaseOwner", "dropOwner",
                               "deleteRowsOfOwner"}
OwnerSteps == PartSteps \cup {"ownerFree", "insertOwner", "deleteOwner"}
Steps == OwnerLocks \cup Checks \cup Gives \cup Inserts \cup Reads \cup Drops \cup RowDeletes \cup ListSteps
         \cup OwnerSteps \cup {"lock", "rlock", "owner", "await", "call", "dropById", "gone", "undo", "rollback",
                               "insertOthers", "insertOthersOrRollback", "deleteOthers"}

\* Managers of what is part of another resource, under the lock of that one;
\* managers of what has no owner but the connection.
Parts == {"NODEGROUP", "DNSRECORD"}
NoOwners == {"KEY", "MYIMAGE", "NIC", "PUBLICIP", "DISK", "DNSZONE"}
LockStep(m) == IF m \in Parts THEN "ownerLock" ELSE "lock"

\* The calls that are about one resource, under its name.
Named == {"register", "create", "read", "change", "delete", "unregister"}
Kinds == Named \cup {"none", "answered", "list", "owner", "csp"}

\* One of S is among the steps s; all of A come before all of B; at most one of S.
Rest(s, S) == \E i \in DOMAIN s : s[i] \in S
Order(s, A, B) == \A i, j \in DOMAIN s : s[i] \in A /\ s[j] \in B => i < j
Once(s, S) == \A i, j \in DOMAIN s : s[i] \in S /\ s[j] \in S => i = j

\* The order of the steps that are left of a call of manager m.
Ordered(m, s) ==
  /\ Order(s, {LockStep(m)}, Checks \cup Reads \cup Gives \cup Inserts \cup RowDeletes \cup Drops)
  /\ Order(s, OwnerLocks, {"owner"} \cup OwnerSteps \cup Inserts)
  /\ Order(s, {"owner"} \cup Checks \cup Gives \cup {"deleteRow"}, Inserts)
  /\ Order(s, Inserts, {"insertOthersOrRollback"})
  /\ Order(s, {"insertOwner", "insertOwnerOrUndo"}, PartInserts)
  /\ Order(s, Checks, Gives)
  /\ Order(s, Reads, Drops \cup RowDeletes \cup {"call", "replace"})
  /\ Order(s, Drops, RowDeletes)
  /\ Order(s, Steps \ {"insert", "insertOthers"}, {"insert"})
  /\ Once(s, Gives) /\ Once(s, Inserts) /\ Once(s, Drops) /\ Once(s, RowDeletes)
  /\ m \notin Careless => /\ Order(s, Steps \ Inserts, {"insertOrUndo"})
                          /\ Order(s, Steps \ (Gives \cup Inserts \cup {"insertOthers"}), Gives)

\* What is among the steps that are left of a call of kind k.
Left(m, k, s) ==
  /\ Rest(s, OwnerLocks) \/ Rest(s, {"owner"}) => k \in Named \cup {"owner"}
  /\ Rest(s, {"lock", "rlock"} \cup Reads) => k \in Named
  /\ Rest(s, Inserts \cup {"owner"}) => ~Rest(s, {"row"})
  /\ Rest(s, Inserts) => k \in {"register", "create", "change"} /\ ~Rest(s, {"undo", "rollback"})
  /\ Rest(s, Inserts) /\ ~Rest(s, {"owner"}) => ~Rest(s, OwnerLocks)
  /\ Rest(s, {"insertOrUndo", "undo", "rollback", "insertOthersOrRollback"}) => k = "create"
  /\ Rest(s, {"rollback", "insertOthersOrRollback"}) => m = "CLUSTER"
  /\ m \in Parts => k # "register" /\ ~Rest(s, {"row"})
  /\ Rest(s, ListSteps) => k = "list"
  /\ k = "list" => ~Rest(s, Steps \ ListSteps)
  /\ Rest(s, {"find"}) => k = "register"
  /\ Rest(s, {"make"}) => k = "create"
  /\ Rest(s, {"replace"}) => k = "change"
  /\ Rest(s, Drops) => k = "delete" /\ ~Rest(s, Inserts)
  /\ Rest(s, RowDeletes) => k \in {"delete", "unregister"} \/ m \in {"CLUSTER", "DNSRECORD"}
  /\ Rest(s, OwnerSteps) => k = "owner"
  /\ Rest(s, {"insertOthers"}) => k = "register"
  /\ Rest(s, PartSteps) => m \in Parts
  /\ Rest(s, PartInserts) => ~Rest(s, {"deleteOwner", "releaseOwner"})
  /\ Rest(s, PartInserts) /\ ~Rest(s, {"insertOwner", "insertOwnerOrUndo"}) => ~Rest(s, OwnerLocks)
  /\ Rest(s, {"dropById"}) => k = "csp"
  /\ k = "csp" => ~Rest(s, Steps \ {"dropById"})
  /\ k = "create" => ~Rest(s, {"deleteRow", "deleteRows", "call"})
  /\ m # "FILESYSTEM" => ~Rest(s, {"dropIgnoringFalse"})
  /\ m \notin Careless => ~Rest(s, {"rollback", "replace", "deleteRowsOfOwner"})
  /\ m = "SG" => ~Rest(s, {"deleteRows", "deleteRowsOrError"})
  /\ Rest(s, {"insert"}) => k # "create"
  /\ Rest(s, Reads) => k \notin {"register", "create"}
  /\ Rest(s, Gives) => Rest(s, Inserts)
  /\ Rest(s, Drops) => Rest(s, RowDeletes)
  /\ Rest(s, Checks) => k \in {"register", "create"}
  /\ k = "delete" /\ Rest(s, Reads) => Rest(s, Drops)

Shape(m, k, s) == s \in Seq(Steps) /\ Ordered(m, s) /\ Left(m, k, s)

\* A call that changes rows takes the lock that guards them.
Writer(m, k) == k \in {"register", "create", "unregister"} \/ (k = "delete" /\ m # "FILESYSTEM")

\* What holds of a function as it is written.
StartsWith(m, k, s) ==
  /\ k \in Kinds \ {"none", "answered"} /\ Shape(m, k, s)
  /\ Rest(s, Inserts) => Rest(s, Checks \cup {"deleteRow"}) /\ Rest(s, Gives)
  /\ Rest(s, {"call", "replace"} \cup Drops \cup RowDeletes) => Rest(s, Reads)
  /\ Writer(m, k) \/ Rest(s, {"replace"}) => Rest(s, {LockStep(m)})
  /\ k = "owner" => Rest(s, {"ownerLock"})
  /\ m \in Parts /\ k \in Named => Rest(s, {"ownerLock"})
  /\ m \in NoOwners => ~Rest(s, OwnerLocks)
  /\ ~Rest(s, {"undo", "rollback"})
  /\ Rest(s, {"insertOthersOrRollback"}) => Rest(s, Inserts)
  /\ Rest(s, PartInserts) => Rest(s, {"insertOwner", "insertOwnerOrUndo"})
  /\ k = "delete" => Rest(s, Drops)

Starts(m, op) == StartsWith(m, op.kind, op.steps)


\* A step of S among those left is one of any larger set.
LEMMA RestIn ==
  ASSUME NEW s, NEW S, NEW T, S \subseteq T, Rest(s, S)
  PROVE  Rest(s, T)
BY DEF Rest

\* What is left after the first step: what is among it, and in what order.
LEMMA Tails ==
  ASSUME NEW s \in Seq(Steps), s # <<>>
  PROVE  /\ Head(s) \in Steps /\ Tail(s) \in Seq(Steps)
         /\ \A S : Rest(s, S) <=> Head(s) \in S \/ Rest(Tail(s), S)
         /\ \A A, B : Order(s, A, B) => Order(Tail(s), A, B) /\ (Head(s) \in B => ~Rest(s, A))
         /\ \A S : Once(s, S) => Once(Tail(s), S) /\ (Head(s) \in S => ~Rest(Tail(s), S))
<1>1. /\ Len(s) \in Nat \ {0} /\ Tail(s) \in Seq(Steps) /\ Len(Tail(s)) = Len(s) - 1 /\ Head(s) = s[1]
      /\ \A i \in 1 .. Len(Tail(s)) : Tail(s)[i] = s[i + 1]
  OBVIOUS
<1>2. DOMAIN s = 1 .. Len(s) /\ DOMAIN Tail(s) = 1 .. Len(s) - 1
  BY <1>1
<1>3. ASSUME NEW i \in DOMAIN s, i # 1  PROVE i - 1 \in DOMAIN Tail(s) /\ Tail(s)[i - 1] = s[i]
  BY <1>1, <1>2, <1>3
<1>4. ASSUME NEW i \in DOMAIN Tail(s)  PROVE i \in Nat /\ i + 1 # 1 /\ i + 1 \in DOMAIN s /\ Tail(s)[i] = s[i + 1]
  BY <1>1, <1>2, <1>4
<1>5. 1 \in DOMAIN s /\ \A i \in DOMAIN s : i \in Nat /\ ~(i < 1)
  BY <1>1, <1>2
<1>6. Head(s) \in Steps
  BY <1>1, <1>5
<1>7. ASSUME NEW S  PROVE Rest(s, S) <=> Head(s) \in S \/ Rest(Tail(s), S)
  BY <1>1, <1>3, <1>4, <1>5 DEF Rest
<1>8. ASSUME NEW A, NEW B, Order(s, A, B)  PROVE Order(Tail(s), A, B) /\ (Head(s) \in B => ~Rest(s, A))
  <2>1. ASSUME NEW i \in DOMAIN Tail(s), NEW j \in DOMAIN Tail(s), Tail(s)[i] \in A, Tail(s)[j] \in B
        PROVE  i < j
    <3>1. i + 1 < j + 1
      BY <1>4, <1>8, <2>1 DEF Order
    <3> QED
      BY <1>4, <3>1
  <2>2. Head(s) \in B => ~Rest(s, A)
    BY <1>1, <1>5, <1>8 DEF Order, Rest
  <2> QED
    BY <2>1, <2>2 DEF Order
<1>9. ASSUME NEW S, Once(s, S)  PROVE Once(Tail(s), S) /\ (Head(s) \in S => ~Rest(Tail(s), S))
  <2>1. ASSUME NEW i \in DOMAIN Tail(s), NEW j \in DOMAIN Tail(s), Tail(s)[i] \in S, Tail(s)[j] \in S
        PROVE  i = j
    <3>1. i + 1 = j + 1
      BY <1>4, <1>9, <2>1 DEF Once
    <3> QED
      BY <1>4, <3>1
  <2>2. Head(s) \in S => ~Rest(Tail(s), S)
    BY <1>1, <1>4, <1>5, <1>9 DEF Once, Rest
  <2> QED
    BY <2>1, <2>2 DEF Once
<1> QED
  BY <1>1, <1>6, <1>7, <1>8, <1>9

\* The common shape of the functions is kept by each step that is done.
LEMMA TailFits ==
  ASSUME NEW m, NEW k, NEW s, s # <<>>, Shape(m, k, s)
  PROVE  Shape(m, k, Tail(s))
<1>1. s \in Seq(Steps) /\ Tail(s) \in Seq(Steps) /\ Ordered(m, s) /\ Left(m, k, s)
  BY Tails DEF Shape
<1>2. /\ \A S : Rest(s, S) <=> Head(s) \in S \/ Rest(Tail(s), S)
      /\ \A A, B : Order(s, A, B) => Order(Tail(s), A, B) /\ (Head(s) \in B => ~Rest(s, A))
      /\ \A S : Once(s, S) => Once(Tail(s), S)
  BY <1>1, Tails
<1>3. Ordered(m, Tail(s))
  BY <1>1, <1>2 DEF Ordered
<1>4. Rest(Tail(s), Inserts) /\ ~Rest(Tail(s), {"owner"}) => ~Rest(Tail(s), OwnerLocks)
  <2>1. CASE Head(s) = "owner"
    BY <1>1, <1>2, <2>1 DEF Ordered
  <2>2. CASE Head(s) # "owner"
    BY <1>1, <1>2, <2>2 DEF Left
  <2> QED
    BY <2>1, <2>2
<1>5. /\ Rest(Tail(s), Gives) => Rest(Tail(s), Inserts)
      /\ Rest(Tail(s), Drops) => Rest(Tail(s), RowDeletes)
      /\ k = "delete" /\ Rest(Tail(s), Reads) => Rest(Tail(s), Drops)
  <2>1. Head(s) \in Inserts => ~Rest(s, {"owner"} \cup Checks \cup Gives \cup {"deleteRow"})
    BY <1>1, <1>2 DEF Ordered
  <2>2. Rest(s, Gives) => Rest(s, {"owner"} \cup Checks \cup Gives \cup {"deleteRow"})
    BY RestIn
  <2> QED
    <3>1. Head(s) \in Drops => ~Rest(s, Reads)
      <4>1. Head(s) \in Drops => Head(s) \in Drops \cup RowDeletes \cup {"call", "replace"}
        OBVIOUS
      <4> QED
        BY <1>1, <1>2, <4>1 DEF Ordered
    <3> QED
      BY <1>1, <1>2, <2>1, <2>2, <3>1 DEF Ordered, Left
<1>7. ASSUME Rest(Tail(s), PartInserts), ~Rest(Tail(s), {"insertOwner", "insertOwnerOrUndo"})
      PROVE  ~Rest(Tail(s), OwnerLocks)
  <2>1. CASE Head(s) \in {"insertOwner", "insertOwnerOrUndo"}
    <3>1. Head(s) \in {"owner"} \cup OwnerSteps \cup Inserts
      BY <2>1 DEF OwnerSteps, PartSteps
    <3> QED
      BY <1>1, <1>2, <3>1 DEF Ordered
  <2>2. CASE Head(s) \notin {"insertOwner", "insertOwnerOrUndo"}
    BY <1>1, <1>2, <1>7, <2>2 DEF Left
  <2> QED
    BY <2>1, <2>2
<1>6. Left(m, k, Tail(s))
  BY <1>1, <1>2, <1>4, <1>5, <1>7 DEF Left
<1> QED
  BY <1>1, <1>3, <1>6 DEF Shape

-----------------------------------------------------------------------------
(* The sequences, by their length: what Rest, Order and Once are of them.  *)

SpellsOne(s, a) ==
  /\ \A S : Rest(s, S) <=> a \in S
  /\ \A A, B : Order(s, A, B) <=>
       /\ a \in B => a \notin A
  /\ \A S : Once(s, S)

\* What a sequence of one step has in it, written out.
LEMMA OneSteps == \A a : SpellsOne(<<a>>, a)
<1> SUFFICES ASSUME NEW a PROVE SpellsOne(<<a>>, a)
  OBVIOUS
<1> DEFINE s == <<a>>
<1>1. DOMAIN s = {1} /\ s[1] = a
  OBVIOUS
<1> HIDE DEF s
<1>2. \A S : Rest(s, S) <=> a \in S
  BY <1>1 DEF Rest
<1>3. \A A, B : Order(s, A, B) <=>
        /\ a \in B => a \notin A
  BY <1>1 DEF Order
<1>4. \A S : Once(s, S)
  BY <1>1 DEF Once
<1> QED
  BY <1>2, <1>3, <1>4 DEF SpellsOne, s

SpellsTwo(s, a, b) ==
  /\ \A S : Rest(s, S) <=> a \in S \/ b \in S
  /\ \A A, B : Order(s, A, B) <=>
       /\ a \in B => a \notin A /\ b \notin A
       /\ b \in B => b \notin A
  /\ \A S : Once(s, S) <=>
       /\ a \in S => b \notin S

\* Of two.
LEMMA TwoSteps == \A a, b : SpellsTwo(<<a, b>>, a, b)
<1> SUFFICES ASSUME NEW a, NEW b PROVE SpellsTwo(<<a, b>>, a, b)
  OBVIOUS
<1> DEFINE s == <<a, b>>
<1>1. DOMAIN s = {1, 2} /\ s[1] = a /\ s[2] = b
  OBVIOUS
<1> HIDE DEF s
<1>2. \A S : Rest(s, S) <=> a \in S \/ b \in S
  BY <1>1 DEF Rest
<1>3. \A A, B : Order(s, A, B) <=>
        /\ a \in B => a \notin A /\ b \notin A
        /\ b \in B => b \notin A
  BY <1>1 DEF Order
<1>4. \A S : Once(s, S) <=>
        /\ a \in S => b \notin S
  BY <1>1 DEF Once
<1> QED
  BY <1>2, <1>3, <1>4 DEF SpellsTwo, s

SpellsThree(s, a, b, c) ==
  /\ \A S : Rest(s, S) <=> a \in S \/ b \in S \/ c \in S
  /\ \A A, B : Order(s, A, B) <=>
       /\ a \in B => a \notin A /\ b \notin A /\ c \notin A
       /\ b \in B => b \notin A /\ c \notin A
       /\ c \in B => c \notin A
  /\ \A S : Once(s, S) <=>
       /\ a \in S => b \notin S /\ c \notin S
       /\ b \in S => c \notin S

\* Of three.
LEMMA ThreeSteps == \A a, b, c : SpellsThree(<<a, b, c>>, a, b, c)
<1> SUFFICES ASSUME NEW a, NEW b, NEW c PROVE SpellsThree(<<a, b, c>>, a, b, c)
  OBVIOUS
<1> DEFINE s == <<a, b, c>>
<1>1. DOMAIN s = {1, 2, 3} /\ s[1] = a /\ s[2] = b /\ s[3] = c
  OBVIOUS
<1> HIDE DEF s
<1>2. \A S : Rest(s, S) <=> a \in S \/ b \in S \/ c \in S
  BY <1>1 DEF Rest
<1>3. \A A, B : Order(s, A, B) <=>
        /\ a \in B => a \notin A /\ b \notin A /\ c \notin A
        /\ b \in B => b \notin A /\ c \notin A
        /\ c \in B => c \notin A
  BY <1>1 DEF Order
<1>4. \A S : Once(s, S) <=>
        /\ a \in S => b \notin S /\ c \notin S
        /\ b \in S => c \notin S
  BY <1>1 DEF Once
<1> QED
  BY <1>2, <1>3, <1>4 DEF SpellsThree, s

SpellsFour(s, a, b, c, d) ==
  /\ \A S : Rest(s, S) <=> a \in S \/ b \in S \/ c \in S \/ d \in S
  /\ \A A, B : Order(s, A, B) <=>
       /\ a \in B => a \notin A /\ b \notin A /\ c \notin A /\ d \notin A
       /\ b \in B => b \notin A /\ c \notin A /\ d \notin A
       /\ c \in B => c \notin A /\ d \notin A
       /\ d \in B => d \notin A
  /\ \A S : Once(s, S) <=>
       /\ a \in S => b \notin S /\ c \notin S /\ d \notin S
       /\ b \in S => c \notin S /\ d \notin S
       /\ c \in S => d \notin S

\* Of four.
LEMMA FourSteps == \A a, b, c, d : SpellsFour(<<a, b, c, d>>, a, b, c, d)
<1> SUFFICES ASSUME NEW a, NEW b, NEW c, NEW d PROVE SpellsFour(<<a, b, c, d>>, a, b, c, d)
  OBVIOUS
<1> DEFINE s == <<a, b, c, d>>
<1>1. DOMAIN s = {1, 2, 3, 4} /\ s[1] = a /\ s[2] = b /\ s[3] = c /\ s[4] = d
  OBVIOUS
<1> HIDE DEF s
<1>2. \A S : Rest(s, S) <=> a \in S \/ b \in S \/ c \in S \/ d \in S
  BY <1>1 DEF Rest
<1>3. \A A, B : Order(s, A, B) <=>
        /\ a \in B => a \notin A /\ b \notin A /\ c \notin A /\ d \notin A
        /\ b \in B => b \notin A /\ c \notin A /\ d \notin A
        /\ c \in B => c \notin A /\ d \notin A
        /\ d \in B => d \notin A
  BY <1>1 DEF Order
<1>4. \A S : Once(s, S) <=>
        /\ a \in S => b \notin S /\ c \notin S /\ d \notin S
        /\ b \in S => c \notin S /\ d \notin S
        /\ c \in S => d \notin S
  BY <1>1 DEF Once
<1> QED
  BY <1>2, <1>3, <1>4 DEF SpellsFour, s

SpellsFive(s, a, b, c, d, e) ==
  /\ \A S : Rest(s, S) <=> a \in S \/ b \in S \/ c \in S \/ d \in S \/ e \in S
  /\ \A A, B : Order(s, A, B) <=>
       /\ a \in B => a \notin A /\ b \notin A /\ c \notin A /\ d \notin A /\ e \notin A
       /\ b \in B => b \notin A /\ c \notin A /\ d \notin A /\ e \notin A
       /\ c \in B => c \notin A /\ d \notin A /\ e \notin A
       /\ d \in B => d \notin A /\ e \notin A
       /\ e \in B => e \notin A
  /\ \A S : Once(s, S) <=>
       /\ a \in S => b \notin S /\ c \notin S /\ d \notin S /\ e \notin S
       /\ b \in S => c \notin S /\ d \notin S /\ e \notin S
       /\ c \in S => d \notin S /\ e \notin S
       /\ d \in S => e \notin S

\* Of five.
LEMMA FiveSteps == \A a, b, c, d, e : SpellsFive(<<a, b, c, d, e>>, a, b, c, d, e)
<1> SUFFICES ASSUME NEW a, NEW b, NEW c, NEW d, NEW e PROVE SpellsFive(<<a, b, c, d, e>>, a, b, c, d, e)
  OBVIOUS
<1> DEFINE s == <<a, b, c, d, e>>
<1>1. DOMAIN s = {1, 2, 3, 4, 5} /\ s[1] = a /\ s[2] = b /\ s[3] = c /\ s[4] = d /\ s[5] = e
  OBVIOUS
<1> HIDE DEF s
<1>2. \A S : Rest(s, S) <=> a \in S \/ b \in S \/ c \in S \/ d \in S \/ e \in S
  BY <1>1 DEF Rest
<1>3. \A A, B : Order(s, A, B) <=>
        /\ a \in B => a \notin A /\ b \notin A /\ c \notin A /\ d \notin A /\ e \notin A
        /\ b \in B => b \notin A /\ c \notin A /\ d \notin A /\ e \notin A
        /\ c \in B => c \notin A /\ d \notin A /\ e \notin A
        /\ d \in B => d \notin A /\ e \notin A
        /\ e \in B => e \notin A
  BY <1>1 DEF Order
<1>4. \A S : Once(s, S) <=>
        /\ a \in S => b \notin S /\ c \notin S /\ d \notin S /\ e \notin S
        /\ b \in S => c \notin S /\ d \notin S /\ e \notin S
        /\ c \in S => d \notin S /\ e \notin S
        /\ d \in S => e \notin S
  BY <1>1 DEF Once
<1> QED
  BY <1>2, <1>3, <1>4 DEF SpellsFive, s

SpellsSix(s, a, b, c, d, e, f) ==
  /\ \A S : Rest(s, S) <=> a \in S \/ b \in S \/ c \in S \/ d \in S \/ e \in S \/ f \in S
  /\ \A A, B : Order(s, A, B) <=>
       /\ a \in B => a \notin A /\ b \notin A /\ c \notin A /\ d \notin A /\ e \notin A /\ f \notin A
       /\ b \in B => b \notin A /\ c \notin A /\ d \notin A /\ e \notin A /\ f \notin A
       /\ c \in B => c \notin A /\ d \notin A /\ e \notin A /\ f \notin A
       /\ d \in B => d \notin A /\ e \notin A /\ f \notin A
       /\ e \in B => e \notin A /\ f \notin A
       /\ f \in B => f \notin A
  /\ \A S : Once(s, S) <=>
       /\ a \in S => b \notin S /\ c \notin S /\ d \notin S /\ e \notin S /\ f \notin S
       /\ b \in S => c \notin S /\ d \notin S /\ e \notin S /\ f \notin S
       /\ c \in S => d \notin S /\ e \notin S /\ f \notin S
       /\ d \in S => e \notin S /\ f \notin S
       /\ e \in S => f \notin S

\* Of six.
LEMMA SixSteps == \A a, b, c, d, e, f : SpellsSix(<<a, b, c, d, e, f>>, a, b, c, d, e, f)
<1> SUFFICES ASSUME NEW a, NEW b, NEW c, NEW d, NEW e, NEW f PROVE SpellsSix(<<a, b, c, d, e, f>>, a, b, c, d, e, f)
  OBVIOUS
<1> DEFINE s == <<a, b, c, d, e, f>>
<1>1. DOMAIN s = {1, 2, 3, 4, 5, 6} /\ s[1] = a /\ s[2] = b /\ s[3] = c /\ s[4] = d /\ s[5] = e /\ s[6] = f
  OBVIOUS
<1> HIDE DEF s
<1>2. \A S : Rest(s, S) <=> a \in S \/ b \in S \/ c \in S \/ d \in S \/ e \in S \/ f \in S
  BY <1>1 DEF Rest
<1>3. \A A, B : Order(s, A, B) <=>
        /\ a \in B => a \notin A /\ b \notin A /\ c \notin A /\ d \notin A /\ e \notin A /\ f \notin A
        /\ b \in B => b \notin A /\ c \notin A /\ d \notin A /\ e \notin A /\ f \notin A
        /\ c \in B => c \notin A /\ d \notin A /\ e \notin A /\ f \notin A
        /\ d \in B => d \notin A /\ e \notin A /\ f \notin A
        /\ e \in B => e \notin A /\ f \notin A
        /\ f \in B => f \notin A
  BY <1>1 DEF Order
<1>4. \A S : Once(s, S) <=>
        /\ a \in S => b \notin S /\ c \notin S /\ d \notin S /\ e \notin S /\ f \notin S
        /\ b \in S => c \notin S /\ d \notin S /\ e \notin S /\ f \notin S
        /\ c \in S => d \notin S /\ e \notin S /\ f \notin S
        /\ d \in S => e \notin S /\ f \notin S
        /\ e \in S => f \notin S
  BY <1>1 DEF Once
<1> QED
  BY <1>2, <1>3, <1>4 DEF SpellsSix, s

SpellsSeven(s, a, b, c, d, e, f, g) ==
  /\ \A S : Rest(s, S) <=> a \in S \/ b \in S \/ c \in S \/ d \in S \/ e \in S \/ f \in S \/ g \in S
  /\ \A A, B : Order(s, A, B) <=>
       /\ a \in B => a \notin A /\ b \notin A /\ c \notin A /\ d \notin A /\ e \notin A /\ f \notin A /\ g \notin A
       /\ b \in B => b \notin A /\ c \notin A /\ d \notin A /\ e \notin A /\ f \notin A /\ g \notin A
       /\ c \in B => c \notin A /\ d \notin A /\ e \notin A /\ f \notin A /\ g \notin A
       /\ d \in B => d \notin A /\ e \notin A /\ f \notin A /\ g \notin A
       /\ e \in B => e \notin A /\ f \notin A /\ g \notin A
       /\ f \in B => f \notin A /\ g \notin A
       /\ g \in B => g \notin A
  /\ \A S : Once(s, S) <=>
       /\ a \in S => b \notin S /\ c \notin S /\ d \notin S /\ e \notin S /\ f \notin S /\ g \notin S
       /\ b \in S => c \notin S /\ d \notin S /\ e \notin S /\ f \notin S /\ g \notin S
       /\ c \in S => d \notin S /\ e \notin S /\ f \notin S /\ g \notin S
       /\ d \in S => e \notin S /\ f \notin S /\ g \notin S
       /\ e \in S => f \notin S /\ g \notin S
       /\ f \in S => g \notin S

\* Of seven (RegisterCluster).
LEMMA SevenSteps == \A a, b, c, d, e, f, g : SpellsSeven(<<a, b, c, d, e, f, g>>, a, b, c, d, e, f, g)
<1> SUFFICES ASSUME NEW a, NEW b, NEW c, NEW d, NEW e, NEW f, NEW g
             PROVE  SpellsSeven(<<a, b, c, d, e, f, g>>, a, b, c, d, e, f, g)
  OBVIOUS
<1> DEFINE s == <<a, b, c, d, e, f, g>>
<1>1. /\ DOMAIN s = {1, 2, 3, 4, 5, 6, 7} /\ s[1] = a /\ s[2] = b /\ s[3] = c /\ s[4] = d
      /\ s[5] = e /\ s[6] = f /\ s[7] = g
  OBVIOUS
<1> HIDE DEF s
<1>2. \A S : Rest(s, S) <=> a \in S \/ b \in S \/ c \in S \/ d \in S \/ e \in S \/ f \in S \/ g \in S
  BY <1>1 DEF Rest
<1>3. \A A, B : Order(s, A, B) <=>
        /\ a \in B => a \notin A /\ b \notin A /\ c \notin A /\ d \notin A /\ e \notin A /\ f \notin A /\ g \notin A
        /\ b \in B => b \notin A /\ c \notin A /\ d \notin A /\ e \notin A /\ f \notin A /\ g \notin A
        /\ c \in B => c \notin A /\ d \notin A /\ e \notin A /\ f \notin A /\ g \notin A
        /\ d \in B => d \notin A /\ e \notin A /\ f \notin A /\ g \notin A
        /\ e \in B => e \notin A /\ f \notin A /\ g \notin A
        /\ f \in B => f \notin A /\ g \notin A
        /\ g \in B => g \notin A
  BY <1>1 DEF Order
<1>4. \A S : Once(s, S) <=>
        /\ a \in S => b \notin S /\ c \notin S /\ d \notin S /\ e \notin S /\ f \notin S /\ g \notin S
        /\ b \in S => c \notin S /\ d \notin S /\ e \notin S /\ f \notin S /\ g \notin S
        /\ c \in S => d \notin S /\ e \notin S /\ f \notin S /\ g \notin S
        /\ d \in S => e \notin S /\ f \notin S /\ g \notin S
        /\ e \in S => f \notin S /\ g \notin S
        /\ f \in S => g \notin S
  BY <1>1 DEF Once
<1> QED
  BY <1>2, <1>3, <1>4 DEF SpellsSeven, s

SpellsEight(s, a, b, c, d, e, f, g, h) ==
  /\ \A S : Rest(s, S) <=> a \in S \/ b \in S \/ c \in S \/ d \in S \/ e \in S \/ f \in S \/ g \in S \/ h \in S
  /\ \A A, B : Order(s, A, B) <=>
       /\ a \in B => a \notin A /\ b \notin A /\ c \notin A /\ d \notin A
                     /\ e \notin A /\ f \notin A /\ g \notin A /\ h \notin A
       /\ b \in B => b \notin A /\ c \notin A /\ d \notin A /\ e \notin A /\ f \notin A /\ g \notin A /\ h \notin A
       /\ c \in B => c \notin A /\ d \notin A /\ e \notin A /\ f \notin A /\ g \notin A /\ h \notin A
       /\ d \in B => d \notin A /\ e \notin A /\ f \notin A /\ g \notin A /\ h \notin A
       /\ e \in B => e \notin A /\ f \notin A /\ g \notin A /\ h \notin A
       /\ f \in B => f \notin A /\ g \notin A /\ h \notin A
       /\ g \in B => g \notin A /\ h \notin A
       /\ h \in B => h \notin A
  /\ \A S : Once(s, S) <=>
       /\ a \in S => b \notin S /\ c \notin S /\ d \notin S /\ e \notin S /\ f \notin S /\ g \notin S /\ h \notin S
       /\ b \in S => c \notin S /\ d \notin S /\ e \notin S /\ f \notin S /\ g \notin S /\ h \notin S
       /\ c \in S => d \notin S /\ e \notin S /\ f \notin S /\ g \notin S /\ h \notin S
       /\ d \in S => e \notin S /\ f \notin S /\ g \notin S /\ h \notin S
       /\ e \in S => f \notin S /\ g \notin S /\ h \notin S
       /\ f \in S => g \notin S /\ h \notin S
       /\ g \in S => h \notin S

\* Of eight (CreateCluster).
LEMMA EightSteps == \A a, b, c, d, e, f, g, h : SpellsEight(<<a, b, c, d, e, f, g, h>>, a, b, c, d, e, f, g, h)
<1> SUFFICES ASSUME NEW a, NEW b, NEW c, NEW d, NEW e, NEW f, NEW g, NEW h
             PROVE  SpellsEight(<<a, b, c, d, e, f, g, h>>, a, b, c, d, e, f, g, h)
  OBVIOUS
<1> DEFINE s == <<a, b, c, d, e, f, g, h>>
<1>1. /\ DOMAIN s = {1, 2, 3, 4, 5, 6, 7, 8} /\ s[1] = a /\ s[2] = b /\ s[3] = c /\ s[4] = d
      /\ s[5] = e /\ s[6] = f /\ s[7] = g /\ s[8] = h
  OBVIOUS
<1> HIDE DEF s
<1>2. \A S : Rest(s, S) <=> a \in S \/ b \in S \/ c \in S \/ d \in S \/ e \in S \/ f \in S \/ g \in S \/ h \in S
  BY <1>1 DEF Rest
<1>3. \A A, B : Order(s, A, B) <=>
        /\ a \in B => a \notin A /\ b \notin A /\ c \notin A /\ d \notin A
                      /\ e \notin A /\ f \notin A /\ g \notin A /\ h \notin A
        /\ b \in B => b \notin A /\ c \notin A /\ d \notin A /\ e \notin A /\ f \notin A /\ g \notin A /\ h \notin A
        /\ c \in B => c \notin A /\ d \notin A /\ e \notin A /\ f \notin A /\ g \notin A /\ h \notin A
        /\ d \in B => d \notin A /\ e \notin A /\ f \notin A /\ g \notin A /\ h \notin A
        /\ e \in B => e \notin A /\ f \notin A /\ g \notin A /\ h \notin A
        /\ f \in B => f \notin A /\ g \notin A /\ h \notin A
        /\ g \in B => g \notin A /\ h \notin A
        /\ h \in B => h \notin A
  BY <1>1 DEF Order
<1>4. \A S : Once(s, S) <=>
        /\ a \in S => b \notin S /\ c \notin S /\ d \notin S /\ e \notin S /\ f \notin S /\ g \notin S /\ h \notin S
        /\ b \in S => c \notin S /\ d \notin S /\ e \notin S /\ f \notin S /\ g \notin S /\ h \notin S
        /\ c \in S => d \notin S /\ e \notin S /\ f \notin S /\ g \notin S /\ h \notin S
        /\ d \in S => e \notin S /\ f \notin S /\ g \notin S /\ h \notin S
        /\ e \in S => f \notin S /\ g \notin S /\ h \notin S
        /\ f \in S => g \notin S /\ h \notin S
        /\ g \in S => h \notin S
  BY <1>1 DEF Once
<1> QED
  BY <1>2, <1>3, <1>4 DEF SpellsEight, s

\* One function after the other, as the modules of the managers write them.
LEMMA Functions ==
  /\ \A m \in {"KEY", "MYIMAGE", "NIC", "PUBLICIP", "DISK"} : Starts(m, Op("register",
              <<"lock", "free", "find", "insert">>))
  /\ \A m \in {"KEY", "MYIMAGE", "NIC", "DISK", "DNSZONE"} : Starts(m, Op("create",
              <<"lock", "free", "make", "insertOrUndo">>))
  /\ \A m \in {"KEY", "MYIMAGE", "DISK", "SG", "NLB", "RDBMS", "CLUSTER"} : Starts(m, Op("list", <<"rows", "each">>))
  /\ \A m \in {"KEY", "MYIMAGE", "NIC", "PUBLICIP", "DISK", "SG", "NLB", "RDBMS", "CLUSTER", "DNSZONE"} : Starts(m, Op("read",
              <<"rlock", "row", "call">>))
  /\ \A m \in {"KEY", "MYIMAGE", "DISK", "NLB", "RDBMS"} : Starts(m, Op("delete",
              <<"lock", "row", "drop", "deleteRows">>))
  /\ \A m \in {"KEY", "MYIMAGE", "DISK"} : Starts(m, Op("unregister", <<"lock", "row", "deleteRows">>))
  /\ \A m \in {"NIC", "PUBLICIP"} : Starts(m, Op("list", <<"rows", "eachOrStub">>))
  /\ \A m \in {"NIC", "PUBLICIP"} : Starts(m, Op("delete", <<"lock", "row", "drop", "deleteRowsOrError">>))
  /\ \A m \in {"NIC", "PUBLICIP", "DISK", "SG", "NLB", "CLUSTER"} : Starts(m, Op("change", <<"lock", "row", "call">>))
  /\ Starts("PUBLICIP", Op("create", <<"lock", "freeOrSame", "make", "insertOrUndo">>))
  /\ Starts("SG", Op("register", <<"ownerLock", "lock", "owner", "free", "find", "insert">>))
  /\ Starts("SG", Op("create", <<"ownerLock", "owner", "lock", "free", "make", "insertOrUndo">>))
  /\ Starts("SG", Op("delete", <<"lock", "row", "drop", "deleteRow">>))
  /\ \A m \in {"SG", "NLB", "RDBMS", "CLUSTER"} : Starts(m, Op("unregister", <<"lock", "row", "deleteRow">>))
  /\ \A m \in {"SG", "NLB", "RDBMS", "CLUSTER", "DNSRECORD", "FILESYSTEM"} : Starts(m, Op("owner",
              <<"ownerLock", "ownerFree", "insertOwner">>))
  /\ \A m \in {"SG", "NLB", "RDBMS", "CLUSTER", "FILESYSTEM"} : Starts(m, Op("owner",
              <<"ownerLock", "owner", "deleteOwner">>))
  /\ \A m \in {"NLB", "RDBMS"} : Starts(m, Op("register",
              <<"ownerRLock", "lock", "owner", "free", "find", "insert">>))
  /\ Starts("CLUSTER", Op("register", <<"ownerRLock", "lock", "owner", "free", "find", "insert", "insertOthers">>))
  /\ \A m \in {"NLB", "RDBMS"} : Starts(m, Op("create",
              <<"ownerRLock", "owner", "lock", "freeInOwner", "make", "insertOrUndo">>))
  /\ Starts("CLUSTER", Op("create",
              <<"ownerRLock", "owner", "lock", "free", "make", "await", "insertOrUndo", "insertOthersOrRollback">>))
  /\ Starts("CLUSTER", Op("delete", <<"lock", "row", "drop", "gone", "deleteOthers", "deleteRows">>))
  /\ Starts("NODEGROUP", Op("create", <<"ownerLock", "owner", "freeInOwner", "make", "await", "insertOrUndo">>))
  /\ Starts("NODEGROUP", Op("change", <<"ownerLock", "owner", "rowInOwner", "call">>))
  /\ Starts("NODEGROUP", Op("delete", <<"ownerLock", "owner", "rowInOwner", "drop", "deleteRow">>))
  /\ Starts("NODEGROUP", Op("csp", <<"dropById">>))
  /\ \A m \in {"NODEGROUP", "DNSRECORD"} : Starts(m, Op("owner",
              <<"ownerLock", "ownerFree", "findOwner", "insertOwner", "insertParts">>))
  /\ Starts("NODEGROUP", Op("owner",
              <<"ownerLock", "ownerFree", "makeOwner", "await", "insertOwnerOrUndo", "insertPartsOrRollback">>))
  /\ Starts("NODEGROUP", Op("owner",
              <<"ownerLock", "owner", "dropOwner", "gone", "deleteRowsOfOwner", "deleteOwner">>))
  /\ Starts("NODEGROUP", Op("owner", <<"ownerLock", "owner", "releaseOwner">>))
  /\ Starts("DNSZONE", Op("register", <<"lock", "free", "find", "insert", "insertOthers">>))
  /\ \A m \in {"DNSZONE", "FILESYSTEM"} : Starts(m, Op("list", <<"rows", "eachUnlocked">>))
  /\ Starts("DNSZONE", Op("delete", <<"lock", "row", "drop", "deleteRows", "deleteOthers">>))
  /\ Starts("DNSRECORD", Op("create", <<"ownerLock", "freeInOwner", "owner", "make", "await", "insertOrUndo">>))
  /\ Starts("DNSRECORD", Op("change", <<"ownerLock", "rowInOwner", "owner", "replace", "deleteRow", "insert">>))
  /\ Starts("DNSRECORD", Op("delete", <<"ownerLock", "rowInOwner", "owner", "drop", "deleteRow">>))
  /\ Starts("DNSRECORD", Op("owner", <<"ownerLock", "owner", "dropOwner", "deleteOwner", "deleteRowsOfOwner">>))
  /\ Starts("FILESYSTEM", Op("create", <<"ownerRLock", "owner", "lock", "free", "make", "insertOrUndo">>))
  /\ Starts("FILESYSTEM", Op("read", <<"row", "call">>))
  /\ Starts("FILESYSTEM", Op("change", <<"row", "call">>))
  /\ Starts("FILESYSTEM", Op("delete", <<"row", "dropIgnoringFalse", "deleteRowsOrError">>))
<1> USE DEF Kinds, Named, Writer, Parts, NoOwners, LockStep, Careless, Steps, OwnerLocks, Checks, Gives, Inserts,
            Reads, Drops, RowDeletes, ListSteps, OwnerSteps, PartSteps, PartInserts
<1>1. \A m \in {"KEY", "MYIMAGE", "NIC", "PUBLICIP", "DISK"} : Starts(m, Op("register",
              <<"lock", "free", "find", "insert">>))
  <2> SUFFICES ASSUME NEW m \in {"KEY", "MYIMAGE", "NIC", "PUBLICIP", "DISK"}
               PROVE  Starts(m, Op("register", <<"lock", "free", "find", "insert">>))
    OBVIOUS
  <2> DEFINE s == <<"lock", "free", "find", "insert">>
  <2>1. s \in Seq(Steps)
    OBVIOUS
  <2>2. SpellsFour(s, "lock", "free", "find", "insert")
    BY FourSteps
  <2> HIDE DEF s
  <2>3. StartsWith(m, "register", s)
    BY <2>1, <2>2 DEF SpellsFour, StartsWith, Shape, Ordered, Left
  <2> QED
    BY <2>3 DEF Starts, Op, s
<1>2. \A m \in {"KEY", "MYIMAGE", "NIC", "DISK", "DNSZONE"} : Starts(m, Op("create",
              <<"lock", "free", "make", "insertOrUndo">>))
  <2> SUFFICES ASSUME NEW m \in {"KEY", "MYIMAGE", "NIC", "DISK", "DNSZONE"}
               PROVE  Starts(m, Op("create", <<"lock", "free", "make", "insertOrUndo">>))
    OBVIOUS
  <2> DEFINE s == <<"lock", "free", "make", "insertOrUndo">>
  <2>1. s \in Seq(Steps)
    OBVIOUS
  <2>2. SpellsFour(s, "lock", "free", "make", "insertOrUndo")
    BY FourSteps
  <2> HIDE DEF s
  <2>3. StartsWith(m, "create", s)
    BY <2>1, <2>2 DEF SpellsFour, StartsWith, Shape, Ordered, Left
  <2> QED
    BY <2>3 DEF Starts, Op, s
<1>3. \A m \in {"KEY", "MYIMAGE", "DISK", "SG", "NLB", "RDBMS", "CLUSTER"} : Starts(m, Op("list", <<"rows", "each">>))
  <2> SUFFICES ASSUME NEW m \in {"KEY", "MYIMAGE", "DISK", "SG", "NLB", "RDBMS", "CLUSTER"}
               PROVE  Starts(m, Op("list", <<"rows", "each">>))
    OBVIOUS
  <2> DEFINE s == <<"rows", "each">>
  <2>1. s \in Seq(Steps)
    OBVIOUS
  <2>2. SpellsTwo(s, "rows", "each")
    BY TwoSteps
  <2> HIDE DEF s
  <2>3. StartsWith(m, "list", s)
    BY <2>1, <2>2 DEF SpellsTwo, StartsWith, Shape, Ordered, Left
  <2> QED
    BY <2>3 DEF Starts, Op, s
<1>4. \A m \in {"KEY", "MYIMAGE", "NIC", "PUBLICIP", "DISK", "SG", "NLB", "RDBMS", "CLUSTER", "DNSZONE"} : Starts(m, Op("read",
              <<"rlock", "row", "call">>))
  <2> SUFFICES ASSUME NEW m \in {"KEY", "MYIMAGE", "NIC", "PUBLICIP", "DISK", "SG", "NLB", "RDBMS", "CLUSTER", "DNSZONE"}
               PROVE  Starts(m, Op("read", <<"rlock", "row", "call">>))
    OBVIOUS
  <2> DEFINE s == <<"rlock", "row", "call">>
  <2>1. s \in Seq(Steps)
    OBVIOUS
  <2>2. SpellsThree(s, "rlock", "row", "call")
    BY ThreeSteps
  <2> HIDE DEF s
  <2>3. StartsWith(m, "read", s)
    BY <2>1, <2>2 DEF SpellsThree, StartsWith, Shape, Ordered, Left
  <2> QED
    BY <2>3 DEF Starts, Op, s
<1>5. \A m \in {"KEY", "MYIMAGE", "DISK", "NLB", "RDBMS"} : Starts(m, Op("delete",
              <<"lock", "row", "drop", "deleteRows">>))
  <2> SUFFICES ASSUME NEW m \in {"KEY", "MYIMAGE", "DISK", "NLB", "RDBMS"}
               PROVE  Starts(m, Op("delete", <<"lock", "row", "drop", "deleteRows">>))
    OBVIOUS
  <2> DEFINE s == <<"lock", "row", "drop", "deleteRows">>
  <2>1. s \in Seq(Steps)
    OBVIOUS
  <2>2. SpellsFour(s, "lock", "row", "drop", "deleteRows")
    BY FourSteps
  <2> HIDE DEF s
  <2>3. StartsWith(m, "delete", s)
    BY <2>1, <2>2 DEF SpellsFour, StartsWith, Shape, Ordered, Left
  <2> QED
    BY <2>3 DEF Starts, Op, s
<1>6. \A m \in {"KEY", "MYIMAGE", "DISK"} : Starts(m, Op("unregister", <<"lock", "row", "deleteRows">>))
  <2> SUFFICES ASSUME NEW m \in {"KEY", "MYIMAGE", "DISK"}
               PROVE  Starts(m, Op("unregister", <<"lock", "row", "deleteRows">>))
    OBVIOUS
  <2> DEFINE s == <<"lock", "row", "deleteRows">>
  <2>1. s \in Seq(Steps)
    OBVIOUS
  <2>2. SpellsThree(s, "lock", "row", "deleteRows")
    BY ThreeSteps
  <2> HIDE DEF s
  <2>3. StartsWith(m, "unregister", s)
    BY <2>1, <2>2 DEF SpellsThree, StartsWith, Shape, Ordered, Left
  <2> QED
    BY <2>3 DEF Starts, Op, s
<1>7. \A m \in {"NIC", "PUBLICIP"} : Starts(m, Op("list", <<"rows", "eachOrStub">>))
  <2> SUFFICES ASSUME NEW m \in {"NIC", "PUBLICIP"} PROVE Starts(m, Op("list", <<"rows", "eachOrStub">>))
    OBVIOUS
  <2> DEFINE s == <<"rows", "eachOrStub">>
  <2>1. s \in Seq(Steps)
    OBVIOUS
  <2>2. SpellsTwo(s, "rows", "eachOrStub")
    BY TwoSteps
  <2> HIDE DEF s
  <2>3. StartsWith(m, "list", s)
    BY <2>1, <2>2 DEF SpellsTwo, StartsWith, Shape, Ordered, Left
  <2> QED
    BY <2>3 DEF Starts, Op, s
<1>8. \A m \in {"NIC", "PUBLICIP"} : Starts(m, Op("delete", <<"lock", "row", "drop", "deleteRowsOrError">>))
  <2> SUFFICES ASSUME NEW m \in {"NIC", "PUBLICIP"}
               PROVE  Starts(m, Op("delete", <<"lock", "row", "drop", "deleteRowsOrError">>))
    OBVIOUS
  <2> DEFINE s == <<"lock", "row", "drop", "deleteRowsOrError">>
  <2>1. s \in Seq(Steps)
    OBVIOUS
  <2>2. SpellsFour(s, "lock", "row", "drop", "deleteRowsOrError")
    BY FourSteps
  <2> HIDE DEF s
  <2>3. StartsWith(m, "delete", s)
    BY <2>1, <2>2 DEF SpellsFour, StartsWith, Shape, Ordered, Left
  <2> QED
    BY <2>3 DEF Starts, Op, s
<1>9. \A m \in {"NIC", "PUBLICIP", "DISK", "SG", "NLB", "CLUSTER"} : Starts(m, Op("change",
              <<"lock", "row", "call">>))
  <2> SUFFICES ASSUME NEW m \in {"NIC", "PUBLICIP", "DISK", "SG", "NLB", "CLUSTER"}
               PROVE  Starts(m, Op("change", <<"lock", "row", "call">>))
    OBVIOUS
  <2> DEFINE s == <<"lock", "row", "call">>
  <2>1. s \in Seq(Steps)
    OBVIOUS
  <2>2. SpellsThree(s, "lock", "row", "call")
    BY ThreeSteps
  <2> HIDE DEF s
  <2>3. StartsWith(m, "change", s)
    BY <2>1, <2>2 DEF SpellsThree, StartsWith, Shape, Ordered, Left
  <2> QED
    BY <2>3 DEF Starts, Op, s
<1>10. Starts("PUBLICIP", Op("create", <<"lock", "freeOrSame", "make", "insertOrUndo">>))
  <2> DEFINE s == <<"lock", "freeOrSame", "make", "insertOrUndo">>
  <2>1. s \in Seq(Steps)
    OBVIOUS
  <2>2. SpellsFour(s, "lock", "freeOrSame", "make", "insertOrUndo")
    BY FourSteps
  <2> HIDE DEF s
  <2>3. StartsWith("PUBLICIP", "create", s)
    BY <2>1, <2>2 DEF SpellsFour, StartsWith, Shape, Ordered, Left
  <2> QED
    BY <2>3 DEF Starts, Op, s
<1>11. Starts("SG", Op("register", <<"ownerLock", "lock", "owner", "free", "find", "insert">>))
  <2> DEFINE s == <<"ownerLock", "lock", "owner", "free", "find", "insert">>
  <2>1. s \in Seq(Steps)
    OBVIOUS
  <2>2. SpellsSix(s, "ownerLock", "lock", "owner", "free", "find", "insert")
    BY SixSteps
  <2> HIDE DEF s
  <2>3. StartsWith("SG", "register", s)
    BY <2>1, <2>2 DEF SpellsSix, StartsWith, Shape, Ordered, Left
  <2> QED
    BY <2>3 DEF Starts, Op, s
<1>12. Starts("SG", Op("create", <<"ownerLock", "owner", "lock", "free", "make", "insertOrUndo">>))
  <2> DEFINE s == <<"ownerLock", "owner", "lock", "free", "make", "insertOrUndo">>
  <2>1. s \in Seq(Steps)
    OBVIOUS
  <2>2. SpellsSix(s, "ownerLock", "owner", "lock", "free", "make", "insertOrUndo")
    BY SixSteps
  <2> HIDE DEF s
  <2>3. StartsWith("SG", "create", s)
    BY <2>1, <2>2 DEF SpellsSix, StartsWith, Shape, Ordered, Left
  <2> QED
    BY <2>3 DEF Starts, Op, s
<1>13. Starts("SG", Op("delete", <<"lock", "row", "drop", "deleteRow">>))
  <2> DEFINE s == <<"lock", "row", "drop", "deleteRow">>
  <2>1. s \in Seq(Steps)
    OBVIOUS
  <2>2. SpellsFour(s, "lock", "row", "drop", "deleteRow")
    BY FourSteps
  <2> HIDE DEF s
  <2>3. StartsWith("SG", "delete", s)
    BY <2>1, <2>2 DEF SpellsFour, StartsWith, Shape, Ordered, Left
  <2> QED
    BY <2>3 DEF Starts, Op, s
<1>14. \A m \in {"SG", "NLB", "RDBMS", "CLUSTER"} : Starts(m, Op("unregister", <<"lock", "row", "deleteRow">>))
  <2> SUFFICES ASSUME NEW m \in {"SG", "NLB", "RDBMS", "CLUSTER"}
               PROVE  Starts(m, Op("unregister", <<"lock", "row", "deleteRow">>))
    OBVIOUS
  <2> DEFINE s == <<"lock", "row", "deleteRow">>
  <2>1. s \in Seq(Steps)
    OBVIOUS
  <2>2. SpellsThree(s, "lock", "row", "deleteRow")
    BY ThreeSteps
  <2> HIDE DEF s
  <2>3. StartsWith(m, "unregister", s)
    BY <2>1, <2>2 DEF SpellsThree, StartsWith, Shape, Ordered, Left
  <2> QED
    BY <2>3 DEF Starts, Op, s
<1>15. \A m \in {"SG", "NLB", "RDBMS", "CLUSTER", "DNSRECORD", "FILESYSTEM"} : Starts(m, Op("owner",
              <<"ownerLock", "ownerFree", "insertOwner">>))
  <2> SUFFICES ASSUME NEW m \in {"SG", "NLB", "RDBMS", "CLUSTER", "DNSRECORD", "FILESYSTEM"}
               PROVE  Starts(m, Op("owner", <<"ownerLock", "ownerFree", "insertOwner">>))
    OBVIOUS
  <2> DEFINE s == <<"ownerLock", "ownerFree", "insertOwner">>
  <2>1. s \in Seq(Steps)
    OBVIOUS
  <2>2. SpellsThree(s, "ownerLock", "ownerFree", "insertOwner")
    BY ThreeSteps
  <2> HIDE DEF s
  <2>3. StartsWith(m, "owner", s)
    BY <2>1, <2>2 DEF SpellsThree, StartsWith, Shape, Ordered, Left
  <2> QED
    BY <2>3 DEF Starts, Op, s
<1>16. \A m \in {"SG", "NLB", "RDBMS", "CLUSTER", "FILESYSTEM"} : Starts(m, Op("owner",
              <<"ownerLock", "owner", "deleteOwner">>))
  <2> SUFFICES ASSUME NEW m \in {"SG", "NLB", "RDBMS", "CLUSTER", "FILESYSTEM"}
               PROVE  Starts(m, Op("owner", <<"ownerLock", "owner", "deleteOwner">>))
    OBVIOUS
  <2> DEFINE s == <<"ownerLock", "owner", "deleteOwner">>
  <2>1. s \in Seq(Steps)
    OBVIOUS
  <2>2. SpellsThree(s, "ownerLock", "owner", "deleteOwner")
    BY ThreeSteps
  <2> HIDE DEF s
  <2>3. StartsWith(m, "owner", s)
    BY <2>1, <2>2 DEF SpellsThree, StartsWith, Shape, Ordered, Left
  <2> QED
    BY <2>3 DEF Starts, Op, s
<1>17. \A m \in {"NLB", "RDBMS"} : Starts(m, Op("register",
              <<"ownerRLock", "lock", "owner", "free", "find", "insert">>))
  <2> SUFFICES ASSUME NEW m \in {"NLB", "RDBMS"}
               PROVE  Starts(m, Op("register", <<"ownerRLock", "lock", "owner", "free", "find", "insert">>))
    OBVIOUS
  <2> DEFINE s == <<"ownerRLock", "lock", "owner", "free", "find", "insert">>
  <2>1. s \in Seq(Steps)
    OBVIOUS
  <2>2. SpellsSix(s, "ownerRLock", "lock", "owner", "free", "find", "insert")
    BY SixSteps
  <2> HIDE DEF s
  <2>3. StartsWith(m, "register", s)
    BY <2>1, <2>2 DEF SpellsSix, StartsWith, Shape, Ordered, Left
  <2> QED
    BY <2>3 DEF Starts, Op, s
<1>18. Starts("CLUSTER", Op("register", <<"ownerRLock", "lock", "owner", "free", "find", "insert", "insertOthers">>))
  <2> DEFINE s == <<"ownerRLock", "lock", "owner", "free", "find", "insert", "insertOthers">>
  <2>1. s \in Seq(Steps)
    OBVIOUS
  <2>2. SpellsSeven(s, "ownerRLock", "lock", "owner", "free", "find", "insert", "insertOthers")
    BY SevenSteps
  <2> HIDE DEF s
  <2>3. StartsWith("CLUSTER", "register", s)
    BY <2>1, <2>2 DEF SpellsSeven, StartsWith, Shape, Ordered, Left
  <2> QED
    BY <2>3 DEF Starts, Op, s
<1>19. \A m \in {"NLB", "RDBMS"} : Starts(m, Op("create",
              <<"ownerRLock", "owner", "lock", "freeInOwner", "make", "insertOrUndo">>))
  <2> SUFFICES ASSUME NEW m \in {"NLB", "RDBMS"}
               PROVE  Starts(m, Op("create", <<"ownerRLock", "owner", "lock", "freeInOwner", "make", "insertOrUndo">>))
    OBVIOUS
  <2> DEFINE s == <<"ownerRLock", "owner", "lock", "freeInOwner", "make", "insertOrUndo">>
  <2>1. s \in Seq(Steps)
    OBVIOUS
  <2>2. SpellsSix(s, "ownerRLock", "owner", "lock", "freeInOwner", "make", "insertOrUndo")
    BY SixSteps
  <2> HIDE DEF s
  <2>3. StartsWith(m, "create", s)
    BY <2>1, <2>2 DEF SpellsSix, StartsWith, Shape, Ordered, Left
  <2> QED
    BY <2>3 DEF Starts, Op, s
<1>20. Starts("CLUSTER", Op("create",
              <<"ownerRLock", "owner", "lock", "free", "make", "await", "insertOrUndo", "insertOthersOrRollback">>))
  <2> DEFINE s == <<"ownerRLock", "owner", "lock", "free", "make", "await", "insertOrUndo", "insertOthersOrRollback">>
  <2>1. s \in Seq(Steps)
    OBVIOUS
  <2>2. SpellsEight(s, "ownerRLock", "owner", "lock", "free", "make", "await", "insertOrUndo", "insertOthersOrRollback")
    BY EightSteps
  <2> HIDE DEF s
  <2>3. StartsWith("CLUSTER", "create", s)
    BY <2>1, <2>2 DEF SpellsEight, StartsWith, Shape, Ordered, Left
  <2> QED
    BY <2>3 DEF Starts, Op, s
<1>21. Starts("CLUSTER", Op("delete", <<"lock", "row", "drop", "gone", "deleteOthers", "deleteRows">>))
  <2> DEFINE s == <<"lock", "row", "drop", "gone", "deleteOthers", "deleteRows">>
  <2>1. s \in Seq(Steps)
    OBVIOUS
  <2>2. SpellsSix(s, "lock", "row", "drop", "gone", "deleteOthers", "deleteRows")
    BY SixSteps
  <2> HIDE DEF s
  <2>3. StartsWith("CLUSTER", "delete", s)
    BY <2>1, <2>2 DEF SpellsSix, StartsWith, Shape, Ordered, Left
  <2> QED
    BY <2>3 DEF Starts, Op, s
<1>22. Starts("NODEGROUP", Op("create", <<"ownerLock", "owner", "freeInOwner", "make", "await", "insertOrUndo">>))
  <2> DEFINE s == <<"ownerLock", "owner", "freeInOwner", "make", "await", "insertOrUndo">>
  <2>1. s \in Seq(Steps)
    OBVIOUS
  <2>2. SpellsSix(s, "ownerLock", "owner", "freeInOwner", "make", "await", "insertOrUndo")
    BY SixSteps
  <2> HIDE DEF s
  <2>3. StartsWith("NODEGROUP", "create", s)
    BY <2>1, <2>2 DEF SpellsSix, StartsWith, Shape, Ordered, Left
  <2> QED
    BY <2>3 DEF Starts, Op, s
<1>23. Starts("NODEGROUP", Op("change", <<"ownerLock", "owner", "rowInOwner", "call">>))
  <2> DEFINE s == <<"ownerLock", "owner", "rowInOwner", "call">>
  <2>1. s \in Seq(Steps)
    OBVIOUS
  <2>2. SpellsFour(s, "ownerLock", "owner", "rowInOwner", "call")
    BY FourSteps
  <2> HIDE DEF s
  <2>3. StartsWith("NODEGROUP", "change", s)
    BY <2>1, <2>2 DEF SpellsFour, StartsWith, Shape, Ordered, Left
  <2> QED
    BY <2>3 DEF Starts, Op, s
<1>24. Starts("NODEGROUP", Op("delete", <<"ownerLock", "owner", "rowInOwner", "drop", "deleteRow">>))
  <2> DEFINE s == <<"ownerLock", "owner", "rowInOwner", "drop", "deleteRow">>
  <2>1. s \in Seq(Steps)
    OBVIOUS
  <2>2. SpellsFive(s, "ownerLock", "owner", "rowInOwner", "drop", "deleteRow")
    BY FiveSteps
  <2> HIDE DEF s
  <2>3. StartsWith("NODEGROUP", "delete", s)
    BY <2>1, <2>2 DEF SpellsFive, StartsWith, Shape, Ordered, Left
  <2> QED
    BY <2>3 DEF Starts, Op, s
<1>25. Starts("NODEGROUP", Op("csp", <<"dropById">>))
  <2> DEFINE s == <<"dropById">>
  <2>1. s \in Seq(Steps)
    OBVIOUS
  <2>2. SpellsOne(s, "dropById")
    BY OneSteps
  <2> HIDE DEF s
  <2>3. StartsWith("NODEGROUP", "csp", s)
    BY <2>1, <2>2 DEF SpellsOne, StartsWith, Shape, Ordered, Left
  <2> QED
    BY <2>3 DEF Starts, Op, s
<1>26. \A m \in {"NODEGROUP", "DNSRECORD"} : Starts(m, Op("owner",
              <<"ownerLock", "ownerFree", "findOwner", "insertOwner", "insertParts">>))
  <2> SUFFICES ASSUME NEW m \in {"NODEGROUP", "DNSRECORD"}
               PROVE  Starts(m, Op("owner", <<"ownerLock", "ownerFree", "findOwner", "insertOwner", "insertParts">>))
    OBVIOUS
  <2> DEFINE s == <<"ownerLock", "ownerFree", "findOwner", "insertOwner", "insertParts">>
  <2>1. s \in Seq(Steps)
    OBVIOUS
  <2>2. SpellsFive(s, "ownerLock", "ownerFree", "findOwner", "insertOwner", "insertParts")
    BY FiveSteps
  <2> HIDE DEF s
  <2>3. StartsWith(m, "owner", s)
    BY <2>1, <2>2 DEF SpellsFive, StartsWith, Shape, Ordered, Left
  <2> QED
    BY <2>3 DEF Starts, Op, s
<1>27. Starts("NODEGROUP", Op("owner",
              <<"ownerLock", "ownerFree", "makeOwner", "await", "insertOwnerOrUndo", "insertPartsOrRollback">>))
  <2> DEFINE s == <<"ownerLock", "ownerFree", "makeOwner", "await", "insertOwnerOrUndo", "insertPartsOrRollback">>
  <2>1. s \in Seq(Steps)
    OBVIOUS
  <2>2. SpellsSix(s, "ownerLock", "ownerFree", "makeOwner", "await", "insertOwnerOrUndo", "insertPartsOrRollback")
    BY SixSteps
  <2> HIDE DEF s
  <2>3. StartsWith("NODEGROUP", "owner", s)
    BY <2>1, <2>2 DEF SpellsSix, StartsWith, Shape, Ordered, Left
  <2> QED
    BY <2>3 DEF Starts, Op, s
<1>28. Starts("NODEGROUP", Op("owner",
              <<"ownerLock", "owner", "dropOwner", "gone", "deleteRowsOfOwner", "deleteOwner">>))
  <2> DEFINE s == <<"ownerLock", "owner", "dropOwner", "gone", "deleteRowsOfOwner", "deleteOwner">>
  <2>1. s \in Seq(Steps)
    OBVIOUS
  <2>2. SpellsSix(s, "ownerLock", "owner", "dropOwner", "gone", "deleteRowsOfOwner", "deleteOwner")
    BY SixSteps
  <2> HIDE DEF s
  <2>3. StartsWith("NODEGROUP", "owner", s)
    BY <2>1, <2>2 DEF SpellsSix, StartsWith, Shape, Ordered, Left
  <2> QED
    BY <2>3 DEF Starts, Op, s
<1>29. Starts("NODEGROUP", Op("owner", <<"ownerLock", "owner", "releaseOwner">>))
  <2> DEFINE s == <<"ownerLock", "owner", "releaseOwner">>
  <2>1. s \in Seq(Steps)
    OBVIOUS
  <2>2. SpellsThree(s, "ownerLock", "owner", "releaseOwner")
    BY ThreeSteps
  <2> HIDE DEF s
  <2>3. StartsWith("NODEGROUP", "owner", s)
    BY <2>1, <2>2 DEF SpellsThree, StartsWith, Shape, Ordered, Left
  <2> QED
    BY <2>3 DEF Starts, Op, s
<1>30. Starts("DNSZONE", Op("register", <<"lock", "free", "find", "insert", "insertOthers">>))
  <2> DEFINE s == <<"lock", "free", "find", "insert", "insertOthers">>
  <2>1. s \in Seq(Steps)
    OBVIOUS
  <2>2. SpellsFive(s, "lock", "free", "find", "insert", "insertOthers")
    BY FiveSteps
  <2> HIDE DEF s
  <2>3. StartsWith("DNSZONE", "register", s)
    BY <2>1, <2>2 DEF SpellsFive, StartsWith, Shape, Ordered, Left
  <2> QED
    BY <2>3 DEF Starts, Op, s
<1>31. \A m \in {"DNSZONE", "FILESYSTEM"} : Starts(m, Op("list", <<"rows", "eachUnlocked">>))
  <2> SUFFICES ASSUME NEW m \in {"DNSZONE", "FILESYSTEM"} PROVE Starts(m, Op("list", <<"rows", "eachUnlocked">>))
    OBVIOUS
  <2> DEFINE s == <<"rows", "eachUnlocked">>
  <2>1. s \in Seq(Steps)
    OBVIOUS
  <2>2. SpellsTwo(s, "rows", "eachUnlocked")
    BY TwoSteps
  <2> HIDE DEF s
  <2>3. StartsWith(m, "list", s)
    BY <2>1, <2>2 DEF SpellsTwo, StartsWith, Shape, Ordered, Left
  <2> QED
    BY <2>3 DEF Starts, Op, s
<1>32. Starts("DNSZONE", Op("delete", <<"lock", "row", "drop", "deleteRows", "deleteOthers">>))
  <2> DEFINE s == <<"lock", "row", "drop", "deleteRows", "deleteOthers">>
  <2>1. s \in Seq(Steps)
    OBVIOUS
  <2>2. SpellsFive(s, "lock", "row", "drop", "deleteRows", "deleteOthers")
    BY FiveSteps
  <2> HIDE DEF s
  <2>3. StartsWith("DNSZONE", "delete", s)
    BY <2>1, <2>2 DEF SpellsFive, StartsWith, Shape, Ordered, Left
  <2> QED
    BY <2>3 DEF Starts, Op, s
<1>33. Starts("DNSRECORD", Op("create", <<"ownerLock", "freeInOwner", "owner", "make", "await", "insertOrUndo">>))
  <2> DEFINE s == <<"ownerLock", "freeInOwner", "owner", "make", "await", "insertOrUndo">>
  <2>1. s \in Seq(Steps)
    OBVIOUS
  <2>2. SpellsSix(s, "ownerLock", "freeInOwner", "owner", "make", "await", "insertOrUndo")
    BY SixSteps
  <2> HIDE DEF s
  <2>3. StartsWith("DNSRECORD", "create", s)
    BY <2>1, <2>2 DEF SpellsSix, StartsWith, Shape, Ordered, Left
  <2> QED
    BY <2>3 DEF Starts, Op, s
<1>34. Starts("DNSRECORD", Op("change", <<"ownerLock", "rowInOwner", "owner", "replace", "deleteRow", "insert">>))
  <2> DEFINE s == <<"ownerLock", "rowInOwner", "owner", "replace", "deleteRow", "insert">>
  <2>1. s \in Seq(Steps)
    OBVIOUS
  <2>2. SpellsSix(s, "ownerLock", "rowInOwner", "owner", "replace", "deleteRow", "insert")
    BY SixSteps
  <2> HIDE DEF s
  <2>3. StartsWith("DNSRECORD", "change", s)
    BY <2>1, <2>2 DEF SpellsSix, StartsWith, Shape, Ordered, Left
  <2> QED
    BY <2>3 DEF Starts, Op, s
<1>35. Starts("DNSRECORD", Op("delete", <<"ownerLock", "rowInOwner", "owner", "drop", "deleteRow">>))
  <2> DEFINE s == <<"ownerLock", "rowInOwner", "owner", "drop", "deleteRow">>
  <2>1. s \in Seq(Steps)
    OBVIOUS
  <2>2. SpellsFive(s, "ownerLock", "rowInOwner", "owner", "drop", "deleteRow")
    BY FiveSteps
  <2> HIDE DEF s
  <2>3. StartsWith("DNSRECORD", "delete", s)
    BY <2>1, <2>2 DEF SpellsFive, StartsWith, Shape, Ordered, Left
  <2> QED
    BY <2>3 DEF Starts, Op, s
<1>36. Starts("DNSRECORD", Op("owner", <<"ownerLock", "owner", "dropOwner", "deleteOwner", "deleteRowsOfOwner">>))
  <2> DEFINE s == <<"ownerLock", "owner", "dropOwner", "deleteOwner", "deleteRowsOfOwner">>
  <2>1. s \in Seq(Steps)
    OBVIOUS
  <2>2. SpellsFive(s, "ownerLock", "owner", "dropOwner", "deleteOwner", "deleteRowsOfOwner")
    BY FiveSteps
  <2> HIDE DEF s
  <2>3. StartsWith("DNSRECORD", "owner", s)
    BY <2>1, <2>2 DEF SpellsFive, StartsWith, Shape, Ordered, Left
  <2> QED
    BY <2>3 DEF Starts, Op, s
<1>37. Starts("FILESYSTEM", Op("create", <<"ownerRLock", "owner", "lock", "free", "make", "insertOrUndo">>))
  <2> DEFINE s == <<"ownerRLock", "owner", "lock", "free", "make", "insertOrUndo">>
  <2>1. s \in Seq(Steps)
    OBVIOUS
  <2>2. SpellsSix(s, "ownerRLock", "owner", "lock", "free", "make", "insertOrUndo")
    BY SixSteps
  <2> HIDE DEF s
  <2>3. StartsWith("FILESYSTEM", "create", s)
    BY <2>1, <2>2 DEF SpellsSix, StartsWith, Shape, Ordered, Left
  <2> QED
    BY <2>3 DEF Starts, Op, s
<1>38. Starts("FILESYSTEM", Op("read", <<"row", "call">>))
  <2> DEFINE s == <<"row", "call">>
  <2>1. s \in Seq(Steps)
    OBVIOUS
  <2>2. SpellsTwo(s, "row", "call")
    BY TwoSteps
  <2> HIDE DEF s
  <2>3. StartsWith("FILESYSTEM", "read", s)
    BY <2>1, <2>2 DEF SpellsTwo, StartsWith, Shape, Ordered, Left
  <2> QED
    BY <2>3 DEF Starts, Op, s
<1>39. Starts("FILESYSTEM", Op("change", <<"row", "call">>))
  <2> DEFINE s == <<"row", "call">>
  <2>1. s \in Seq(Steps)
    OBVIOUS
  <2>2. SpellsTwo(s, "row", "call")
    BY TwoSteps
  <2> HIDE DEF s
  <2>3. StartsWith("FILESYSTEM", "change", s)
    BY <2>1, <2>2 DEF SpellsTwo, StartsWith, Shape, Ordered, Left
  <2> QED
    BY <2>3 DEF Starts, Op, s
<1>40. Starts("FILESYSTEM", Op("delete", <<"row", "dropIgnoringFalse", "deleteRowsOrError">>))
  <2> DEFINE s == <<"row", "dropIgnoringFalse", "deleteRowsOrError">>
  <2>1. s \in Seq(Steps)
    OBVIOUS
  <2>2. SpellsThree(s, "row", "dropIgnoringFalse", "deleteRowsOrError")
    BY ThreeSteps
  <2> HIDE DEF s
  <2>3. StartsWith("FILESYSTEM", "delete", s)
    BY <2>1, <2>2 DEF SpellsThree, StartsWith, Shape, Ordered, Left
  <2> QED
    BY <2>3 DEF Starts, Op, s
<1> QED
  BY <1>1, <1>2, <1>3, <1>4, <1>5, <1>6, <1>7, <1>8, <1>9, <1>10, <1>11, <1>12, <1>13, <1>14, <1>15, <1>16,
     <1>17, <1>18, <1>19, <1>20, <1>21, <1>22, <1>23, <1>24, <1>25, <1>26, <1>27, <1>28, <1>29, <1>30, <1>31,
     <1>32, <1>33, <1>34, <1>35, <1>36, <1>37, <1>38, <1>39, <1>40

\* Every function of every manager starts as that.
LEMMA OperationsFit ==
  ASSUME NEW m \in ManagerNames, NEW op \in Operations(m)
  PROVE  Starts(m, op)
<1>1. CASE m = "KEY"
  BY Functions, <1>1 DEF Operations, RegisterKey, CreateKey, ListKey, GetKey, DeleteKey, UnregisterKey
<1>2. CASE m = "MYIMAGE"
  BY Functions, <1>2 DEF Operations, RegisterMyImage, SnapshotVM, ListMyImage, GetMyImage, DeleteMyImage,
     UnregisterMyImage
<1>3. CASE m = "NIC"
  BY Functions, <1>3 DEF Operations, RegisterNIC, CreateNIC, ListNIC, GetNIC, DeleteNIC, AttachNIC, DetachNIC
<1>4. CASE m = "PUBLICIP"
  BY Functions, <1>4 DEF Operations, RegisterPublicIP, CreatePublicIP, ListPublicIP, GetPublicIP,
     DeletePublicIP, AssociatePublicIP, DisassociatePublicIP
<1>5. CASE m = "DISK"
  BY Functions, <1>5 DEF Operations, RegisterDisk, CreateDisk, ListDisk, GetDisk, ChangeDiskSize, AttachDisk,
     DetachDisk, DeleteDisk, UnregisterDisk
<1>6. CASE m = "SG"
  BY Functions, <1>6 DEF Operations, RegisterSecurity, CreateSecurity, ListSecurity, GetSecurity, AddRules,
     RemoveRules, DeleteSecurity, UnregisterSecurity, CreateOwner, DeleteOwner
<1>7. CASE m = "NLB"
  BY Functions, <1>7 DEF Operations, RegisterNLB, CreateNLB, ListNLB, GetNLB, AddNLBVMs, RemoveNLBVMs,
     ChangeListener, ChangeVMGroup, ChangeHealthChecker, GetVMGroupHealthInfo, DeleteNLB, UnregisterNLB,
     CreateOwner, DeleteOwner
<1>8. CASE m = "RDBMS"
  BY Functions, <1>8 DEF Operations, RegisterRDBMS, CreateRDBMS, ListRDBMS, GetRDBMS, DeleteRDBMS,
     UnregisterRDBMS, CreateOwner, DeleteOwner
<1>9. CASE m = "CLUSTER"
  BY Functions, <1>9 DEF Operations, RegisterCluster, CreateCluster, ListCluster, GetCluster, UpgradeCluster,
     DeleteCluster, UnregisterCluster, CreateOwner, DeleteOwner
<1>10. CASE m = "NODEGROUP"
  BY Functions, <1>10 DEF Operations, AddNodeGroup, SetNodeGroupAutoScaling, ChangeNodeGroupScaling,
     RemoveNodeGroup, RemoveCSPNodeGroup, RegisterWithGroups, CreateWithGroups, DeleteWithGroups,
     UnregisterWithoutGroups
<1>11. CASE m = "DNSZONE"
  BY Functions, <1>11 DEF Operations, RegisterDNSZone, CreateDNSZone, ListDNSZone, GetDNSZone, DeleteDNSZone
<1>12. CASE m = "DNSRECORD"
  BY Functions, <1>12 DEF Operations, AddDNSRecord, ChangeDNSRecord, RemoveDNSRecord, CreateOwner,
     RegisterWithRecords, DeleteWithRecords
<1>13. CASE m = "FILESYSTEM"
  BY Functions, <1>13 DEF Operations, CreateFileSystem, ListFileSystem, GetFileSystem, AddAccessSubnet,
     RemoveAccessSubnet, ListAccessSubnet, DeleteFileSystem, CreateOwner, DeleteOwner
<1> QED
  BY <1>1, <1>2, <1>3, <1>4, <1>5, <1>6, <1>7, <1>8, <1>9, <1>10, <1>11, <1>12, <1>13 DEF ManagerNames

\* The steps of a list are list steps only, and any of them fit.
LEMMA ListFits ==
  ASSUME NEW m
  PROVE  /\ \A s \in Seq(ListSteps) : Shape(m, "list", s) /\ \A S : S \cap ListSteps = {} => ~Rest(s, S)
         /\ \A s : Shape(m, "list", s) => s \in Seq(ListSteps)
<1>1. ASSUME NEW s \in Seq(ListSteps)
      PROVE  Shape(m, "list", s) /\ \A S : S \cap ListSteps = {} => ~Rest(s, S)
  <2>1. ASSUME NEW S, S \cap ListSteps = {}  PROVE ~Rest(s, S)
    BY <2>1 DEF Rest
  <2>2. ASSUME NEW A, NEW B, B \cap ListSteps = {}  PROVE Order(s, A, B)
    BY <2>2 DEF Order
  <2>3. ASSUME NEW S, S \cap ListSteps = {}  PROVE Once(s, S)
    BY <2>3 DEF Once
  <2>4. Ordered(m, s)
    <3> USE DEF OwnerLocks, Checks, Gives, Inserts, Reads, Drops, RowDeletes, OwnerSteps, PartSteps, PartInserts, ListSteps
    <3>1. ((Checks \cup Reads \cup Gives \cup Inserts \cup RowDeletes \cup Drops) \cap ListSteps) = {}
      OBVIOUS
    <3>2. (({"owner"} \cup OwnerSteps \cup Inserts) \cap ListSteps) = {}
      OBVIOUS
    <3>3. ((Drops \cup RowDeletes \cup {"call", "replace"}) \cap ListSteps) = {} /\ (Inserts \cap ListSteps) = {}
          /\ (Gives \cap ListSteps) = {} /\ (RowDeletes \cap ListSteps) = {}
          /\ ({"insertOthersOrRollback"} \cap ListSteps) = {} /\ ({"insert"} \cap ListSteps) = {}
          /\ ({"insertOrUndo"} \cap ListSteps) = {} /\ (Drops \cap ListSteps) = {}
          /\ (PartInserts \cap ListSteps) = {}
      OBVIOUS
    <3> HIDE DEF OwnerLocks, Checks, Gives, Inserts, Reads, Drops, RowDeletes, OwnerSteps, PartSteps, PartInserts, ListSteps
    <3> QED
      BY <2>2, <2>3, <3>1, <3>2, <3>3 DEF Ordered
  <2>5. s \in Seq(Steps)
    <3>1. ListSteps \subseteq Steps
      BY DEF Steps
    <3> QED
      BY <3>1
  <2>6. \A S : Rest(s, S) => \E x \in ListSteps : x \in S
    BY <2>1
  <2>7. Left(m, "list", s)
    BY <2>6 DEF Left, OwnerLocks, Checks, Gives, Inserts, Reads, Drops, RowDeletes, OwnerSteps, PartSteps, PartInserts,
                ListSteps
  <2> QED
    BY <2>1, <2>4, <2>5, <2>7 DEF Shape
<1>2. ASSUME NEW s, Shape(m, "list", s)  PROVE s \in Seq(ListSteps)
  <2>1. s \in Seq(Steps) /\ ~Rest(s, Steps \ ListSteps)
    BY <1>2 DEF Shape, Left
  <2>2. \A i \in DOMAIN s : s[i] \in ListSteps
    BY <2>1 DEF Rest
  <2> QED
    BY <2>1, <2>2
<1> QED
  BY <1>1, <1>2


-----------------------------------------------------------------------------
(* The invariant.                                                          *)

Jobs == [kind : Kinds, steps : Seq(Steps), owner : Homes \cup {None}, name : Names \cup {None}, id : Ids \cup {None},
         force : BOOLEAN, row : Ids \cup {None}, made : Ids \cup {None},
         todo : SUBSET (Homes \X Names \X Ids), resp : {"ok", "false", "error", "same", "kept"}]

Typed ==
  /\ mgr \in ManagerNames
  /\ row \in [Homes \X Names -> Ids \cup {None}]
  /\ owners \subseteq Owners
  /\ csp \in [Ids -> Homes \cup {None}]
  /\ released \subseteq {id \in Ids : Exists(id)} /\ told \subseteq Ids
  /\ ownerGrant \in [Procs -> (Owners \X {"R", "W"}) \cup {None}]
  /\ grant \in [Procs -> (Names \X {"R", "W"}) \cup {None}]
  /\ job \in [Procs -> Jobs]

\* The arguments and the results of a call j, for the steps that it has left.
JobFits(m, j) ==
  /\ Shape(m, j.kind, j.steps)
  /\ j.kind \in Named => j.name \in Names /\ j.owner \in Homes /\ (m \in Parts => j.owner \in Owners)
  /\ j.kind = "owner" => j.owner \in Owners /\ \A t \in j.todo : t[1] = j.owner
  /\ j.kind \in {"register", "csp"} => j.id \in Ids
  /\ j.force => j.kind \in {"delete", "owner"}
  /\ j.kind \in {"none", "answered"} => j \in {NoJob, Answered}
  /\ j.made # None => j.kind \in {"register", "create", "change"} /\ ~Rest(j.steps, {LockStep(m)})
  /\ j.row # None => j.kind = "list" \/ ~Rest(j.steps, {LockStep(m)})
  /\ Rest(j.steps, {"call", "replace"} \cup Drops \cup RowDeletes) =>
       Rest(j.steps, Reads) \/ j.row \in Ids \/ j.kind = "create"
  /\ Rest(j.steps, Inserts) => Rest(j.steps, Gives) \/ j.made \in Ids
  /\ Rest(j.steps, {"undo", "rollback", "insertOthersOrRollback"}) => Rest(j.steps, Inserts) \/ j.made \in Ids

\* The lock under which the rows of its name, or of its owner, are written; g and
\* og are the grants the call holds, os the owners that have a row.
Guarded(m, j, g, og) == IF m \in Parts THEN og = <<j.owner, "W">> ELSE g = <<j.name, "W">>
Writes(m, j) == Writer(m, j.kind) \/ (j.kind = "change" /\ (Rest(j.steps, {"replace"}) \/ j.made # None))
LocksFit(m, j, g, og, os) ==
  /\ Writes(m, j) => Rest(j.steps, {LockStep(m)}) \/ Guarded(m, j, g, og)
  /\ Rest(j.steps, {"owner"} \cup Inserts) =>
       Rest(j.steps, OwnerLocks) \/ j.owner = Conn \/ og \in {<<j.owner, "R">>, <<j.owner, "W">>}
  /\ j.kind = "owner" => Rest(j.steps, {"ownerLock"}) \/ og = <<j.owner, "W">>
  /\ Rest(j.steps, Inserts) /\ ~Rest(j.steps, {"owner"}) => j.owner \in os \cup {Conn}
  /\ Rest(j.steps, PartInserts) /\ ~Rest(j.steps, {"insertOwner", "insertOwnerOrUndo"}) => j.owner \in os

Here(j) == <<j.owner, j.name>>

\* A call that has checked that its name is free, and will write its row.
Checked(j) == Rest(j.steps, Inserts) /\ ~Rest(j.steps, Checks \cup {"deleteRow"})
FreeFits(m, j, r) == Checked(j) => r[Here(j)] = None /\ ~Rest(j.steps, {LockStep(m)})

\* No two calls hold conflicting grants of a lock table.
Apart(gs) == \A p, q \in Procs : p # q /\ gs[p] # None /\ gs[q] # None => ~NameLock!Conflict(gs[p], gs[q])
Exclusive == Apart(grant) /\ Apart(ownerGrant)

CallsFit == \A p \in Procs :
  /\ JobFits(mgr, job[p]) /\ LocksFit(mgr, job[p], grant[p], ownerGrant[p], owners) /\ FreeFits(mgr, job[p], row)

RowsInv == Typed /\ Exclusive /\ CallsFit

-----------------------------------------------------------------------------
(* What a step does to the call that takes it.                             *)

\* From job j on to job k with the next step.
GoesOn(j, k) ==
  /\ j.steps # <<>> /\ k \in Jobs
  /\ k.steps = Tail(j.steps) /\ k.kind = j.kind /\ k.id = j.id /\ k.name = j.name
  /\ Head(j.steps) # "row" => k.owner = j.owner
  /\ k.owner # j.owner => k.owner \in Homes
  /\ Head(j.steps) \notin Reads \cup {"insert"} => k.row = j.row
  /\ Head(j.steps) \in Reads => k.row \in Ids
  /\ Head(j.steps) = "insert" => k.row = j.made
  /\ Head(j.steps) \notin Gives => k.made = j.made
  /\ Head(j.steps) \in Gives => k.made \in Ids
  /\ Head(j.steps) = "find" => k.made = j.id
  /\ Head(j.steps) \notin Drops \cup {"dropOwner"} => k.force = j.force
  /\ j.force => k.force
  /\ j.kind = "owner" => \A t \in k.todo : t[1] = j.owner

\* A create whose insert, or whose insert of the others, failed.
Undoes(j, k) == j.steps # <<>> /\ Head(j.steps) = "insertOrUndo" /\ k = [j EXCEPT !.steps = <<"undo">>]
RollsBack(j, k) ==
  /\ j.steps # <<>> /\ Head(j.steps) = "insertOthersOrRollback"
  /\ k = [j EXCEPT !.steps = <<"rollback", "deleteRowsOrError", "deleteOthers">>]

\* A call about an owner that writes one of the rows that come with it, or that
\* failed to write the owner's row, or one of those.
Turns(j, k) ==
  /\ j.steps # <<>>
  /\ \/ /\ Head(j.steps) \in PartInserts
        /\ \E t \in j.todo : k = [j EXCEPT !.todo = @ \ {t}]
     \/ /\ Head(j.steps) = "insertOwnerOrUndo"
        /\ k = [j EXCEPT !.steps = <<"undoOwner">>, !.resp = "error"]
     \/ /\ Head(j.steps) = "insertPartsOrRollback"
        /\ k = [j EXCEPT !.steps = <<"undoOwner", "deleteOwner", "deleteRowsOfOwner">>]

Moves(j, k) == k = Answered \/ GoesOn(j, k) \/ Undoes(j, k) \/ RollsBack(j, k) \/ Turns(j, k)

\* GoOnWith(p, k) and the answers, for a job k that is almost job[p].
LEMMA GoOnWithDoes ==
  ASSUME Typed, NEW p \in Procs, NEW k, GoOnWith(p, k)
  PROVE  /\ \A q \in Procs \ {p} : job'[q] = job[q]
         /\ \/ job'[p] = Answered
            \/ job'[p] = [k EXCEPT !.steps = Tail(k.steps)] /\ told' = told
  BY DEF GoOnWith, End, Typed

\* An answer ends the call, and touches no other.
LEMMA AnswerDoes ==
  ASSUME Typed, NEW p \in Procs, NEW r, Answer(p, r)
  PROVE  job'[p] = Answered /\ \A q \in Procs \ {p} : job'[q] = job[q]
  BY DEF Answer, End, Typed

\* So does a failure of the meta DB or of the driver.
LEMMA ErrorsDo ==
  ASSUME Typed, NEW p \in Procs, DBError(p) \/ CSPError(p)
  PROVE  job'[p] = Answered /\ \A q \in Procs \ {p} : job'[q] = job[q]
  BY AnswerDoes DEF DBError, CSPError

\* A step that only goes on leaves the call as it was, without its first step.
LEMMA GoOnDoes ==
  ASSUME Typed, NEW p \in Procs, JobFits(mgr, job[p]), job[p].steps # <<>>, GoOn(p),
         Head(job[p].steps) \notin Reads \cup Gives \cup {"insert"}
  PROVE  /\ \A q \in Procs \ {p} : job'[q] = job[q]
         /\ job'[p] = Answered \/ GoesOn(job[p], job'[p])
<1> DEFINE j == job[p]
<1>1. j \in Jobs /\ Tail(j.steps) \in Seq(Steps)
  BY DEF Typed, Jobs
<1>2. /\ \A q \in Procs \ {p} : job'[q] = job[q]
      /\ job'[p] = Answered \/ job'[p] = [j EXCEPT !.steps = Tail(j.steps)]
  BY GoOnWithDoes DEF GoOn
<1>3. ASSUME job'[p] = [j EXCEPT !.steps = Tail(j.steps)]
      PROVE  GoesOn(j, job'[p])
  BY <1>1, <1>3 DEF GoesOn, Jobs, Reads, Gives, JobFits
<1> QED
  BY <1>2, <1>3

\* Every step of Work moves one call, and leaves the locks alone.
LEMMA WorkMoves ==
  ASSUME Typed, NEW p \in Procs, JobFits(mgr, job[p]), Work(p)
  PROVE  /\ job[p].steps # <<>> /\ Moves(job[p], job'[p])
         /\ \A q \in Procs \ {p} : job'[q] = job[q]
         /\ mgr' = mgr /\ ownerGrant' = ownerGrant /\ grant' = grant
<1> DEFINE j == job[p]
           Done == /\ j.steps # <<>> /\ Moves(j, job'[p])
                   /\ \A q \in Procs \ {p} : job'[q] = job[q]
<1>0. j.kind = "owner" => \A t \in j.todo : t[1] = j.owner
  BY DEF JobFits
<1>1. j \in Jobs /\ (j.steps # <<>> => Tail(j.steps) \in Seq(Steps))
  BY DEF Typed, Jobs
<1>2. mgr' = mgr /\ ownerGrant' = ownerGrant /\ grant' = grant
  BY DEF Work, locks
<1> SUFFICES Done
  BY <1>2
<1>3. ASSUME j.steps # <<>>, GoOn(p), Head(j.steps) \notin Reads \cup Gives \cup {"insert"}  PROVE Done
  BY <1>3, GoOnDoes DEF Moves
<1>4. ASSUME j.steps # <<>>, NEW r, Answer(p, r)  PROVE Done
  BY <1>4, AnswerDoes DEF Moves
<1>5. ASSUME j.steps # <<>>, DBError(p) \/ CSPError(p)  PROVE Done
  BY <1>5, ErrorsDo DEF Moves
<1>6. ASSUME j.steps # <<>>, NEW k, GoOnWith(p, k), GoesOn(j, [k EXCEPT !.steps = Tail(k.steps)])  PROVE Done
  BY <1>6, GoOnWithDoes DEF Moves
<1> HIDE DEF Done
<1>7. CASE CheckOwner(p) \/ CheckOwnerFree(p) \/ CheckFree(p) \/ CheckFreeInOwner(p)
  BY <1>3, <1>4, <1>5, <1>7 DEF CheckOwner, CheckOwnerFree, CheckFree, CheckFreeInOwner, Check, At, Reads, Gives
<1>8. CASE CheckFreeOrSame(p)
  BY <1>3, <1>4, <1>5, <1>8 DEF CheckFreeOrSame, At, Reads, Gives
<1>9. CASE ReadRow(p)
  <2>1. j.steps # <<>> /\ Head(j.steps) \in Reads
    BY <1>9 DEF ReadRow, At, Reads
  <2>2. Rest(j.steps, Reads) /\ j.name \in Names
    BY <1>1, <2>1, Tails DEF JobFits, Shape, Left, Jobs
  <2>3. ASSUME NEW o \in HomesOf(j.name), Head(j.steps) = "rowInOwner" => o = j.owner,
               GoOnWith(p, [j EXCEPT !.owner = o, !.row = row[<<o, j.name>>]])
        PROVE  Done
    <3>1. o \in Homes /\ row[<<o, j.name>>] \in Ids
      BY <2>2, <2>3 DEF HomesOf, Typed
    <3>2. GoesOn(j, [j EXCEPT !.owner = o, !.row = row[<<o, j.name>>], !.steps = Tail(j.steps)])
      BY <1>0, <1>1, <2>1, <2>3, <3>1 DEF GoesOn, Jobs, Reads, Gives, Drops
    <3> QED
      BY <1>1, <1>6, <2>1, <2>3, <3>2 DEF Jobs
  <2> QED
    BY <1>4, <1>5, <1>9, <2>1, <2>3 DEF ReadRow, At, Reads
<1>10. CASE Make(p)
  <2>1. j.steps # <<>> /\ Head(j.steps) = "make"
    BY <1>10 DEF Make, At
  <2>2. ASSUME NEW id \in Ids, GoOnWith(p, [j EXCEPT !.made = id])  PROVE Done
    <3>1. GoesOn(j, [j EXCEPT !.made = id, !.steps = Tail(j.steps)])
      BY <1>0, <1>1, <2>1 DEF GoesOn, Jobs, Reads, Gives, Drops
    <3> QED
      BY <1>1, <1>6, <2>1, <2>2, <3>1 DEF Jobs
  <2> QED
    BY <1>4, <1>5, <1>10, <2>1, <2>2 DEF Make
<1>11. CASE Await(p) \/ Gone(p) \/ Call(p)
  BY <1>3, <1>4, <1>5, <1>11 DEF Await, Gone, Call, At, Reads, Gives
<1>12. CASE Find(p)
  <2>1. j.steps # <<>> /\ Head(j.steps) = "find"
    BY <1>12 DEF Find, At
  <2>2. j.id \in Ids
    BY <1>1, <2>1, Tails DEF JobFits, Shape, Left, Jobs
  <2>3. GoesOn(j, [j EXCEPT !.made = j.id, !.steps = Tail(j.steps)])
    BY <1>0, <1>1, <2>1, <2>2 DEF GoesOn, Jobs, Reads, Gives, Drops
  <2>4. Found(p, [j EXCEPT !.made = j.id], {j.id}) => Done
    BY <1>1, <2>1, <2>3 DEF Found, Jobs, Typed, Moves, Done
  <2> QED
    BY <1>4, <1>5, <1>12, <2>1, <2>4 DEF Find
<1>13. CASE Replace(p)
  <2>1. j.steps # <<>> /\ Head(j.steps) = "replace"
    BY <1>13 DEF Replace, At
  <2>2. ASSUME NEW id \in Ids, GoOnWith(p, [j EXCEPT !.made = id])  PROVE Done
    <3>1. GoesOn(j, [j EXCEPT !.made = id, !.steps = Tail(j.steps)])
      BY <1>0, <1>1, <2>1 DEF GoesOn, Jobs, Reads, Gives, Drops
    <3> QED
      BY <1>1, <1>6, <2>1, <2>2, <3>1 DEF Jobs
  <2> QED
    BY <1>4, <1>5, <1>13, <2>1, <2>2 DEF Replace
<1>14. CASE Drop(p)
  <2>1. j.steps # <<>> /\ Head(j.steps) \in Drops
    BY <1>14 DEF Drop, At, Drops
  <2>2. ASSUME NEW f \in BOOLEAN, NEW r \in {"ok", "false"}, j.force => f,
               GoOnWith(p, [j EXCEPT !.force = f, !.resp = r])
        PROVE  Done
    <3>1. GoesOn(j, [j EXCEPT !.force = f, !.resp = r, !.steps = Tail(j.steps)])
      BY <1>0, <1>1, <2>1, <2>2 DEF GoesOn, Jobs, Reads, Gives, Drops
    <3> QED
      BY <1>1, <1>6, <2>1, <2>2, <3>1 DEF Jobs
  <2>3. PICK out :
          IF \/ out \in {"ok", "notfound"} \/ j.force
             \/ out = "refused" /\ At(p, "dropIgnoringFalse")
          THEN GoOnWith(p, [j EXCEPT !.force = j.force \/ (out = "notfound" /\ At(p, "drop")),
                                     !.resp = IF out = "ok" THEN "ok" ELSE "false"])
          ELSE Answer(p, IF out = "refused" THEN "false" ELSE "error")
    BY <1>14 DEF Drop
  <2>4. j.force \in BOOLEAN /\ (j.force \/ (out = "notfound" /\ At(p, "drop"))) \in BOOLEAN
        /\ (j.force => j.force \/ (out = "notfound" /\ At(p, "drop")))
    BY <1>1 DEF Jobs, At
  <2> QED
    BY <1>4, <2>1, <2>2, <2>3, <2>4
<1>15. CASE DropById(p) \/ Undo(p)
  BY <1>4, <1>15 DEF DropById, Undo, At
<1>16. CASE DropOwner(p)
  <2>1. j.steps # <<>> /\ Head(j.steps) = "dropOwner"
    BY <1>16 DEF DropOwner, At
  <2>2. ASSUME NEW f \in BOOLEAN, NEW r \in {"ok", "false"}, j.force => f,
               GoOnWith(p, [j EXCEPT !.force = f, !.resp = r])
        PROVE  Done
    <3>1. GoesOn(j, [j EXCEPT !.force = f, !.resp = r, !.steps = Tail(j.steps)])
      BY <1>0, <1>1, <2>1, <2>2 DEF GoesOn, Jobs, Reads, Gives, Drops
    <3> QED
      BY <1>1, <1>6, <2>1, <2>2, <3>1 DEF Jobs
  <2>3. PICK out :
          IF out \in {"ok", "notfound"} \/ j.force
          THEN GoOnWith(p, [j EXCEPT !.force = j.force \/ out = "notfound",
                                     !.resp = IF out = "ok" THEN "ok" ELSE "false"])
          ELSE Answer(p, IF out = "refused" THEN "false" ELSE "error")
    BY <1>16 DEF DropOwner
  <2>4. j.force \in BOOLEAN /\ (j.force \/ out = "notfound") \in BOOLEAN /\ (j.force => j.force \/ out = "notfound")
    BY <1>1 DEF Jobs
  <2> QED
    BY <1>4, <2>1, <2>2, <2>3, <2>4
<1>17. CASE Rollback(p) \/ UndoOwner(p)
  BY <1>3, <1>4, <1>17 DEF Rollback, UndoOwner, At, Reads, Gives
<1>18. CASE Insert(p)
  <2>1. j.steps # <<>> /\ Head(j.steps) = "insert"
    BY <1>18 DEF Insert, At
  <2>2. GoesOn(j, [j EXCEPT !.row = j.made, !.steps = Tail(j.steps)])
    BY <1>0, <1>1, <2>1 DEF GoesOn, Jobs, Reads, Gives, Drops
  <2>3. GoOnWith(p, [j EXCEPT !.row = j.made]) => Done
    BY <1>1, <1>6, <2>1, <2>2 DEF Jobs
  <2> QED
    BY <1>5, <1>18, <2>1, <2>3 DEF Insert
<1>19. CASE InsertOrUndo(p)
  <2>1. j.steps # <<>> /\ Head(j.steps) = "insertOrUndo"
    BY <1>19 DEF InsertOrUndo, At
  <2>2. ASSUME Divert(p, <<"undo">>)  PROVE Done
    BY <1>1, <2>1, <2>2 DEF Divert, Moves, Undoes, Typed, Done
  <2> QED
    BY <1>3, <1>19, <2>1, <2>2 DEF InsertOrUndo, Reads, Gives
<1>20. CASE InsertOthersOrRollback(p)
  <2>1. j.steps # <<>> /\ Head(j.steps) = "insertOthersOrRollback"
    BY <1>20 DEF InsertOthersOrRollback, At
  <2>2. ASSUME Divert(p, <<"rollback", "deleteRowsOrError", "deleteOthers">>)  PROVE Done
    BY <1>1, <2>1, <2>2 DEF Divert, Moves, RollsBack, Typed, Done
  <2> QED
    BY <1>3, <1>20, <2>1, <2>2 DEF InsertOthersOrRollback, Reads, Gives
<1>21. CASE DeleteRows(p) \/ DeleteRowsOfOwner(p) \/ DeleteOwnerRow(p)
  <2>1. /\ j.steps # <<>>
        /\ Head(j.steps) \in RowDeletes \cup {"deleteRowsOfOwner", "deleteOwner", "releaseOwner"}
    BY <1>21 DEF DeleteRows, DeleteRowsOfOwner, DeleteOwnerRow, At, RowDeletes
  <2>2. Head(j.steps) \notin Reads \cup Gives \cup {"insert"}
    BY <2>1 DEF Reads, Gives, RowDeletes
  <2> DEFINE k == [j EXCEPT !.resp = "kept", !.steps = Tail(j.steps)]
  <2>5. /\ k \in Jobs /\ k.steps = Tail(j.steps) /\ k.kind = j.kind /\ k.id = j.id /\ k.name = j.name
        /\ k.owner = j.owner /\ k.row = j.row /\ k.made = j.made /\ k.force = j.force /\ k.todo = j.todo
    BY <1>1, <2>1 DEF Jobs
  <2>6. Head(j.steps) # "insert" /\ Head(j.steps) # "find"
    BY <2>2 DEF Gives
  <2> HIDE DEF k
  <2>7. GoesOn(j, k)
    BY <1>0, <2>1, <2>2, <2>5, <2>6 DEF GoesOn
  <2>3. GoesOn(j, [j EXCEPT !.resp = "kept", !.steps = Tail(j.steps)])
    BY <2>7 DEF k
  <2>4. GoOnWith(p, [j EXCEPT !.resp = "kept"]) => Done
    BY <1>1, <1>6, <2>1, <2>3 DEF Jobs
  <2> QED
    BY <1>3, <1>4, <1>21, <2>1, <2>2, <2>4 DEF DeleteRows, DeleteRowsOfOwner, DeleteOwnerRow
<1>22. CASE DeleteOthers(p) \/ InsertOthers(p)
  BY <1>3, <1>4, <1>5, <1>22 DEF DeleteOthers, InsertOthers, At, Reads, Gives
<1>23. CASE InsertOwner(p)
  <2>1. j.steps # <<>> /\ Head(j.steps) \in {"insertOwner", "insertOwnerOrUndo"}
    BY <1>23 DEF InsertOwner, At
  <2>2. ASSUME ~At(p, "insertOwner"), job' = [job EXCEPT ![p].steps = <<"undoOwner">>, ![p].resp = "error"]
        PROVE  Done
    BY <1>1, <2>1, <2>2 DEF At, Moves, Turns, Typed, Done
  <2> QED
    BY <1>3, <1>4, <1>23, <2>1, <2>2 DEF InsertOwner, Reads, Gives
<1>24. CASE ReadRows(p)
  <2>1. j.steps # <<>> /\ Head(j.steps) = "rows"
    BY <1>24 DEF ReadRows, At
  <2> DEFINE todo == {<<h[1], h[2], row[h]>> : h \in {g \in DOMAIN row : row[g] # None}}
  <2>2. todo \in SUBSET (Homes \X Names \X Ids)
    BY DEF Typed
  <2> HIDE DEF todo
  <2>3. GoesOn(j, [j EXCEPT !.todo = todo, !.steps = Tail(j.steps)])
    <3>1. j.kind = "list"
      BY <2>1, Tails DEF JobFits, Shape, Left, ListSteps
    <3> QED
      BY <1>1, <2>1, <2>2, <3>1 DEF GoesOn, Jobs, Reads, Gives, Drops
  <2>4. GoOnWith(p, [j EXCEPT !.todo = todo]) => Done
    BY <1>1, <1>6, <2>1, <2>3 DEF Jobs
  <2>5. GoOnWith(p, [j EXCEPT !.todo = todo]) \/ DBError(p)
    BY <1>24 DEF ReadRows, todo
  <2> QED
    BY <1>5, <2>1, <2>4, <2>5
<1>25. CASE EachUnlocked(p)
  BY <1>3, <1>5, <1>25 DEF EachUnlocked, At, Reads, Gives
<1>26. CASE FindOwner(p) \/ MakeOwner(p)
  <2>1. j.steps # <<>> /\ Head(j.steps) \in {"findOwner", "makeOwner"}
    BY <1>26 DEF FindOwner, MakeOwner, At
  <2>2. j.kind = "owner" /\ j.owner \in Homes
    <3>1. Rest(j.steps, OwnerSteps)
      BY <2>1, Tails DEF JobFits, Shape, OwnerSteps, PartSteps
    <3> QED
      BY <3>1 DEF JobFits, Shape, Left, Homes
  <2>3. ASSUME NEW S, S \subseteq Ids, NEW given \in PartsOf(j.owner, S)
        PROVE  GoesOn(j, [j EXCEPT !.todo = given, !.steps = Tail(j.steps)])
    <3>1. given \in SUBSET (Homes \X Names \X Ids) /\ \A t \in given : t[1] = j.owner
      BY <2>2, <2>3 DEF PartsOf
    <3> QED
      BY <1>1, <2>1, <2>2, <3>1 DEF GoesOn, Jobs, Reads, Gives, Drops
  <2>4. CASE FindOwner(p)
    <3>1. ASSUME NEW given \in PartsOf(j.owner, {id \in Ids : csp[id] \in {Conn, j.owner}}),
                 Found(p, [j EXCEPT !.todo = given], {t[3] : t \in given})
          PROVE  Done
      <4>1. GoesOn(j, [j EXCEPT !.todo = given, !.steps = Tail(j.steps)])
        BY <2>3
      <4> QED
        BY <1>1, <2>1, <3>1, <4>1 DEF Found, Jobs, Typed, Moves, Done
    <3> QED
      BY <1>5, <2>1, <2>4, <3>1 DEF FindOwner
  <2>5. CASE MakeOwner(p)
    <3>1. ASSUME NEW given \in PartsOf(j.owner, {id \in Ids : Fresh(id)}), GoOnWith(p, [j EXCEPT !.todo = given])
          PROVE  Done
      <4>1. GoesOn(j, [j EXCEPT !.todo = given, !.steps = Tail(j.steps)])
        BY <2>3
      <4> QED
        BY <1>1, <1>6, <2>1, <3>1, <4>1 DEF Jobs
    <3> QED
      BY <1>5, <2>1, <2>5, <3>1 DEF MakeOwner
  <2> QED
    BY <1>26, <2>4, <2>5
<1>27. CASE InsertParts(p)
  <2>1. j.steps # <<>> /\ Head(j.steps) \in PartInserts
    BY <1>27 DEF InsertParts, At, PartInserts
  <2>2. ASSUME NEW t \in j.todo, job' = [job EXCEPT ![p].todo = j.todo \ {t}]
        PROVE  Done
    BY <1>1, <2>1, <2>2 DEF Moves, Turns, Typed, Done
  <2>3. ASSUME ~At(p, "insertParts"), Divert(p, <<"undoOwner", "deleteOwner", "deleteRowsOfOwner">>)
        PROVE  Done
    BY <1>1, <2>1, <2>3 DEF At, PartInserts, Divert, Moves, Turns, Typed, Done
  <2>4. Head(j.steps) \notin Reads \cup Gives \cup {"insert"}
    BY <2>1 DEF PartInserts, Reads, Gives
  <2> QED
    BY <1>3, <1>4, <1>27, <2>1, <2>2, <2>3, <2>4 DEF InsertParts
<1> QED
  BY <1>7, <1>8, <1>9, <1>10, <1>11, <1>12, <1>13, <1>14, <1>15, <1>16, <1>17, <1>18, <1>19, <1>20,
     <1>21, <1>22, <1>23, <1>24, <1>25, <1>26, <1>27 DEF Work

-----------------------------------------------------------------------------
(* The parts of the invariant, for the call that takes a step.             *)

\* The ends of the sequences, and what a failed insert puts in their place.
LEMMA EndFits ==
  ASSUME NEW m
  PROVE  /\ (\A k \in {"none", "answered"} : Shape(m, k, <<>>)) /\ \A S : ~Rest(<<>>, S)
         /\ Shape(m, "create", <<"undo">>)
         /\ m = "CLUSTER" => Shape(m, "create", <<"rollback", "deleteRowsOrError", "deleteOthers">>)
         /\ m \in Parts => /\ Shape(m, "owner", <<"undoOwner">>)
                           /\ Shape(m, "owner", <<"undoOwner", "deleteOwner", "deleteRowsOfOwner">>)
         /\ \A S : "undo" \notin S => ~Rest(<<"undo">>, S)
         /\ \A S : {"rollback", "deleteRowsOrError", "deleteOthers"} \cap S = {} =>
              ~Rest(<<"rollback", "deleteRowsOrError", "deleteOthers">>, S)
<1>1. (\A k \in {"none", "answered"} : Shape(m, k, <<>>)) /\ \A S : ~Rest(<<>>, S)
  <2> DEFINE e == <<>>
  <2>0. e \in Seq(Steps) /\ Len(e) = 0
    OBVIOUS
  <2>1. <<>> \in Seq(Steps) /\ \A i \in DOMAIN <<>> : FALSE
    BY <2>0
  <2>2. (\A S : ~Rest(<<>>, S) /\ Once(<<>>, S)) /\ \A A, B : Order(<<>>, A, B)
    BY <2>1 DEF Rest, Order, Once
  <2>3. Ordered(m, <<>>)
    BY <2>2 DEF Ordered
  <2>4. ASSUME NEW k \in {"none", "answered"}  PROVE Left(m, k, <<>>)
    BY <2>2, <2>4 DEF Left, Named
  <2> QED
    BY <2>1, <2>2, <2>3, <2>4 DEF Shape
<1>2. Shape(m, "create", <<"undo">>)
  BY DEF Shape, Ordered, Left, Rest, Order, Once, Named, Parts, LockStep, Careless, Steps, OwnerLocks, Checks,
         Gives, Inserts, Reads, Drops, RowDeletes, ListSteps, OwnerSteps, PartSteps, PartInserts
<1>3. m = "CLUSTER" => Shape(m, "create", <<"rollback", "deleteRowsOrError", "deleteOthers">>)
  BY DEF Shape, Ordered, Left, Rest, Order, Once, Named, Parts, LockStep, Careless, Steps, OwnerLocks, Checks,
         Gives, Inserts, Reads, Drops, RowDeletes, ListSteps, OwnerSteps, PartSteps, PartInserts
<1>6. m \in Parts => /\ Shape(m, "owner", <<"undoOwner">>)
                    /\ Shape(m, "owner", <<"undoOwner", "deleteOwner", "deleteRowsOfOwner">>)
  BY DEF Shape, Ordered, Left, Rest, Order, Once, Named, Parts, LockStep, Careless, Steps, OwnerLocks, Checks,
         Gives, Inserts, Reads, Drops, RowDeletes, ListSteps, OwnerSteps, PartSteps, PartInserts
<1>4. \A S : "undo" \notin S => ~Rest(<<"undo">>, S)
  BY DEF Rest
<1>5. \A S : {"rollback", "deleteRowsOrError", "deleteOthers"} \cap S = {} =>
        ~Rest(<<"rollback", "deleteRowsOrError", "deleteOthers">>, S)
  BY DEF Rest
<1> QED
  BY <1>1, <1>2, <1>3, <1>4, <1>5, <1>6

\* What is left of the steps after a failed insert.
LEMMA DivertedFits ==
  ASSUME NEW m, NEW j, JobFits(m, j), NEW k, Undoes(j, k) \/ RollsBack(j, k), j \in Jobs
  PROVE  /\ k \in Jobs /\ k.kind = "create" /\ j.kind = "create" /\ Shape(m, k.kind, k.steps) /\ k.made \in Ids
         /\ k = [j EXCEPT !.steps = k.steps]
         /\ ~Rest(k.steps, Steps \ {"undo", "rollback", "deleteRowsOrError", "deleteOthers"})
         /\ Undoes(j, k) => ~Rest(k.steps, Steps \ {"undo"})
<1>1. j.steps # <<>> /\ Shape(m, j.kind, j.steps) /\ j.steps \in Seq(Steps)
  BY DEF Undoes, RollsBack, JobFits, Shape
<1>2. Head(j.steps) \in {"insertOrUndo", "insertOthersOrRollback"} /\ k = [j EXCEPT !.steps = k.steps]
      /\ (Head(j.steps) = "insertOthersOrRollback" => m = "CLUSTER")
  BY <1>1, Tails DEF Undoes, RollsBack, Shape, Left, Jobs
<1>3. j.kind = "create"
  BY <1>1, <1>2, Tails DEF Shape, Left
<1>4. ~Rest(j.steps, Gives) \/ Head(j.steps) = "insertOthersOrRollback"
  <2>1. Head(j.steps) \in Inserts => ~Rest(j.steps, {"owner"} \cup Checks \cup Gives \cup {"deleteRow"})
    BY <1>1, Tails DEF Shape, Ordered
  <2>2. Rest(j.steps, Gives) => Rest(j.steps, {"owner"} \cup Checks \cup Gives \cup {"deleteRow"})
    BY RestIn
  <2> QED
    BY <1>2, <2>1, <2>2 DEF Inserts
<1>5. j.made \in Ids
  <2>1. CASE Head(j.steps) = "insertOrUndo"
    BY <1>1, <1>4, <2>1, Tails DEF JobFits, Inserts
  <2>2. CASE Head(j.steps) = "insertOthersOrRollback"
    <3>1. ~Rest(j.steps, Inserts)
      BY <1>1, <2>2, Tails DEF Shape, Ordered
    <3>2. Rest(j.steps, {"undo", "rollback", "insertOthersOrRollback"})
      BY <1>1, <2>2, Tails
    <3> QED
      BY <3>1, <3>2 DEF JobFits
  <2> QED
    BY <1>2, <2>1, <2>2
<1>6. k.steps \in Seq(Steps) /\ Shape(m, "create", k.steps)
  <2>1. \/ k.steps = <<"undo">>
        \/ k.steps = <<"rollback", "deleteRowsOrError", "deleteOthers">> /\ m = "CLUSTER"
    BY <1>2 DEF Undoes, RollsBack, Jobs
  <2> QED
    BY <2>1, EndFits DEF Shape
<1>7. k \in Jobs /\ k.kind = "create" /\ k.made \in Ids
  BY <1>2, <1>3, <1>5, <1>6 DEF Jobs
<1>8. /\ ~Rest(k.steps, Steps \ {"undo", "rollback", "deleteRowsOrError", "deleteOthers"})
      /\ Undoes(j, k) => ~Rest(k.steps, Steps \ {"undo"})
  <2>1. CASE Undoes(j, k)
    <3>1. k.steps = <<"undo">>
      BY <2>1 DEF Undoes, Jobs
    <3> QED
      BY <3>1, EndFits
  <2>2. CASE RollsBack(j, k)
    <3>1. k.steps = <<"rollback", "deleteRowsOrError", "deleteOthers">> /\ ~Undoes(j, k)
      BY <2>2 DEF RollsBack, Undoes, Jobs
    <3> QED
      BY <3>1, EndFits
  <2> QED
    BY <2>1, <2>2
<1> QED
  BY <1>2, <1>3, <1>6, <1>7, <1>8

\* What is left of a call about an owner that turns, or that writes one of the rows.
LEMMA OwnerTurns ==
  ASSUME NEW m, NEW j \in Jobs, JobFits(m, j), NEW k, Turns(j, k)
  PROVE  /\ k \in Jobs /\ k.kind = "owner" /\ j.kind = "owner" /\ Shape(m, k.kind, k.steps) /\ k.owner = j.owner
         /\ k.made = j.made /\ k.row = j.row /\ k.name = j.name /\ k.force = j.force /\ k.todo \subseteq j.todo
         /\ k.steps = j.steps \/ ~Rest(k.steps, {"owner"} \cup PartInserts)
         /\ m \in Careless
         /\ ~Rest(k.steps, Inserts) /\ ~Rest(k.steps, {LockStep(m)})
         /\ ~Rest(k.steps, {"call", "replace"} \cup Drops \cup RowDeletes) \/ k.steps = j.steps
         /\ ~Rest(k.steps, {"undo", "rollback", "insertOthersOrRollback"})
<1> DEFINE s == j.steps
           h == Head(s)
<1>1. s # <<>> /\ s \in Seq(Steps) /\ h \in PartInserts \cup {"insertOwnerOrUndo"}
  BY DEF Turns, JobFits, Shape, PartInserts
<1>2. /\ Left(m, j.kind, s) /\ Ordered(m, s) /\ \A S : h \in S => Rest(s, S)
      /\ \A A, B : Order(s, A, B) /\ h \in B => ~Rest(s, A)
  BY <1>1, Tails DEF JobFits, Shape
<1>3. j.kind = "owner" /\ ~Rest(s, Inserts) /\ ~Rest(s, {"undo", "rollback", "insertOthersOrRollback"})
  <2>1. Rest(s, OwnerSteps)
    BY <1>1, <1>2 DEF OwnerSteps, PartSteps
  <2>2. j.kind = "owner"
    BY <1>2, <2>1 DEF Left
  <2>3. Rest(s, {"undo", "rollback", "insertOthersOrRollback"}) =>
          Rest(s, {"insertOrUndo", "undo", "rollback", "insertOthersOrRollback"})
    BY RestIn
  <2> QED
    BY <1>2, <2>2, <2>3 DEF Left
<1>4. ~Rest(s, {LockStep(m)})
  <2>1. ~Rest(s, OwnerLocks)
    BY <1>1, <1>2 DEF Ordered, OwnerSteps, PartSteps
  <2>2. ~Rest(s, {"lock"})
    <3>1. Rest(s, {"lock"}) => Rest(s, {"lock", "rlock"} \cup Reads)
      BY RestIn
    <3> QED
      BY <1>2, <1>3, <3>1 DEF Left, Named
  <2> QED
    BY <2>1, <2>2, RestIn DEF LockStep, OwnerLocks
<1>5. CASE h \in PartInserts /\ \E t \in j.todo : k = [j EXCEPT !.todo = @ \ {t}]
  <2>1. PICK t \in j.todo : k = [j EXCEPT !.todo = @ \ {t}]
    BY <1>5
  <2>2. k.steps = s /\ k.kind = j.kind /\ k.owner = j.owner /\ k.made = j.made /\ k.row = j.row /\ k.name = j.name
        /\ k.force = j.force /\ k.todo = j.todo \ {t} /\ k \in Jobs
    BY <2>1 DEF Jobs
  <2>3. Rest(s, PartSteps)
    BY <1>2, <1>5 DEF PartSteps
  <2>4. m \in Careless
    BY <1>2, <2>3 DEF Left, Parts, Careless
  <2> QED
    BY <1>3, <1>4, <2>2, <2>4 DEF JobFits
<1>6. ASSUME NEW e \in {<<"undoOwner">>, <<"undoOwner", "deleteOwner", "deleteRowsOfOwner">>}, m \in Parts,
             k.steps = e, k.kind = j.kind, k.owner = j.owner, k.made = j.made, k.row = j.row, k.name = j.name,
             k.force = j.force, k.todo = j.todo, k = [j EXCEPT !.steps = e, !.resp = k.resp],
             k.resp \in {"ok", "false", "error", "same", "kept"}
      PROVE  /\ k \in Jobs /\ Shape(m, k.kind, k.steps) /\ m \in Careless
             /\ \A S : {"undoOwner", "deleteOwner", "deleteRowsOfOwner"} \cap S = {} => ~Rest(k.steps, S)
  <2>1. Shape(m, k.kind, k.steps) /\ e \in Seq(Steps)
    BY <1>3, <1>6, EndFits DEF Shape
  <2>2. k \in Jobs
    BY <1>6, <2>1 DEF Jobs
  <2>3. \A i \in DOMAIN e : e[i] \in {"undoOwner", "deleteOwner", "deleteRowsOfOwner"}
    BY <1>6
  <2> QED
    BY <1>6, <2>1, <2>2, <2>3 DEF Rest, Parts, Careless
<1>7. CASE h \in {"insertOwnerOrUndo", "insertPartsOrRollback"}
           /\ ~(h \in PartInserts /\ \E t \in j.todo : k = [j EXCEPT !.todo = @ \ {t}])
  <2>1. \/ k = [j EXCEPT !.steps = <<"undoOwner">>, !.resp = "error"]
        \/ k = [j EXCEPT !.steps = <<"undoOwner", "deleteOwner", "deleteRowsOfOwner">>]
    BY <1>7 DEF Turns
  <2>2. m \in Parts
    <3>1. Rest(s, PartSteps)
      BY <1>2, <1>7 DEF PartSteps, PartInserts
    <3> QED
      BY <1>2, <3>1 DEF Left
  <2>3. PICK e \in {<<"undoOwner">>, <<"undoOwner", "deleteOwner", "deleteRowsOfOwner">>} :
          \/ k = [j EXCEPT !.steps = e, !.resp = "error"]
          \/ k = [j EXCEPT !.steps = e]
    BY <2>1
  <2>4. /\ k.steps = e /\ k.kind = j.kind /\ k.owner = j.owner /\ k.made = j.made /\ k.row = j.row
        /\ k.name = j.name /\ k.force = j.force /\ k.todo = j.todo
        /\ k.resp \in {"ok", "false", "error", "same", "kept"}
    BY <2>3 DEF Jobs
  <2>5. k = [j EXCEPT !.steps = e, !.resp = k.resp]
    BY <2>3 DEF Jobs
  <2>6. /\ k \in Jobs /\ Shape(m, k.kind, k.steps) /\ m \in Careless
        /\ \A S : {"undoOwner", "deleteOwner", "deleteRowsOfOwner"} \cap S = {} => ~Rest(k.steps, S)
    <3> HIDE DEF s, h
    <3> QED
      BY <1>6, <2>2, <2>4, <2>5
  <2>7. /\ ~Rest(k.steps, Inserts) /\ ~Rest(k.steps, {LockStep(m)})
        /\ ~Rest(k.steps, {"call", "replace"} \cup Drops \cup RowDeletes)
        /\ ~Rest(k.steps, {"undo", "rollback", "insertOthersOrRollback"})
        /\ ~Rest(k.steps, {"owner"} \cup PartInserts)
    BY <2>6 DEF Inserts, LockStep, Drops, RowDeletes, PartInserts
  <2> QED
    BY <1>3, <2>4, <2>6, <2>7
<1> QED
  BY <1>5, <1>7 DEF Turns

\* A goroutine without a call, or with an answered one, has nothing left to do.
LEMMA AnsweredFits ==
  ASSUME NEW m, NEW j \in {NoJob, Answered}
  PROVE  /\ j \in Jobs /\ JobFits(m, j) /\ ~Writes(m, j) /\ \A S : ~Rest(j.steps, S)
         /\ j.kind \in {"none", "answered"} /\ j.steps = <<>> /\ j.made = None /\ j.row = None /\ ~j.force
         /\ \A g, og, os : LocksFit(m, j, g, og, os)
         /\ \A r : FreeFits(m, j, r)
<1>1. /\ j.kind \in {"none", "answered"} /\ j.steps = <<>> /\ j.made = None /\ j.row = None
      /\ j.force = FALSE
  BY DEF NoJob, Answered
<1>2. \A S : ~Rest(j.steps, S)
  BY <1>1, EndFits
<1>3. j \in Jobs
  <2>1. /\ j.owner = None /\ j.name = None /\ j.id = None /\ j.todo = {} /\ j.resp = "ok"
        /\ j = [kind |-> j.kind, steps |-> j.steps, owner |-> j.owner, name |-> j.name, id |-> j.id,
                force |-> j.force, row |-> j.row, made |-> j.made, todo |-> j.todo, resp |-> j.resp]
    <3>1. CASE j = NoJob
      BY <3>1 DEF NoJob
    <3>2. CASE j = Answered
      BY <3>2 DEF NoJob, Answered
    <3> QED
      BY <3>1, <3>2
  <2>2. <<>> \in Seq(Steps) /\ {} \in SUBSET (Homes \X Names \X Ids) /\ {"none", "answered"} \subseteq Kinds
    BY DEF Kinds
  <2> QED
    BY <1>1, <2>1, <2>2 DEF Jobs
<1>4. Shape(m, j.kind, j.steps) /\ j.kind \notin Named
  BY <1>1, EndFits DEF Named
<1>5. JobFits(m, j) /\ ~Writes(m, j)
  BY <1>1, <1>2, <1>4, ManagersAssumption DEF JobFits, Writes, Writer
<1>6. \A g, og, os : LocksFit(m, j, g, og, os)
  BY <1>1, <1>2, <1>5 DEF LocksFit
<1>7. \A r : FreeFits(m, j, r)
  BY <1>2 DEF FreeFits, Checked
<1> QED
  BY <1>1, <1>2, <1>3, <1>5, <1>6, <1>7

\* What is left before and after a step.
LEMMA Steppings ==
  ASSUME NEW m, NEW j \in Jobs, JobFits(m, j), NEW k, GoesOn(j, k)
  PROVE  /\ Head(j.steps) \in Steps
         /\ \A S : Rest(j.steps, S) <=> Head(j.steps) \in S \/ Rest(k.steps, S)
         /\ Shape(m, j.kind, j.steps) /\ Shape(m, k.kind, k.steps) /\ k.kind = j.kind
         /\ Ordered(m, j.steps) /\ Left(m, j.kind, j.steps)
         /\ \A A, B : Order(j.steps, A, B) /\ Head(j.steps) \in B => ~Rest(j.steps, A)
         /\ \A S : Once(j.steps, S) /\ Head(j.steps) \in S => ~Rest(k.steps, S)
<1>1. /\ j.steps \in Seq(Steps) /\ j.steps # <<>> /\ k.steps = Tail(j.steps) /\ k.kind = j.kind
      /\ Shape(m, j.kind, j.steps) /\ Ordered(m, j.steps) /\ Left(m, j.kind, j.steps)
  BY DEF GoesOn, JobFits, Shape
<1>2. Shape(m, k.kind, k.steps)
  BY <1>1, TailFits
<1> QED
  BY <1>1, <1>2, Tails

\* The arguments and the results still fit after a step.
LEMMA GoesOnFits ==
  ASSUME NEW m, NEW j \in Jobs, JobFits(m, j), NEW k, GoesOn(j, k)
  PROVE  JobFits(m, k)
<1> DEFINE s == j.steps
           h == Head(s)
<1>1. /\ h \in Steps /\ Left(m, j.kind, s) /\ Ordered(m, s) /\ Shape(m, k.kind, k.steps)
      /\ \A S : Rest(s, S) <=> h \in S \/ Rest(k.steps, S)
      /\ \A A, B : Order(s, A, B) /\ h \in B => ~Rest(s, A)
  BY Steppings
<1>2. k.kind = j.kind /\ k.name = j.name /\ k.id = j.id /\ k \in Jobs
  BY DEF GoesOn
<1> HIDE DEF s, h
<1> DEFINE Later == Checks \cup Reads \cup Gives \cup Inserts \cup RowDeletes \cup Drops
<1>3. h \in Later => ~Rest(s, {LockStep(m)})
  BY <1>1 DEF Ordered
<1>4. k.kind \in Named => k.name \in Names /\ k.owner \in Homes /\ (m \in Parts => k.owner \in Owners)
  BY <1>1, <1>2 DEF GoesOn, JobFits, Left, s, h
<1>5. k.kind = "owner" => k.owner \in Owners /\ \A t \in k.todo : t[1] = k.owner
  <2>1. h = "row" => k.kind # "owner"
    BY <1>1, <1>2 DEF Left, Named, Reads
  <2> QED
    BY <1>2, <2>1 DEF GoesOn, JobFits, s, h
<1>6. k.kind \in {"register", "csp"} => k.id \in Ids
  BY <1>2 DEF JobFits
<1>7. k.force => k.kind \in {"delete", "owner"}
  <2>1. (h \in Drops => k.kind = "delete") /\ (h = "dropOwner" => k.kind = "owner")
    BY <1>1, <1>2 DEF Left, OwnerSteps, PartSteps
  <2> QED
    BY <1>2, <2>1 DEF GoesOn, JobFits, s, h
<1>8. k.kind \notin {"none", "answered"}
  BY <1>2, AnsweredFits DEF GoesOn, JobFits
<1>9. ASSUME k.made # None
      PROVE  k.kind \in {"register", "create", "change"} /\ ~Rest(k.steps, {LockStep(m)})
  <2>1. CASE h \in Gives
    BY <1>1, <1>2, <1>3, <2>1 DEF Left, Gives
  <2>2. CASE h \notin Gives
    BY <1>1, <1>2, <1>9, <2>2 DEF JobFits, GoesOn, s, h
  <2> QED
    BY <2>1, <2>2
<1>10. ASSUME k.row # None, k.kind # "list"  PROVE ~Rest(k.steps, {LockStep(m)})
  <2>1. CASE h \in Reads \cup {"insert"}
    BY <1>1, <1>3, <2>1 DEF Inserts
  <2>2. CASE h \notin Reads \cup {"insert"}
    BY <1>1, <1>2, <1>10, <2>2 DEF JobFits, GoesOn, s, h
  <2> QED
    BY <2>1, <2>2
<1>11. ASSUME Rest(k.steps, {"call", "replace"} \cup Drops \cup RowDeletes), k.kind # "create"
       PROVE  Rest(k.steps, Reads) \/ k.row \in Ids
  <2>1. CASE h \in Reads
    BY <1>1, <2>1 DEF GoesOn, s, h
  <2>2. CASE h = "insert"
    <3>1. ~Rest(s, Steps \ {"insert", "insertOthers"})
      BY <1>1, <2>2 DEF Ordered
    <3>2. Rest(s, {"call", "replace"} \cup Drops \cup RowDeletes)
      BY <1>1, <1>11
    <3>3. ({"call", "replace"} \cup Drops \cup RowDeletes) \subseteq (Steps \ {"insert", "insertOthers"})
      BY DEF Steps, Drops, RowDeletes, Gives
    <3> QED
      BY <3>1, <3>2, <3>3 DEF Rest
  <2>3. CASE h \notin Reads \cup {"insert"}
    BY <1>1, <1>2, <1>11, <2>3 DEF JobFits, GoesOn, s, h
  <2> QED
    BY <2>1, <2>2, <2>3
<1>12. Rest(k.steps, Inserts) => Rest(k.steps, Gives) \/ k.made \in Ids
  BY <1>1 DEF JobFits, GoesOn, s, h
<1>13. ASSUME Rest(k.steps, {"undo", "rollback", "insertOthersOrRollback"})
       PROVE  Rest(k.steps, Inserts) \/ k.made \in Ids
  <2>1. Rest(s, Inserts) \/ j.made \in Ids
    BY <1>1, <1>13 DEF JobFits, s
  <2>2. CASE h \in Gives
    BY <2>2 DEF GoesOn, s, h
  <2>3. CASE h \in Inserts
    <3>1. ~Rest(s, Gives)
      <4>1. ~Rest(s, {"owner"} \cup Checks \cup Gives \cup {"deleteRow"})
        BY <1>1, <2>3 DEF Ordered
      <4> QED
        BY <4>1, RestIn
    <3>2. j.made \in Ids /\ h \notin Gives
      BY <1>1, <2>3, <3>1 DEF JobFits, s, Gives, Inserts
    <3> QED
      BY <3>2 DEF GoesOn, s, h
  <2>4. CASE h \notin Gives \cup Inserts
    BY <1>1, <2>1, <2>4 DEF GoesOn, s, h
  <2> QED
    BY <2>2, <2>3, <2>4
<1> QED
  BY <1>1, <1>4, <1>5, <1>6, <1>7, <1>8, <1>9, <1>10, <1>11, <1>12, <1>13 DEF JobFits

\* And when the call turns to undo or to roll back.
LEMMA DivertedJobFits ==
  ASSUME NEW m, NEW j \in Jobs, JobFits(m, j), NEW k, Undoes(j, k) \/ RollsBack(j, k)
  PROVE  JobFits(m, k)
<1>1. /\ k \in Jobs /\ k.kind = "create" /\ j.kind = "create" /\ Shape(m, k.kind, k.steps) /\ k.made \in Ids
      /\ k = [j EXCEPT !.steps = k.steps]
      /\ ~Rest(k.steps, Steps \ {"undo", "rollback", "deleteRowsOrError", "deleteOthers"})
  BY DivertedFits
<1>2. k.name = j.name /\ k.owner = j.owner /\ k.force = j.force
  BY <1>1 DEF Jobs
<1>3. ~Rest(k.steps, {LockStep(m)}) /\ ~Rest(k.steps, Inserts)
  BY <1>1, RestIn DEF LockStep, Inserts, Steps, OwnerLocks
<1>4. k.kind \in Named => k.name \in Names /\ k.owner \in Homes /\ (m \in Parts => k.owner \in Owners)
  BY <1>1, <1>2 DEF JobFits
<1>5. ~k.force
  BY <1>1, <1>2 DEF JobFits
<1> QED
  BY <1>1, <1>3, <1>4, <1>5 DEF JobFits

\* And when a call about an owner does.
LEMMA TurnedJobFits ==
  ASSUME NEW m, NEW j \in Jobs, JobFits(m, j), NEW k, Turns(j, k)
  PROVE  JobFits(m, k)
<1>1. /\ k \in Jobs /\ k.kind = "owner" /\ j.kind = "owner" /\ Shape(m, k.kind, k.steps) /\ k.owner = j.owner
      /\ k.made = j.made /\ k.row = j.row /\ k.name = j.name /\ k.force = j.force /\ k.todo \subseteq j.todo
      /\ ~Rest(k.steps, Inserts) /\ ~Rest(k.steps, {LockStep(m)})
      /\ ~Rest(k.steps, {"call", "replace"} \cup Drops \cup RowDeletes) \/ k.steps = j.steps
      /\ ~Rest(k.steps, {"undo", "rollback", "insertOthersOrRollback"})
  BY OwnerTurns
<1> QED
  BY <1>1 DEF JobFits, Named

\* The arguments of the call fit its next step.
LEMMA MovesFit ==
  ASSUME NEW m, NEW j \in Jobs, JobFits(m, j), NEW k, Moves(j, k)
  PROVE  k \in Jobs /\ JobFits(m, k)
  BY AnsweredFits, GoesOnFits, DivertedJobFits, DivertedFits, TurnedJobFits, OwnerTurns DEF Moves, GoesOn

\* The call still has the lock that guards its row when the steps that need it are left:
\* g2, og2 and os2 are the grants and the owners after the step.
LEMMA LocksMove ==
  ASSUME NEW m, NEW j \in Jobs, JobFits(m, j), NEW k, Moves(j, k),
         NEW g, NEW og, NEW os, LocksFit(m, j, g, og, os),
         NEW g2, g # None => g2 = g,
         NEW og2, og # None => og2 = og,
         Head(j.steps) = "lock" /\ k # Answered => g2 = <<j.name, "W">>,
         Head(j.steps) = "ownerLock" /\ k # Answered => j.owner = Conn \/ og2 = <<j.owner, "W">>,
         Head(j.steps) = "ownerRLock" /\ k # Answered => j.owner = Conn \/ og2 = <<j.owner, "R">>,
         NEW os2, os2 = os \/ Head(j.steps) \in {"insertOwner", "insertOwnerOrUndo", "deleteOwner", "releaseOwner"},
         Head(j.steps) \in {"insertOwner", "insertOwnerOrUndo"} => os \subseteq os2,
         Head(j.steps) \in {"insertOwner", "insertOwnerOrUndo"} =>
           k = Answered \/ j.owner \in os2 \/ k.steps = <<"undoOwner">>,
         Head(j.steps) = "owner" /\ k # Answered => j.owner \in os \cup {Conn}
  PROVE  LocksFit(m, k, g2, og2, os2)
<1>1. CASE k = Answered
  BY <1>1, AnsweredFits
<1>2. CASE k # Answered /\ GoesOn(j, k)
  <2> DEFINE s == j.steps
             h == Head(s)
  <2>1. /\ h \in Steps /\ Left(m, j.kind, s) /\ Ordered(m, s)
        /\ \A S : Rest(s, S) <=> h \in S \/ Rest(k.steps, S)
        /\ \A A, B : Order(s, A, B) /\ h \in B => ~Rest(s, A)
    BY <1>2, Steppings
  <2>2. k.kind = j.kind /\ k.name = j.name
    BY <1>2 DEF GoesOn
  <2>3. /\ h = "lock" => g2 = <<j.name, "W">>
        /\ h = "ownerLock" => j.owner = Conn \/ og2 = <<j.owner, "W">>
        /\ h = "ownerRLock" => j.owner = Conn \/ og2 = <<j.owner, "R">>
        /\ h = "owner" => j.owner \in os \cup {Conn}
    BY <1>2
  <2>4. /\ h # "row" => k.owner = j.owner
        /\ h \notin Gives => k.made = j.made
    BY <1>2 DEF GoesOn
  <2> HIDE DEF s, h
  <2>5. ASSUME Writes(m, k)
        PROVE  Rest(k.steps, {LockStep(m)}) \/ Guarded(m, k, g2, og2)
    <3>1. Writes(m, j)
      <4>1. h = "replace" => Rest(s, {"replace"})
        BY <2>1
      <4>2. k.kind = "change" => h \notin {"make", "find"}
        <5>1. (h = "make" => Rest(s, {"make"})) /\ (h = "find" => Rest(s, {"find"}))
          BY <2>1
        <5> QED
          BY <2>1, <2>2, <5>1 DEF Left
      <4>3. Rest(k.steps, {"replace"}) => Rest(s, {"replace"})
        BY <2>1
      <4>4. k.kind = "change" /\ k.made # j.made => h = "replace"
        BY <2>4, <4>2 DEF Gives
      <4> QED
        BY <2>2, <2>5, <4>1, <4>3, <4>4 DEF Writes, s
    <3>2. j.kind \in Named /\ j.name \in Names /\ (m \in Parts => j.owner \in Owners)
      BY <3>1 DEF Writes, Writer, JobFits, Named
    <3>3. CASE h = LockStep(m)
      <4>1. k.owner = j.owner
        BY <2>4, <3>3 DEF LockStep
      <4>2. m \in Parts => j.owner # Conn
        BY <3>2, ManagersAssumption
      <4> QED
        BY <2>2, <2>3, <3>3, <4>1, <4>2 DEF LockStep, Guarded
    <3>4. CASE Rest(k.steps, {LockStep(m)})
      BY <3>4
    <3>5. CASE h # LockStep(m) /\ ~Rest(k.steps, {LockStep(m)})
      <4>1. Guarded(m, j, g, og)
        BY <2>1, <3>1, <3>5 DEF LocksFit, s
      <4>2. m \in Parts => k.owner = j.owner
        BY <2>1, <2>4 DEF Left
      <4>3. Guarded(m, j, g2, og2)
        BY <3>2, <4>1, ManagersAssumption DEF Guarded
      <4> QED
        BY <2>2, <4>2, <4>3 DEF Guarded
    <3> QED
      BY <3>3, <3>4, <3>5
  <2>6. ASSUME Rest(k.steps, {"owner"} \cup Inserts)
        PROVE  Rest(k.steps, OwnerLocks) \/ k.owner = Conn \/ og2 \in {<<k.owner, "R">>, <<k.owner, "W">>}
    <3>1. Rest(s, {"owner"} \cup Inserts)
      BY <2>1, <2>6
    <3>2. k.owner = j.owner
      <4>1. Inserts \cup {"owner"} = {"owner"} \cup Inserts
        OBVIOUS
      <4> QED
        BY <2>1, <2>4, <3>1, <4>1 DEF Left
    <3>3. CASE h \in OwnerLocks
      BY <2>3, <3>2, <3>3 DEF OwnerLocks
    <3>4. CASE h \notin OwnerLocks /\ ~Rest(k.steps, OwnerLocks)
      <4>1. j.owner = Conn \/ og \in {<<j.owner, "R">>, <<j.owner, "W">>}
        BY <2>1, <3>1, <3>4 DEF LocksFit, s
      <4>2. j.owner \in Homes
        <5>1. Rest(s, Inserts) \/ Rest(s, {"owner"})
          BY <3>1 DEF Rest
        <5>2. j.kind \in Named \cup {"owner"}
          BY <2>1, <5>1 DEF Left, Named
        <5> QED
          BY <5>2 DEF JobFits, Homes
      <4> QED
        BY <3>2, <4>1, <4>2, ManagersAssumption DEF Homes
    <3> QED
      BY <3>3, <3>4
  <2>7. ASSUME k.kind = "owner"  PROVE Rest(k.steps, {"ownerLock"}) \/ og2 = <<k.owner, "W">>
    <3>1. j.owner \in Owners /\ k.owner = j.owner
      BY <2>1, <2>2, <2>4, <2>7 DEF Left, Named, Reads, JobFits
    <3>2. Rest(s, {"ownerLock"}) \/ og = <<j.owner, "W">>
      BY <2>2, <2>7 DEF LocksFit, s
    <3> QED
      BY <2>1, <2>3, <3>1, <3>2, ManagersAssumption
  <2>8. ASSUME Rest(k.steps, Inserts), ~Rest(k.steps, {"owner"})  PROVE k.owner \in os2 \cup {Conn}
    <3>1. Rest(s, Inserts)
      BY <2>1, <2>8
    <3>2. k.owner = j.owner /\ os2 = os
      <4>1. j.kind # "owner"
        BY <2>1, <3>1 DEF Left
      <4>2. Rest(s, Inserts \cup {"owner"})
        BY <3>1, RestIn
      <4>3. h \notin {"insertOwner", "insertOwnerOrUndo", "deleteOwner", "releaseOwner"}
        BY <2>1, <4>1 DEF Left, OwnerSteps, PartSteps
      <4>4. os2 = os
        BY <4>3 DEF h, s
      <4> QED
        BY <2>1, <2>4, <4>2, <4>4 DEF Left
    <3> QED
      BY <2>1, <2>3, <2>8, <3>1, <3>2 DEF LocksFit, s
  <2>9. ASSUME Rest(k.steps, PartInserts), ~Rest(k.steps, {"insertOwner", "insertOwnerOrUndo"})
        PROVE  k.owner \in os2
    <3>1. Rest(s, PartInserts)
      BY <2>1, <2>9
    <3>2. h \notin {"deleteOwner", "releaseOwner"} /\ k.owner = j.owner
      <4>1. Rest(s, OwnerSteps)
        BY <3>1, RestIn DEF OwnerSteps, PartSteps
      <4>2. h # "row"
        BY <2>1, <4>1 DEF Left, Named, Reads
      <4> QED
        BY <2>1, <2>4, <3>1, <4>2 DEF Left
    <3>3. CASE h \in {"insertOwner", "insertOwnerOrUndo"}
      <4>1. k.steps # <<"undoOwner">>
        BY <2>9 DEF Rest, PartInserts
      <4> QED
        BY <1>2, <3>2, <3>3, <4>1 DEF h, s
    <3>4. CASE h \notin {"insertOwner", "insertOwnerOrUndo"}
      <4>1. os2 = os
        BY <3>2, <3>4 DEF h, s
      <4>2. ~Rest(s, {"insertOwner", "insertOwnerOrUndo"})
        BY <2>1, <2>9, <3>4
      <4> QED
        BY <3>1, <3>2, <4>1, <4>2 DEF LocksFit, s
    <3> QED
      BY <3>3, <3>4
  <2> QED
    BY <2>5, <2>6, <2>7, <2>8, <2>9 DEF LocksFit
<1>3. CASE Undoes(j, k) \/ RollsBack(j, k)
  <2>1. /\ k.kind = "create" /\ j.kind = "create" /\ k = [j EXCEPT !.steps = k.steps]
        /\ ~Rest(k.steps, Steps \ {"undo", "rollback", "deleteRowsOrError", "deleteOthers"})
    BY <1>3, DivertedFits, ZenonT(60)
  <2>2. k.name = j.name /\ k.owner = j.owner
    BY <2>1 DEF Jobs
  <2>3. ~Rest(k.steps, {"owner"} \cup Inserts) /\ ~Rest(k.steps, Inserts) /\ ~Rest(k.steps, PartInserts)
    BY <2>1, RestIn DEF Inserts, PartInserts, OwnerSteps, PartSteps, Steps
  <2>4. ~Rest(j.steps, {LockStep(m)})
    <3>1. j.made # None
      BY <1>3, <2>2, DivertedFits, ManagersAssumption DEF Jobs
    <3> QED
      BY <3>1 DEF JobFits
  <2>5. Guarded(m, j, g, og)
    BY <2>1, <2>4 DEF LocksFit, Writes, Writer
  <2>6. j.name \in Names /\ (m \in Parts => j.owner \in Owners)
    BY <2>1 DEF JobFits, Named
  <2>7. Guarded(m, k, g2, og2)
    BY <2>2, <2>5, <2>6, ManagersAssumption DEF Guarded
  <2> QED
    BY <2>1, <2>3, <2>7 DEF LocksFit
<1>4. CASE Turns(j, k)
  <2>1. /\ k.kind = "owner" /\ j.kind = "owner" /\ k.owner = j.owner /\ ~Rest(k.steps, Inserts)
        /\ k.steps = j.steps \/ ~Rest(k.steps, {"owner"} \cup PartInserts)
    BY <1>4, OwnerTurns
  <2>2. j.owner \in Owners /\ j.steps # <<>> /\ j.steps \in Seq(Steps)
    BY <1>4, <2>1 DEF JobFits, Shape, Turns
  <2>3. /\ Head(j.steps) \in PartInserts \cup {"insertOwnerOrUndo"}
        /\ k.steps = j.steps => Head(j.steps) # "insertOwnerOrUndo"
    <3>1. <<"undoOwner">> # j.steps \/ Head(j.steps) = "undoOwner"
      OBVIOUS
    <3> QED
      BY <1>4, <3>1 DEF Turns, PartInserts, Jobs
  <2>4. ~Rest(j.steps, {"ownerLock"})
    <3>1. ~Rest(j.steps, OwnerLocks)
      BY <2>2, <2>3, Tails DEF JobFits, Shape, Ordered, OwnerSteps, PartSteps
    <3> QED
      BY <3>1, RestIn DEF OwnerLocks
  <2>5. og = <<j.owner, "W">> /\ og2 = og
    BY <2>1, <2>2, <2>4, ManagersAssumption DEF LocksFit
  <2>6. CASE k.steps = j.steps
    <3>1. os2 = os
      BY <2>3, <2>6 DEF PartInserts
    <3> QED
      BY <2>1, <2>5, <2>6, <3>1 DEF LocksFit, Writes, Writer
  <2>7. CASE ~Rest(k.steps, {"owner"} \cup PartInserts)
    <3>1. ~Rest(k.steps, {"owner"} \cup Inserts) /\ ~Rest(k.steps, PartInserts)
      BY <2>1, <2>7 DEF Rest
    <3> QED
      BY <2>1, <2>5, <3>1 DEF LocksFit, Writes, Writer
  <2> QED
    BY <2>1, <2>6, <2>7
<1> QED
  BY <1>1, <1>2, <1>3, <1>4 DEF Moves

-----------------------------------------------------------------------------
(* What a step of Work does to the tables.                                 *)

\* Which action does the next step of a call.
LEMMA WorkIs ==
  ASSUME NEW p, Work(p)
  PROVE  LET h == Head(job[p].steps) IN
         /\ job[p].steps # <<>>
         /\ h = "owner" => CheckOwner(p)
         /\ h \in Checks => CheckFree(p) \/ CheckFreeInOwner(p) \/ CheckFreeOrSame(p)
         /\ h \in Reads => ReadRow(p)
         /\ h = "make" => Make(p)
         /\ h = "find" => Find(p)
         /\ h = "replace" => Replace(p)
         /\ h \in Drops => Drop(p)
         /\ h = "dropOwner" => DropOwner(p)
         /\ h = "undo" => Undo(p)
         /\ h = "rollback" => Rollback(p)
         /\ h = "insert" => Insert(p)
         /\ h = "insertOrUndo" => InsertOrUndo(p)
         /\ h \in RowDeletes => DeleteRows(p)
         /\ h = "deleteRowsOfOwner" => DeleteRowsOfOwner(p)
         /\ h \in {"insertOwner", "insertOwnerOrUndo"} => InsertOwner(p)
         /\ h \in {"deleteOwner", "releaseOwner"} => DeleteOwnerRow(p)
         /\ h \in PartInserts => InsertParts(p)
         /\ h \notin OwnerLocks \cup {"lock", "rlock", "each", "eachOrStub", "get", "getOrStub"}
  BY DEF Work, CheckOwner, CheckOwnerFree, CheckFree, CheckFreeInOwner, CheckFreeOrSame, Check, ReadRow, Await,
         Find, Call, Gone, ReadRows, EachUnlocked, DeleteOthers, InsertOthers, InsertOthersOrRollback, Make,
         Replace, Drop, DropById, DropOwner, Undo, Rollback, FindOwner, MakeOwner, UndoOwner, Insert, InsertOrUndo,
         InsertParts, DeleteRows, DeleteRowsOfOwner, InsertOwner, DeleteOwnerRow, At, Checks, Reads, Drops,
         RowDeletes, OwnerLocks, PartInserts

\* A call writes its own row; it deletes the rows of its name, or of its owner.
LEMMA WorkRows ==
  ASSUME Typed, NEW p \in Procs, JobFits(mgr, job[p]), Work(p)
  PROVE  \/ row' = row
         \/ /\ Head(job[p].steps) \in Inserts /\ Here(job[p]) \in Homes \X Names /\ job[p].made \in Ids
            /\ row' = [row EXCEPT ![Here(job[p])] = job[p].made]
         \/ /\ Head(job[p].steps) \in PartInserts /\ job[p].owner \in Owners
            /\ \E t \in job[p].todo :
                 /\ t \in Homes \X Names \X Ids /\ t[1] = job[p].owner
                 /\ row' = [row EXCEPT ![<<t[1], t[2]>>] = t[3]]
         \/ /\ Head(job[p].steps) \in RowDeletes
            /\ row' = [h \in DOMAIN row |-> IF Deletes(p, h) THEN None ELSE row[h]]
         \/ /\ Head(job[p].steps) = "deleteRowsOfOwner"
            /\ row' = [h \in DOMAIN row |-> IF h[1] = job[p].owner THEN None ELSE row[h]]
<1> DEFINE j == job[p]
           Effect == \/ row' = row
                     \/ /\ Head(j.steps) \in Inserts /\ Here(j) \in Homes \X Names /\ j.made \in Ids
                        /\ row' = [row EXCEPT ![Here(j)] = j.made]
                     \/ /\ Head(j.steps) \in PartInserts /\ j.owner \in Owners
                        /\ \E t \in j.todo :
                             /\ t \in Homes \X Names \X Ids /\ t[1] = j.owner
                             /\ row' = [row EXCEPT ![<<t[1], t[2]>>] = t[3]]
                     \/ /\ Head(j.steps) \in RowDeletes
                        /\ row' = [h \in DOMAIN row |-> IF Deletes(p, h) THEN None ELSE row[h]]
                     \/ /\ Head(j.steps) = "deleteRowsOfOwner"
                        /\ row' = [h \in DOMAIN row |-> IF h[1] = j.owner THEN None ELSE row[h]]
<1> SUFFICES Effect
  OBVIOUS
<1>1. CASE UNCHANGED table \/ UNCHANGED row
  BY <1>1 DEF table
<1>2. DBError(p) \/ CSPError(p) => UNCHANGED table
  BY DEF DBError, CSPError, table
<1>3. CASE CheckOwner(p) \/ CheckOwnerFree(p) \/ CheckFree(p) \/ CheckFreeInOwner(p) \/ CheckFreeOrSame(p)
           \/ ReadRow(p) \/ Await(p) \/ Find(p) \/ FindOwner(p) \/ Call(p) \/ Gone(p) \/ ReadRows(p)
           \/ EachUnlocked(p) \/ DeleteOthers(p) \/ InsertOthers(p) \/ InsertOthersOrRollback(p)
  BY <1>1, <1>3 DEF CheckOwner, CheckOwnerFree, CheckFree, CheckFreeInOwner, CheckFreeOrSame, Check, ReadRow,
                    Await, Find, FindOwner, Call, Gone, ReadRows, EachUnlocked, DeleteOthers, InsertOthers,
                    InsertOthersOrRollback
<1>4. CASE Make(p) \/ Replace(p) \/ Drop(p) \/ DropById(p) \/ DropOwner(p) \/ Undo(p) \/ Rollback(p)
           \/ MakeOwner(p) \/ UndoOwner(p)
  BY <1>1, <1>2, <1>4 DEF Make, Replace, Drop, DropById, DropOwner, Undo, Rollback, MakeOwner, UndoOwner, table
<1>5. CASE Insert(p) \/ InsertOrUndo(p)
  <2>1. j.steps # <<>> /\ Head(j.steps) \in Inserts
    BY <1>5 DEF Insert, InsertOrUndo, At, Inserts
  <2>2. j.steps \in Seq(Steps) /\ Rest(j.steps, Inserts) /\ Ordered(mgr, j.steps) /\ Left(mgr, j.kind, j.steps)
    BY <2>1, Tails DEF JobFits, Shape
  <2>3. j.kind \in Named
    BY <2>2 DEF Left, Named
  <2>4. Here(j) \in Homes \X Names
    BY <2>3 DEF JobFits, Here
  <2>5. ~Rest(j.steps, Gives)
    <3>1. ~Rest(j.steps, {"owner"} \cup Checks \cup Gives \cup {"deleteRow"})
      BY <2>1, <2>2, Tails DEF Ordered
    <3> QED
      BY <3>1, RestIn
  <2>6. j.made \in Ids
    BY <2>2, <2>5 DEF JobFits
  <2> QED
    BY <1>1, <1>2, <1>5, <2>1, <2>4, <2>6 DEF Insert, InsertOrUndo, Here
<1>6. CASE DeleteRows(p)
  BY <1>6 DEF DeleteRows, At, RowDeletes
<1>7. CASE DeleteRowsOfOwner(p)
  BY <1>1, <1>2, <1>7 DEF DeleteRowsOfOwner, At
<1>8. CASE InsertOwner(p) \/ DeleteOwnerRow(p)
  BY <1>1, <1>8 DEF InsertOwner, DeleteOwnerRow
<1>9. CASE InsertParts(p)
  <2>1. j.steps # <<>> /\ Head(j.steps) \in PartInserts
    BY <1>9 DEF InsertParts, At, PartInserts
  <2>2. j.kind = "owner"
    <3>1. Rest(j.steps, OwnerSteps)
      BY <2>1, Tails DEF JobFits, Shape, OwnerSteps, PartSteps
    <3> QED
      BY <3>1 DEF JobFits, Shape, Left
  <2>3. j.owner \in Owners /\ \A t \in j.todo : t \in Homes \X Names \X Ids /\ t[1] = j.owner
    BY <2>2 DEF JobFits, Typed, Jobs
  <2> QED
    BY <1>1, <1>9, <2>1, <2>3 DEF InsertParts
<1> QED
  BY <1>3, <1>4, <1>5, <1>6, <1>7, <1>8, <1>9 DEF Work

\* What a step does to the owners' rows.
LEMMA WorkOwners ==
  ASSUME Typed, NEW p \in Procs, JobFits(mgr, job[p]), Work(p)
  PROVE  /\ \/ owners' = owners
            \/ /\ job[p].kind = "owner" /\ Head(job[p].steps) \in {"insertOwner", "insertOwnerOrUndo"}
               /\ owners' = owners \cup {job[p].owner}
            \/ /\ job[p].kind = "owner" /\ Head(job[p].steps) \in {"deleteOwner", "releaseOwner"}
               /\ owners' = owners \ {job[p].owner}
         /\ Head(job[p].steps) \in {"insertOwner", "insertOwnerOrUndo"} =>
              job[p].owner \in owners' \/ job'[p] = Answered \/ job'[p].steps = <<"undoOwner">>
<1> DEFINE j == job[p]
           h == Head(j.steps)
<1>1. owners' = owners \/ InsertOwner(p) \/ DeleteOwnerRow(p)
  BY DEF Work, CheckOwner, CheckOwnerFree, CheckFree, CheckFreeInOwner, CheckFreeOrSame, Check, ReadRow, Await,
         Find, FindOwner, Call, Gone, ReadRows, EachUnlocked, DeleteOthers, InsertOthers, InsertOthersOrRollback,
         Make, Replace, Drop, DropById, DropOwner, Undo, Rollback, MakeOwner, UndoOwner, Insert, InsertOrUndo,
         InsertParts, DeleteRows, DeleteRowsOfOwner, DBError, CSPError, table
<1>2. h \in {"insertOwner", "insertOwnerOrUndo", "deleteOwner", "releaseOwner"} => j.kind = "owner"
  <2>1. ASSUME h \in {"insertOwner", "insertOwnerOrUndo", "deleteOwner", "releaseOwner"}
        PROVE  j.kind = "owner"
    <3>1. j.steps # <<>>
      BY WorkIs
    <3>2. Rest(j.steps, OwnerSteps)
      BY <2>1, <3>1, Tails DEF JobFits, Shape, OwnerSteps, PartSteps
    <3> QED
      BY <3>2 DEF JobFits, Shape, Left
  <2> QED
    BY <2>1
<1>3. ASSUME InsertOwner(p)
      PROVE  /\ h \in {"insertOwner", "insertOwnerOrUndo"} /\ owners' \in {owners, owners \cup {j.owner}}
             /\ j.owner \in owners' \/ job'[p] = Answered \/ job'[p].steps = <<"undoOwner">>
  <2>1. h \in {"insertOwner", "insertOwnerOrUndo"}
    BY <1>3 DEF InsertOwner, At
  <2>2. \/ owners' = owners \cup {j.owner}
        \/ owners' = owners /\ Answer(p, "error")
        \/ owners' = owners /\ job' = [job EXCEPT ![p].steps = <<"undoOwner">>, ![p].resp = "error"]
    BY <1>3 DEF InsertOwner
  <2>3. Answer(p, "error") => job'[p] = Answered
    BY AnswerDoes
  <2>4. job' = [job EXCEPT ![p].steps = <<"undoOwner">>, ![p].resp = "error"] => job'[p].steps = <<"undoOwner">>
    BY DEF Typed, Jobs
  <2> QED
    BY <2>1, <2>2, <2>3, <2>4
<1>4. ASSUME DeleteOwnerRow(p)
      PROVE  h \in {"deleteOwner", "releaseOwner"} /\ owners' \in {owners, owners \ {j.owner}}
  BY <1>4 DEF DeleteOwnerRow, At
<1>5. h \in {"insertOwner", "insertOwnerOrUndo"} => InsertOwner(p)
  BY WorkIs
<1> QED
  BY <1>1, <1>2, <1>3, <1>4, <1>5

\* What a call has checked when it goes on.
LEMMA WorkChecks ==
  ASSUME Typed, NEW p \in Procs, JobFits(mgr, job[p]), Work(p), job'[p] # Answered
  PROVE  /\ Head(job[p].steps) = "owner" => job[p].owner \in owners \cup {Conn}
         /\ Head(job[p].steps) \in Checks /\ Here(job[p]) \in Homes \X Names => row[Here(job[p])] = None
         /\ Head(job[p].steps) \in Reads =>
              /\ job'[p].owner \in Homes /\ row[<<job'[p].owner, job'[p].name>>] = job'[p].row
              /\ Head(job[p].steps) = "rowInOwner" => job'[p].owner = job[p].owner
<1> DEFINE j == job[p]
<1>1. ~DBError(p) /\ \A r : ~Answer(p, r)
  BY AnswerDoes, ErrorsDo
<1>2. CASE Head(j.steps) = "owner"
  <2>1. CheckOwner(p)
    BY <1>2, WorkIs
  <2> QED
    BY <1>1, <1>2, <2>1 DEF CheckOwner, Check, Checks, Reads
<1>3. CASE Head(j.steps) \in Checks
  <2>1. CheckFree(p) \/ CheckFreeInOwner(p) \/ CheckFreeOrSame(p)
    BY <1>3, WorkIs
  <2>2. HomesOf(j.name) = {} \/ row[Here(j)] = None
    BY <1>1, <2>1 DEF CheckFree, CheckFreeInOwner, CheckFreeOrSame, Check, Here
  <2>3. HomesOf(j.name) = {} /\ Here(j) \in Homes \X Names => row[Here(j)] = None
    BY DEF HomesOf, Here
  <2> QED
    BY <1>3, <2>2, <2>3 DEF Checks, Reads
<1>4. CASE Head(j.steps) \in Reads
  <2>1. ReadRow(p)
    BY <1>4, WorkIs
  <2>2. PICK o \in HomesOf(j.name) :
          /\ Head(j.steps) = "rowInOwner" => o = j.owner
          /\ GoOnWith(p, [j EXCEPT !.owner = o, !.row = row[<<o, j.name>>]])
    BY <1>1, <1>4, <2>1 DEF ReadRow, At, Reads
  <2>3. job'[p].owner = o /\ job'[p].name = j.name /\ job'[p].row = row[<<o, j.name>>]
    <3> DEFINE k == [j EXCEPT !.owner = o, !.row = row[<<o, j.name>>]]
    <3>1. job'[p] = [k EXCEPT !.steps = Tail(k.steps)]
      BY <2>2, GoOnWithDoes
    <3>2. j \in Jobs
      BY DEF Typed
    <3> QED
      BY <3>1, <3>2 DEF Jobs
  <2> QED
    BY <1>4, <2>2, <2>3 DEF HomesOf, Reads, Checks
<1> QED
  BY <1>2, <1>3, <1>4

\* The cloud keeps its type; a resource is lost from it only by a driver's delete.
LEMMA DriverTyped ==
  ASSUME Typed, NEW id \in Ids, NEW out \in Outcomes(id), NEW asked \in BOOLEAN, DriverDeletes(id, out, asked)
  PROVE  csp' \in [Ids -> Homes \cup {None}] /\ released' \subseteq {i \in Ids : Exists(i)'}
<1>1. csp' \in [Ids -> Homes \cup {None}]
  BY DEF DriverDeletes, Typed
<1>2. ASSUME NEW i \in released'  PROVE i \in Ids /\ csp'[i] # None
  <2>1. CASE Removes(out)
    <3>1. csp' = [csp EXCEPT ![id] = None] /\ released' = released \ {id}
      BY <2>1 DEF DriverDeletes
    <3>2. i \in Ids /\ csp[i] # None /\ i # id
      BY <1>2, <3>1 DEF Typed, Exists
    <3> QED
      BY <3>1, <3>2 DEF Typed
  <2>2. CASE ~Removes(out)
    <3>1. csp' = csp /\ released' \in {released, released \cup {id}} /\ (released' = released \/ Exists(id))
      BY <2>2 DEF DriverDeletes
    <3> QED
      BY <1>2, <3>1 DEF Typed, Exists
  <2> QED
    BY <2>1, <2>2
<1> QED
  BY <1>1, <1>2 DEF Exists

\* The driver is asked to delete what was read from the table, or made.
LEMMA DriverAsked ==
  ASSUME NEW m, NEW j \in Jobs, JobFits(m, j), j.steps # <<>>
  PROVE  /\ Head(j.steps) \in Drops \cup {"replace", "call"} => j.row \in Ids
         /\ Head(j.steps) \in {"undo", "rollback"} => j.made \in Ids
         /\ Head(j.steps) \in Inserts => j.made \in Ids
         /\ Head(j.steps) \in {"make", "replace"} => j.owner \in Homes
         /\ Head(j.steps) = "dropById" => j.id \in Ids
<1> DEFINE s == j.steps
           h == Head(s)
<1>1. /\ h \in Steps /\ Left(m, j.kind, s) /\ Ordered(m, s)
      /\ \A S : h \in S => Rest(s, S)
      /\ \A A, B : Order(s, A, B) /\ h \in B => ~Rest(s, A)
  BY Tails DEF JobFits, Shape
<1> HIDE DEF s, h
<1>2. ASSUME h \in Drops \cup {"replace", "call"}  PROVE j.row \in Ids
  <2>1. h \in Drops \cup RowDeletes \cup {"call", "replace"}
    BY <1>2
  <2>2. ~Rest(s, Reads)
    BY <1>1, <2>1 DEF Ordered
  <2>3. Rest(s, {"call", "replace"} \cup Drops \cup RowDeletes)
    BY <1>1, <2>1
  <2>4. h = "call" => j.kind # "create"
    <3>1. ASSUME h = "call", j.kind = "create"  PROVE FALSE
      <4>1. Rest(s, {"deleteRow", "deleteRows", "call"})
        BY <1>1, <3>1
      <4> QED
        BY <1>1, <3>1, <4>1 DEF Left
    <3> QED
      BY <3>1
  <2>5. j.kind # "create"
    BY <1>1, <1>2, <2>4 DEF Left
  <2> QED
    BY <2>2, <2>3, <2>5 DEF JobFits, s
<1>3. ASSUME h \in Inserts  PROVE j.made \in Ids
  <2>1. ~Rest(s, {"owner"} \cup Checks \cup Gives \cup {"deleteRow"})
    BY <1>1, <1>3 DEF Ordered
  <2>2. ~Rest(s, Gives)
    BY <2>1, RestIn
  <2> QED
    BY <1>1, <1>3, <2>2 DEF JobFits, s
<1>4. ASSUME h \in {"undo", "rollback"}  PROVE j.made \in Ids
  <2>1. Rest(s, {"undo", "rollback"}) /\ Rest(s, {"undo", "rollback", "insertOthersOrRollback"})
    BY <1>1, <1>4
  <2> QED
    BY <1>1, <2>1 DEF Left, JobFits, s
<1>5. ASSUME h \in {"make", "replace"}  PROVE j.owner \in Homes
  <2>1. (h = "make" => Rest(s, {"make"})) /\ (h = "replace" => Rest(s, {"replace"}))
    BY <1>1
  <2>2. j.kind \in {"create", "change"}
    BY <1>1, <1>5, <2>1 DEF Left
  <2> QED
    BY <2>2 DEF JobFits, Named
<1>6. ASSUME h = "dropById"  PROVE j.id \in Ids
  <2>1. Rest(s, {"dropById"})
    BY <1>1, <1>6
  <2> QED
    BY <1>1, <2>1 DEF Left, JobFits
<1> QED
  BY <1>2, <1>3, <1>4, <1>5, <1>6 DEF s, h

\* A step leaves the cloud well formed.
LEMMA WorkCloudTyped ==
  ASSUME Typed, NEW p \in Procs, JobFits(mgr, job[p]), Work(p)
  PROVE  csp' \in [Ids -> Homes \cup {None}] /\ released' \subseteq {i \in Ids : Exists(i)'}
<1> DEFINE j == job[p]
           Good == csp' \in [Ids -> Homes \cup {None}] /\ released' \subseteq {i \in Ids : Exists(i)'}
<1> SUFFICES Good
  OBVIOUS
<1>1. j \in Jobs
  BY DEF Typed
<1>2. CASE UNCHANGED cloud
  BY <1>2 DEF cloud, Typed, Exists
<1>3. DBError(p) \/ CSPError(p) => UNCHANGED cloud
  BY DEF DBError, CSPError
<1>10. j.steps # <<>> /\ Head(j.steps) \in OwnerSteps => j.owner \in Owners
  <2>1. j.steps # <<>> /\ Head(j.steps) \in OwnerSteps => j.kind = "owner"
    BY Tails DEF JobFits, Shape, Left
  <2> QED
    BY <2>1 DEF JobFits
<1>14. {"dropOwner", "undoOwner", "makeOwner", "insertOwner", "insertOwnerOrUndo", "deleteOwner", "releaseOwner"}
         \subseteq OwnerSteps
  BY DEF OwnerSteps, PartSteps
<1>4. CASE CheckOwner(p) \/ CheckOwnerFree(p) \/ CheckFree(p) \/ CheckFreeInOwner(p) \/ CheckFreeOrSame(p)
           \/ ReadRow(p) \/ Await(p) \/ Find(p) \/ FindOwner(p) \/ Call(p) \/ Gone(p) \/ ReadRows(p)
           \/ EachUnlocked(p) \/ DeleteOthers(p) \/ InsertOthers(p) \/ InsertOthersOrRollback(p) \/ Insert(p)
           \/ InsertOrUndo(p) \/ InsertParts(p) \/ DeleteRowsOfOwner(p)
  BY <1>2, <1>3, <1>4 DEF CheckOwner, CheckOwnerFree, CheckFree, CheckFreeInOwner, CheckFreeOrSame, Check, ReadRow,
       Await, Find, FindOwner, Call, Gone, ReadRows, EachUnlocked, DeleteOthers, InsertOthers,
       InsertOthersOrRollback, Insert, InsertOrUndo, InsertParts, DeleteRowsOfOwner
<1>5. CASE Make(p)
  <2>1. j.owner \in Homes
    BY <1>1, <1>5, DriverAsked DEF Make, At
  <2>2. CASE \E id \in Ids : Fresh(id) /\ csp' = [csp EXCEPT ![id] = j.owner] /\ released' = released
    BY <2>1, <2>2, ManagersAssumption DEF Typed, Exists, Homes
  <2> QED
    BY <1>2, <1>3, <1>5, <2>2 DEF Make
<1>6. CASE Replace(p)
  <2>1. j.owner \in Homes /\ j.row \in Ids
    BY <1>1, <1>6, DriverAsked DEF Replace, At
  <2>2. ASSUME NEW id \in Ids, Fresh(id), csp' = [csp EXCEPT ![j.row] = None, ![id] = j.owner],
               released' = released \ {j.row}
        PROVE  Good
    <3>1. csp' \in [Ids -> Homes \cup {None}] /\ csp'[id] # None /\ \A i \in Ids \ {id, j.row} : csp'[i] = csp[i]
      BY <2>1, <2>2, ManagersAssumption DEF Typed, Homes
    <3> QED
      BY <2>2, <3>1 DEF Typed, Exists
  <2> QED
    BY <1>2, <1>3, <1>6, <2>2 DEF Replace
<1>7. CASE Drop(p) \/ DropById(p) \/ Undo(p) \/ Rollback(p)
  <2>1. \E id \in Ids : \E out \in Outcomes(id), asked \in BOOLEAN : DriverDeletes(id, out, asked)
    <3>1. CASE Drop(p)
      <4>1. j.row \in Ids
        BY <1>1, <3>1, DriverAsked DEF Drop, At, Drops
      <4>2. PICK out \in Outcomes(j.row) : DriverDeletes(j.row, out, out = "error" \/ j.force)
        BY <3>1 DEF Drop
      <4>3. (out = "error" \/ j.force) \in BOOLEAN
        OBVIOUS
      <4> QED
        BY <4>1, <4>2, <4>3
    <3>2. CASE DropById(p)
      <4>1. j.id \in Ids
        BY <1>1, <3>2, DriverAsked DEF DropById, At
      <4>2. PICK out \in Outcomes(j.id) : DriverDeletes(j.id, out, out = "error")
        BY <3>2 DEF DropById
      <4> QED
        BY <4>1, <4>2
    <3>3. CASE Undo(p) \/ Rollback(p)
      <4>1. j.made \in Ids
        BY <1>1, <3>3, DriverAsked DEF Undo, Rollback, At
      <4>2. PICK out \in Outcomes(j.made) : DriverDeletes(j.made, out, TRUE)
        BY <3>3 DEF Undo, Rollback
      <4> QED
        BY <4>1, <4>2
    <3> QED
      BY <1>7, <3>1, <3>2, <3>3
  <2> QED
    BY <2>1, DriverTyped
<1>8. CASE DropOwner(p) \/ UndoOwner(p)
  <2>1. ASSUME NEW out, NEW asked, OwnerDeleted(j.owner, out, asked)  PROVE Good
    <3>1. CASE Removes(out)
      <4>1. /\ csp' = [id \in Ids |-> IF csp[id] = j.owner THEN None ELSE csp[id]]
            /\ released' = released \ InOwner(j.owner)
        BY <2>1, <3>1 DEF OwnerDeleted
      <4> QED
        BY <4>1 DEF Typed, Exists, InOwner
    <3>2. CASE ~Removes(out)
      <4>1. csp' = csp /\ released' \subseteq released \cup InOwner(j.owner)
        BY <2>1, <3>2 DEF OwnerDeleted
      <4>2. \A id \in InOwner(j.owner) : id \in Ids /\ (j.owner # None => csp[id] # None)
        BY DEF InOwner
      <4> QED
        BY <1>10, <1>14, <1>8, <4>1, <4>2, ManagersAssumption DEF Typed, Exists, DropOwner, UndoOwner, At
    <3> QED
      BY <3>1, <3>2
  <2> QED
    BY <1>8, <2>1 DEF DropOwner, UndoOwner
<1>11. CASE MakeOwner(p)
  <2>1. ASSUME NEW given,
               csp' = [id \in Ids |-> IF \E t \in given : t[3] = id THEN j.owner ELSE Elsewhere(j.owner)[id]]
        PROVE  csp' \in [Ids -> Homes \cup {None}] /\ \A id \in Ids : csp[id] # None => csp'[id] # None
    BY <1>10, <1>14, <1>11, <2>1, ManagersAssumption DEF MakeOwner, At, Elsewhere, Typed, Homes
  <2> QED
    BY <1>2, <1>3, <1>11, <2>1 DEF MakeOwner, Typed, Exists
<1>12. CASE InsertOwner(p)
  <2>1. CASE csp' = [id \in Ids |-> IF \E t \in j.todo : t[3] = id /\ Exists(id) THEN j.owner ELSE csp[id]]
    BY <1>10, <1>14, <1>12, <2>1, ManagersAssumption DEF InsertOwner, At, Typed, Homes, Exists
  <2> QED
    BY <1>2, <1>12, <2>1 DEF InsertOwner, cloud
<1>13. CASE DeleteOwnerRow(p)
  <2>1. CASE csp' = Elsewhere(j.owner) /\ released' \subseteq released \cup InOwner(j.owner)
    <3>1. csp' \in [Ids -> Homes \cup {None}] /\ \A id \in Ids : csp[id] # None => csp'[id] # None
      BY <2>1, ManagersAssumption DEF Elsewhere, Typed, Homes
    <3>2. \A id \in InOwner(j.owner) : id \in Ids /\ csp[id] # None
      BY <1>10, <1>14, <1>13, ManagersAssumption DEF InOwner, DeleteOwnerRow, At
    <3> QED
      BY <2>1, <3>1, <3>2 DEF Typed, Exists
  <2> QED
    BY <1>2, <1>13, <2>1 DEF DeleteOwnerRow
<1>9. CASE DeleteRows(p)
  <2>1. CASE Release(p)
    <3>1. csp' = csp /\ \A i \in released' : i \in released \/ (i = j.row /\ csp[i] # None)
      BY <2>1 DEF Release, Exists
    <3>2. j.row \in Ids \cup {None}
      BY <1>1 DEF Jobs
    <3>3. \A i \in released' : i \in Ids
      <4>1. released' = released \/ (released' = released \cup {j.row} /\ j.kind = "unregister")
        BY <2>1 DEF Release
      <4>2. j.kind = "unregister" => j.row \in Ids
        <5>1. j.steps # <<>> /\ Head(j.steps) \in RowDeletes
          BY <1>9 DEF DeleteRows, At, RowDeletes
        <5>2. j.steps \in Seq(Steps) /\ Ordered(mgr, j.steps)
          BY DEF JobFits, Shape
        <5>3. ~Rest(j.steps, Reads)
          BY <5>1, <5>2, Tails DEF Ordered
        <5>4. Rest(j.steps, {"call", "replace"} \cup Drops \cup RowDeletes)
          BY <5>1, <5>2, Tails
        <5> QED
          BY <5>3, <5>4 DEF JobFits
      <4> QED
        BY <4>1, <4>2 DEF Typed
    <3> QED
      BY <3>1, <3>3 DEF Typed, Exists
  <2> QED
    BY <1>2, <1>9, <2>1 DEF DeleteRows, cloud
<1> QED
  BY <1>4, <1>5, <1>6, <1>7, <1>8, <1>9, <1>11, <1>12, <1>13 DEF Work

\* What was told are ids of the CSP.
LEMMA ToldTyped ==
  ASSUME Typed, NEW p \in Procs, row' \in [Homes \X Names -> Ids \cup {None}],
         told' = told \/ (\E j : End(p, j)) \/ \E S \in SUBSET Ids : told' = told \cup Twice(p, S)
  PROVE  told' \subseteq Ids
<1>1. CASE told' = told
  BY <1>1 DEF Typed
<1>2. ASSUME NEW q \in Procs, NEW id \in InHand(job[q])  PROVE id \in Ids \cup {None}
  <2>1. job[q].made \in Ids \cup {None} /\ \A t \in job[q].todo : t[3] \in Ids
    BY DEF Typed, Jobs
  <2> QED
    BY <1>2, <2>1 DEF InHand
<1>3. ASSUME NEW j, End(p, j)  PROVE told' \subseteq Ids
  <2>1. ASSUME NEW id \in told'  PROVE id \in Ids
    <3>1. /\ id # None
          /\ (\E h \in DOMAIN row : row'[h] = id) \/ (\E q \in Procs \ {p} : id \in InHand(job[q]))
      BY <1>3, <2>1, ManagersAssumption DEF End, Typed
    <3>2. \A h \in DOMAIN row : row'[h] \in Ids \cup {None}
      BY DEF Typed
    <3> QED
      BY <1>2, <3>1, <3>2
  <2> QED
    BY <2>1
<1>4. ASSUME NEW S \in SUBSET Ids, told' = told \cup Twice(p, S)  PROVE told' \subseteq Ids
  BY <1>4 DEF Typed, Twice
<1> QED
  BY <1>1, <1>3, <1>4

\* A step is one of one call, and tells something only when the call ends, or when
\* it finds what it registers.
LEMMA OneCall ==
  ASSUME RowsInv, NEW p \in Procs,
         Begin(p) \/ TakeLock(p) \/ TakeOwnerLock(p) \/ Each(p) \/ Get(p) \/ Work(p) \/ Return(p)
  PROVE  /\ told' = told \/ (\E j : End(p, j)) \/ \E S \in SUBSET Ids : told' = told \cup Twice(p, S)
         /\ \E k : job' = [job EXCEPT ![p] = k]
<1> DEFINE Ends == \E j : End(p, j)
           Finds == \E S \in SUBSET Ids : told' = told \cup Twice(p, S)
           One == \E k : job' = [job EXCEPT ![p] = k]
           Good == (told' = told \/ Ends \/ Finds) /\ One
<1> SUFFICES Good
  OBVIOUS
<1>1. ASSUME NEW j, GoOnWith(p, j)  PROVE Good
  <2>1. CASE End(p, j)
    BY <2>1 DEF End
  <2>2. CASE told' = told /\ job' = [job EXCEPT ![p] = [j EXCEPT !.steps = Tail(@)]]
    BY <2>2
  <2> QED
    BY <1>1, <2>1, <2>2 DEF GoOnWith
<1>2. GoOn(p) => Good
  BY <1>1 DEF GoOn
<1>3. (\E r : Answer(p, r)) \/ DBError(p) \/ CSPError(p) => Good
  BY DEF Answer, End, DBError, CSPError
<1>4. ASSUME NEW j, NEW S \in SUBSET Ids, Found(p, j, S)  PROVE Good
  BY <1>4 DEF Found
<1>5. job[p] \in Jobs /\ JobFits(mgr, job[p]) /\ Typed
  BY DEF RowsInv, Typed, CallsFit
<1> HIDE DEF Good
<1>6. CASE Begin(p) \/ Return(p)
  BY <1>6 DEF Begin, Return, Good
<1>7. CASE TakeLock(p) \/ TakeOwnerLock(p) \/ Each(p) \/ Get(p)
  <2>1. CASE GoOn(p) \/ \E r : Answer(p, r)
    BY <1>2, <1>3, <2>1
  <2>2. CASE Each(p) /\ ~GoOn(p)
    BY <2>2 DEF Each, Good
  <2> QED
    BY <1>7, <2>1, <2>2 DEF TakeLock, TakeOwnerLock, Each, Get
<1>8. CASE CheckOwner(p) \/ CheckOwnerFree(p) \/ CheckFree(p) \/ CheckFreeInOwner(p) \/ CheckFreeOrSame(p)
           \/ ReadRow(p) \/ Make(p) \/ Await(p) \/ Call(p) \/ Replace(p) \/ Gone(p) \/ ReadRows(p)
           \/ EachUnlocked(p)
  BY <1>1, <1>2, <1>3, <1>8 DEF CheckOwner, CheckOwnerFree, CheckFree, CheckFreeInOwner, Check, CheckFreeOrSame,
       ReadRow, Make, Await, Call, Replace, Gone, ReadRows, EachUnlocked
<1>9. CASE Find(p)
  <2>1. job[p].steps # <<>> /\ Head(job[p].steps) = "find"
    BY <1>9 DEF Find, At
  <2>2. Rest(job[p].steps, {"find"})
    BY <1>5, <2>1, Tails DEF JobFits, Shape
  <2>3. {job[p].id} \in SUBSET Ids
    BY <1>5, <2>2 DEF JobFits, Shape, Left
  <2> QED
    BY <1>3, <1>4, <1>9, <2>3 DEF Find
<1>10. CASE FindOwner(p)
  <2>1. ASSUME NEW given \in PartsOf(job[p].owner, {id \in Ids : csp[id] \in {Conn, job[p].owner}})
        PROVE  {t[3] : t \in given} \in SUBSET Ids
    BY DEF PartsOf
  <2> QED
    BY <1>3, <1>4, <1>10, <2>1 DEF FindOwner
<1>11. CASE Drop(p) \/ DropById(p) \/ DropOwner(p) \/ Undo(p) \/ Rollback(p) \/ MakeOwner(p) \/ UndoOwner(p)
  BY <1>1, <1>2, <1>3, <1>11 DEF Drop, DropById, DropOwner, Undo, Rollback, MakeOwner, UndoOwner
<1>12. CASE Insert(p) \/ InsertOrUndo(p) \/ InsertOthers(p) \/ InsertOthersOrRollback(p) \/ DeleteRows(p)
           \/ DeleteOthers(p) \/ DeleteRowsOfOwner(p) \/ DeleteOwnerRow(p)
  <2>1. ASSUME NEW s, Divert(p, s)  PROVE Good
    BY <2>1 DEF Divert, Good
  <2> QED
    BY <1>1, <1>2, <1>3, <1>12, <2>1 DEF Insert, InsertOrUndo, InsertOthers, InsertOthersOrRollback, DeleteRows,
         DeleteOthers, DeleteRowsOfOwner, DeleteOwnerRow
<1>13. CASE InsertOwner(p) \/ InsertParts(p)
  <2>1. ASSUME NEW s, Divert(p, s)  PROVE Good
    BY <2>1 DEF Divert, Good
  <2>2. CASE told' = told /\ \E t : job' = [job EXCEPT ![p].todo = @ \ {t}]
    BY <2>2 DEF Good
  <2>3. CASE told' = told /\ job' = [job EXCEPT ![p].steps = <<"undoOwner">>, ![p].resp = "error"]
    <3>1. job' = [job EXCEPT ![p] = [job[p] EXCEPT !.steps = <<"undoOwner">>, !.resp = "error"]]
      BY <1>5, <2>3 DEF Typed, Jobs
    <3> QED
      BY <2>3, <3>1 DEF Good
  <2> QED
    BY <1>2, <1>3, <1>13, <2>1, <2>2, <2>3 DEF InsertOwner, InsertParts
<1> QED
  BY <1>6, <1>7, <1>8, <1>9, <1>10, <1>11, <1>12, <1>13 DEF Work, Good

-----------------------------------------------------------------------------
(* Every step keeps the invariant.                                         *)

\* A call that is about to write holds the lock that guards its row.
LEMMA InsertsGuarded ==
  ASSUME NEW m, NEW j \in Jobs, JobFits(m, j), NEW g, NEW og, NEW os, LocksFit(m, j, g, og, os),
         Rest(j.steps, Inserts), ~Rest(j.steps, {LockStep(m)})
  PROVE  Guarded(m, j, g, og)
<1>1. Left(m, j.kind, j.steps) /\ j.kind \in {"register", "create", "change"}
  BY DEF JobFits, Shape, Left
<1>2. Rest(j.steps, Gives) /\ j.kind = "change" => Rest(j.steps, {"replace"})
  <2>1. ASSUME NEW i \in DOMAIN j.steps, j.steps[i] \in Gives, j.kind = "change"
        PROVE  j.steps[i] = "replace"
    <3>1. j.steps[i] = "make" => Rest(j.steps, {"make"})
      BY DEF Rest
    <3>2. j.steps[i] = "find" => Rest(j.steps, {"find"})
      BY DEF Rest
    <3> QED
      BY <1>1, <2>1, <3>1, <3>2 DEF Left, Gives
  <2> QED
    BY <2>1 DEF Rest
<1>3. Rest(j.steps, Gives) \/ j.made # None
  BY ManagersAssumption DEF JobFits
<1>4. Writes(m, j)
  BY <1>1, <1>2, <1>3 DEF Writes, Writer
<1> QED
  BY <1>4 DEF LocksFit

\* Two calls do not both hold the lock that guards one row.
LEMMA GuardsExclude ==
  ASSUME Exclusive, NEW p \in Procs, NEW q \in Procs, p # q, NEW m, NEW j, NEW k,
         Guarded(m, j, grant[p], ownerGrant[p]), Guarded(m, k, grant[q], ownerGrant[q]),
         j.name = k.name, j.owner = k.owner, j.name \in Names, m \in Parts => j.owner \in Owners
  PROVE  FALSE
<1>1. CASE m \in Parts
  <2>1. ownerGrant[p] = <<j.owner, "W">> /\ ownerGrant[q] = <<j.owner, "W">> /\ j.owner \in Owners
    BY <1>1 DEF Guarded
  <2> QED
    BY <2>1, ManagersAssumption DEF Exclusive, Apart, NameLock!Conflict
<1>2. CASE m \notin Parts
  <2>1. grant[p] = <<j.name, "W">> /\ grant[q] = <<j.name, "W">>
    BY <1>2 DEF Guarded
  <2> QED
    BY <2>1, ManagersAssumption DEF Exclusive, Apart, NameLock!Conflict
<1> QED
  BY <1>1, <1>2

\* The call that takes the step finds its name free.
LEMMA FreeMoves ==
  ASSUME RowsInv, NEW p \in Procs, Work(p)
  PROVE  FreeFits(mgr, job'[p], row')
<1> DEFINE j == job[p]
           k == job'[p]
           s == j.steps
           h == Head(s)
<1>1. j \in Jobs /\ JobFits(mgr, j) /\ FreeFits(mgr, j, row) /\ Typed /\ Moves(j, k)
  BY WorkMoves DEF RowsInv, Typed, CallsFit
<1>2. CASE k = Answered
  BY <1>2, AnsweredFits
<1>3. CASE Undoes(j, k) \/ RollsBack(j, k)
  <2>1. ~Rest(k.steps, Steps \ {"undo", "rollback", "deleteRowsOrError", "deleteOthers"})
    BY <1>1, <1>3, DivertedFits
  <2>2. ~Rest(k.steps, Inserts)
    BY <2>1, RestIn DEF Inserts, Steps
  <2> QED
    BY <2>2 DEF FreeFits, Checked
<1>5. CASE Turns(j, k)
  <2>1. ~Rest(k.steps, Inserts)
    BY <1>1, <1>5, OwnerTurns
  <2> QED
    BY <2>1 DEF FreeFits, Checked
<1>4. CASE GoesOn(j, k) /\ k # Answered
  <2> SUFFICES ASSUME Checked(k)
               PROVE  row'[Here(k)] = None /\ ~Rest(k.steps, {LockStep(mgr)})
    BY DEF FreeFits
  <2>1. /\ h \in Steps /\ Left(mgr, j.kind, s) /\ Ordered(mgr, s)
        /\ \A S : Rest(s, S) <=> h \in S \/ Rest(k.steps, S)
        /\ \A A, B : Order(s, A, B) /\ h \in B => ~Rest(s, A)
        /\ \A S : Once(s, S) /\ h \in S => ~Rest(k.steps, S)
    BY <1>1, <1>4, Steppings
  <2>2. Rest(k.steps, Inserts) /\ Rest(s, Inserts) /\ ~Rest(k.steps, Checks \cup {"deleteRow"})
    BY <2>1 DEF Checked
  <2>3. h # "row" /\ Rest(s, Inserts \cup {"owner"}) /\ j.kind \in {"register", "create", "change"}
    <3>1. Rest(s, Inserts \cup {"owner"})
      BY <2>2, RestIn
    <3>2. ~Rest(s, {"row"})
      BY <2>1, <3>1 DEF Left
    <3> QED
      BY <2>1, <2>2, <3>1, <3>2 DEF Left
  <2>4. Here(k) = Here(j) /\ Here(j) \in Homes \X Names
    BY <1>1, <1>4, <2>3 DEF GoesOn, Here, JobFits, Named
  <2>5. h \notin Inserts
    BY <2>1, <2>2 DEF Ordered
  <2>6. row' = row \/ row'[Here(j)] = row[Here(j)] \/ row'[Here(j)] = None
    <3>0. h \notin PartInserts
      BY <2>1, <2>3 DEF Left, OwnerSteps, PartSteps
    <3>1. CASE row' = [g \in DOMAIN row |-> IF Deletes(p, g) THEN None ELSE row[g]]
      BY <1>1, <2>4, <3>1 DEF Typed
    <3>2. CASE row' = [g \in DOMAIN row |-> IF g[1] = job[p].owner THEN None ELSE row[g]]
      BY <1>1, <2>4, <3>2 DEF Typed
    <3> QED
      BY <1>1, <2>5, <3>0, <3>1, <3>2, WorkRows
  <2>7. CASE h \in Checks
    <3>1. row[Here(j)] = None
      BY <1>1, <1>4, <2>4, <2>7, WorkChecks
    <3>2. h \in Checks \cup Reads \cup Gives \cup Inserts \cup RowDeletes \cup Drops
      BY <2>7
    <3>3. ~Rest(s, {LockStep(mgr)})
      BY <2>1, <3>2 DEF Ordered
    <3> QED
      BY <2>1, <2>4, <2>6, <3>1, <3>3
  <2>8. CASE h = "deleteRow"
    <3>1. h \in Checks \cup Reads \cup Gives \cup Inserts \cup RowDeletes \cup Drops
      BY <2>8 DEF RowDeletes
    <3>2. ~Rest(s, {LockStep(mgr)})
      BY <2>1, <3>1 DEF Ordered
    <3>3. DeleteRows(p) /\ ~j.force /\ \A r : ~Answer(p, r)
      BY <1>1, <1>4, <2>3, <2>8, WorkIs, AnswerDoes DEF RowDeletes, JobFits
    <3>4. row' = [g \in DOMAIN row |-> IF Deletes(p, g) THEN None ELSE row[g]]
      BY <3>3 DEF DeleteRows
    <3>5. Deletes(p, Here(j))
      BY <2>4 DEF Deletes, Here
    <3> QED
      BY <1>1, <2>1, <2>4, <3>2, <3>4, <3>5 DEF Typed
  <2>9. CASE h \notin Checks \cup {"deleteRow"}
    <3>1. Checked(j)
      BY <2>1, <2>2, <2>9 DEF Checked
    <3> QED
      BY <1>1, <2>1, <2>4, <2>6, <3>1 DEF FreeFits
  <2> QED
    BY <2>7, <2>8, <2>9
<1> QED
  BY <1>1, <1>2, <1>3, <1>4, <1>5 DEF Moves

\* The name stays free, and the owner's row stays, for the calls that rely on it.
LEMMA OthersFree ==
  ASSUME RowsInv, NEW p \in Procs, Work(p), NEW q \in Procs, q # p
  PROVE  FreeFits(mgr, job[q], row') /\ LocksFit(mgr, job[q], grant[q], ownerGrant[q], owners')
<1> DEFINE j == job[p]
           k == job[q]
<1>1. /\ Typed /\ Exclusive /\ j \in Jobs /\ JobFits(mgr, j) /\ LocksFit(mgr, j, grant[p], ownerGrant[p], owners)
      /\ k \in Jobs /\ JobFits(mgr, k) /\ LocksFit(mgr, k, grant[q], ownerGrant[q], owners)
      /\ FreeFits(mgr, k, row) /\ job[p].steps # <<>>
  BY WorkIs DEF RowsInv, Typed, CallsFit
<1>2. ASSUME Checked(k)  PROVE row'[Here(k)] = None /\ ~Rest(k.steps, {LockStep(mgr)})
  <2>1. row[Here(k)] = None /\ ~Rest(k.steps, {LockStep(mgr)}) /\ Rest(k.steps, Inserts)
    BY <1>1, <1>2 DEF FreeFits, Checked
  <2>2. Guarded(mgr, k, grant[q], ownerGrant[q])
    BY <1>1, <2>1, InsertsGuarded
  <2>3. k.kind \in Named
    BY <1>1, <2>1 DEF JobFits, Shape, Left, Named
  <2>4. Here(k) \in Homes \X Names /\ k.name \in Names /\ (mgr \in Parts => k.owner \in Owners)
    BY <1>1, <2>3 DEF JobFits, Here
  <2>5. CASE Head(j.steps) \in Inserts /\ row' = [row EXCEPT ![Here(j)] = j.made]
    <3>1. Head(j.steps) \in Checks \cup Reads \cup Gives \cup Inserts \cup RowDeletes \cup Drops
      BY <2>5
    <3>2. ~Rest(j.steps, {LockStep(mgr)}) /\ Rest(j.steps, Inserts)
      BY <1>1, <2>5, <3>1, Tails DEF JobFits, Shape, Ordered
    <3>3. Guarded(mgr, j, grant[p], ownerGrant[p])
      BY <1>1, <3>2, InsertsGuarded
    <3>4. Here(j) # Here(k)
      BY <1>1, <2>2, <2>4, <3>3, GuardsExclude DEF Here
    <3> QED
      BY <1>1, <2>1, <2>4, <2>5, <3>4 DEF Typed
  <2>6. CASE row' = row
    BY <2>1, <2>6
  <2>7. CASE row' = [g \in DOMAIN row |-> IF Deletes(p, g) THEN None ELSE row[g]]
    BY <1>1, <2>1, <2>4, <2>7 DEF Typed
  <2>8. CASE row' = [g \in DOMAIN row |-> IF g[1] = job[p].owner THEN None ELSE row[g]]
    BY <1>1, <2>1, <2>4, <2>8 DEF Typed
  <2>9. ASSUME Head(j.steps) \in PartInserts, NEW t \in j.todo, t[1] = j.owner,
               row' = [row EXCEPT ![<<t[1], t[2]>>] = t[3]]
        PROVE  row'[Here(k)] = None
    <3>1. /\ j.kind = "owner" /\ mgr \in Parts /\ ~Rest(j.steps, OwnerLocks)
      <4>1. Rest(j.steps, OwnerSteps) /\ Rest(j.steps, PartSteps) /\ Head(j.steps) \in OwnerSteps
        BY <1>1, <2>9, Tails DEF JobFits, Shape, OwnerSteps, PartSteps
      <4> QED
        BY <1>1, <4>1, Tails DEF JobFits, Shape, Left, Ordered
    <3>2. ownerGrant[p] = <<j.owner, "W">> /\ j.owner \in Owners
      <4>1. ~Rest(j.steps, {"ownerLock"})
        BY <3>1, RestIn DEF OwnerLocks
      <4> QED
        BY <1>1, <3>1, <4>1 DEF LocksFit, JobFits
    <3>3. ownerGrant[q] = <<k.owner, "W">>
      BY <2>2, <3>1 DEF Guarded
    <3>4. k.owner # j.owner
      BY <1>1, <3>2, <3>3, ManagersAssumption DEF Exclusive, Apart, NameLock!Conflict
    <3>5. Here(k) # <<t[1], t[2]>>
      BY <2>9, <3>4 DEF Here
    <3> QED
      BY <1>1, <2>1, <2>4, <2>9, <3>5 DEF Typed
  <2> QED
    BY <1>1, <2>5, <2>6, <2>7, <2>8, <2>9, <2>1, WorkRows
<1>4. ASSUME j.kind = "owner", Head(j.steps) \in {"deleteOwner", "releaseOwner"},
             k.owner = Conn \/ ownerGrant[q] \in {<<k.owner, "R">>, <<k.owner, "W">>}
      PROVE  k.owner # j.owner
  <2>1. Head(j.steps) \in {"owner"} \cup OwnerSteps \cup Inserts
    BY <1>4 DEF OwnerSteps, PartSteps
  <2>2. ~Rest(j.steps, OwnerLocks)
    BY <1>1, <2>1, Tails DEF JobFits, Shape, Ordered
  <2>3. ~Rest(j.steps, {"ownerLock"})
    BY <2>2, RestIn DEF OwnerLocks
  <2>4. ownerGrant[p] = <<j.owner, "W">> /\ j.owner \in Owners
    BY <1>1, <1>4, <2>3 DEF LocksFit, JobFits
  <2> QED
    BY <1>1, <1>4, <2>4, ManagersAssumption DEF Exclusive, Apart, NameLock!Conflict
<1>5. ASSUME Rest(k.steps, PartInserts), ~Rest(k.steps, {"insertOwner", "insertOwnerOrUndo"})
      PROVE  k.owner \in owners'
  <2>1. k.owner \in owners /\ k.kind = "owner"
    <3>1. Rest(k.steps, OwnerSteps)
      BY <1>5, RestIn DEF OwnerSteps, PartSteps
    <3> QED
      BY <1>1, <1>5, <3>1 DEF LocksFit, JobFits, Shape, Left
  <2>2. ~Rest(k.steps, {"ownerLock"})
    <3>1. ~Rest(k.steps, OwnerLocks)
      BY <1>1, <1>5 DEF JobFits, Shape, Left
    <3> QED
      BY <3>1, RestIn DEF OwnerLocks
  <2>3. ownerGrant[q] = <<k.owner, "W">>
    BY <1>1, <2>1, <2>2 DEF LocksFit
  <2> QED
    BY <1>1, <1>4, <2>1, <2>3, WorkOwners
<1>3. ASSUME Rest(k.steps, Inserts), ~Rest(k.steps, {"owner"})  PROVE k.owner \in owners' \cup {Conn}
  <2>1. k.owner \in owners \cup {Conn}
    BY <1>1, <1>3 DEF LocksFit
  <2>2. ~Rest(k.steps, OwnerLocks) /\ Rest(k.steps, {"owner"} \cup Inserts)
    BY <1>1, <1>3, RestIn DEF JobFits, Shape, Left
  <2>3. k.owner = Conn \/ ownerGrant[q] \in {<<k.owner, "R">>, <<k.owner, "W">>}
    BY <1>1, <2>2 DEF LocksFit
  <2> QED
    BY <1>1, <1>4, <2>1, <2>3, WorkOwners
<1> QED
  BY <1>1, <1>2, <1>3, <1>5 DEF FreeFits, LocksFit

\* A step that works keeps the invariant: for its own call, and for the others.
LEMMA WorkKeeps ==
  ASSUME RowsInv, NEW p \in Procs, Work(p)
  PROVE  RowsInv'
<1>1. /\ Typed /\ Exclusive /\ job[p] \in Jobs /\ JobFits(mgr, job[p])
      /\ LocksFit(mgr, job[p], grant[p], ownerGrant[p], owners)
  BY DEF RowsInv, Typed, CallsFit
<1>2. /\ Moves(job[p], job'[p]) /\ \A q \in Procs \ {p} : job'[q] = job[q]
      /\ mgr' = mgr /\ ownerGrant' = ownerGrant /\ grant' = grant /\ job[p].steps # <<>>
  BY <1>1, WorkMoves
<1>3. Typed'
  <2>1. row' \in [Homes \X Names -> Ids \cup {None}]
    BY <1>1, WorkRows DEF Typed
  <2>2. owners' \subseteq Owners
    BY <1>1, WorkOwners DEF Typed, JobFits
  <2>3. told' \subseteq Ids
    BY <1>1, <2>1, OneCall, ToldTyped
  <2>4. csp' \in [Ids -> Homes \cup {None}] /\ released' \subseteq {i \in Ids : Exists(i)'}
    BY <1>1, WorkCloudTyped
  <2>5. job' \in [Procs -> Jobs]
    <3>1. job'[p] \in Jobs /\ \A q \in Procs : job[q] \in Jobs
      BY <1>1, <1>2, MovesFit DEF Typed
    <3>2. PICK k : job' = [job EXCEPT ![p] = k]
      BY OneCall
    <3>3. k \in Jobs
      BY <1>1, <3>1, <3>2 DEF Typed
    <3> QED
      BY <1>1, <3>2, <3>3 DEF Typed
  <2> QED
    BY <1>1, <1>2, <2>1, <2>2, <2>3, <2>4, <2>5 DEF Typed
<1>4. Exclusive'
  BY <1>1, <1>2 DEF Exclusive, Apart
<1>5. JobFits(mgr', job'[p]) /\ FreeFits(mgr', job'[p], row')
  BY <1>1, <1>2, MovesFit, FreeMoves
<1>6. LocksFit(mgr', job'[p], grant'[p], ownerGrant'[p], owners')
  <2>1. Head(job[p].steps) \notin OwnerLocks \cup {"lock"}
    BY WorkIs
  <2>2. Head(job[p].steps) = "owner" /\ job'[p] # Answered => job[p].owner \in owners \cup {Conn}
    BY <1>1, WorkChecks
  <2> DEFINE j == job[p]
             h == Head(j.steps)
             k == job'[p]
             os2 == owners'
  <2>3. /\ os2 = owners \/ h \in {"insertOwner", "insertOwnerOrUndo", "deleteOwner", "releaseOwner"}
        /\ h \in {"insertOwner", "insertOwnerOrUndo"} => owners \subseteq os2
        /\ h \in {"insertOwner", "insertOwnerOrUndo"} =>
             k = Answered \/ j.owner \in os2 \/ k.steps = <<"undoOwner">>
    BY <1>1, WorkOwners
  <2>4. h \notin {"lock", "ownerLock", "ownerRLock"} /\ (h = "owner" /\ k # Answered => j.owner \in owners \cup {Conn})
    BY <2>1, <2>2 DEF OwnerLocks
  <2>5. /\ j \in Jobs /\ JobFits(mgr, j) /\ Moves(j, k) /\ LocksFit(mgr, j, grant[p], ownerGrant[p], owners)
    BY <1>1, <1>2
  <2> HIDE DEF j, k, os2
  <2>6. LocksFit(mgr, k, grant[p], ownerGrant[p], os2)
    BY <2>3, <2>4, <2>5, LocksMove
  <2> QED
    BY <1>2, <2>6 DEF k, os2
<1>7. ASSUME NEW q \in Procs, q # p
      PROVE  /\ JobFits(mgr', job'[q]) /\ FreeFits(mgr', job'[q], row')
             /\ LocksFit(mgr', job'[q], grant'[q], ownerGrant'[q], owners')
  <2>1. JobFits(mgr, job[q])
    BY DEF RowsInv, CallsFit
  <2> QED
    BY <1>2, <1>7, <2>1, OthersFree
<1> QED
  BY <1>3, <1>4, <1>5, <1>6, <1>7 DEF RowsInv, CallsFit

-----------------------------------------------------------------------------
(* The steps that take or give back locks.                                 *)

\* A lock that is granted conflicts with none that is held.
LEMMA AcquireApart ==
  ASSUME NEW G, None \notin G, NEW gs \in [Procs -> G \cup {None}], Apart(gs), NEW p \in Procs, NEW g \in G,
         gs[p] = None, \A q \in Procs : gs[q] # None => ~NameLock!Conflict(gs[q], g)
  PROVE  [gs EXCEPT ![p] = g] \in [Procs -> G \cup {None}] /\ Apart([gs EXCEPT ![p] = g])
  BY DEF Apart, NameLock!Conflict

\* Giving one back starts no conflict.
LEMMA ReleaseApart ==
  ASSUME NEW G, NEW gs \in [Procs -> G \cup {None}], Apart(gs), NEW p \in Procs
  PROVE  [gs EXCEPT ![p] = None] \in [Procs -> G \cup {None}] /\ Apart([gs EXCEPT ![p] = None])
  BY DEF Apart

\* A step that leaves the tables and the cloud alone.
LEMMA CallMoves ==
  ASSUME RowsInv, NEW p \in Procs,
         Begin(p) \/ TakeLock(p) \/ TakeOwnerLock(p) \/ Each(p) \/ Get(p) \/ Work(p) \/ Return(p),
         mgr' = mgr, row' = row, owners' = owners, csp' = csp, released' = released,
         grant' \in [Procs -> (Names \X {"R", "W"}) \cup {None}], Apart(grant'),
         ownerGrant' \in [Procs -> (Owners \X {"R", "W"}) \cup {None}], Apart(ownerGrant'),
         \A q \in Procs \ {p} : job'[q] = job[q] /\ grant'[q] = grant[q] /\ ownerGrant'[q] = ownerGrant[q],
         job'[p] \in Jobs, JobFits(mgr, job'[p]), FreeFits(mgr, job'[p], row),
         LocksFit(mgr, job'[p], grant'[p], ownerGrant'[p], owners)
  PROVE  RowsInv'
<1>1. Typed
  BY DEF RowsInv
<1>2. told' \subseteq Ids
  BY <1>1, OneCall, ToldTyped DEF Typed
<1>3. job' \in [Procs -> Jobs]
  <2>1. PICK k : job' = [job EXCEPT ![p] = k]
    BY OneCall
  <2>2. k \in Jobs
    BY <1>1, <2>1 DEF Typed
  <2> QED
    BY <1>1, <2>1, <2>2 DEF Typed
<1>4. Typed'
  BY <1>1, <1>2, <1>3 DEF Typed, Exists
<1>5. ASSUME NEW q \in Procs, q # p
      PROVE  /\ JobFits(mgr', job'[q]) /\ FreeFits(mgr', job'[q], row')
             /\ LocksFit(mgr', job'[q], grant'[q], ownerGrant'[q], owners')
  BY <1>5 DEF RowsInv, CallsFit
<1> QED
  BY <1>4, <1>5 DEF RowsInv, CallsFit, Exclusive

\* Taking a lock keeps the invariant (TakeLock, TakeOwnerLock).
LEMMA TakeLockKeeps ==
  ASSUME RowsInv, NEW p \in Procs, TakeLock(p) \/ TakeOwnerLock(p)
  PROVE  RowsInv'
<1> DEFINE j == job[p]
           h == Head(j.steps)
<1>1. /\ Typed /\ Exclusive /\ j \in Jobs /\ JobFits(mgr, j) /\ LocksFit(mgr, j, grant[p], ownerGrant[p], owners)
      /\ FreeFits(mgr, j, row)
  BY DEF RowsInv, Typed, CallsFit
<1>2. /\ j.steps # <<>> /\ h \in OwnerLocks \cup {"lock", "rlock"} /\ GoOn(p)
      /\ mgr' = mgr /\ row' = row /\ owners' = owners /\ csp' = csp /\ released' = released
      /\ TakeLock(p) <=> h \in {"lock", "rlock"}
  BY DEF TakeLock, TakeOwnerLock, At, OwnerLocks, table, cloud
<1>3. (job'[p] = Answered \/ GoesOn(j, job'[p])) /\ \A q \in Procs \ {p} : job'[q] = job[q]
  BY <1>1, <1>2, GoOnDoes DEF Reads, Gives, OwnerLocks
<1>4. j.kind \in Named \/ (j.kind = "owner" /\ h \notin {"lock", "rlock"})
  <2>1. j.steps \in Seq(Steps) /\ Left(mgr, j.kind, j.steps)
    BY <1>1 DEF JobFits, Shape
  <2>2. h \in {"lock", "rlock"} => h \in {"lock", "rlock"} \cup Reads
    OBVIOUS
  <2>3. /\ h \in {"lock", "rlock"} => Rest(j.steps, {"lock", "rlock"} \cup Reads)
        /\ h \in OwnerLocks => Rest(j.steps, OwnerLocks)
    BY <1>2, <2>1, <2>2, Tails
  <2> QED
    BY <1>2, <2>1, <2>3 DEF Left, OwnerLocks
<1>5. /\ grant' \in [Procs -> (Names \X {"R", "W"}) \cup {None}] /\ Apart(grant')
      /\ ownerGrant' \in [Procs -> (Owners \X {"R", "W"}) \cup {None}] /\ Apart(ownerGrant')
      /\ \A q \in Procs \ {p} : grant'[q] = grant[q] /\ ownerGrant'[q] = ownerGrant[q]
      /\ grant[p] # None => grant'[p] = grant[p]
      /\ ownerGrant[p] # None => ownerGrant'[p] = ownerGrant[p]
      /\ h = "lock" => grant'[p] = <<j.name, "W">>
      /\ h = "ownerLock" => j.owner = Conn \/ ownerGrant'[p] = <<j.owner, "W">>
      /\ h = "ownerRLock" => j.owner = Conn \/ ownerGrant'[p] = <<j.owner, "R">>
  <2> DEFINE nameGrants == Names \X {"R", "W"}
             ownerGrants == Owners \X {"R", "W"}
  <2>1. /\ grant \in [Procs -> nameGrants \cup {None}] /\ Apart(grant) /\ None \notin nameGrants
        /\ ownerGrant \in [Procs -> ownerGrants \cup {None}] /\ Apart(ownerGrant) /\ None \notin ownerGrants
    BY <1>1, ManagersAssumption DEF Typed, Exclusive
  <2>2. CASE TakeLock(p)
    <3> DEFINE g == <<j.name, IF At(p, "lock") THEN "W" ELSE "R">>
    <3>1. j.name \in Names /\ h \in {"lock", "rlock"} /\ ownerGrant' = ownerGrant
      BY <1>1, <1>2, <1>4, <2>2 DEF JobFits, TakeLock
    <3>2. g \in nameGrants
      BY <3>1
    <3>3. /\ grant[p] = None /\ grant' = [grant EXCEPT ![p] = g]
          /\ \A q \in Procs : grant[q] # None => ~NameLock!Conflict(grant[q], g)
      BY <2>2 DEF TakeLock, NameLock!Acquire
    <3>4. h = "lock" => g = <<j.name, "W">>
      BY <1>2 DEF At
    <3> HIDE DEF g, nameGrants
    <3>5. grant' \in [Procs -> nameGrants \cup {None}] /\ Apart(grant')
      BY <2>1, <3>2, <3>3, AcquireApart
    <3> QED
      BY <2>1, <3>1, <3>3, <3>4, <3>5 DEF nameGrants
  <2>3. CASE TakeOwnerLock(p) /\ j.owner = Conn
    BY <1>2, <2>1, <2>3 DEF TakeOwnerLock, OwnerLocks, At
  <2>4. CASE TakeOwnerLock(p) /\ j.owner # Conn
    <3> DEFINE g == <<j.owner, IF At(p, "ownerLock") THEN "W" ELSE "R">>
    <3>1. j.owner \in Owners /\ h \in OwnerLocks /\ grant' = grant
      BY <1>1, <1>2, <1>4, <2>4 DEF JobFits, TakeOwnerLock, Homes, At, OwnerLocks
    <3>2. g \in ownerGrants
      BY <3>1
    <3>3. /\ ownerGrant[p] = None /\ ownerGrant' = [ownerGrant EXCEPT ![p] = g]
          /\ \A q \in Procs : ownerGrant[q] # None => ~NameLock!Conflict(ownerGrant[q], g)
      BY <2>4 DEF TakeOwnerLock, OwnerLock!Acquire, OwnerLock!Conflict, NameLock!Conflict
    <3>4. (h = "ownerLock" => g = <<j.owner, "W">>) /\ (h = "ownerRLock" => g = <<j.owner, "R">>)
      BY <1>2 DEF At
    <3> HIDE DEF g, ownerGrants
    <3>5. ownerGrant' \in [Procs -> ownerGrants \cup {None}] /\ Apart(ownerGrant')
      BY <2>1, <3>2, <3>3, AcquireApart
    <3> QED
      BY <2>1, <3>1, <3>3, <3>4, <3>5 DEF ownerGrants, OwnerLocks
  <2> QED
    BY <2>2, <2>3, <2>4
<1>6. Moves(j, job'[p])
  BY <1>3 DEF Moves
<1>7. job'[p] \in Jobs /\ JobFits(mgr, job'[p])
  BY <1>1, <1>6, MovesFit
<1>8. LocksFit(mgr, job'[p], grant'[p], ownerGrant'[p], owners)
  <2>1. h \notin {"owner", "insertOwner", "insertOwnerOrUndo", "deleteOwner", "releaseOwner"}
    BY <1>2 DEF OwnerLocks
  <2>2. /\ grant[p] # None => grant'[p] = grant[p]
        /\ ownerGrant[p] # None => ownerGrant'[p] = ownerGrant[p]
        /\ h = "lock" => grant'[p] = <<j.name, "W">>
        /\ h = "ownerLock" => j.owner = Conn \/ ownerGrant'[p] = <<j.owner, "W">>
        /\ h = "ownerRLock" => j.owner = Conn \/ ownerGrant'[p] = <<j.owner, "R">>
    BY <1>5
  <2> HIDE DEF j
  <2> QED
    BY <1>1, <1>6, <2>1, <2>2, LocksMove
<1>9. FreeFits(mgr, job'[p], row)
  <2>1. CASE job'[p] = Answered
    BY <2>1, AnsweredFits
  <2>2. CASE GoesOn(j, job'[p])
    <3>1. /\ \A S : Rest(j.steps, S) <=> h \in S \/ Rest(job'[p].steps, S)
      BY <1>1, <2>2, Steppings
    <3>2. Here(job'[p]) = Here(j)
      BY <1>2, <2>2 DEF GoesOn, Here, OwnerLocks
    <3>3. h \notin Inserts \cup Checks \cup {"deleteRow"}
      BY <1>2 DEF Inserts, Checks, OwnerLocks
    <3> QED
      BY <1>1, <3>1, <3>2, <3>3 DEF FreeFits, Checked
  <2> QED
    BY <1>3, <2>1, <2>2
<1> QED
  BY <1>2, <1>3, <1>5, <1>7, <1>8, <1>9, CallMoves

-----------------------------------------------------------------------------
(* Lists, and the arrival and the return of a call.                        *)

\* A list holds nothing that the invariant speaks of.
LEMMA ListsFit ==
  ASSUME NEW m, NEW j \in Jobs, j.kind = "list", j.steps \in Seq(ListSteps), j.made = None, ~j.force
  PROVE  /\ JobFits(m, j) /\ \A r : FreeFits(m, j, r)
         /\ \A g, og, os : LocksFit(m, j, g, og, os)
<1>1. Shape(m, j.kind, j.steps) /\ \A S : S \cap ListSteps = {} => ~Rest(j.steps, S)
  BY ListFits
<1>2. /\ ~Rest(j.steps, Inserts) /\ ~Rest(j.steps, {"owner"} \cup Inserts)
      /\ ~Rest(j.steps, {"call", "replace"} \cup Drops \cup RowDeletes)
      /\ ~Rest(j.steps, {"undo", "rollback", "insertOthersOrRollback"}) /\ ~Rest(j.steps, PartInserts)
  <2>1. \A S : Rest(j.steps, S) => \E x \in ListSteps : x \in S
    BY <1>1
  <2> QED
    BY <2>1 DEF Inserts, Drops, RowDeletes, ListSteps, PartInserts
<1> QED
  BY <1>1, <1>2 DEF JobFits, FreeFits, Checked, LocksFit, Writes, Writer, Named

\* So do the steps of the lists that lock and unlock names.
LEMMA ListStepsKeep ==
  ASSUME RowsInv, NEW p \in Procs, Each(p) \/ Get(p)
  PROVE  RowsInv'
<1> DEFINE j == job[p]
           h == Head(j.steps)
           nameGrants == Names \X {"R", "W"}
<1>1. /\ Typed /\ Exclusive /\ j \in Jobs /\ JobFits(mgr, j)
      /\ grant \in [Procs -> nameGrants \cup {None}] /\ Apart(grant) /\ None \notin nameGrants
  BY ManagersAssumption DEF RowsInv, Typed, CallsFit, Exclusive
<1>2. /\ j.steps # <<>> /\ h \in {"each", "eachOrStub", "get", "getOrStub"}
      /\ mgr' = mgr /\ row' = row /\ owners' = owners /\ csp' = csp /\ released' = released
      /\ ownerGrant' = ownerGrant
  BY DEF Each, Get, At, table, cloud
<1>3. ownerGrant' \in [Procs -> (Owners \X {"R", "W"}) \cup {None}] /\ Apart(ownerGrant')
      /\ \A q \in Procs \ {p} : ownerGrant'[q] = ownerGrant[q]
  BY <1>1, <1>2 DEF Typed, Exclusive
<1>4. j.kind = "list" /\ j.made = None /\ ~j.force /\ j.steps \in Seq(ListSteps)
  <2>1. Rest(j.steps, ListSteps)
    BY <1>1, <1>2, Tails DEF JobFits, Shape, ListSteps
  <2>2. j.kind = "list"
    BY <1>1, <2>1 DEF JobFits, Shape, Left
  <2> QED
    BY <1>1, <2>2, ListFits DEF JobFits
<1>5. CASE (Each(p) /\ j.todo = {}) \/ Get(p)
  <2>1. GoOn(p) \/ \E r : Answer(p, r)
    BY <1>5 DEF Each, Get
  <2>2. (job'[p] = Answered \/ GoesOn(j, job'[p])) /\ \A q \in Procs \ {p} : job'[q] = job[q]
    BY <1>1, <1>2, <2>1, GoOnDoes, AnswerDoes DEF Reads, Gives
  <2>3. job'[p] \in Jobs /\ JobFits(mgr, job'[p]) /\ (\A r : FreeFits(mgr, job'[p], r))
        /\ \A g, og, os : LocksFit(mgr, job'[p], g, og, os)
    <3>1. CASE job'[p] = Answered
      BY <3>1, AnsweredFits
    <3>2. CASE GoesOn(j, job'[p])
      <4>1. job'[p] \in Jobs /\ job'[p].kind = "list" /\ job'[p].steps \in Seq(ListSteps)
        BY <1>2, <1>4, <3>2 DEF GoesOn
      <4>2. job'[p].made = None /\ ~job'[p].force
        BY <1>2, <1>4, <3>2 DEF GoesOn, Gives, Drops
      <4> QED
        BY <4>1, <4>2, ListsFit
    <3> QED
      BY <2>2, <3>1, <3>2
  <2>4. grant' \in [Procs -> nameGrants \cup {None}] /\ Apart(grant') /\ \A q \in Procs \ {p} : grant'[q] = grant[q]
    <3>1. grant' = grant \/ grant' = [grant EXCEPT ![p] = None]
      BY <1>2, <1>5 DEF Each, Get, NameLock!Release, NameLock!Acquire
    <3> HIDE DEF nameGrants
    <3>2. [grant EXCEPT ![p] = None] \in [Procs -> nameGrants \cup {None}] /\ Apart([grant EXCEPT ![p] = None])
      BY <1>1, ReleaseApart
    <3> QED
      BY <1>1, <3>1, <3>2
  <2> QED
    BY <1>2, <1>3, <2>2, <2>3, <2>4, CallMoves
<1>6. CASE Each(p) /\ j.todo # {}
  <2>1. PICK t \in j.todo, x \in {"get", "getOrStub"} :
          /\ NameLock!Acquire(p, <<t[2], "R">>) /\ told' = told
          /\ job' = [job EXCEPT ![p] = [j EXCEPT !.steps = <<x>> \o j.steps, !.todo = j.todo \ {t},
                                                 !.owner = t[1], !.name = t[2], !.row = t[3]]]
    BY <1>6 DEF Each
  <2>2. t[1] \in Homes /\ t[2] \in Names /\ t[3] \in Ids
    BY <1>1 DEF Jobs
  <2> DEFINE k == [j EXCEPT !.steps = <<x>> \o j.steps, !.todo = j.todo \ {t},
                            !.owner = t[1], !.name = t[2], !.row = t[3]]
             g == <<t[2], "R">>
  <2>3. <<x>> \o j.steps \in Seq(ListSteps) /\ <<x>> \o j.steps \in Seq(Steps)
    <3>1. x \in ListSteps /\ x \in Steps /\ j.steps \in Seq(Steps)
      BY <1>1 DEF ListSteps, Steps, Jobs
    <3> QED
      BY <1>4, <3>1
  <2>4. k \in Jobs /\ k.kind = "list" /\ k.steps \in Seq(ListSteps) /\ k.made = None /\ ~k.force
    BY <1>1, <1>4, <2>2, <2>3 DEF Jobs
  <2>5. job'[p] = k /\ \A q \in Procs \ {p} : job'[q] = job[q]
    BY <1>1, <2>1 DEF Typed
  <2>6. job'[p] \in Jobs /\ JobFits(mgr, job'[p]) /\ (\A r : FreeFits(mgr, job'[p], r))
        /\ \A gr, og, os : LocksFit(mgr, job'[p], gr, og, os)
    BY <2>4, <2>5, ListsFit
  <2>7. grant' \in [Procs -> nameGrants \cup {None}] /\ Apart(grant') /\ \A q \in Procs \ {p} : grant'[q] = grant[q]
    <3>1. /\ grant[p] = None /\ grant' = [grant EXCEPT ![p] = g]
          /\ \A q \in Procs : grant[q] # None => ~NameLock!Conflict(grant[q], g)
      BY <2>1 DEF NameLock!Acquire
    <3>2. g \in nameGrants
      BY <2>2
    <3> HIDE DEF g, nameGrants
    <3>3. grant' \in [Procs -> nameGrants \cup {None}] /\ Apart(grant')
      BY <1>1, <3>1, <3>2, AcquireApart
    <3> QED
      BY <1>1, <3>1, <3>3
  <2> QED
    BY <1>2, <1>3, <2>5, <2>6, <2>7, CallMoves
<1> QED
  BY <1>5, <1>6

\* A call that arrives fits, as every function does.
LEMMA BeginKeeps ==
  ASSUME RowsInv, NEW p \in Procs, Begin(p)
  PROVE  RowsInv'
<1>1. Typed /\ Exclusive
  BY DEF RowsInv
<1>2. PICK op \in Operations(mgr) :
        \E o \in OwnersOf(op), n \in NamesOf(op), id \in IdsOf(op), force \in ForcesOf(op) :
          job' = [job EXCEPT ![p] = [NoJob EXCEPT !.kind = op.kind, !.steps = op.steps, !.owner = o,
                                                  !.name = n, !.id = id, !.force = force]]
  BY DEF Begin
<1>3. PICK o \in OwnersOf(op), n \in NamesOf(op), id \in IdsOf(op), force \in ForcesOf(op) :
        job' = [job EXCEPT ![p] = [NoJob EXCEPT !.kind = op.kind, !.steps = op.steps, !.owner = o,
                                                !.name = n, !.id = id, !.force = force]]
  BY <1>2
<1> DEFINE k == [NoJob EXCEPT !.kind = op.kind, !.steps = op.steps, !.owner = o, !.name = n, !.id = id,
                              !.force = force]
<1>4. StartsWith(mgr, op.kind, op.steps) /\ mgr \in ManagerNames
  BY <1>1, OperationsFit DEF Starts, Typed
<1>5. /\ k.kind = op.kind /\ k.steps = op.steps /\ k.owner = o /\ k.name = n /\ k.id = id
      /\ k.row = None /\ k.made = None /\ k.todo = {} /\ k.resp = "ok"
  BY DEF NoJob
<1>5b. k.force = force
  BY DEF NoJob
<1>6. job'[p] = k /\ \A q \in Procs \ {p} : job'[q] = job[q]
  BY <1>1, <1>3 DEF Typed
<1>7. /\ k.kind \in Kinds \ {"none", "answered"} /\ Shape(mgr, k.kind, k.steps) /\ k.steps \in Seq(Steps)
      /\ Left(mgr, k.kind, k.steps)
  BY <1>4, <1>5 DEF StartsWith, Shape
<1>8. /\ k.owner \in Homes
      /\ Rest(k.steps, OwnerLocks) /\ k.kind # "register" => k.owner \in Owners
      /\ ~Rest(k.steps, OwnerLocks) => k.owner = Conn
  <2>1. Takes(op, {"ownerLock", "ownerRLock"}) <=> Rest(k.steps, OwnerLocks)
    BY <1>5 DEF Takes, Rest, OwnerLocks
  <2>2. op = RegisterSecurity => k.kind = "register" /\ Rest(k.steps, OwnerLocks)
    <3>1. Takes(RegisterSecurity, {"ownerLock", "ownerRLock"}) /\ RegisterSecurity.kind = "register"
      BY DEF Takes, RegisterSecurity, Op
    <3> QED
      BY <1>5, <2>1, <3>1
  <2> QED
    BY <1>5, <2>1, <2>2 DEF OwnersOf, Homes
<1>9. k.kind \in Named => k.name \in Names
  BY <1>5 DEF NamesOf, Named
<1>10. /\ k.kind \in {"register", "csp"} => k.id \in Ids
       /\ k.id \in Ids \cup {None} /\ k.name \in Names \cup {None}
  BY <1>5, ManagersAssumption DEF IdsOf, NamesOf
<1>11. k.force \in BOOLEAN /\ (k.force => k.kind \in {"delete", "owner"})
  <2>1. Takes(op, {"drop", "dropOwner"}) <=> Rest(k.steps, {"drop", "dropOwner"})
    BY <1>5 DEF Takes, Rest
  <2>2. Rest(k.steps, {"drop", "dropOwner"}) => Rest(k.steps, Drops) \/ Rest(k.steps, OwnerSteps)
    BY DEF Rest, Drops, OwnerSteps, PartSteps
  <2>3. Rest(k.steps, {"drop", "dropOwner"}) => k.kind \in {"delete", "owner"}
    BY <1>7, <2>2 DEF Left
  <2> QED
    BY <1>5b, <2>1, <2>3 DEF ForcesOf
<1>12. k \in Jobs
  <2>1. op.kind \in Kinds /\ op.steps \in Seq(Steps)
    BY <1>5, <1>7
  <2>2. o \in Homes \cup {None} /\ n \in Names \cup {None} /\ id \in Ids \cup {None}
    <3> HIDE DEF k
    <3>1. k.owner = o /\ k.name = n /\ k.id = id
      BY <1>5
    <3> QED
      BY <1>8, <1>10, <3>1
  <2>3. force \in BOOLEAN
    BY DEF ForcesOf
  <2>4. NoJob \in Jobs
    BY AnsweredFits
  <2> QED
    BY <2>1, <2>2, <2>3, <2>4 DEF Jobs
<1> HIDE DEF k
<1>13. JobFits(mgr, k)
  <2>1. k.kind \in Named /\ mgr \in Parts => k.owner \in Owners
    <3>1. k.kind \in Named /\ mgr \in Parts => Rest(k.steps, OwnerLocks)
      BY <1>4, <1>5, RestIn DEF StartsWith, OwnerLocks
    <3> QED
      BY <1>7, <1>8, <3>1 DEF Left
  <2>2. k.kind = "owner" => k.owner \in Owners
    <3>1. k.kind = "owner" => Rest(k.steps, OwnerLocks)
      BY <1>4, <1>5, RestIn DEF StartsWith, OwnerLocks
    <3> QED
      BY <1>8, <3>1
  <2>3. Rest(k.steps, {"call", "replace"} \cup Drops \cup RowDeletes) => Rest(k.steps, Reads)
    BY <1>4, <1>5 DEF StartsWith
  <2>4. Rest(k.steps, Inserts) => Rest(k.steps, Gives)
    BY <1>4, <1>5 DEF StartsWith
  <2>5. Rest(k.steps, {"undo", "rollback", "insertOthersOrRollback"}) => Rest(k.steps, Inserts)
    <3>1. /\ ~Rest(k.steps, {"undo", "rollback"})
          /\ Rest(k.steps, {"insertOthersOrRollback"}) => Rest(k.steps, Inserts)
      BY <1>4, <1>5 DEF StartsWith
    <3> QED
      BY <3>1 DEF Rest
  <2>7. /\ k.kind \in Named => k.name \in Names /\ k.owner \in Homes /\ (mgr \in Parts => k.owner \in Owners)
        /\ k.kind \in {"register", "csp"} => k.id \in Ids
    BY <1>8, <1>9, <1>10, <2>1
  <2>8. k.kind \notin {"none", "answered"} /\ k.made = None /\ k.row = None /\ k.todo = {}
    BY <1>5, <1>7
  <2> QED
    BY <1>7, <1>11, <2>2, <2>3, <2>4, <2>5, <2>7, <2>8 DEF JobFits
<1>14. LocksFit(mgr, k, grant[p], ownerGrant[p], owners)
  <2>1. Writes(mgr, k) => Rest(k.steps, {LockStep(mgr)})
    BY <1>4, <1>5 DEF StartsWith, Writes
  <2>2. Rest(k.steps, {"owner"} \cup Inserts) => Rest(k.steps, OwnerLocks) \/ k.owner = Conn
    BY <1>8
  <2>3. k.kind = "owner" => Rest(k.steps, {"ownerLock"})
    BY <1>4, <1>5 DEF StartsWith
  <2>4. Rest(k.steps, Inserts) /\ ~Rest(k.steps, {"owner"}) => k.owner = Conn
    BY <1>7, <1>8 DEF Left
  <2>5. Rest(k.steps, PartInserts) => Rest(k.steps, {"insertOwner", "insertOwnerOrUndo"})
    BY <1>4, <1>5 DEF StartsWith
  <2> QED
    BY <2>1, <2>2, <2>3, <2>4, <2>5 DEF LocksFit
<1>15. FreeFits(mgr, k, row)
  BY <1>4, <1>5 DEF StartsWith, FreeFits, Checked
<1>16. /\ mgr' = mgr /\ row' = row /\ owners' = owners /\ csp' = csp /\ released' = released
       /\ grant' = grant /\ ownerGrant' = ownerGrant
  BY DEF Begin, table, cloud, locks
<1>17. /\ grant' \in [Procs -> (Names \X {"R", "W"}) \cup {None}] /\ Apart(grant')
       /\ ownerGrant' \in [Procs -> (Owners \X {"R", "W"}) \cup {None}] /\ Apart(ownerGrant')
  BY <1>1, <1>16 DEF Typed, Exclusive
<1> QED
  BY <1>6, <1>12, <1>13, <1>14, <1>15, <1>16, <1>17, CallMoves

\* A call that returns gives back its locks.
LEMMA ReturnKeeps ==
  ASSUME RowsInv, NEW p \in Procs, Return(p)
  PROVE  RowsInv'
<1> DEFINE nameGrants == Names \X {"R", "W"}
           ownerGrants == Owners \X {"R", "W"}
<1>1. /\ Typed
      /\ grant \in [Procs -> nameGrants \cup {None}] /\ Apart(grant)
      /\ ownerGrant \in [Procs -> ownerGrants \cup {None}] /\ Apart(ownerGrant)
  BY DEF RowsInv, Typed, Exclusive
<1>2. job'[p] = NoJob /\ \A q \in Procs \ {p} : job'[q] = job[q]
  BY <1>1 DEF Return, Typed
<1>3. /\ mgr' = mgr /\ row' = row /\ owners' = owners /\ csp' = csp /\ released' = released
      /\ grant' = grant \/ grant' = [grant EXCEPT ![p] = None]
      /\ ownerGrant' = ownerGrant \/ ownerGrant' = [ownerGrant EXCEPT ![p] = None]
  BY DEF Return, NameLock!Release, OwnerLock!Release, table, cloud
<1> HIDE DEF nameGrants, ownerGrants
<1>4. /\ [grant EXCEPT ![p] = None] \in [Procs -> nameGrants \cup {None}] /\ Apart([grant EXCEPT ![p] = None])
      /\ [ownerGrant EXCEPT ![p] = None] \in [Procs -> ownerGrants \cup {None}]
      /\ Apart([ownerGrant EXCEPT ![p] = None])
  BY <1>1, ReleaseApart
<1>5. /\ grant' \in [Procs -> nameGrants \cup {None}] /\ Apart(grant')
      /\ ownerGrant' \in [Procs -> ownerGrants \cup {None}] /\ Apart(ownerGrant')
      /\ \A q \in Procs \ {p} : grant'[q] = grant[q] /\ ownerGrant'[q] = ownerGrant[q]
  BY <1>1, <1>3, <1>4
<1>6. job'[p] \in Jobs /\ JobFits(mgr, job'[p]) /\ FreeFits(mgr, job'[p], row)
      /\ LocksFit(mgr, job'[p], grant'[p], ownerGrant'[p], owners)
  BY <1>2, AnsweredFits
<1> QED
  BY <1>2, <1>3, <1>5, <1>6, CallMoves DEF nameGrants, ownerGrants

\* The invariant holds at the start, and every step keeps it.
LEMMA RowsInitially == Init => RowsInv
<1> SUFFICES ASSUME Init PROVE RowsInv
  OBVIOUS
<1>1. \A p \in Procs : job[p] = NoJob /\ grant[p] = None /\ ownerGrant[p] = None
  BY DEF Init
<1>2. Typed
  <2>1. mgr \in ManagerNames
    BY ManagersAssumption DEF Init
  <2>2. NoJob \in Jobs
    BY AnsweredFits
  <2> QED
    BY <2>1, <2>2 DEF Init, Typed, Homes
<1>3. Exclusive
  BY <1>1 DEF Exclusive, Apart
<1>4. CallsFit
  BY <1>1, AnsweredFits DEF CallsFit
<1> QED
  BY <1>2, <1>3, <1>4 DEF RowsInv

\* Every step keeps it.
LEMMA RowsNext == RowsInv /\ [Next]_vars => RowsInv'
<1> SUFFICES ASSUME RowsInv, [Next]_vars PROVE RowsInv'
  OBVIOUS
<1>1. CASE UNCHANGED vars
  BY <1>1 DEF vars, table, cloud, locks, RowsInv, Typed, Exclusive, CallsFit, Exists
<1>2. ASSUME NEW p \in Procs,
             Begin(p) \/ TakeLock(p) \/ TakeOwnerLock(p) \/ Each(p) \/ Get(p) \/ Work(p) \/ Return(p)
      PROVE  RowsInv'
  BY <1>2, BeginKeeps, TakeLockKeeps, ListStepsKeep, WorkKeeps, ReturnKeeps
<1> QED
  BY <1>1, <1>2 DEF Next

-----------------------------------------------------------------------------
(* What follows.                                                           *)

\* The invariant holds of whatever the managers and their callers do.
THEOREM Invariance == Spec => []RowsInv
  BY RowsInitially, RowsNext, PTL DEF Spec

\* What the tables, the locks and the cloud contain; and no driver is called for
\* an id that was not read from the table or made.
THEOREM TypeCorrect == Spec => []TypeOK
<1>1. RowsInv => TypeOK
  <2> SUFFICES ASSUME RowsInv PROVE TypeOK
    OBVIOUS
  <2>1. ASSUME NEW p \in Procs
        PROVE  /\ At(p, "call") \/ At(p, "drop") => job[p].row \in Ids
               /\ At(p, "undo") \/ At(p, "insert") => job[p].made \in Ids
    <3>1. job[p] \in Jobs /\ JobFits(mgr, job[p])
      BY DEF RowsInv, Typed, CallsFit
    <3> QED
      BY <3>1, DriverAsked DEF At, Drops, Inserts
  <2> QED
    BY <2>1 DEF RowsInv, Typed, TypeOK
<1> QED
  BY <1>1, Invariance, PTL

\* A row is what it was, or one of those that come with a cluster or a zone.
PartOrSame(h) ==
  \/ row'[h] = row[h]
  \/ \E p \in Procs : /\ At(p, "insertParts") \/ At(p, "insertPartsOrRollback")
                      /\ \E t \in job[p].todo : h = <<t[1], t[2]>> /\ row'[h] = t[3]

\* The name of a call that writes its row is free when it does: infostore.Insert, an
\* upsert, never takes a row from the resource that has it; only the rows of what
\* comes with a cluster or a zone are written unchecked.
THEOREM RowsNeverReplacedHolds == Spec => RowsNeverReplaced
<1>1. ASSUME RowsInv, [Next]_vars, NEW h \in DOMAIN row, row[h] # None, row'[h] # None
      PROVE  PartOrSame(h)
  <2>1. CASE row' = row
    BY <2>1 DEF PartOrSame
  <2>2. ASSUME NEW p \in Procs, Work(p)
        PROVE  PartOrSame(h)
    <3> DEFINE j == job[p]
    <3>0. Typed /\ j.steps # <<>>
      BY <1>1, <2>2, WorkIs DEF RowsInv
    <3>1. j \in Jobs /\ JobFits(mgr, j) /\ FreeFits(mgr, j, row) /\ Typed /\ j.steps # <<>>
      BY <1>1, <3>0 DEF RowsInv, Typed, CallsFit
    <3>2. CASE Head(j.steps) \in Inserts /\ row' = [row EXCEPT ![Here(j)] = j.made]
      <4>1. Ordered(mgr, j.steps) /\ Rest(j.steps, Inserts)
        BY <3>1, <3>2, Tails DEF JobFits, Shape
      <4>2. ~Rest(j.steps, {"owner"} \cup Checks \cup Gives \cup {"deleteRow"})
        BY <3>1, <3>2, <4>1, Tails DEF JobFits, Shape, Ordered
      <4>3. ~Rest(j.steps, Checks \cup {"deleteRow"})
        BY <4>2, RestIn
      <4>4. row[Here(j)] = None
        BY <3>1, <4>1, <4>3 DEF FreeFits, Checked
      <4> QED
        BY <1>1, <3>1, <3>2, <4>4 DEF Typed, PartOrSame
    <3>3. CASE row' = [g \in DOMAIN row |-> IF Deletes(p, g) THEN None ELSE row[g]]
      BY <1>1, <3>3 DEF PartOrSame
    <3>4. CASE row' = [g \in DOMAIN row |-> IF g[1] = job[p].owner THEN None ELSE row[g]]
      BY <1>1, <3>4 DEF PartOrSame
    <3>5. ASSUME Head(j.steps) \in PartInserts, NEW t \in j.todo, row' = [row EXCEPT ![<<t[1], t[2]>>] = t[3]]
          PROVE  PartOrSame(h)
      <4>1. CASE h = <<t[1], t[2]>>
        <5>1. At(p, "insertParts") \/ At(p, "insertPartsOrRollback")
          BY <3>1, <3>5 DEF At, PartInserts
        <5>2. row'[h] = t[3]
          BY <1>1, <3>5, <4>1
        <5> QED
          BY <3>5, <4>1, <5>1, <5>2 DEF PartOrSame
      <4>2. CASE h # <<t[1], t[2]>>
        BY <1>1, <3>5, <4>2 DEF PartOrSame
      <4> QED
        BY <4>1, <4>2
    <3> QED
      BY <2>1, <2>2, <3>1, <3>2, <3>3, <3>4, <3>5, WorkRows
  <2> QED
    BY <1>1, <2>1, <2>2 DEF Next, vars, table, Begin, TakeLock, TakeOwnerLock, Each, Get, Return
<1>2. RowsInv /\ [Next]_vars =>
        [\A h \in DOMAIN row : row[h] # None /\ row'[h] # None => PartOrSame(h)]_vars
  BY <1>1
<1> QED
  BY <1>2, Invariance, PTL DEF Spec, RowsNeverReplaced, PartOrSame

\* The lock of the VPC, the cluster or the zone under which a create or a register
\* has found its owner's row keeps that row until the new row is written.
THEOREM InsertedUnderOwnerHolds == Spec => InsertedUnderOwner
<1>1. ASSUME RowsInv, [Next]_vars, NEW h \in DOMAIN row, row[h] = None, row'[h] # None
      PROVE  h[1] \in owners \cup {Conn}
  <2>1. CASE row' = row
    BY <1>1, <2>1
  <2>2. ASSUME NEW p \in Procs, Work(p)
        PROVE  h[1] \in owners \cup {Conn}
    <3> DEFINE j == job[p]
    <3>0. Typed /\ j.steps # <<>>
      BY <1>1, <2>2, WorkIs DEF RowsInv
    <3>1. /\ j \in Jobs /\ JobFits(mgr, j) /\ LocksFit(mgr, j, grant[p], ownerGrant[p], owners)
          /\ Typed /\ j.steps # <<>>
      BY <1>1, <3>0 DEF RowsInv, Typed, CallsFit
    <3>2. CASE Head(j.steps) \in Inserts /\ row' = [row EXCEPT ![Here(j)] = j.made]
      <4>1. h = Here(j)
        BY <1>1, <3>1, <3>2 DEF Typed
      <4>2. Ordered(mgr, j.steps) /\ Rest(j.steps, Inserts)
        BY <3>1, <3>2, Tails DEF JobFits, Shape
      <4>3. ~Rest(j.steps, {"owner"} \cup Checks \cup Gives \cup {"deleteRow"})
        BY <3>1, <3>2, <4>2, Tails DEF JobFits, Shape, Ordered
      <4>4. ~Rest(j.steps, {"owner"})
        BY <4>3, RestIn
      <4>5. j.owner \in owners \cup {Conn}
        BY <3>1, <4>2, <4>4 DEF LocksFit
      <4> QED
        BY <4>1, <4>5 DEF Here
    <3>3. CASE row' = [g \in DOMAIN row |-> IF Deletes(p, g) THEN None ELSE row[g]]
      BY <1>1, <3>3
    <3>4. CASE row' = [g \in DOMAIN row |-> IF g[1] = job[p].owner THEN None ELSE row[g]]
      BY <1>1, <3>4
    <3>5. ASSUME Head(j.steps) \in PartInserts, NEW t \in j.todo, t[1] = j.owner,
                 row' = [row EXCEPT ![<<t[1], t[2]>>] = t[3]]
          PROVE  h[1] \in owners \cup {Conn}
      <4>1. h = <<t[1], t[2]>>
        BY <1>1, <3>5
      <4>2. Ordered(mgr, j.steps) /\ Rest(j.steps, PartInserts)
        BY <3>1, <3>5, Tails DEF JobFits, Shape
      <4>3. ~Rest(j.steps, {"insertOwner", "insertOwnerOrUndo"})
        BY <3>1, <3>5, <4>2, Tails DEF JobFits, Shape, Ordered
      <4> QED
        BY <3>1, <3>5, <4>1, <4>2, <4>3 DEF LocksFit
    <3> QED
      BY <2>1, <2>2, <3>1, <3>2, <3>3, <3>4, <3>5, WorkRows
  <2> QED
    BY <1>1, <2>1, <2>2 DEF Next, vars, table, Begin, TakeLock, TakeOwnerLock, Each, Get, Return
<1>2. RowsInv /\ [Next]_vars =>
        [\A h \in DOMAIN row : row[h] = None /\ row'[h] # None => h[1] \in owners \cup {Conn}]_vars
  BY <1>1
<1> QED
  BY <1>2, Invariance, PTL DEF Spec, InsertedUnderOwner

-----------------------------------------------------------------------------
(* What a step does to the cloud, and what the steps outside Work do.      *)

\* The last step of a call is all that is left of it.
LEMMA LastStep ==
  ASSUME NEW s \in Seq(Steps), Len(s) = 1
  PROVE  \A S : Rest(s, S) <=> Head(s) \in S
<1>1. DOMAIN s = 1 .. Len(s)
  OBVIOUS
<1>2. DOMAIN s = {1}
  BY <1>1
<1>3. Head(s) = s[1]
  BY <1>1
<1> QED
  BY <1>2, <1>3 DEF Rest

\* A call that has just been given a resource goes on to its insert.
LEMMA GivenGoesOn ==
  ASSUME Typed, NEW p \in Procs, JobFits(mgr, job[p]), job[p].steps # <<>>,
         Head(job[p].steps) \in {"make", "replace"},
         NEW id \in Ids, GoOnWith(p, [job[p] EXCEPT !.made = id])
  PROVE  job'[p].made = id
<1> DEFINE j == job[p]
           k == [j EXCEPT !.made = id]
<1>1. j \in Jobs /\ j.steps \in Seq(Steps) /\ k.steps = j.steps
  BY DEF Typed, Jobs
<1>2. Left(mgr, j.kind, j.steps) /\ Rest(j.steps, Gives)
  BY <1>1, Tails DEF JobFits, Shape, Gives
<1>3. Rest(j.steps, Inserts) /\ Head(j.steps) \notin Inserts
  BY <1>2 DEF Left, Inserts
<1>4. Len(k.steps) # 1
  BY <1>1, <1>3, LastStep
<1>5. job' = [job EXCEPT ![p] = [k EXCEPT !.steps = Tail(k.steps)]]
  BY <1>4 DEF GoOnWith
<1>6. k \in Jobs /\ k.made = id
  BY <1>1 DEF Jobs
<1> QED
  BY <1>5, <1>6 DEF Jobs, Typed

\* A driver's delete takes one resource out of the cloud, or none.
LEMMA DriverMoves ==
  ASSUME Typed, NEW id \in Ids, NEW out, NEW asked, DriverDeletes(id, out, asked)
  PROVE  /\ \A i \in Ids : csp'[i] = csp[i] \/ (i = id /\ csp'[i] = None)
         /\ \A i \in released : i \in released' \/ csp'[i] = None
         /\ out \in {"ok", "lost"} => csp'[id] = None
         /\ asked => csp'[id] = None \/ id \in released'
<1>1. CASE Removes(out)
  <2>1. csp' = [csp EXCEPT ![id] = None] /\ released' = released \ {id}
    BY <1>1 DEF DriverDeletes
  <2> QED
    BY <2>1 DEF Typed
<1>2. CASE ~Removes(out)
  <2>1. csp' = csp /\ released \subseteq released' /\ (asked /\ Exists(id) => id \in released')
    BY <1>2 DEF DriverDeletes
  <2> QED
    BY <1>2, <2>1 DEF Removes, Exists
<1> QED
  BY <1>1, <1>2

\* What comes into the cloud is new, and in the hands of the call that made it, or
\* in the cluster that it made; what the driver was asked to delete stays so.
LEMMA CloudMoves ==
  ASSUME Typed, NEW p \in Procs, JobFits(mgr, job[p]), Work(p)
  PROVE  LET h == Head(job[p].steps)
         IN /\ \A id \in Ids : csp[id] = None /\ csp'[id] # None =>
                 Fresh(id) /\ (h = "makeOwner" \/ (h \in {"make", "replace"} /\ job'[p].made = id))
            /\ \A id \in released : id \in released' \/ csp'[id] = None
<1> DEFINE j == job[p]
           h == Head(j.steps)
           Done == /\ \A id \in Ids : csp[id] = None /\ csp'[id] # None =>
                        Fresh(id) /\ (h = "makeOwner" \/ (h \in {"make", "replace"} /\ job'[p].made = id))
                   /\ \A id \in released : id \in released' \/ csp'[id] = None
<1> SUFFICES Done
  OBVIOUS
<1>0. /\ j \in Jobs /\ j.steps # <<>>
      /\ h \in Drops \cup {"replace", "call"} => j.row \in Ids
      /\ h \in {"undo", "rollback"} => j.made \in Ids
      /\ h = "dropById" => j.id \in Ids
  BY DriverAsked, WorkIs DEF Typed
<1>1. CASE (\A id \in Ids : csp[id] = None => csp'[id] = None) /\ released \subseteq released'
  BY <1>1
<1>2. UNCHANGED cloud => Done
  BY <1>1 DEF cloud
<1> HIDE DEF Done
<1>3. CASE DBError(p) \/ CSPError(p)
  BY <1>2, <1>3 DEF DBError, CSPError
<1>4. CASE CheckOwner(p) \/ CheckOwnerFree(p) \/ CheckFree(p) \/ CheckFreeInOwner(p) \/ CheckFreeOrSame(p)
           \/ ReadRow(p) \/ Await(p) \/ Find(p) \/ FindOwner(p) \/ Call(p) \/ Gone(p) \/ ReadRows(p)
           \/ EachUnlocked(p) \/ DeleteOthers(p) \/ InsertOthers(p) \/ InsertOthersOrRollback(p) \/ Insert(p)
           \/ InsertOrUndo(p) \/ InsertParts(p) \/ DeleteRowsOfOwner(p)
  BY <1>2, <1>3, <1>4 DEF CheckOwner, CheckOwnerFree, CheckFree, CheckFreeInOwner, CheckFreeOrSame, Check, ReadRow,
     Await, Find, FindOwner, Call, Gone, ReadRows, EachUnlocked, DeleteOthers, InsertOthers,
     InsertOthersOrRollback, Insert, InsertOrUndo, InsertParts, DeleteRowsOfOwner, cloud
<1>5. CASE DeleteRows(p)
  BY <1>1, <1>2, <1>5 DEF DeleteRows, Release
<1>6. CASE Make(p)
  <2>1. h = "make"
    BY <1>6 DEF Make, At
  <2>2. ASSUME NEW id \in Ids, Fresh(id), csp' = [csp EXCEPT ![id] = j.owner], UNCHANGED released,
               GoOnWith(p, [j EXCEPT !.made = id])
        PROVE  Done
    <3>1. job'[p].made = id
      BY <1>0, <2>1, <2>2, GivenGoesOn
    <3>2. \A i \in Ids \ {id} : csp'[i] = csp[i]
      BY <2>2 DEF Typed
    <3> QED
      BY <2>1, <2>2, <3>1, <3>2 DEF Done
  <2> QED
    BY <1>2, <1>3, <1>6, <2>2 DEF Make
<1>7. CASE Replace(p)
  <2>1. h = "replace"
    BY <1>7 DEF Replace, At
  <2>2. ASSUME NEW id \in Ids, Fresh(id), Exists(j.row), csp' = [csp EXCEPT ![j.row] = None, ![id] = j.owner],
               released' = released \ {j.row}, GoOnWith(p, [j EXCEPT !.made = id])
        PROVE  Done
    <3>1. job'[p].made = id
      BY <1>0, <2>1, <2>2, GivenGoesOn
    <3>2. csp'[j.row] = None /\ \A i \in Ids \ {id, j.row} : csp'[i] = csp[i]
      BY <1>0, <2>1, <2>2 DEF Fresh, Exists, Typed
    <3> QED
      BY <1>0, <2>1, <2>2, <3>1, <3>2 DEF Done
  <2> QED
    BY <1>2, <1>3, <1>7, <2>2 DEF Replace
<1>8. ASSUME NEW id \in Ids, NEW out, NEW asked, DriverDeletes(id, out, asked)
      PROVE  Done
  <2>1. /\ \A i \in Ids : csp'[i] = csp[i] \/ (i = id /\ csp'[i] = None)
        /\ \A i \in released : i \in released' \/ csp'[i] = None
    BY <1>8, DriverMoves
  <2> QED
    BY <2>1 DEF Done
<1>9. CASE Drop(p) \/ DropById(p) \/ Undo(p) \/ Rollback(p)
  BY <1>0, <1>8, <1>9 DEF Drop, DropById, Undo, Rollback, At, Drops
<1>10. CASE DropOwner(p) \/ UndoOwner(p)
  <2>1. ASSUME NEW out, NEW asked, OwnerDeleted(j.owner, out, asked)  PROVE Done
    <3>1. CASE Removes(out)
      BY <2>1, <3>1 DEF OwnerDeleted, InOwner, Done, Typed
    <3>2. CASE ~Removes(out)
      BY <2>1, <3>2 DEF OwnerDeleted, Done
    <3> QED
      BY <3>1, <3>2
  <2> QED
    BY <1>10, <2>1 DEF DropOwner, UndoOwner
<1>11. CASE MakeOwner(p)
  <2>1. h = "makeOwner"
    BY <1>11 DEF MakeOwner, At
  <2>2. ASSUME NEW given \in PartsOf(j.owner, {id \in Ids : Fresh(id)}), UNCHANGED released,
               csp' = [id \in Ids |-> IF \E t \in given : t[3] = id THEN j.owner ELSE Elsewhere(j.owner)[id]]
        PROVE  Done
    <3>1. \A t \in given : Fresh(t[3])
      BY <2>2 DEF PartsOf
    <3>2. \A id \in Ids : csp[id] = None => Elsewhere(j.owner)[id] = None \/ csp[id] = j.owner
      BY DEF Elsewhere
    <3>3. j.owner # None
      <4>1. Rest(j.steps, OwnerSteps)
        BY <1>0, <2>1, Tails DEF JobFits, Shape, OwnerSteps, PartSteps
      <4> QED
        BY <4>1, ManagersAssumption DEF JobFits, Shape, Left
    <3> QED
      BY <2>1, <2>2, <3>1, <3>2, <3>3 DEF Done
  <2> QED
    BY <1>2, <1>3, <1>11, <2>2 DEF MakeOwner
<1>12. CASE InsertOwner(p)
  BY <1>1, <1>2, <1>12 DEF InsertOwner, Exists, cloud, Done
<1>13. CASE DeleteOwnerRow(p)
  <2>1. CASE csp' = Elsewhere(j.owner) /\ released \subseteq released'
    <3>1. j.owner # None
      <4>1. Rest(j.steps, OwnerSteps)
        BY <1>0, <1>13, Tails DEF DeleteOwnerRow, At, JobFits, Shape, OwnerSteps, PartSteps
      <4> QED
        BY <4>1, ManagersAssumption DEF JobFits, Shape, Left
    <3> QED
      BY <1>1, <2>1, <3>1 DEF Elsewhere
  <2> QED
    BY <1>2, <1>13, <2>1 DEF DeleteOwnerRow
<1> QED
  BY <1>4, <1>5, <1>6, <1>7, <1>9, <1>10, <1>11, <1>12, <1>13 DEF Work

\* The driver was asked to delete what a delete that goes on has read; what an
\* undo, or a rollback, has made; and an unregister leaves its resource on purpose.
LEMMA DriverWasAsked ==
  ASSUME Typed, NEW p \in Procs, JobFits(mgr, job[p]), Work(p)
  PROVE  LET j == job[p]
             h == Head(j.steps)
         IN /\ h \in Drops /\ mgr # "FILESYSTEM" /\ job'[p] # Answered => csp'[j.row] = None \/ j.row \in released'
            /\ h = "undo" => csp'[j.made] = None \/ j.made \in released'
            /\ h \in RowDeletes /\ j.kind = "unregister" /\ row' # row /\ j.row \in Ids =>
                 csp'[j.row] = None \/ j.row \in released'
<1> DEFINE j == job[p]
           h == Head(j.steps)
<1>0. /\ j \in Jobs /\ j.steps # <<>>
      /\ h \in Drops \cup {"replace", "call"} => j.row \in Ids
      /\ h \in {"undo", "rollback"} => j.made \in Ids
  BY DriverAsked, WorkIs DEF Typed
<1>1. ASSUME h \in Drops, mgr # "FILESYSTEM", job'[p] # Answered
      PROVE  csp'[j.row] = None \/ j.row \in released'
  <2>1. Drop(p) /\ \A r : ~Answer(p, r)
    BY <1>1, WorkIs, AnswerDoes
  <2>2. ~At(p, "dropIgnoringFalse")
    <3>1. ~Rest(j.steps, {"dropIgnoringFalse"}) /\ j.steps \in Seq(Steps)
      BY <1>1 DEF JobFits, Shape, Left
    <3> QED
      BY <3>1, Tails DEF At
  <2>3. PICK out \in Outcomes(j.row) :
          /\ DriverDeletes(j.row, out, out = "error" \/ j.force)
          /\ out \in {"ok", "notfound"} \/ j.force
    BY <2>1, <2>2 DEF Drop
  <2>4. out = "notfound" => csp[j.row] = None
    BY ManagersAssumption DEF Outcomes, Exists
  <2>5. /\ csp'[j.row] \in {csp[j.row], None}
        /\ out \in {"ok", "lost"} => csp'[j.row] = None
        /\ (out = "error" \/ j.force) => csp'[j.row] = None \/ j.row \in released'
    BY <1>0, <1>1, <2>3, DriverMoves
  <2> QED
    BY <2>3, <2>4, <2>5
<1>2. ASSUME h = "undo"  PROVE csp'[j.made] = None \/ j.made \in released'
  <2>1. Undo(p)
    BY <1>2, WorkIs
  <2> QED
    BY <1>0, <1>2, <2>1, DriverMoves DEF Undo
<1>3. ASSUME h \in RowDeletes, j.kind = "unregister", row' # row, j.row \in Ids
      PROVE  csp'[j.row] = None \/ j.row \in released'
  <2>1. DeleteRows(p)
    BY <1>3, WorkIs
  <2>2. Release(p)
    BY <1>3, <2>1 DEF DeleteRows
  <2> QED
    BY <1>3, <2>2 DEF Release, Exists
<1> QED
  BY <1>1, <1>2, <1>3

\* A call arrives: it has its steps before it, and nothing in its hands.
LEMMA BeginDoes ==
  ASSUME Typed, NEW p \in Procs, Begin(p)
  PROVE  /\ job[p] = NoJob /\ StartsWith(mgr, job'[p].kind, job'[p].steps)
         /\ job'[p].row = None /\ job'[p].made = None
         /\ ~Rest(job'[p].steps, OwnerLocks) => job'[p].owner = Conn
<1>1. PICK op \in Operations(mgr) :
        \E o \in OwnersOf(op), n \in NamesOf(op), id \in IdsOf(op), force \in ForcesOf(op) :
          job' = [job EXCEPT ![p] = [NoJob EXCEPT !.kind = op.kind, !.steps = op.steps, !.owner = o,
                                                  !.name = n, !.id = id, !.force = force]]
  BY DEF Begin
<1>2. PICK o \in OwnersOf(op), n \in NamesOf(op), id \in IdsOf(op), force \in ForcesOf(op) :
        job' = [job EXCEPT ![p] = [NoJob EXCEPT !.kind = op.kind, !.steps = op.steps, !.owner = o,
                                                !.name = n, !.id = id, !.force = force]]
  BY <1>1
<1>3. StartsWith(mgr, op.kind, op.steps)
  BY OperationsFit DEF Starts, Typed
<1>4. /\ job'[p].kind = op.kind /\ job'[p].steps = op.steps /\ job'[p].owner = o
      /\ job'[p].row = None /\ job'[p].made = None
  BY <1>2 DEF Typed, NoJob
<1>5. ~Rest(op.steps, OwnerLocks) => o = Conn
  <2>1. Takes(op, {"ownerLock", "ownerRLock"}) <=> Rest(op.steps, OwnerLocks)
    BY DEF Takes, Rest, OwnerLocks
  <2>2. op = RegisterSecurity => Takes(op, {"ownerLock", "ownerRLock"})
    BY DEF Takes, RegisterSecurity, Op
  <2> QED
    BY <2>1, <2>2 DEF OwnersOf
<1> QED
  BY <1>3, <1>4, <1>5 DEF Begin

Locking == OwnerLocks \cup {"lock", "rlock"}
OutsideWork(p) == Begin(p) \/ TakeLock(p) \/ TakeOwnerLock(p) \/ Each(p) \/ Get(p) \/ Return(p)

\* The steps outside Work leave the tables and the cloud alone.
LEMMA OtherSteps ==
  ASSUME RowsInv, NEW p \in Procs, OutsideWork(p)
  PROVE  /\ mgr' = mgr /\ row' = row /\ csp' = csp /\ released' = released
         /\ \A q \in Procs \ {p} : job'[q] = job[q]
         /\ \/ /\ job'[p] \in {NoJob, Answered}
               /\ job[p].made = None \/ (job[p].steps # <<>> /\ Head(job[p].steps) \in Locking)
            \/ job'[p].kind = "list" /\ job'[p].made = None /\ job[p].made = None
            \/ /\ job[p] = NoJob /\ StartsWith(mgr, job'[p].kind, job'[p].steps)
               /\ job'[p].row = None /\ job'[p].made = None
               /\ ~Rest(job'[p].steps, OwnerLocks) => job'[p].owner = Conn
            \/ GoesOn(job[p], job'[p]) /\ Head(job[p].steps) \in Locking
<1> DEFINE j == job[p]
           h == Head(j.steps)
<1>1. Typed /\ j \in Jobs /\ JobFits(mgr, j)
  BY DEF RowsInv, Typed, CallsFit
<1>2. CASE Begin(p)
  <2>1. \A q \in Procs \ {p} : job'[q] = job[q]
    BY <1>1, <1>2 DEF Begin, Typed
  <2> QED
    BY <1>1, <1>2, <2>1, BeginDoes DEF Begin, table, cloud
<1>3. CASE TakeLock(p) \/ TakeOwnerLock(p)
  <2>1. /\ j.steps # <<>> /\ h \in Locking /\ GoOn(p)
        /\ mgr' = mgr /\ row' = row /\ csp' = csp /\ released' = released
    BY <1>3 DEF TakeLock, TakeOwnerLock, At, OwnerLocks, Locking, table, cloud
  <2>2. (job'[p] = Answered \/ GoesOn(j, job'[p])) /\ \A q \in Procs \ {p} : job'[q] = job[q]
    BY <1>1, <2>1, GoOnDoes DEF Reads, Gives, OwnerLocks, Locking
  <2> QED
    BY <2>1, <2>2
<1>4. CASE Each(p) \/ Get(p)
  <2>1. /\ j.steps # <<>> /\ h \in {"each", "eachOrStub", "get", "getOrStub"}
        /\ mgr' = mgr /\ row' = row /\ csp' = csp /\ released' = released
    BY <1>4 DEF Each, Get, At, table, cloud
  <2>2. j.kind = "list" /\ j.made = None
    <3>1. Rest(j.steps, ListSteps)
      BY <1>1, <2>1, Tails DEF JobFits, Shape, ListSteps
    <3> QED
      BY <1>1, <3>1 DEF JobFits, Shape, Left
  <2>3. CASE GoOn(p) \/ \E r : Answer(p, r)
    <3>1. (job'[p] = Answered \/ GoesOn(j, job'[p])) /\ \A q \in Procs \ {p} : job'[q] = job[q]
      BY <1>1, <2>1, <2>3, GoOnDoes, AnswerDoes DEF Reads, Gives
    <3>2. GoesOn(j, job'[p]) => job'[p].kind = "list" /\ job'[p].made = None
      BY <2>1, <2>2 DEF GoesOn, Gives
    <3> QED
      BY <2>1, <2>2, <3>1, <3>2
  <2>4. CASE ~GoOn(p) /\ ~\E r : Answer(p, r)
    <3>1. PICK t \in j.todo, x \in {"get", "getOrStub"} :
            job' = [job EXCEPT ![p] = [j EXCEPT !.steps = <<x>> \o j.steps, !.todo = j.todo \ {t},
                                                !.owner = t[1], !.name = t[2], !.row = t[3]]]
      BY <1>4, <2>4 DEF Each, Get
    <3>2. job'[p].kind = "list" /\ job'[p].made = None
      BY <1>1, <2>2, <3>1 DEF Jobs, Typed
    <3>3. \A q \in Procs \ {p} : job'[q] = job[q]
      BY <1>1, <3>1 DEF Typed
    <3> QED
      BY <2>1, <2>2, <3>1, <3>2, <3>3
  <2> QED
    BY <2>3, <2>4
<1>5. CASE Return(p)
  <2>1. job'[p] = NoJob /\ \A q \in Procs \ {p} : job'[q] = job[q]
    BY <1>1, <1>5 DEF Return, Typed
  <2>2. j.made = None
    BY <1>5, AnsweredFits DEF Return
  <2> QED
    BY <1>5, <2>1, <2>2 DEF Return, table, cloud
<1> QED
  BY <1>2, <1>3, <1>4, <1>5 DEF OutsideWork

-----------------------------------------------------------------------------
(* Nothing that Spider made is lost.                                       *)

\* Where there are no owners, every row is the connection's.
ConnOnly == mgr \in NoOwners => \A h \in DOMAIN row : row[h] # None => h[1] = Conn

\* A call that will take a row out of the table has read it, and holds its name;
\* if it is a delete, the driver was asked; and nothing but the insert comes
\* between what the driver made and the answer.
Careful(m, j, r, c, rel) ==
  /\ m \in NoOwners /\ j.kind \in Named => j.owner = Conn
  /\ m \notin Careless =>
       /\ j.kind \in {"delete", "unregister"} /\ j.row # None /\ Rest(j.steps, RowDeletes) => r[Here(j)] = j.row
       /\ j.kind = "delete" /\ ~Rest(j.steps, Reads \cup Drops) /\ Rest(j.steps, RowDeletes) =>
            j.row \in rel \/ c[j.row] = None
       /\ j.kind = "create" /\ j.made # None => ~Rest(j.steps, Steps \ {"insertOrUndo", "undo"})

\* NothingLost, where only the call that made a resource has it in hand: another
\* that registers it may still fail.
Held ==
  mgr \notin Careless =>
    \A id \in Ids \ (Foreign \cup released) :
      Exists(id) => \/ \E h \in DOMAIN row : row[h] = id
                    \/ \E p \in Procs : job[p].kind = "create" /\ job[p].made = id

KeptInv == ConnOnly /\ Held /\ \A p \in Procs : Careful(mgr, job[p], row, csp, released)

\* What a call that deletes, or gives out, a name finds in the table under it, no
\* other call changes.
LEMMA RowHeld ==
  ASSUME RowsInv, mgr \notin Careless, NEW p \in Procs, Work(p), NEW q \in Procs, q # p,
         grant[q] = <<job[q].name, "W">>, job[q].name \in Names, NEW h \in DOMAIN row, h[2] = job[q].name
  PROVE  row'[h] = row[h]
<1> DEFINE j == job[p]
<1>1. /\ Typed /\ Exclusive /\ j \in Jobs /\ JobFits(mgr, j) /\ LocksFit(mgr, j, grant[p], ownerGrant[p], owners)
      /\ j.steps \in Seq(Steps) /\ j.steps # <<>> /\ Ordered(mgr, j.steps) /\ Left(mgr, j.kind, j.steps)
      /\ mgr \notin Parts
  BY WorkIs DEF RowsInv, Typed, CallsFit, JobFits, Shape, Parts, Careless
<1>2. ~Guarded(mgr, j, grant[p], ownerGrant[p]) \/ j.name # job[q].name
  <2>1. ASSUME j.name = job[q].name, grant[p] = <<j.name, "W">>  PROVE FALSE
    <3>1. grant[p] = grant[q] /\ grant[q] # None
      BY <2>1, ManagersAssumption
    <3>2. NameLock!Conflict(grant[p], grant[q])
      BY <2>1 DEF NameLock!Conflict
    <3> QED
      BY <1>1, <3>1, <3>2 DEF Exclusive, Apart
  <2> QED
    BY <1>1, <2>1 DEF Guarded
<1>3. ASSUME Head(j.steps) \in Inserts \cup RowDeletes
      PROVE  j.name # job[q].name
  <2>1. Head(j.steps) \in Checks \cup Reads \cup Gives \cup Inserts \cup RowDeletes \cup Drops
    BY <1>3
  <2>2. ~Rest(j.steps, {LockStep(mgr)})
    BY <1>1, <2>1, Tails DEF Ordered
  <2>3. CASE Head(j.steps) \in Inserts
    <3>1. Rest(j.steps, Inserts)
      BY <1>1, <2>3, Tails
    <3>2. Guarded(mgr, j, grant[p], ownerGrant[p])
      BY <1>1, <2>2, <3>1, InsertsGuarded
    <3> QED
      BY <1>1, <1>2, <3>2
  <2>4. CASE Head(j.steps) \in RowDeletes
    <3>1. Rest(j.steps, RowDeletes)
      BY <1>1, <2>4, Tails
    <3>2. j.kind \in {"delete", "unregister"}
      BY <1>1, <3>1 DEF Left, Careless
    <3>3. Writes(mgr, j)
      BY <3>2 DEF Writes, Writer, Careless
    <3>4. Guarded(mgr, j, grant[p], ownerGrant[p])
      BY <1>1, <2>2, <3>3 DEF LocksFit
    <3> QED
      BY <1>1, <1>2, <3>4
  <2> QED
    BY <1>3, <2>3, <2>4
<1>4. CASE row' = row
  BY <1>4
<1>5. CASE Head(j.steps) \in Inserts /\ row' = [row EXCEPT ![Here(j)] = j.made]
  BY <1>1, <1>3, <1>5 DEF Here, Typed
<1>6. CASE Head(j.steps) \in RowDeletes /\ row' = [g \in DOMAIN row |-> IF Deletes(p, g) THEN None ELSE row[g]]
  BY <1>3, <1>6 DEF Deletes
<1>7. Head(j.steps) # "deleteRowsOfOwner"
  <2>1. mgr \notin Careless => ~Rest(j.steps, {"rollback", "replace", "deleteRowsOfOwner"})
    BY <1>1 DEF Left
  <2> QED
    BY <1>1, <2>1, Tails
<1>8. Head(j.steps) \notin PartInserts
  <2>1. ~Rest(j.steps, PartSteps)
    BY <1>1 DEF Left
  <2> QED
    BY <1>1, <2>1, Tails DEF PartSteps
<1> QED
  BY <1>1, <1>4, <1>5, <1>6, <1>7, <1>8, WorkRows

\* What p does leaves the other calls as careful as they were.
LEMMA CarefulOther ==
  ASSUME RowsInv, NEW p \in Procs, Work(p), NEW q \in Procs, q # p, Careful(mgr, job[q], row, csp, released)
  PROVE  Careful(mgr, job[q], row', csp', released')
<1> DEFINE k == job[q]
<1>1. /\ Typed /\ k \in Jobs /\ JobFits(mgr, k) /\ LocksFit(mgr, k, grant[q], ownerGrant[q], owners)
      /\ JobFits(mgr, job[p])
  BY DEF RowsInv, Typed, CallsFit
<1>2. ASSUME mgr \notin Careless, k.kind \in {"delete", "unregister"}, k.row # None, Rest(k.steps, RowDeletes)
      PROVE  row'[Here(k)] = k.row
  <2>1. row[Here(k)] = k.row
    BY <1>2 DEF Careful
  <2>2. Writes(mgr, k) /\ mgr \notin Parts /\ k.name \in Names /\ k.owner \in Homes
    BY <1>1, <1>2 DEF Writes, Writer, Careless, Parts, JobFits, Named
  <2>3. ~Rest(k.steps, {LockStep(mgr)})
    BY <1>1, <1>2 DEF JobFits
  <2>4. grant[q] = <<k.name, "W">>
    BY <1>1, <2>2, <2>3 DEF LocksFit, Guarded
  <2>5. Here(k) \in DOMAIN row /\ Here(k)[2] = k.name
    BY <1>1, <2>2 DEF Typed, Here
  <2>6. row'[Here(k)] = row[Here(k)]
    BY <1>2, <2>2, <2>4, <2>5, RowHeld
  <2> QED
    BY <2>1, <2>6
<1>3. ASSUME mgr \notin Careless, k.kind = "delete", ~Rest(k.steps, Reads \cup Drops), Rest(k.steps, RowDeletes)
      PROVE  k.row \in released' \/ csp'[k.row] = None
  <2>1. k.row \in released \/ csp[k.row] = None
    BY <1>3 DEF Careful
  <2>2. k.row \in Ids
    <3>1. ~Rest(k.steps, Reads) /\ Rest(k.steps, {"call", "replace"} \cup Drops \cup RowDeletes)
      BY <1>3 DEF Rest
    <3> QED
      BY <1>1, <1>3, <3>1 DEF JobFits
  <2>3. ~Fresh(k.row)
    BY DEF Fresh
  <2> QED
    BY <1>1, <2>1, <2>2, <2>3, CloudMoves
<1> QED
  BY <1>2, <1>3 DEF Careful

\* And p itself stays careful.
LEMMA CarefulSelf ==
  ASSUME RowsInv, ConnOnly, NEW p \in Procs, Work(p), Careful(mgr, job[p], row, csp, released)
  PROVE  Careful(mgr, job'[p], row', csp', released')
<1> DEFINE j == job[p]
           k == job'[p]
           h == Head(j.steps)
<1>1. /\ Typed /\ j \in Jobs /\ JobFits(mgr, j) /\ Moves(j, k) /\ j.steps # <<>> /\ j.steps \in Seq(Steps)
      /\ Ordered(mgr, j.steps) /\ Left(mgr, j.kind, j.steps)
  BY WorkMoves DEF RowsInv, Typed, CallsFit, JobFits, Shape
<1>3. CASE k = Answered
  BY <1>3, AnsweredFits DEF Careful, Named
<1>4. CASE Undoes(j, k)
  <2>1. k.kind = "create" /\ j.kind = "create" /\ k.owner = j.owner /\ ~Rest(k.steps, Steps \ {"undo"})
    <3>1. k.kind = "create" /\ j.kind = "create" /\ ~Rest(k.steps, Steps \ {"undo"})
      BY <1>1, <1>4, DivertedFits
    <3>2. k.owner = j.owner
      BY <1>1, <1>4 DEF Undoes, Jobs
    <3> QED
      BY <3>1, <3>2
  <2>2. ~Rest(k.steps, Steps \ {"insertOrUndo", "undo"})
    BY <2>1 DEF Rest
  <2> QED
    BY <2>1, <2>2 DEF Careful, Named
<1>5. CASE RollsBack(j, k)
  <2>1. k.kind = "create" /\ j.kind = "create" /\ k.owner = j.owner
    BY <1>1, <1>5, DivertedFits DEF RollsBack, Jobs
  <2>2. mgr = "CLUSTER"
    <3>1. Rest(j.steps, {"rollback", "insertOthersOrRollback"})
      BY <1>1, <1>5, Tails DEF RollsBack
    <3> QED
      BY <1>1, <3>1 DEF Left
  <2> QED
    BY <2>1, <2>2 DEF Careful, Careless, Named
<1>2. CASE Turns(j, k)
  BY <1>1, <1>2, OwnerTurns DEF Careful, Named
<1>6. CASE GoesOn(j, k) /\ k # Answered
  <2>0. /\ k.kind = j.kind /\ \A S : Rest(j.steps, S) <=> h \in S \/ Rest(k.steps, S)
        /\ \A A, B : Order(j.steps, A, B) /\ h \in B => ~Rest(j.steps, A)
        /\ \A S : Once(j.steps, S) /\ h \in S => ~Rest(k.steps, S)
        /\ h \in Steps
    BY <1>1, <1>6, Steppings
  <2>1. ASSUME mgr \in NoOwners, k.kind \in Named
        PROVE  k.owner = Conn
    <3>1. CASE h = "row"
      <4>1. k.owner \in Homes /\ row[<<k.owner, k.name>>] = k.row /\ k.row \in Ids
        BY <1>1, <1>6, <3>1, WorkChecks DEF Reads, GoesOn
      <4>2. <<k.owner, k.name>> \in DOMAIN row
        BY <1>1, <1>6, <2>0, <2>1, <4>1 DEF JobFits, GoesOn, Typed
      <4> QED
        BY <2>1, <4>1, <4>2, ManagersAssumption DEF ConnOnly
    <3>2. CASE h # "row"
      BY <1>6, <2>0, <2>1, <3>2 DEF GoesOn, Careful
    <3> QED
      BY <3>1, <3>2
  <2>2. ASSUME mgr \notin Careless, k.kind \in {"delete", "unregister"}, k.row # None, Rest(k.steps, RowDeletes)
        PROVE  row'[Here(k)] = k.row
    <3>1. h \notin Inserts \cup PartInserts /\ h # "deleteRowsOfOwner"
      BY <1>1, <2>0, <2>2 DEF Left, OwnerSteps, PartSteps
    <3>2. h \notin RowDeletes
      BY <1>1, <2>0, <2>2 DEF Ordered
    <3>3. row' = row
      BY <1>1, <3>1, <3>2, WorkRows
    <3>4. CASE h \in Reads
      BY <1>1, <1>6, <3>3, <3>4, WorkChecks DEF Here
    <3>5. CASE h \notin Reads
      <4>1. k.row = j.row /\ Here(k) = Here(j)
        BY <1>6, <3>1, <3>5 DEF GoesOn, Here, Inserts, Reads
      <4>2. row[Here(j)] = j.row
        BY <2>0, <2>2, <4>1 DEF Careful
      <4> QED
        BY <3>3, <4>1, <4>2
    <3> QED
      BY <3>4, <3>5
  <2>3. ASSUME mgr \notin Careless, k.kind = "delete", ~Rest(k.steps, Reads \cup Drops), Rest(k.steps, RowDeletes)
        PROVE  k.row \in released' \/ csp'[k.row] = None
    <3>1. ~Rest(k.steps, Drops) /\ h \notin Reads /\ h # "insert" /\ mgr # "FILESYSTEM"
      <4>1. ~Rest(k.steps, Drops)
        BY <2>3 DEF Rest
      <4>2. h \in Reads => Rest(j.steps, Drops) /\ h \notin Drops
        BY <1>1, <2>0, <2>3 DEF Left, Reads, Drops
      <4>3. h # "insert"
        BY <1>1, <2>0, <2>3 DEF Left, Inserts
      <4> QED
        BY <2>0, <2>3, <4>1, <4>2, <4>3 DEF Careless
    <3>2. k.row = j.row
      BY <1>6, <3>1 DEF GoesOn
    <3>3. CASE h \in Drops
      BY <1>1, <1>6, <3>1, <3>2, <3>3, DriverWasAsked
    <3>4. CASE h \notin Drops
      <4>1. ~Rest(j.steps, Reads \cup Drops) /\ Rest(j.steps, RowDeletes)
        BY <2>0, <2>3, <3>1, <3>4
      <4>2. j.row \in released \/ csp[j.row] = None
        BY <2>0, <2>3, <4>1 DEF Careful
      <4>3. j.row \in Ids
        <5>1. ~Rest(j.steps, Reads) /\ Rest(j.steps, {"call", "replace"} \cup Drops \cup RowDeletes)
          BY <4>1 DEF Rest
        <5> QED
          BY <1>1, <2>0, <2>3, <5>1 DEF JobFits
      <4>4. ~Fresh(j.row)
        BY DEF Fresh
      <4> QED
        BY <1>1, <3>2, <4>2, <4>3, <4>4, CloudMoves
    <3> QED
      BY <3>3, <3>4
  <2>4. ASSUME mgr \notin Careless, k.kind = "create", k.made # None
        PROVE  ~Rest(k.steps, Steps \ {"insertOrUndo", "undo"})
    <3>1. CASE h \in Gives
      <4>1. /\ ~Rest(j.steps, Steps \ (Gives \cup Inserts \cup {"insertOthers"})) /\ ~Rest(k.steps, Gives)
            /\ ~Rest(j.steps, {"insert"}) /\ ~Rest(j.steps, {"insertOthers"})
        BY <1>1, <2>0, <2>4, <3>1 DEF Ordered, Left
      <4>2. /\ ~Rest(k.steps, Steps \ (Gives \cup Inserts \cup {"insertOthers"}))
            /\ ~Rest(k.steps, {"insert"}) /\ ~Rest(k.steps, {"insertOthers"})
        BY <2>0, <4>1
      <4> QED
        BY <4>1, <4>2 DEF Rest, Inserts
    <3>2. CASE h \notin Gives
      <4>1. k.made = j.made
        BY <1>6, <3>2 DEF GoesOn
      <4> QED
        BY <2>0, <2>4, <4>1 DEF Careful
    <3> QED
      BY <3>1, <3>2
  <2> QED
    BY <2>1, <2>2, <2>3, <2>4 DEF Careful
<1> QED
  BY <1>1, <1>2, <1>3, <1>4, <1>5, <1>6 DEF Moves

\* A step that works loses nothing.
LEMMA WorkLosesNothing ==
  ASSUME RowsInv, KeptInv, NEW p \in Procs, Work(p)
  PROVE  (ConnOnly /\ Held)'
<1> DEFINE j == job[p]
           h == Head(j.steps)
<1>1. /\ Typed /\ j \in Jobs /\ JobFits(mgr, j) /\ FreeFits(mgr, j, row) /\ Moves(j, job'[p]) /\ j.steps # <<>>
      /\ j.steps \in Seq(Steps) /\ Ordered(mgr, j.steps) /\ Left(mgr, j.kind, j.steps)
      /\ mgr' = mgr /\ \A q \in Procs \ {p} : job'[q] = job[q]
  BY WorkMoves DEF RowsInv, Typed, CallsFit, JobFits, Shape
<1>2. ConnOnly /\ Held /\ Careful(mgr, j, row, csp, released)
  BY DEF KeptInv
<1>3. /\ h \in Steps /\ \A S : Rest(j.steps, S) <=> h \in S \/ Rest(Tail(j.steps), S)
      /\ \A A, B : Order(j.steps, A, B) /\ h \in B => ~Rest(j.steps, A)
  BY <1>1, Tails
<1>4. h \in Inserts => j.kind \in {"register", "create", "change"}
  BY <1>1, <1>3 DEF Left
<1>5. ConnOnly'
  <2> SUFFICES ASSUME mgr \in NoOwners, NEW g \in DOMAIN row', row'[g] # None  PROVE g[1] = Conn
    BY <1>1 DEF ConnOnly
  <2>1. CASE row'[g] = row[g] /\ g \in DOMAIN row
    BY <1>2, <2>1 DEF ConnOnly
  <2>2. CASE h \in Inserts /\ g = Here(j)
    BY <1>2, <1>4, <2>2 DEF Careful, Named, Here
  <2>3. h \notin PartInserts
    BY <1>1, <1>3 DEF Left, PartSteps, Parts, NoOwners
  <2> QED
    BY <1>1, <2>1, <2>2, <2>3, WorkRows DEF Typed
<1>6. Held'
  <2> SUFFICES ASSUME mgr \notin Careless, NEW id \in Ids \ (Foreign \cup released'), csp'[id] # None
               PROVE  \/ \E g \in DOMAIN row' : row'[g] = id
                      \/ \E q \in Procs : job'[q].kind = "create" /\ job'[q].made = id
    BY <1>1 DEF Held, Exists
  <2>0. h \notin PartSteps /\ h # "replace"
    BY <1>1, <1>3 DEF Left, Parts, Careless
  <2>1. CASE csp[id] = None
    <3>1. h = "make" /\ job'[p].made = id
      BY <1>1, <2>0, <2>1, CloudMoves DEF PartSteps
    <3>2. j.kind = "create"
      BY <1>1, <1>3, <3>1 DEF Left
    <3>3. job'[p] # Answered /\ ~Turns(j, job'[p]) /\ ~Undoes(j, job'[p]) /\ ~RollsBack(j, job'[p])
      BY <3>1, AnsweredFits, ManagersAssumption DEF Turns, Undoes, RollsBack, PartInserts
    <3>4. job'[p].kind = "create"
      BY <1>1, <3>2, <3>3 DEF Moves, GoesOn
    <3> QED
      BY <3>1, <3>4
  <2>2. ASSUME csp[id] # None
        PROVE  \/ \E g \in DOMAIN row' : row'[g] = id
               \/ \E q \in Procs : job'[q].kind = "create" /\ job'[q].made = id
    <3>1. id \notin released
      BY <1>1, CloudMoves
    <3>2. \/ \E g \in DOMAIN row : row[g] = id
          \/ \E q \in Procs : job[q].kind = "create" /\ job[q].made = id
      BY <1>2, <2>2, <3>1 DEF Held, Exists
    <3>3. ASSUME NEW g \in DOMAIN row, row[g] = id, row'[g] # id
          PROVE  FALSE
      <4>1. g \in Homes \X Names /\ id # None
        BY <1>1, ManagersAssumption DEF Typed
      <4>2. CASE h \in Inserts
        <5>1. ~Rest(j.steps, {"owner"} \cup Checks \cup Gives \cup {"deleteRow"}) /\ Rest(j.steps, Inserts)
          BY <1>1, <1>3, <4>2 DEF Ordered
        <5>2. ~Rest(j.steps, Checks \cup {"deleteRow"})
          BY <5>1 DEF Rest
        <5>3. row[Here(j)] = None
          BY <1>1, <5>1, <5>2 DEF FreeFits, Checked
        <5>4. h \notin RowDeletes /\ h # "deleteRowsOfOwner"
          BY <4>2 DEF Inserts, RowDeletes
        <5>5. row' = row \/ row' = [row EXCEPT ![Here(j)] = j.made]
          BY <1>1, <2>0, <5>4, WorkRows DEF PartSteps
        <5> QED
          BY <3>3, <4>1, <5>3, <5>5
      <4>3. CASE h \in RowDeletes
        <5>1. h \notin Inserts /\ h # "deleteRowsOfOwner"
          BY <4>3 DEF Inserts, RowDeletes
        <5>2. row' # row /\ Deletes(p, g)
          BY <1>1, <2>0, <3>3, <5>1, WorkRows DEF PartSteps
        <5>3. j.kind \in {"delete", "unregister"} /\ Rest(j.steps, RowDeletes)
          BY <1>1, <1>3, <4>3 DEF Left, Careless
        <5>4. ~Rest(j.steps, Reads) /\ ~Rest(j.steps, Drops)
          BY <1>1, <1>3, <4>3 DEF Ordered
        <5>5. j.row \in Ids
          <6>1. Rest(j.steps, {"call", "replace"} \cup Drops \cup RowDeletes)
            BY <5>3, RestIn
          <6> QED
            BY <1>1, <5>3, <5>4, <6>1 DEF JobFits
        <5>6. row[Here(j)] = j.row
          BY <1>2, <5>3, <5>5, ManagersAssumption DEF Careful
        <5>7. g = Here(j)
          <6>1. CASE mgr \in NoOwners
            <7>1. g[1] = Conn
              BY <1>2, <3>3, <4>1, <6>1 DEF ConnOnly
            <7>2. j.owner = Conn
              BY <1>2, <5>3, <6>1 DEF Careful, Named
            <7> QED
              BY <4>1, <5>2, <7>1, <7>2 DEF Deletes, Here
          <6>2. CASE mgr = "SG"
            <7>1. h = "deleteRow"
              BY <1>1, <1>3, <4>3, <6>2 DEF Left, RowDeletes
            <7> QED
              BY <1>1, <4>1, <5>2, <7>1 DEF Deletes, Here, At
          <6> QED
            BY <1>1, <6>1, <6>2 DEF Typed, ManagerNames, NoOwners, Careless
        <5>8. j.row = id
          BY <3>3, <5>6, <5>7
        <5>9. CASE j.kind = "delete"
          <6>1. ~Rest(j.steps, Reads \cup Drops)
            BY <5>4 DEF Rest
          <6> QED
            BY <1>2, <2>2, <3>1, <5>3, <5>8, <5>9, <6>1 DEF Careful
        <5>10. CASE j.kind = "unregister"
          BY <1>1, <4>3, <5>2, <5>5, <5>8, <5>10, DriverWasAsked
        <5> QED
          BY <5>3, <5>9, <5>10
      <4>4. h # "deleteRowsOfOwner"
        <5>1. ~Rest(j.steps, {"rollback", "replace", "deleteRowsOfOwner"})
          BY <1>1 DEF Left
        <5> QED
          BY <1>3, <5>1
      <4> QED
        BY <1>1, <2>0, <3>3, <4>2, <4>3, <4>4, WorkRows DEF PartSteps
    <3>4. ASSUME j.kind = "create", j.made = id
          PROVE  (job'[p].kind = "create" /\ job'[p].made = id) \/ \E g \in DOMAIN row' : row'[g] = id
      <4>1. ~Rest(j.steps, Steps \ {"insertOrUndo", "undo"})
        BY <1>2, <3>4, ManagersAssumption DEF Careful
      <4>2. h \in {"insertOrUndo", "undo"}
        BY <1>3, <4>1
      <4>3. h # "undo"
        BY <1>1, <3>4, DriverWasAsked
      <4>4. InsertOrUndo(p)
        BY <4>2, <4>3, WorkIs DEF Inserts
      <4>5. CASE Divert(p, <<"undo">>)
        BY <1>1, <3>4, <4>5 DEF Divert, Typed, Jobs
      <4>6. CASE row' = [row EXCEPT ![<<j.owner, j.name>>] = j.made]
        <5>1. Here(j) \in Homes \X Names
          <6>1. j.kind \in Named
            BY <1>4, <4>2, <4>3 DEF Inserts, Named
          <6> QED
            BY <1>1, <6>1 DEF JobFits, Here
        <5>2. Here(j) \in DOMAIN row' /\ row'[Here(j)] = id
          BY <1>1, <3>4, <4>6, <5>1 DEF Here, Typed
        <5> QED
          BY <5>2
      <4> QED
        BY <4>4, <4>5, <4>6 DEF InsertOrUndo
    <3>5. DOMAIN row' = DOMAIN row
      BY <1>1, WorkRows DEF Typed
    <3> QED
      BY <1>1, <3>2, <3>3, <3>4, <3>5
  <2> QED
    BY <2>1, <2>2
<1> QED
  BY <1>5, <1>6

\* Nor does one that takes locks, begins a call, lists or answers.
LEMMA OutsideWorkKeeps ==
  ASSUME RowsInv, KeptInv, NEW p \in Procs, OutsideWork(p)
  PROVE  KeptInv'
<1> DEFINE j == job[p]
           k == job'[p]
           h == Head(j.steps)
<1>1. /\ mgr' = mgr /\ row' = row /\ csp' = csp /\ released' = released
      /\ \A q \in Procs \ {p} : job'[q] = job[q]
  BY OtherSteps
<1>2. /\ Typed /\ j \in Jobs /\ JobFits(mgr, j) /\ Careful(mgr, j, row, csp, released)
      /\ ConnOnly /\ Held
  BY DEF RowsInv, Typed, CallsFit, KeptInv
<1>3. mgr \notin Careless /\ j.kind = "create" /\ j.made # None => ~(j.steps # <<>> /\ h \in Locking)
  <2> SUFFICES ASSUME mgr \notin Careless, j.kind = "create", j.made # None, j.steps # <<>>, h \in Locking
               PROVE  FALSE
    OBVIOUS
  <2>1. ~Rest(j.steps, Steps \ {"insertOrUndo", "undo"})
    BY <1>2 DEF Careful
  <2>2. j.steps \in Seq(Steps) /\ h \in Steps \ {"insertOrUndo", "undo"}
    BY <1>2 DEF JobFits, Shape, Locking, OwnerLocks, Steps
  <2> QED
    BY <2>1, <2>2, Tails
<1>4. Careful(mgr, k, row, csp, released)
  <2>1. CASE k \in {NoJob, Answered}
    BY <1>2, <2>1, AnsweredFits DEF Careful, Named
  <2>2. CASE k.kind = "list" /\ k.made = None
    BY <1>2, <2>2 DEF Careful, Named
  <2>3. CASE /\ StartsWith(mgr, k.kind, k.steps) /\ k.row = None /\ k.made = None
             /\ ~Rest(k.steps, OwnerLocks) => k.owner = Conn
    <3>1. mgr \in NoOwners => k.owner = Conn
      BY <2>3 DEF StartsWith
    <3>2. k.kind = "delete" => Rest(k.steps, Reads \cup Drops)
      BY <2>3 DEF StartsWith, Rest
    <3> QED
      BY <1>2, <2>3, <3>1, <3>2 DEF Careful
  <2>4. CASE GoesOn(j, k) /\ h \in Locking
    <3>1. /\ k.kind = j.kind /\ Here(k) = Here(j) /\ k.owner = j.owner /\ k.row = j.row /\ k.made = j.made
          /\ j.steps # <<>>
      BY <2>4 DEF GoesOn, Locking, OwnerLocks, Reads, Gives, Here
    <3>2. \A S : Rest(j.steps, S) <=> h \in S \/ Rest(k.steps, S)
      BY <1>2, <2>4, Steppings
    <3>3. h \notin Reads \cup Drops \cup RowDeletes
      BY <2>4 DEF Locking, OwnerLocks, Reads, Drops, RowDeletes
    <3> QED
      BY <1>2, <3>1, <3>2, <3>3 DEF Careful
  <2> QED
    BY <2>1, <2>2, <2>3, <2>4, OtherSteps
<1>5. mgr \notin Careless => ~(j.kind = "create" /\ j.made # None)
  <2>1. NoJob.made = None /\ (GoesOn(j, k) => j.steps # <<>>)
    BY DEF NoJob, GoesOn
  <2>2. \/ j.made = None \/ (j.steps # <<>> /\ h \in Locking) \/ (j = NoJob /\ k.made = None)
        \/ (GoesOn(j, k) /\ h \in Locking)
    BY OtherSteps
  <2> QED
    BY <1>2, <1>3, <2>1, <2>2
<1>6. ConnOnly'
  BY <1>1, <1>2 DEF ConnOnly
<1>7. Held'
  <2> SUFFICES ASSUME mgr \notin Careless, NEW id \in Ids \ (Foreign \cup released), csp[id] # None
               PROVE  \/ \E g \in DOMAIN row : row[g] = id
                      \/ \E q \in Procs : job'[q].kind = "create" /\ job'[q].made = id
    BY <1>1 DEF Held, Exists
  <2>1. \/ \E g \in DOMAIN row : row[g] = id
        \/ \E q \in Procs : job[q].kind = "create" /\ job[q].made = id
    BY <1>2 DEF Held, Exists
  <2> QED
    BY <1>1, <1>5, <2>1, ManagersAssumption
<1>8. \A q \in Procs : Careful(mgr, job'[q], row, csp, released)
  BY <1>1, <1>4 DEF KeptInv
<1> QED
  BY <1>1, <1>6, <1>7, <1>8 DEF KeptInv

\* KeptInv holds at the start.
LEMMA KeptInitially == Init => KeptInv
<1> SUFFICES ASSUME Init  PROVE KeptInv
  OBVIOUS
<1>1. ConnOnly
  BY DEF Init, ConnOnly
<1>2. Held
  BY ManagersAssumption DEF Init, Held, Exists
<1>3. \A p \in Procs : Careful(mgr, job[p], row, csp, released)
  BY AnsweredFits DEF Init, Careful, Named
<1> QED
  BY <1>1, <1>2, <1>3 DEF KeptInv

\* Every step keeps it.
LEMMA KeptNext == RowsInv /\ KeptInv /\ [Next]_vars => KeptInv'
<1> SUFFICES ASSUME RowsInv, KeptInv, [Next]_vars  PROVE KeptInv'
  OBVIOUS
<1>1. CASE UNCHANGED vars
  BY <1>1 DEF vars, table, cloud, KeptInv, ConnOnly, Held, Exists
<1>2. ASSUME NEW p \in Procs, Work(p)
      PROVE  KeptInv'
  <2>1. mgr' = mgr /\ \A q \in Procs \ {p} : job'[q] = job[q]
    BY <1>2, WorkMoves DEF RowsInv, CallsFit
  <2>2. \A q \in Procs : Careful(mgr, job'[q], row', csp', released')
    BY <1>2, <2>1, CarefulOther, CarefulSelf DEF KeptInv
  <2>3. (ConnOnly /\ Held)'
    BY <1>2, WorkLosesNothing
  <2> QED
    BY <2>1, <2>2, <2>3 DEF KeptInv
<1> QED
  BY <1>1, <1>2, OutsideWorkKeeps DEF Next, OutsideWork

\* What Spider made, with a careful manager, and no driver was asked to delete, has a
\* row or is in the hands of a call: a create that fails undoes what it did, and no
\* delete removes the row of what still exists (CreateKey, DeleteKey and so on).
THEOREM NothingLostHolds == Spec => []NothingLost
<1>1. KeptInv => NothingLost
  BY DEF KeptInv, Held, NothingLost
<1> QED
  BY <1>1, Invariance, KeptInitially, KeptNext, PTL DEF Spec
=============================================================================
