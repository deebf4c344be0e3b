-------------------------- MODULE LockOrderProofs --------------------------
(* If no request names more than one security group and one key pair, the  *)
(* calls never deadlock, whatever their number and the names they use:     *)
(* every plan then takes the tables in the order of Rank.                  *)
EXTENDS LockOrder, TLAPS

Kinds == {"R", "W"}

Rank(l) == IF l[1] \in {"vpc", "vm"} THEN 0 ELSE IF l[1] = "sg" THEN 1 ELSE IF l[1] = "key" THEN 2 ELSE 3

\* A plan is a sequence of locks, of strictly growing rank.
IsPlan(pl) ==
  /\ pl \in Seq(Locks \X Kinds)
  /\ \A i, j \in 1 .. Len(pl) : i < j => Rank(pl[i][1]) < Rank(pl[j][1])

Ordered == \A pl \in Plans : IsPlan(pl)

\* No request names more than one security group or one key pair.
SingleLists == \A list \in SgLists \cup RowLists \cup KeyLists : Len(list) <= 1

-----------------------------------------------------------------------------
(* The inductive invariant.                                                *)

Session(p, i) ==
  /\ i \in 1 .. Len(plan[p])
  /\ i < next[p] \/ (i = next[p] /\ pc[p] = "wait")

\* Where each goroutine is in its plan.
Position ==
  \A p \in Procs :
    /\ next[p] <= Len(plan[p]) + 1
    /\ pc[p] \in {"lock", "wait"} => next[p] <= Len(plan[p])
    /\ pc[p] = "idle" => next[p] = 1

\* A mutex knows only the sessions that have asked for it, and each of them in
\* the part its kind and its progress allow.
Owners ==
  \A l \in Locks, p \in Procs, i \in Nat :
    /\ mutex[l].w = <<p, i>> => Session(p, i) /\ plan[p][i] = <<l, "W">>
    /\ <<p, i>> \in mutex[l].readers =>
         Session(p, i) /\ plan[p][i] = <<l, "R">> /\ <<p, i>> \notin mutex[l].rwait
    /\ <<p, i>> \in mutex[l].rwait =>
         i = next[p] /\ pc[p] = "wait" /\ i \in 1 .. Len(plan[p]) /\ plan[p][i] = <<l, "R">>

Mutexes == [w : (Procs \X Nat) \cup {None}, readers : SUBSET (Procs \X Nat),
            rwait : SUBSET (Procs \X Nat)]

Types ==
  /\ mutex \in [Locks -> Mutexes]
  /\ plan \in [Procs -> Plans \cup {<<>>}]
  /\ next \in [Procs -> Nat \ {0}]
  /\ pc \in [Procs -> {"idle", "run", "lock", "wait", "unlock"}]

IInv == Types /\ Position /\ Owners

USE NoneAssumption

-----------------------------------------------------------------------------
(* The plan of a goroutine.                                                *)

LEMMA PlanOf ==
  ASSUME Ordered, Types, NEW p \in Procs
  PROVE  /\ IsPlan(plan[p])
         /\ plan[p] \in Seq(Locks \X Kinds)
         /\ Len(plan[p]) \in Nat
         /\ \A i \in 1 .. Len(plan[p]) : /\ LockOf(p, i) \in Locks
                                         /\ KindOf(p, i) \in Kinds
                                         /\ plan[p][i] = <<LockOf(p, i), KindOf(p, i)>>
<1>1. plan[p] \in Plans \/ plan[p] = <<>>
  BY DEF Types
<1>2. IsPlan(<<>>)
  BY DEF IsPlan
<1>3. IsPlan(plan[p])
  BY <1>1, <1>2 DEF Ordered
<1>4. plan[p] \in Seq(Locks \X Kinds)
  BY <1>3 DEF IsPlan
<1>5. Len(plan[p]) \in Nat
  BY <1>4
<1>6. \A i \in 1 .. Len(plan[p]) : plan[p][i] \in Locks \X Kinds
  BY <1>4
<1> QED
  BY <1>3, <1>4, <1>5, <1>6 DEF LockOf, KindOf

LEMMA InitIInv == Init => IInv
<1> SUFFICES ASSUME Init PROVE IInv
  OBVIOUS
<1>1. Types
  BY DEF Init, Types, Mutexes, Mu!FreeMutex
<1>2. Position
  <2> SUFFICES ASSUME NEW p \in Procs
               PROVE  /\ next[p] <= Len(plan[p]) + 1
                      /\ pc[p] \in {"lock", "wait"} => next[p] <= Len(plan[p])
                      /\ pc[p] = "idle" => next[p] = 1
    BY DEF Position
  <2>1. plan[p] = <<>> /\ next[p] = 1 /\ pc[p] = "idle"
    BY DEF Init
  <2>2. Len(plan[p]) = 0
    BY <2>1
  <2> QED
    BY <2>1, <2>2
<1>3. Owners
  BY DEF Init, Owners, Mu!FreeMutex
<1> QED
  BY <1>1, <1>2, <1>3 DEF IInv

-----------------------------------------------------------------------------
(* Each action preserves the invariant.                                    *)

\* The steps of a goroutine that leave the mutexes, its plan and its sessions
\* as they are.
LEMMA BeginStep ==
  ASSUME Ordered, IInv, NEW p \in Procs, Begin(p)
  PROVE  IInv'
<1> USE DEF IInv
<1>1. PICK pl \in Plans : plan' = [plan EXCEPT ![p] = pl]
  BY DEF Begin
<1>2. Types'
  BY <1>1 DEF Begin, Types
<1>3. plan'[p] = pl /\ Len(pl) \in Nat
  <2>1. pl \in Seq(Locks \X Kinds)
    BY DEF Ordered, IsPlan
  <2> QED
    BY <1>1, <2>1 DEF Types
<1>4. \A q \in Procs : q # p => plan'[q] = plan[q] /\ next'[q] = next[q] /\ pc'[q] = pc[q]
  BY <1>1 DEF Begin, Types
<1>5. next'[p] = 1 /\ pc'[p] = "run" /\ next[p] = 1 /\ pc[p] = "idle" /\ mutex' = mutex
  BY DEF Begin, Types, Position
<1>6. Position'
  BY <1>3, <1>4, <1>5 DEF Position
<1>7. Owners'
  <2> SUFFICES ASSUME NEW l \in Locks, NEW q \in Procs, NEW i \in Nat
               PROVE  /\ mutex[l].w = <<q, i>> => Session(q, i)' /\ plan'[q][i] = <<l, "W">>
                      /\ <<q, i>> \in mutex[l].readers =>
                           /\ Session(q, i)' /\ plan'[q][i] = <<l, "R">>
                           /\ <<q, i>> \notin mutex[l].rwait
                      /\ <<q, i>> \in mutex[l].rwait =>
                           /\ i = next'[q] /\ pc'[q] = "wait" /\ i \in 1 .. Len(plan'[q])
                           /\ plan'[q][i] = <<l, "R">>
    BY <1>5 DEF Owners
  <2>1. CASE q = p
    BY <2>1, <1>5 DEF Owners, Session
  <2>2. CASE q # p
    BY <2>2, <1>4 DEF Owners, Session
  <2> QED
    BY <2>1, <2>2
<1> QED
  BY <1>2, <1>6, <1>7

LEMMA CallStep ==
  ASSUME Ordered, IInv, NEW p \in Procs, Call(p) \/ Return(p)
  PROVE  IInv'
<1> USE DEF IInv
<1>1. Types'
  BY DEF Call, Return, Types
<1>2. mutex' = mutex /\ plan' = plan /\ next' = next /\ pc[p] = "run"
  BY DEF Call, Return
<1>3. \A q \in Procs : q # p => pc'[q] = pc[q]
  BY DEF Call, Return, Types
<1>4. /\ pc'[p] \in {"lock", "unlock"}
      /\ pc'[p] = "lock" => next[p] <= Len(plan[p])
  BY DEF Call, Return, Types
<1>5. Position'
  BY <1>2, <1>3, <1>4 DEF Position
<1>6. Owners'
  <2>1. \A q \in Procs, i \in Nat : Session(q, i) => Session(q, i)'
    BY <1>2, <1>3 DEF Session
  <2>2. \A q \in Procs : pc[q] = "wait" => pc'[q] = "wait"
    BY <1>2, <1>3
  <2> SUFFICES ASSUME NEW l \in Locks, NEW q \in Procs, NEW i \in Nat
               PROVE  /\ mutex[l].w = <<q, i>> => Session(q, i)' /\ plan[q][i] = <<l, "W">>
                      /\ <<q, i>> \in mutex[l].readers =>
                           /\ Session(q, i)' /\ plan[q][i] = <<l, "R">>
                           /\ <<q, i>> \notin mutex[l].rwait
                      /\ <<q, i>> \in mutex[l].rwait =>
                           /\ i = next[q] /\ pc'[q] = "wait" /\ i \in 1 .. Len(plan[q])
                           /\ plan[q][i] = <<l, "R">>
    BY <1>2 DEF Owners
  <2> QED
    BY <2>1, <2>2 DEF Owners
<1> QED
  BY <1>1, <1>5, <1>6

LEMMA AskStep ==
  ASSUME Ordered, IInv, NEW p \in Procs, Ask(p)
  PROVE  IInv'
<1> USE DEF IInv
<1> DEFINE l0 == Want(p)
           m0 == mutex[l0]
           me == <<p, next[p]>>
<1>1. next[p] \in 1 .. Len(plan[p]) /\ next[p] \in Nat
  BY PlanOf DEF Ask, Types, Position
<1>2. l0 \in Locks /\ plan[p][next[p]] = <<l0, Kind(p)>>
  BY <1>1, PlanOf DEF Want, Kind
<1>3. /\ plan' = plan /\ next' = next /\ pc[p] = "lock" /\ pc'[p] = "wait"
      /\ \A q \in Procs : q # p => pc'[q] = pc[q]
  BY DEF Ask, Types
<1>4. me \in Procs \X Nat /\ me # None
  BY <1>1
<1>5. \A l \in Locks : me # mutex[l].w /\ me \notin mutex[l].readers /\ me \notin mutex[l].rwait
  BY <1>1, <1>3 DEF Owners, Session
<1>6. /\ \A q \in Procs, i \in Nat : Session(q, i) => Session(q, i)'
      /\ Session(p, next[p])'
      /\ \A q \in Procs : pc[q] = "wait" => pc'[q] = "wait"
  BY <1>1, <1>3 DEF Session
<1>7. Position'
  BY <1>1, <1>3 DEF Position
<1>8. m0 \in Mutexes
  BY <1>2 DEF Types
<1>9. CASE Kind(p) = "W"
  <2>1. mutex' = [mutex EXCEPT ![l0] = [m0 EXCEPT !.w = me]] /\ m0.w = None
    BY <1>9 DEF Ask, Mu!CanAnnounce, Mu!Announce, Me
  <2>2. [m0 EXCEPT !.w = me] \in Mutexes
    BY <1>4, <1>8 DEF Mutexes
  <2>3. Types'
    BY <2>1, <2>2 DEF Ask, Types
  <2>4. /\ mutex'[l0].w = me /\ mutex'[l0].readers = m0.readers /\ mutex'[l0].rwait = m0.rwait
        /\ \A l \in Locks : l # l0 => mutex'[l] = mutex[l]
    BY <2>1, <1>2, <1>8 DEF Types, Mutexes
  <2>5. Owners'
    <3> SUFFICES ASSUME NEW l \in Locks, NEW q \in Procs, NEW i \in Nat
                 PROVE  /\ mutex'[l].w = <<q, i>> => Session(q, i)' /\ plan[q][i] = <<l, "W">>
                        /\ <<q, i>> \in mutex'[l].readers =>
                             /\ Session(q, i)' /\ plan[q][i] = <<l, "R">>
                             /\ <<q, i>> \notin mutex'[l].rwait
                        /\ <<q, i>> \in mutex'[l].rwait =>
                             /\ i = next[q] /\ pc'[q] = "wait" /\ i \in 1 .. Len(plan[q])
                             /\ plan[q][i] = <<l, "R">>
      BY <1>3 DEF Owners
    <3>1. CASE l # l0
      BY <3>1, <2>4, <1>6 DEF Owners
    <3>2. CASE l = l0
      <4>1. mutex'[l].w = <<q, i>> => q = p /\ i = next[p]
        BY <3>2, <2>4
      <4>2. ASSUME mutex'[l].w = <<q, i>> PROVE Session(q, i)' /\ plan[q][i] = <<l, "W">>
        <5>1. q = p /\ i = next[p]
          BY <4>1, <4>2
        <5>2. plan'[q] = plan[q] /\ next'[q] = i /\ pc'[q] = "wait" /\ i \in 1 .. Len(plan[q])
          BY <5>1, <1>1, <1>3
        <5>3. Session(q, i)'
          BY <5>2 DEF Session
        <5> QED
          BY <5>1, <5>3, <3>2, <1>2, <1>9
      <4>3. mutex'[l].readers = mutex[l].readers /\ mutex'[l].rwait = mutex[l].rwait
        BY <3>2, <2>4
      <4> QED
        BY <4>2, <4>3, <1>3, <1>6 DEF Owners
    <3> QED
      BY <3>1, <3>2
  <2> QED
    BY <2>3, <2>5, <1>7
<1>10. CASE Kind(p) = "R"
  <2> DEFINE m1 == IF m0.w = None THEN [m0 EXCEPT !.readers = @ \cup {me}]
                                  ELSE [m0 EXCEPT !.rwait = @ \cup {me}]
  <2>1. mutex' = [mutex EXCEPT ![l0] = m1]
    BY <1>10 DEF Ask, Mu!Arrive, Me
  <2>2. /\ m1 \in Mutexes /\ m1.w = m0.w
        /\ m1.readers \subseteq m0.readers \cup {me} /\ m1.rwait \subseteq m0.rwait \cup {me}
        /\ me \in m1.readers => m1.rwait = m0.rwait
        /\ me \in m1.rwait => m1.readers = m0.readers
    <3>1. CASE m0.w = None
      BY <3>1, <1>4, <1>5, <1>2, <1>8 DEF Mutexes
    <3>2. CASE m0.w # None
      BY <3>2, <1>4, <1>5, <1>2, <1>8 DEF Mutexes
    <3> QED
      BY <3>1, <3>2
  <2>3. Types'
    BY <2>1, <2>2 DEF Ask, Types
  <2>4. mutex'[l0] = m1 /\ \A l \in Locks : l # l0 => mutex'[l] = mutex[l]
    BY <2>1, <1>2 DEF Types
  <2> HIDE DEF m1
  <2>5. Owners'
    <3> SUFFICES ASSUME NEW l \in Locks, NEW q \in Procs, NEW i \in Nat
                 PROVE  /\ mutex'[l].w = <<q, i>> => Session(q, i)' /\ plan[q][i] = <<l, "W">>
                        /\ <<q, i>> \in mutex'[l].readers =>
                             /\ Session(q, i)' /\ plan[q][i] = <<l, "R">>
                             /\ <<q, i>> \notin mutex'[l].rwait
                        /\ <<q, i>> \in mutex'[l].rwait =>
                             /\ i = next[q] /\ pc'[q] = "wait" /\ i \in 1 .. Len(plan[q])
                             /\ plan[q][i] = <<l, "R">>
      BY <1>3 DEF Owners
    <3>1. CASE l # l0
      BY <3>1, <2>4, <1>6 DEF Owners
    <3>2. CASE l = l0 /\ <<q, i>> = me
      <4>1. q = p /\ i = next[p]
        BY <3>2
      <4>2. mutex'[l].w # <<q, i>>
        BY <3>2, <2>2, <2>4, <1>2, <1>5
      <4>3. <<q, i>> \in mutex'[l].readers => <<q, i>> \notin mutex'[l].rwait
        BY <3>2, <2>2, <2>4, <1>2, <1>5
      <4> QED
        BY <3>2, <4>1, <4>2, <4>3, <1>1, <1>2, <1>3, <1>6, <1>10
    <3>3. CASE l = l0 /\ <<q, i>> # me
      <4>1. /\ mutex'[l].w = m0.w
            /\ <<q, i>> \in mutex'[l].readers => <<q, i>> \in m0.readers
            /\ <<q, i>> \in mutex'[l].rwait => <<q, i>> \in m0.rwait
        BY <3>3, <2>2, <2>4
      <4> QED
        BY <3>3, <4>1, <1>2, <1>6 DEF Owners
    <3> QED
      BY <3>1, <3>2, <3>3
  <2> QED
    BY <2>3, <2>5, <1>7
<1> QED
  BY <1>9, <1>10 DEF Ask

LEMMA EnterStep ==
  ASSUME Ordered, IInv, NEW p \in Procs, Enter(p)
  PROVE  IInv'
<1> USE DEF IInv
<1>1. next[p] \in 1 .. Len(plan[p]) /\ next[p] \in Nat /\ Len(plan[p]) \in Nat
  BY PlanOf DEF Enter, Types, Position
<1>2. Want(p) \in Locks /\ plan[p][next[p]] = <<Want(p), Kind(p)>>
  BY <1>1, PlanOf DEF Want, Kind
<1>3. /\ plan' = plan /\ mutex' = mutex /\ pc[p] = "wait" /\ pc'[p] = "run"
      /\ next'[p] = next[p] + 1
      /\ \A q \in Procs : q # p => pc'[q] = pc[q] /\ next'[q] = next[q]
  BY <1>1 DEF Enter, Types
<1>4. Types'
  BY <1>1 DEF Enter, Types
<1>5. Position'
  BY <1>1, <1>3 DEF Position
<1>6. \A q \in Procs, i \in Nat : Session(q, i) => Session(q, i)'
  BY <1>1, <1>3 DEF Session
\* A session that gets in is not one that waits behind a writer.
<1>7. \A l \in Locks : <<p, next[p]>> \notin mutex[l].rwait
  <2> SUFFICES ASSUME NEW l \in Locks, <<p, next[p]>> \in mutex[l].rwait PROVE FALSE
    OBVIOUS
  <2>1. plan[p][next[p]] = <<l, "R">>
    BY <1>1 DEF Owners
  <2>2. l = Want(p) /\ Kind(p) = "R"
    BY <2>1, <1>2
  <2>3. <<p, next[p]>> \in mutex[l].readers
    BY <2>2 DEF Enter, Granted, Mu!ReaderIn, Me
  <2> QED
    BY <2>3, <1>1 DEF Owners
<1>8. Owners'
  <2> SUFFICES ASSUME NEW l \in Locks, NEW q \in Procs, NEW i \in Nat
               PROVE  /\ mutex[l].w = <<q, i>> => Session(q, i)' /\ plan[q][i] = <<l, "W">>
                      /\ <<q, i>> \in mutex[l].readers =>
                           /\ Session(q, i)' /\ plan[q][i] = <<l, "R">>
                           /\ <<q, i>> \notin mutex[l].rwait
                      /\ <<q, i>> \in mutex[l].rwait =>
                           /\ i = next'[q] /\ pc'[q] = "wait" /\ i \in 1 .. Len(plan[q])
                           /\ plan[q][i] = <<l, "R">>
    BY <1>3 DEF Owners
  <2>1. <<q, i>> \in mutex[l].rwait => q # p
    BY <1>7 DEF Owners
  <2> QED
    BY <2>1, <1>3, <1>6 DEF Owners
<1> QED
  BY <1>4, <1>5, <1>8

\* The last lock of a call that returns is given back.
LEMMA ReleaseStep ==
  ASSUME Ordered, IInv, NEW p \in Procs, Unlock(p), next[p] > 1
  PROVE  IInv'
<1> USE DEF IInv
<1> DEFINE n == next[p] - 1
           l0 == LockOf(p, n)
           m0 == mutex[l0]
           m1 == IF KindOf(p, n) = "W" THEN [w |-> None, readers |-> m0.rwait, rwait |-> {}]
                                       ELSE [m0 EXCEPT !.readers = @ \ {<<p, n>>}]
<1>1. n \in 1 .. Len(plan[p]) /\ n \in Nat /\ next[p] \in Nat /\ Len(plan[p]) \in Nat
  BY PlanOf DEF Types, Position
<1>2. l0 \in Locks /\ plan[p][n] = <<l0, KindOf(p, n)>> /\ KindOf(p, n) \in {"R", "W"}
  BY <1>1, PlanOf DEF Kinds
<1>3. /\ plan' = plan /\ pc' = pc /\ pc[p] = "unlock"
      /\ next' = [next EXCEPT ![p] = n]
      /\ mutex' = [mutex EXCEPT ![l0] = m1]
  BY <1>1 DEF Unlock, Mu!WriterOut, Mu!ReaderOut
<1>4. m0 \in Mutexes /\ m1 \in Mutexes
  <2>1. m0 \in Mutexes
    BY <1>2 DEF Types
  <2> QED
    BY <2>1 DEF Mutexes
<1>5. /\ mutex'[l0] = m1 /\ \A l \in Locks : l # l0 => mutex'[l] = mutex[l]
      /\ next'[p] = n /\ \A q \in Procs : q # p => next'[q] = next[q]
  BY <1>2, <1>3 DEF Types
<1>6. Types'
  <2>1. mutex' \in [Locks -> Mutexes]
    BY <1>3, <1>4 DEF Types
  <2>2. next' \in [Procs -> Nat \ {0}]
    BY <1>1, <1>3 DEF Types
  <2> QED
    BY <2>1, <2>2, <1>3 DEF Types
<1>7. Position'
  BY <1>1, <1>3, <1>5 DEF Position
\* No mutex knows the session any more.
<1>8. \A l \in Locks : /\ mutex'[l].w # <<p, n>>
                       /\ <<p, n>> \notin mutex'[l].readers
                       /\ <<p, n>> \notin mutex'[l].rwait
  <2> SUFFICES ASSUME NEW l \in Locks
               PROVE  /\ mutex'[l].w # <<p, n>>
                      /\ <<p, n>> \notin mutex'[l].readers
                      /\ <<p, n>> \notin mutex'[l].rwait
    OBVIOUS
  <2>1. <<p, n>> \notin mutex[l].rwait /\ <<p, n>> \notin m0.rwait /\ <<p, n>> # None
    BY <1>1, <1>2, <1>3 DEF Owners
  <2>2. CASE l # l0
    BY <2>1, <2>2, <1>1, <1>2, <1>5 DEF Owners
  <2>3. CASE l = l0 /\ KindOf(p, n) = "W"
    BY <2>1, <2>3, <1>5
  <2>4. CASE l = l0 /\ KindOf(p, n) = "R"
    <3>1. m0.w # <<p, n>>
      <4>1. m0.w = <<p, n>> => plan[p][n] = <<l0, "W">>
        BY <1>1, <1>2 DEF Owners
      <4> QED
        BY <4>1, <2>4, <1>2
    <3>2. m1.w = m0.w /\ m1.readers = m0.readers \ {<<p, n>>} /\ m1.rwait = m0.rwait
      BY <2>4, <1>4 DEF Mutexes
    <3> QED
      BY <2>1, <2>4, <3>1, <3>2, <1>5
  <2> QED
    BY <2>2, <2>3, <2>4, <1>2
<1>9. \A q \in Procs, i \in Nat : Session(q, i) /\ <<q, i>> # <<p, n>> => Session(q, i)'
  BY <1>1, <1>3, <1>5 DEF Session
\* What the mutexes know, they knew before; only waiting readers move.
<1>10. ASSUME NEW l \in Locks
       PROVE  /\ mutex'[l].w # None => mutex'[l].w = mutex[l].w
              /\ mutex'[l].rwait \subseteq mutex[l].rwait
              /\ mutex'[l].readers \subseteq mutex[l].readers
                 \/ (mutex'[l].readers = mutex[l].rwait /\ mutex'[l].rwait = {})
  <2>1. CASE l # l0
    BY <2>1, <1>5
  <2>2. CASE l = l0 /\ KindOf(p, n) = "W"
    BY <2>2, <1>5
  <2>3. CASE l = l0 /\ KindOf(p, n) = "R"
    <3>1. m1.w = m0.w /\ m1.readers = m0.readers \ {<<p, n>>} /\ m1.rwait = m0.rwait
      BY <2>3, <1>4 DEF Mutexes
    <3> QED
      BY <2>3, <3>1, <1>5
  <2> QED
    BY <2>1, <2>2, <2>3, <1>2
<1>11. Owners'
  <2> SUFFICES ASSUME NEW l \in Locks, NEW q \in Procs, NEW i \in Nat
               PROVE  /\ mutex'[l].w = <<q, i>> => Session(q, i)' /\ plan[q][i] = <<l, "W">>
                      /\ <<q, i>> \in mutex'[l].readers =>
                           /\ Session(q, i)' /\ plan[q][i] = <<l, "R">>
                           /\ <<q, i>> \notin mutex'[l].rwait
                      /\ <<q, i>> \in mutex'[l].rwait =>
                           /\ i = next'[q] /\ pc[q] = "wait" /\ i \in 1 .. Len(plan[q])
                           /\ plan[q][i] = <<l, "R">>
    BY <1>3 DEF Owners
  <2>1. ASSUME mutex'[l].w = <<q, i>> PROVE Session(q, i)' /\ plan[q][i] = <<l, "W">>
    <3>1. mutex[l].w = <<q, i>> /\ <<q, i>> # <<p, n>>
      BY <2>1, <1>8, <1>10
    <3> QED
      BY <3>1, <1>9 DEF Owners
  <2>2. ASSUME <<q, i>> \in mutex'[l].readers
        PROVE  /\ Session(q, i)' /\ plan[q][i] = <<l, "R">>
               /\ <<q, i>> \notin mutex'[l].rwait
    <3>1. <<q, i>> # <<p, n>>
      BY <2>2, <1>8
    <3>2. CASE <<q, i>> \in mutex[l].readers
      <4>1. Session(q, i) /\ plan[q][i] = <<l, "R">> /\ <<q, i>> \notin mutex[l].rwait
        BY <3>2 DEF Owners
      <4> QED
        BY <4>1, <3>1, <1>9, <1>10
    <3>3. CASE <<q, i>> \in mutex[l].rwait /\ mutex'[l].rwait = {}
      <4>1. i = next[q] /\ pc[q] = "wait" /\ i \in 1 .. Len(plan[q]) /\ plan[q][i] = <<l, "R">>
        BY <3>3 DEF Owners
      <4>2. Session(q, i)
        BY <4>1 DEF Session
      <4> QED
        BY <4>1, <4>2, <3>1, <3>3, <1>9
    <3> QED
      BY <2>2, <3>2, <3>3, <1>10
  <2>3. ASSUME <<q, i>> \in mutex'[l].rwait
        PROVE  /\ i = next'[q] /\ pc[q] = "wait" /\ i \in 1 .. Len(plan[q])
               /\ plan[q][i] = <<l, "R">>
    <3>1. <<q, i>> \in mutex[l].rwait
      BY <2>3, <1>10
    <3>2. i = next[q] /\ pc[q] = "wait" /\ i \in 1 .. Len(plan[q]) /\ plan[q][i] = <<l, "R">>
      BY <3>1 DEF Owners
    <3> QED
      BY <3>2, <1>3, <1>5
  <2> QED
    BY <2>1, <2>2, <2>3
<1> QED
  BY <1>6, <1>7, <1>11

\* After the last the call has ended.
LEMMA FinishStep ==
  ASSUME Ordered, IInv, NEW p \in Procs, Unlock(p), next[p] = 1
  PROVE  IInv'
<1> USE DEF IInv
<1>1. /\ mutex' = mutex /\ next' = next /\ pc[p] = "unlock"
      /\ plan' = [plan EXCEPT ![p] = <<>>] /\ pc' = [pc EXCEPT ![p] = "idle"]
  BY DEF Unlock, Types
<1>2. Types'
  BY <1>1 DEF Types
<1>3. /\ plan'[p] = <<>> /\ pc'[p] = "idle" /\ Len(plan'[p]) = 0
      /\ \A q \in Procs : q # p => plan'[q] = plan[q] /\ pc'[q] = pc[q]
  BY <1>1 DEF Types
<1>4. Position'
  BY <1>1, <1>3 DEF Position
<1>5. Owners'
  <2> SUFFICES ASSUME NEW l \in Locks, NEW q \in Procs, NEW i \in Nat
               PROVE  /\ mutex[l].w = <<q, i>> => Session(q, i)' /\ plan'[q][i] = <<l, "W">>
                      /\ <<q, i>> \in mutex[l].readers =>
                           /\ Session(q, i)' /\ plan'[q][i] = <<l, "R">>
                           /\ <<q, i>> \notin mutex[l].rwait
                      /\ <<q, i>> \in mutex[l].rwait =>
                           /\ i = next'[q] /\ pc'[q] = "wait" /\ i \in 1 .. Len(plan'[q])
                           /\ plan'[q][i] = <<l, "R">>
    BY <1>1 DEF Owners
  <2>1. CASE q = p
    BY <2>1, <1>1 DEF Owners, Session
  <2>2. CASE q # p
    BY <2>2, <1>1, <1>3 DEF Owners, Session
  <2> QED
    BY <2>1, <2>2
<1> QED
  BY <1>2, <1>4, <1>5

LEMMA StutterStep ==
  ASSUME IInv, UNCHANGED vars
  PROVE  IInv'
<1>1. mutex' = mutex /\ plan' = plan /\ next' = next /\ pc' = pc
  BY DEF vars
<1>2. Types' /\ Position'
  BY <1>1 DEF IInv, Types, Position
<1>3. \A p \in Procs, i \in Nat : Session(p, i) => Session(p, i)'
  BY <1>1 DEF Session
<1>4. Owners'
  BY <1>1, <1>3 DEF IInv, Owners
<1> QED
  BY <1>2, <1>4 DEF IInv

LEMMA StepIInv ==
  ASSUME Ordered, IInv, [Next]_vars
  PROVE  IInv'
<1>1. CASE UNCHANGED vars
  BY <1>1, StutterStep
<1>2. CASE Next
  <2>1. PICK p \in Procs : Begin(p) \/ Serve(p)
    BY <1>2 DEF Next
  <2>2. CASE Unlock(p)
    <3>1. next[p] > 1 \/ next[p] = 1
      BY <2>2 DEF Unlock
    <3> QED
      BY <2>2, <3>1, ReleaseStep, FinishStep
  <2> QED
    BY <2>1, <2>2, BeginStep, CallStep, AskStep, EnterStep DEF Serve
<1> QED
  BY <1>1, <1>2

-----------------------------------------------------------------------------
(* No circle.                                                              *)

\* Whom a goroutine waits for has asked for the lock: as an announced writer,
\* or, when a writer waits for the readers to leave, as one of them.
LEMMA Blocking ==
  ASSUME Ordered, IInv, NEW p \in Procs, NEW q \in WaitsFor(p)
  PROVE  /\ pc[p] \in {"lock", "wait"} /\ q \in Procs /\ Want(p) \in Locks
         /\ \E i \in Nat :
              /\ Session(q, i) /\ LockOf(q, i) = Want(p)
              /\ IF pc[p] = "wait" /\ Kind(p) = "W"
                   THEN KindOf(q, i) = "R" /\ <<q, i>> \notin mutex[Want(p)].rwait
                   ELSE KindOf(q, i) = "W"
<1> USE DEF IInv
<1> DEFINE l == Want(p)
           m == mutex[l]
           owners == CASE pc[p] = "lock" /\ Kind(p) = "W" -> {m.w}
                       [] pc[p] = "wait" /\ Kind(p) = "W" -> m.readers
                       [] pc[p] = "wait" /\ Kind(p) = "R" /\ Me(p) \in m.rwait -> {m.w}
                       [] OTHER -> {}
<1>1. PICK s \in owners \ {None} : q = s[1]
  BY DEF WaitsFor
<1>2. /\ pc[p] \in {"lock", "wait"}
      /\ IF pc[p] = "wait" /\ Kind(p) = "W" THEN s \in m.readers ELSE s = m.w
  BY <1>1
<1>3. next[p] \in 1 .. Len(plan[p])
  BY <1>2, PlanOf DEF Types, Position
<1>4. l \in Locks
  BY <1>3, PlanOf DEF Want
<1>5. m.w \in (Procs \X Nat) \cup {None} /\ m.readers \subseteq Procs \X Nat
  BY <1>4 DEF Types, Mutexes
<1>6. PICK i \in Nat : s = <<q, i>> /\ q \in Procs
  BY <1>1, <1>2, <1>5
<1>7. CASE s = m.w /\ ~(pc[p] = "wait" /\ Kind(p) = "W")
  <2>1. Session(q, i) /\ plan[q][i] = <<l, "W">>
    BY <1>4, <1>6, <1>7 DEF Owners
  <2> QED
    BY <2>1, <1>2, <1>4, <1>6, <1>7 DEF LockOf, KindOf
<1>8. CASE s \in m.readers /\ pc[p] = "wait" /\ Kind(p) = "W"
  <2>1. Session(q, i) /\ plan[q][i] = <<l, "R">> /\ <<q, i>> \notin m.rwait
    BY <1>4, <1>6, <1>8 DEF Owners
  <2> QED
    BY <2>1, <1>2, <1>4, <1>6, <1>8 DEF LockOf, KindOf
<1> QED
  BY <1>2, <1>7, <1>8

\* A goroutine waits for one that waits for a lock of a higher table, or for a
\* writer that waits for the readers of the same lock.
LEMMA Climb ==
  ASSUME Ordered, IInv, NEW p \in Procs, NEW q \in WaitsFor(p), WaitsFor(q) # {}
  PROVE  /\ q \in Procs
         /\ \/ Rank(Want(p)) < Rank(Want(q))
            \/ /\ Want(q) = Want(p) /\ pc[q] = "wait" /\ Kind(q) = "W"
               /\ ~(pc[p] = "wait" /\ Kind(p) = "W")
<1> USE DEF IInv
<1>1. q \in Procs
  BY Blocking
<1>2. pc[q] \in {"lock", "wait"}
  <2>1. PICK r \in WaitsFor(q) : TRUE
    OBVIOUS
  <2> QED
    BY <1>1, <2>1, Blocking
<1>3. next[q] \in 1 .. Len(plan[q]) /\ next[q] \in Nat /\ Len(plan[q]) \in Nat
  BY <1>1, <1>2, PlanOf DEF Types, Position
<1>4. PICK i \in Nat :
        /\ Session(q, i) /\ LockOf(q, i) = Want(p)
        /\ IF pc[p] = "wait" /\ Kind(p) = "W"
             THEN KindOf(q, i) = "R" /\ <<q, i>> \notin mutex[Want(p)].rwait
             ELSE KindOf(q, i) = "W"
  BY Blocking
<1>5. CASE i < next[q]
  <2>1. i \in 1 .. Len(plan[q])
    BY <1>4 DEF Session
  <2>2. Rank(LockOf(q, i)) < Rank(LockOf(q, next[q]))
    BY <1>1, <1>3, <1>5, <2>1, PlanOf DEF IsPlan, LockOf
  <2> QED
    BY <1>1, <1>4, <2>2 DEF Want
<1>6. CASE i = next[q] /\ pc[q] = "wait"
  <2>1. Want(q) = Want(p) /\ Kind(q) = KindOf(q, i) /\ Me(q) = <<q, i>>
    BY <1>4, <1>6 DEF Want, Kind, Me
  \* A reader that is in waits for nobody.
  <2>2. Kind(q) = "R" => <<q, i>> \in mutex[Want(q)].rwait
    <3> SUFFICES ASSUME <<q, i>> \notin mutex[Want(q)].rwait, Kind(q) = "R"
                 PROVE  WaitsFor(q) = {}
      OBVIOUS
    <3> QED
      BY <1>6, <2>1 DEF WaitsFor
  <2>3. KindOf(q, i) = "W" /\ ~(pc[p] = "wait" /\ Kind(p) = "W")
    BY <1>4, <2>1, <2>2
  <2> QED
    BY <1>1, <1>6, <2>1, <2>3
<1> QED
  BY <1>4, <1>5, <1>6 DEF Session

\* So it is not the last of a chain: some goroutine waits one table higher.
LEMMA Higher ==
  ASSUME Ordered, IInv, NEW S \in SUBSET Procs,
         \A p \in S : WaitsFor(p) \cap S # {}, NEW p \in S
  PROVE  \E r \in S : Rank(Want(p)) < Rank(Want(r))
<1>1. PICK q \in S : q \in WaitsFor(p)
  OBVIOUS
<1>2. CASE Rank(Want(p)) < Rank(Want(q))
  BY <1>2
<1>3. CASE Want(q) = Want(p) /\ pc[q] = "wait" /\ Kind(q) = "W"
  <2>1. PICK r \in S : r \in WaitsFor(q)
    OBVIOUS
  <2>2. WaitsFor(r) # {}
    OBVIOUS
  <2>3. Rank(Want(q)) < Rank(Want(r))
    BY <1>3, <2>1, <2>2, Climb
  <2> QED
    BY <1>3, <2>3
<1>4. WaitsFor(q) # {}
  OBVIOUS
<1> QED
  BY <1>1, <1>2, <1>3, <1>4, Climb

\* There are four ranks.
LEMMA OrderedNoDeadlock ==
  ASSUME Ordered, IInv
  PROVE  NoDeadlock
<1> SUFFICES ASSUME NEW S \in SUBSET Procs, S # {},
                    \A p \in S : WaitsFor(p) \cap S # {}
             PROVE  FALSE
  BY DEF NoDeadlock
<1>1. \A p \in S : \E r \in S : Rank(Want(p)) < Rank(Want(r))
  BY Higher
<1>2. \A p \in S : Rank(Want(p)) \in 0 .. 3
  BY DEF Rank
<1>3. PICK p0 \in S : TRUE
  OBVIOUS
<1>4. PICK p1 \in S : Rank(Want(p0)) < Rank(Want(p1))
  BY <1>1
<1>5. PICK p2 \in S : Rank(Want(p1)) < Rank(Want(p2))
  BY <1>1
<1>6. PICK p3 \in S : Rank(Want(p2)) < Rank(Want(p3))
  BY <1>1
<1>7. PICK p4 \in S : Rank(Want(p3)) < Rank(Want(p4))
  BY <1>1
<1> QED
  BY <1>2, <1>4, <1>5, <1>6, <1>7

-----------------------------------------------------------------------------
(* The plans of single lists are ordered.                                  *)

\* A plan of locks whose ranks are between lo and hi.
PlanIn(pl, lo, hi) ==
  IsPlan(pl) /\ \A i \in 1 .. Len(pl) : lo <= Rank(pl[i][1]) /\ Rank(pl[i][1]) <= hi

LEMMA OneLock ==
  ASSUME NEW l \in Locks, NEW k \in Kinds
  PROVE  PlanIn(<<<<l, k>>>>, Rank(l), Rank(l))
<1> DEFINE pl == <<<<l, k>>>>
<1>1. pl \in Seq(Locks \X Kinds) /\ Len(pl) = 1 /\ pl[1][1] = l
  OBVIOUS
<1>2. Rank(l) \in Nat
  BY DEF Rank
<1> QED
  BY <1>1, <1>2 DEF PlanIn, IsPlan

LEMMA AtMostOneReadLock ==
  ASSUME NEW t, NEW S, NEW list \in Seq(S), Len(list) <= 1, NEW r \in Nat,
         \A n \in S : <<t, n>> \in Locks /\ Rank(<<t, n>>) = r
  PROVE  PlanIn(RAll(t, list), r, r)
<1> DEFINE pl == RAll(t, list)
<1>1. CASE Len(list) = 0
  <2>1. pl = <<>>
    BY <1>1 DEF RAll
  <2> QED
    BY <2>1 DEF PlanIn, IsPlan
<1>2. CASE Len(list) = 1
  <2>1. list[1] \in S /\ pl = <<<<<<t, list[1]>>, "R">>>>
    BY <1>2 DEF RAll, R
  <2> QED
    BY <2>1, OneLock DEF Kinds
<1>3. Len(list) \in Nat
  OBVIOUS
<1>4. Len(list) = 0 \/ Len(list) = 1
  <2>1. \A n \in Nat : n <= 1 => n = 0 \/ n = 1
    OBVIOUS
  <2> QED
    BY <1>3, <2>1, Zenon
<1> QED
  BY <1>1, <1>2, <1>4

LEMMA Concat ==
  ASSUME NEW a, NEW b, NEW l1 \in Nat, NEW h1 \in Nat, NEW l2 \in Nat, NEW h2 \in Nat,
         PlanIn(a, l1, h1), PlanIn(b, l2, h2), h1 < l2, l1 <= l2, h1 <= h2
  PROVE  PlanIn(a \o b, l1, h2)
<1>1. a \in Seq(Locks \X Kinds) /\ b \in Seq(Locks \X Kinds)
  BY DEF PlanIn, IsPlan
<1>2. /\ a \o b \in Seq(Locks \X Kinds)
      /\ Len(a) \in Nat /\ Len(b) \in Nat /\ Len(a \o b) = Len(a) + Len(b)
      /\ \A i \in 1 .. Len(a) : (a \o b)[i] = a[i]
      /\ \A i \in 1 .. Len(a \o b) : i > Len(a) => i - Len(a) \in 1 .. Len(b)
                                              /\ (a \o b)[i] = b[i - Len(a)]
  BY <1>1
<1>3. \A l : Rank(l) \in Nat
  BY DEF Rank
<1>4. \A i \in 1 .. Len(a \o b) :
        l1 <= Rank((a \o b)[i][1]) /\ Rank((a \o b)[i][1]) <= h2
  <2> SUFFICES ASSUME NEW i \in 1 .. Len(a \o b)
               PROVE  l1 <= Rank((a \o b)[i][1]) /\ Rank((a \o b)[i][1]) <= h2
    OBVIOUS
  <2>1. CASE i <= Len(a)
    <3>1. i \in 1 .. Len(a)
      BY <2>1, <1>2
    <3> QED
      BY <3>1, <1>2, <1>3 DEF PlanIn
  <2>2. CASE i > Len(a)
    <3>1. i - Len(a) \in 1 .. Len(b) /\ (a \o b)[i] = b[i - Len(a)]
      BY <2>2, <1>2
    <3>2. l2 <= Rank(b[i - Len(a)][1]) /\ Rank(b[i - Len(a)][1]) <= h2
      BY <3>1 DEF PlanIn
    <3> QED
      BY <3>1, <3>2, <1>3
  <2> QED
    BY <2>1, <2>2, <1>2
<1>5. ASSUME NEW i \in 1 .. Len(a \o b), NEW j \in 1 .. Len(a \o b), i < j
      PROVE  Rank((a \o b)[i][1]) < Rank((a \o b)[j][1])
  <2>1. CASE j <= Len(a)
    <3>1. i \in 1 .. Len(a) /\ j \in 1 .. Len(a)
      BY <1>2, <1>5, <2>1
    <3> QED
      BY <3>1, <1>2, <1>5 DEF PlanIn, IsPlan
  <2>2. CASE i <= Len(a) /\ j > Len(a)
    <3>1. i \in 1 .. Len(a)
      BY <1>2, <2>2
    <3>2. Rank((a \o b)[i][1]) <= h1
      BY <3>1, <1>2 DEF PlanIn
    <3>3. l2 <= Rank((a \o b)[j][1])
      BY <2>2, <1>2 DEF PlanIn
    <3> QED
      BY <3>2, <3>3, <1>3
  <2>3. CASE i > Len(a) /\ j > Len(a)
    <3>1. /\ i - Len(a) \in 1 .. Len(b) /\ j - Len(a) \in 1 .. Len(b)
          /\ i - Len(a) < j - Len(a)
      BY <1>2, <1>5, <2>3
    <3>2. Rank(b[i - Len(a)][1]) < Rank(b[j - Len(a)][1])
      BY <3>1 DEF PlanIn, IsPlan
    <3> QED
      BY <3>2, <1>2, <2>3
  <2> QED
    BY <2>1, <2>2, <2>3, <1>2, <1>5
<1> QED
  BY <1>2, <1>4, <1>5 DEF PlanIn, IsPlan

LEMMA PlansOrdered ==
  ASSUME SingleLists
  PROVE  Ordered
<1>1. /\ \A n \in Vpcs : <<"vpc", n>> \in Locks /\ Rank(<<"vpc", n>>) = 0
      /\ \A n \in Sgs : <<"sg", n>> \in Locks /\ Rank(<<"sg", n>>) = 1
      /\ \A n \in Keys : <<"key", n>> \in Locks /\ Rank(<<"key", n>>) = 2
      /\ \A n \in Vms : <<"vm", n>> \in Locks /\ Rank(<<"vm", n>>) = 0
      /\ \A n \in Disks : <<"disk", n>> \in Locks /\ Rank(<<"disk", n>>) = 3
      /\ \A n \in Clusters : <<"cluster", n>> \in Locks /\ Rank(<<"cluster", n>>) = 3
      /\ \A n \in Nlbs : <<"nlb", n>> \in Locks /\ Rank(<<"nlb", n>>) = 3
      /\ \A n \in FileSystems : <<"fs", n>> \in Locks /\ Rank(<<"fs", n>>) = 3
      /\ \A n \in Dbs : <<"rdbms", n>> \in Locks /\ Rank(<<"rdbms", n>>) = 3
  <2>1. /\ Names("vpc") = Vpcs /\ Names("sg") = Sgs /\ Names("key") = Keys
        /\ Names("cluster") = Clusters /\ Names("nlb") = Nlbs /\ Names("fs") = FileSystems
        /\ Names("rdbms") = Dbs /\ Names("vm") = Vms /\ Names("disk") = Disks
    BY DEF Names
  <2>2. \A t \in Tables : \A n \in Names(t) : <<t, n>> \in Locks
    BY DEF Locks
  <2> QED
    BY <2>1, <2>2 DEF Tables, Rank
\* One lock, of either kind.
<1>2. \A l \in Locks : PlanIn(<<<<l, "R">>>>, Rank(l), Rank(l))
                      /\ PlanIn(<<<<l, "W">>>>, Rank(l), Rank(l))
  BY OneLock DEF Kinds
<1>3. /\ \A v \in Vpcs : PlanIn(<<R("vpc", v)>>, 0, 0) /\ PlanIn(<<W("vpc", v)>>, 0, 0)
      /\ \A g \in Sgs : PlanIn(<<W("sg", g)>>, 1, 1)
      /\ \A k \in Keys : PlanIn(<<R("key", k)>>, 2, 2)
      /\ \A m \in Vms : PlanIn(<<W("vm", m)>>, 0, 0)
      /\ \A d \in Disks : PlanIn(<<W("disk", d)>>, 3, 3)
      /\ \A c \in Clusters : PlanIn(<<W("cluster", c)>>, 3, 3)
      /\ \A n \in Nlbs : PlanIn(<<W("nlb", n)>>, 3, 3)
      /\ \A f \in FileSystems : PlanIn(<<W("fs", f)>>, 3, 3)
      /\ \A d \in Dbs : PlanIn(<<W("rdbms", d)>>, 3, 3)
  BY <1>1, <1>2 DEF R, W
\* The locks of a request's lists.
<1>4. \A sgs \in SgLists \cup RowLists : PlanIn(RAll("sg", sgs), 1, 1)
  BY <1>1, AtMostOneReadLock, ListsAssumption DEF SingleLists
<1>5. \A keys \in KeyLists : PlanIn(RAll("key", keys), 2, 2)
  BY <1>1, AtMostOneReadLock, ListsAssumption DEF SingleLists
\* Two locks.
<1>6. ASSUME NEW x, NEW y, NEW i \in Nat, NEW j \in Nat,
             PlanIn(<<x>>, i, i), PlanIn(<<y>>, j, j), i < j
      PROVE  IsPlan(<<x, y>>)
  <2>1. x \in Locks \X Kinds /\ y \in Locks \X Kinds
    <3>1. <<x>> \in Seq(Locks \X Kinds) /\ <<y>> \in Seq(Locks \X Kinds)
      BY <1>6 DEF PlanIn, IsPlan
    <3> QED
      BY <3>1
  <2>2. Rank(x[1]) = i /\ Rank(y[1]) = j
    <3>1. i <= Rank(x[1]) /\ Rank(x[1]) <= i /\ j <= Rank(y[1]) /\ Rank(y[1]) <= j
      BY <1>6 DEF PlanIn
    <3>2. Rank(x[1]) \in Nat /\ Rank(y[1]) \in Nat
      BY DEF Rank
    <3> QED
      BY <3>1, <3>2
  <2> QED
    BY <2>1, <2>2, <1>6 DEF IsPlan
\* A read lock on a VPC and one on a security group.
<1>7. ASSUME NEW v \in Vpcs, NEW sgs \in SgLists
      PROVE  PlanIn(<<R("vpc", v)>> \o RAll("sg", sgs), 0, 1)
  <2>1. PlanIn(<<R("vpc", v)>>, 0, 0) /\ PlanIn(RAll("sg", sgs), 1, 1)
    BY <1>3, <1>4
  <2> QED
    BY <2>1, Concat
<1>8. ASSUME NEW v \in Vpcs, NEW sgs \in SgLists, NEW keys \in KeyLists, NEW c \in Clusters
      PROVE  IsPlan(CreateCluster(v, sgs, keys, c))
  <2> DEFINE a == <<R("vpc", v)>> \o RAll("sg", sgs)
  <2>1. PlanIn(a, 0, 1)
    BY <1>7
  <2>2. PlanIn(RAll("key", keys), 2, 2) /\ PlanIn(<<W("cluster", c)>>, 3, 3)
    BY <1>3, <1>5
  <2> HIDE DEF a
  <2>3. PlanIn(a \o RAll("key", keys), 0, 2)
    BY <2>1, <2>2, Concat
  <2>4. PlanIn(a \o RAll("key", keys) \o <<W("cluster", c)>>, 0, 3)
    BY <2>2, <2>3, Concat
  <2> QED
    BY <2>4 DEF CreateCluster, PlanIn, a
<1>9. ASSUME NEW v \in Vpcs, NEW sgs \in SgLists, NEW d \in Dbs
      PROVE  IsPlan(CreateRDBMS(v, sgs, d))
  <2>1. PlanIn(<<W("rdbms", d)>>, 3, 3)
    BY <1>3
  <2>2. PlanIn(CreateRDBMS(v, sgs, d), 0, 3)
    BY <2>1, <1>7, Concat DEF CreateRDBMS
  <2> QED
    BY <2>2 DEF PlanIn
<1>10. /\ \A v \in Vpcs, c \in Clusters : IsPlan(RegisterCluster(v, c))
       /\ \A k \in Keys, c \in Clusters : IsPlan(AddNodeGroup(k, c))
       /\ \A v \in Vpcs, n \in Nlbs : IsPlan(CreateNLB(v, n)) /\ IsPlan(RegisterNLB(v, n))
       /\ \A v \in Vpcs, f \in FileSystems : IsPlan(CreateFileSystem(v, f))
       /\ \A v \in Vpcs, d \in Dbs : IsPlan(RegisterRDBMS(v, d))
       /\ \A m \in Vms, d \in Disks : IsPlan(StartVM(m, d))
       /\ \A v \in Vpcs, g \in Sgs : IsPlan(CreateSecurity(v, g)) /\ IsPlan(RegisterSecurity(v, g))
  <2>1. \A x, y : /\ PlanIn(<<x>>, 0, 0) /\ (PlanIn(<<y>>, 1, 1) \/ PlanIn(<<y>>, 3, 3)) => IsPlan(<<x, y>>)
                  /\ PlanIn(<<x>>, 2, 2) /\ PlanIn(<<y>>, 3, 3) => IsPlan(<<x, y>>)
    BY <1>6
  <2> QED
    BY <1>3, <2>1 DEF RegisterCluster, AddNodeGroup, CreateNLB, RegisterNLB,
       CreateFileSystem, RegisterRDBMS, StartVM, CreateSecurity, RegisterSecurity
<1>11. \A sgs \in RowLists : IsPlan(ListVpcSecurity(sgs))
  BY <1>4 DEF PlanIn, ListVpcSecurity
<1>12. \A g \in Sgs : IsPlan(RegisterSecurityNoVPC(g))
  BY <1>3 DEF PlanIn, RegisterSecurityNoVPC
<1>13. \A pl \in Single : IsPlan(pl)
  <2>1. \A l \in Locks : l = <<l[1], l[2]>>
    BY DEF Locks
  <2> QED
    BY <2>1, <1>2 DEF Single, R, W, PlanIn
<1> QED
  BY <1>8, <1>9, <1>10, <1>11, <1>12, <1>13 DEF Ordered, Plans

-----------------------------------------------------------------------------
(* The theorems.                                                           *)

\* Every state that calls of single lists reach satisfies the invariant.
THEOREM Invariance == SingleLists => (Spec => []IInv)
<1> SUFFICES ASSUME SingleLists PROVE Spec => []IInv
  OBVIOUS
<1>1. Ordered
  BY PlansOrdered
<1>2. Init => IInv
  BY InitIInv
<1>3. IInv /\ [Next]_vars => IInv'
  BY <1>1, StepIInv
<1> QED
  BY <1>2, <1>3, PTL DEF Spec

\* The mutexes, plans, positions and stages of the calls stay in their types:
\* the deferred Unlocks and RUnlocks of a call give back as many locks as its
\* Locks and RLocks took.
THEOREM TypeCorrect == SingleLists => (Spec => []TypeOK)
<1> SUFFICES ASSUME SingleLists PROVE Spec => []TypeOK
  OBVIOUS
<1>1. IInv => TypeOK
  BY DEF IInv, Types, Mutexes, TypeOK
<1> QED
  BY <1>1, Invariance, PTL

\* However many goroutines serve calls, and whatever VPCs, clusters, load
\* balancers, file systems and databases they name, the nested locks of
\* CreateCluster, CreateRDBMS, CreateSecurity and the other calls never leave
\* goroutines waiting for each other, as long as no request names two security
\* groups or two key pairs.
THEOREM NoDeadlockHolds == SingleLists => (Spec => []NoDeadlock)
<1> SUFFICES ASSUME SingleLists PROVE Spec => []NoDeadlock
  OBVIOUS
<1>1. IInv => NoDeadlock
  BY PlansOrdered, OrderedNoDeadlock
<1> QED
  BY <1>1, Invariance, PTL
=============================================================================
