----------------------------- MODULE GoRWMutex -----------------------------
(***************************************************************************)
(* The sync.RWMutex of the Go library, as the code of the repository uses  *)
(* it (external).  A mutex is a record                                     *)
(*   w       the writer that has announced itself or holds the mutex,      *)
(*   readers the readers that hold it,                                     *)
(*   rwait   the readers that arrived after a writer announced itself.     *)
(*                                                                         *)
(* The library's rule is that an announced writer blocks every later       *)
(* reader, also while it still waits for the readers that came first, and  *)
(* that the writer's Unlock hands the mutex to the readers then waiting.   *)
(* A writer holds the mutex once it is announced and no reader is left.    *)
(***************************************************************************)

\* The value of w when no writer has announced itself.
CONSTANT NoOwner

\* The zero value of a sync.RWMutex.
FreeMutex == [w |-> NoOwner, readers |-> {}, rwait |-> {}]

\* Lock(), first half: only one writer announces itself at a time.
CanAnnounce(m) == m.w = NoOwner
Announce(m, p) == [m EXCEPT !.w = p]

\* Lock(), second half: the announced writer returns when the readers left.
WriterIn(m, p) == m.w = p /\ m.readers = {}

\* RLock(): at once, or behind an announced writer.
Arrive(m, p) == IF m.w = NoOwner THEN [m EXCEPT !.readers = @ \cup {p}]
                                 ELSE [m EXCEPT !.rwait = @ \cup {p}]
ReaderIn(m, p) == p \in m.readers

\* RUnlock() and Unlock().
ReaderOut(m, p) == [m EXCEPT !.readers = @ \ {p}]
WriterOut(m) == [w |-> NoOwner, readers |-> m.rwait, rwait |-> {}]
=============================================================================
