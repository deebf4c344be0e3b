------------------------------ MODULE MCSPLock ------------------------------
(* A small instance of SPLock: three sessions compete for one resource     *)
(* name, in the permission based mode.  Three LockValue addresses are      *)
(* enough for three sessions, since every live LockValue is referenced by  *)
(* one of them.  Sessions of other names meet these only at rwMutex; the   *)
(* proofs are about any number of names.                                   *)
EXTENDS SPLock
=============================================================================
