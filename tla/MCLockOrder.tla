---------------------------- MODULE MCLockOrder ----------------------------
(* Small instances of LockOrder: at most one name in each table, and the   *)
(* lists of security groups and of key pairs that requests may name.       *)
EXTENDS LockOrder

NoneOrOne(S) == {<<>>} \cup {<<x>> : x \in S}
UpToTwo(S) == NoneOrOne(S) \cup {<<x, y>> : x, y \in S}

SgListsOfOne == NoneOrOne(Sgs)
KeyListsOfOne == NoneOrOne(Keys)
KeyListsOfTwo == UpToTwo(Keys)
=============================================================================
