------------------------- MODULE MCResourceManagers -------------------------
(* Small instances of ResourceManagers.                                    *)
EXTENDS ResourceManagers, TLC

AllManagers == ManagerNames

Symmetric == Permutations(Procs) \cup Permutations(Owners) \cup Permutations(Names) \cup Permutations(Ids \ Foreign)
=============================================================================
