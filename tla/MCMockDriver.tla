---------------------------- MODULE MCMockDriver ----------------------------
(* Small instances of MockDriver.                                          *)
EXTENDS MockDriver, TLC

Symmetry == Permutations(Procs) \cup Permutations(VMs) \cup Permutations(Disks)
=============================================================================
