---------------------------- MODULE MCVPCManager ----------------------------
(* Small instances of VPCManager, and the sets of calls they make.         *)
EXTENDS VPCManager, TLC

\* The calls that name what Spider made (OnlyByName of VPCManagerProofs).
ByNameOps == {"CreateVPC", "AddSubnet", "RemoveSubnet", "DeleteVPC", "UnregisterVPC", "UnregisterSubnet",
              "GetVPC", "ListVPC"}
LiveOps == {"CreateVPC", "AddSubnet", "DeleteVPC", "ListVPC"}

Symmetry == Permutations(Procs) \cup Permutations(VPCs) \cup Permutations(Subnets)
            \cup Permutations(VIds \ Foreign) \cup Permutations(SIds)
=============================================================================
