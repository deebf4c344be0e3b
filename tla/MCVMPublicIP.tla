---------------------------- MODULE MCVMPublicIP ----------------------------
(* An instance of VMPublicIP.tla for a kind of driver.                     *)
EXTENDS VMPublicIP

OnlyAzure == {Azure}
=============================================================================
