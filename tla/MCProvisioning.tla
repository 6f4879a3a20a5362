--------------------------- MODULE MCProvisioning ---------------------------
(***************************************************************************)
(* One name that is restored and one that is created, with one kernel that *)
(* was downloaded before or not; and one name that is both.                *)
(***************************************************************************)
EXTENDS Provisioning, TLC

CONSTANTS k1

SharedKernel == [n \in Names |-> k1]
KernelOrNot == {{}, {k1}}
RestoreBesideCreate == "restored" :> {"restore", "delete"} @@ "created" :> {"create", "delete"}
BothOnOneName == [n \in Names |-> {"create", "restore"}]
=============================================================================
