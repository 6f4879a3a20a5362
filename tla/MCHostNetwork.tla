---------------------------- MODULE MCHostNetwork ----------------------------
(***************************************************************************)
(* Two MicroVMs, each of which can be host-only or routed, four blocks of  *)
(* which the operator's networks take two, and a LAN of eight addresses.   *)
(***************************************************************************)
EXTENDS HostNetwork, TLC

CONSTANTS v1, v2

Blocks4 == <<0, 4, 8, 12>>
Lan8 == [base |-> 32, size |-> 8, host |-> 37, gateway |-> 33]
Wide == {[address |-> 0, size |-> 1], [address |-> 13, size |-> 4]}
BothModes == v1 :> {"host_only", "lan"} @@ v2 :> {"host_only", "lan"}
Either == Permutations({v1, v2})
SysctlsOff == {[forward |-> FALSE, proxy |-> FALSE]}
=============================================================================
