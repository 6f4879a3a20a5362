---------------------------- MODULE MCVmLifecycle ----------------------------
(***************************************************************************)
(* Two clients, in one SDK process or in two, and two firectl pids: the    *)
(* smallest instance in which operations interleave, a machine can be left *)
(* over from an earlier launch, and a lock can be contended inside a       *)
(* process as well as between processes.                                   *)
(***************************************************************************)
EXTENDS VmLifecycle, TLC

CONSTANTS c1, c2, p1, p2, q1, q2

TwoClients == {c1, c2}
TwoPids == {p1, p2}
TwoProcesses == {q1, q2}

(* Each client is a `tmvm` invocation of its own, or both are tasks of one *)
(* program that embeds the SDK.                                            *)
Apart == c1 :> q1 @@ c2 :> q2
Together == c1 :> q1 @@ c2 :> q1

(* Process ids are interchangeable, and so are two clients of two          *)
(* processes: exchanging both clients and both processes maps `Apart` to   *)
(* itself.  The run that checks liveness uses no symmetry.                 *)
PidSymmetry == Permutations(TwoPids)
ClientSwap == c1 :> c2 @@ c2 :> c1 @@ q1 :> q2 @@ q2 :> q1
Symmetry == PidSymmetry \cup {p @@ ClientSwap : p \in PidSymmetry}
=============================================================================
