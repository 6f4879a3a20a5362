-------------------------- MODULE VmLifecycleProofs --------------------------
(***************************************************************************)
(* What VmLifecycle guarantees for any clients, processes, pids, sizes and *)
(* faults: first about the root disk, then about the machines that may     *)
(* have it open.                                                           *)
(*                                                                         *)
(* About the disk, the properties alone are not inductive: that a start    *)
(* maps the disk at its recorded length rests on what it checked five      *)
(* steps earlier, and that an update resizes an unmapped file on what it   *)
(* released or observed.  Knows states, for every label of every           *)
(* operation, what its client has learnt and still relies on; the lock     *)
(* file and the order in which delete removes things make it stay true.    *)
(*                                                                         *)
(* First, where a client of each operation can be, and that the operations *)
(* with the lock file exclude each other: the part of the inductive        *)
(* invariant that is about control, and type correctness from it.          *)
(***************************************************************************)
EXTENDS VmLifecycle, TLAPS

StartLabels == {
    "adopt", "adoptrow", "prepare", "ensure", "launch", "starting", "await",
    "commit", "confirm", "kill", "killwait", "retain", "undo", "undosocket",
    "undoreset", "unlaunch"}
StopLabels == {
    "request", "reprobe", "stopwait", "force", "lastprobe", "sigkill", "forcewait"}
UpdateLabels == {"inspect", "converge", "resize", "row", "unresize"}
SnapshotLabels == {
    "checklive", "capture", "capturelive", "copy", "origin", "cow", "suspend",
    "map", "resume", "nest", "stream", "unnest", "drop", "unmap", "publish"}

(* The operations that can be at a label, and a view removal that knows    *)
(* where it returns to.                                                    *)
Allowed(l, o, r) ==
    /\ l # "idle" => o \in Operations
    /\ l \in StartLabels => o = "start"
    /\ l \in StopLabels => o = "stop"
    /\ l \in UpdateLabels => o = "update"
    /\ l \in SnapshotLabels => o = "snapshot"
    /\ l \in {"volume", "rows"} => o = "delete"
    /\ l \in {"verify", "stalerow"} => o = "configure_network"
    /\ l = "network" => o \in {"delete", "configure_network"}
    /\ l \in {"lifecycle", "checkpid"} => o \in FileLocked
    /\ l = "probe" => o # "configure_network"
    /\ l = "release" => o \in {"start", "stop", "update"}
    /\ l \in {"socket", "reset"} => o \in {"start", "stop"}
    /\ l \in {"unnest", "drop", "unmap"} => r # "none"

ControlOK == \A c \in Clients : Allowed(pc[c], op[c], ret[c])

(* An operation that takes the lock file holds it from then on.            *)
LockOK ==
    \A c \in Clients :
        pc[c] \notin {"idle", "lifecycle"} /\ op[c] \in FileLocked => lifecycle = c

Control == TypeOK /\ ControlOK /\ LockOK

(* c moves to a label its operation can be at.                             *)
Moves(c) ==
    \E from, to \in Labels :
        /\ Step(c, from, to)
        /\ from \notin {"idle", "lifecycle"}
        /\ Allowed(to, op[c], ret[c])

-----------------------------------------------------------------------------
(* A move of one client, with or without a change of its locals, keeps     *)
(* every client where its operation can be and the locks as they are.      *)
LEMMA MoveControl ==
    ASSUME Control, NEW c \in Clients, NEW to \in Labels,
           pc[c] \notin {"idle", "lifecycle"}, Goto(c, to), UNCHANGED <<op, lifecycle>>,
           \A d \in Clients \ {c} : ret'[d] = ret[d],
           Allowed(to, op[c], ret'[c])
    PROVE  ControlOK' /\ LockOK'
<1>1. ASSUME NEW d \in Clients PROVE pc'[d] = IF d = c THEN to ELSE pc[d]
  BY DEF Control, TypeOK, Goto
<1>2. ControlOK'
  <2>1. ASSUME NEW d \in Clients PROVE Allowed(pc'[d], op'[d], ret'[d])
    <3>1. CASE d = c BY <3>1, <1>1
    <3>2. CASE d # c BY <3>2, <1>1 DEF Control, ControlOK
    <3> QED BY <3>1, <3>2
  <2> QED BY <2>1 DEF ControlOK
<1>3. LockOK'
  BY <1>1 DEF Control, LockOK
<1> QED BY <1>2, <1>3

(* The same for a step that changes the host as well, types being kept.    *)
LEMMA MovesControl ==
    ASSUME Control, NEW c \in Clients, Moves(c), HostTypeOK'
    PROVE  Control'
<1>1. PICK from \in Labels, to \in Labels :
        Step(c, from, to) /\ from \notin {"idle", "lifecycle"} /\ Allowed(to, op[c], ret[c])
  BY DEF Moves
<1>2. TypeOK'
  BY <1>1 DEF Control, Step, Goto, TypeOK, locals, locks
<1>3. ControlOK' /\ LockOK'
  BY <1>1, MoveControl DEF Step, At, locals, locks
<1> QED BY <1>2, <1>3 DEF Control

-----------------------------------------------------------------------------
(* The host calls keep the host's types.                                   *)
LEMMA MachineTypes ==
    ASSUME HostTypeOK, Machine PROVE HostTypeOK'
<1>1. PICK p \in Pids : Bind(p) \/ OpenDisk(p) \/ VmmExit(p) \/ FirectlExit(p)
  BY DEF Machine
<1> USE DEF HostTypeOK, rows, disk, MaybePid, VmmState
<1>2. CASE Bind(p) BY <1>2 DEF Bind
<1>3. CASE OpenDisk(p) BY <1>3 DEF OpenDisk
<1>4. CASE VmmExit(p) BY <1>4 DEF VmmExit
<1>5. CASE FirectlExit(p) BY <1>5 DEF FirectlExit
<1> QED BY <1>1, <1>2, <1>3, <1>4, <1>5

(* A step that leaves the host alone keeps its types.                      *)
LEMMA UnchangedTypes == HostTypeOK /\ UNCHANGED host => HostTypeOK'
BY DEF HostTypeOK, host, rows, disk, machines

(* persist_runtime writes rows of the right type.                          *)
LEMMA PersistTypes ==
    ASSUME HostTypeOK, NEW row \in Row, NEW ok \in BOOLEAN,
           PersistRuntime(row, ok), UNCHANGED <<record, disk, machines>>
    PROVE  HostTypeOK'
BY DEF HostTypeOK, PersistRuntime, disk, machines

(* release_mapping keeps the types of mapping and loop device.             *)
LEMMA ReleaseTypes ==
    ASSUME HostTypeOK, NEW ok \in BOOLEAN, ReleaseMapping(ok),
           UNCHANGED <<rows, volume, rootfs, view, machines>>
    PROVE  HostTypeOK'
BY DEF HostTypeOK, ReleaseMapping, MaybeSize, rows, machines

(* ensure_mapping maps at a length of the right type.                      *)
LEMMA EnsureTypes ==
    ASSUME HostTypeOK, NEW ok \in BOOLEAN, EnsureMapping(ok),
           UNCHANGED <<rows, volume, rootfs, view, machines>>
    PROVE  HostTypeOK'
BY DEF HostTypeOK, EnsureMapping, MaybeSize, rows, machines

(* resize_rootfs leaves a length of the right type, also when it fails.    *)
LEMMA ResizeTypes ==
    ASSUME HostTypeOK, NEW size \in MaybeSize, NEW ok \in BOOLEAN, ResizeRootfs(size, ok),
           UNCHANGED <<rows, volume, loop, mapper, suspended, view, machines>>
    PROVE  HostTypeOK'
BY DEF HostTypeOK, ResizeRootfs, MaybeSize, rows, machines

(* remove_stale_socket keeps the type of the socket.                       *)
LEMMA SocketTypes ==
    ASSUME HostTypeOK, NEW ok \in BOOLEAN, RemoveStaleSocket(ok),
           UNCHANGED <<rows, disk, launcher, vmm>>
    PROVE  HostTypeOK'
<1>1. NoSocket \in [entry : BOOLEAN, owner : MaybePid]
  BY DEF NoSocket, MaybePid
<1>2. socket' \in {socket, NoSocket}
  BY DEF RemoveStaleSocket
<1> QED BY <1>1, <1>2 DEF HostTypeOK, rows, disk

-----------------------------------------------------------------------------
(* Where the operations go from labels of their own.                       *)
LEMMA StartMoves ==
    ASSUME Control, NEW c \in Clients, NEW from \in StartLabels,
           NEW to \in StartLabels \cup {"ok", "fail"}, Step(c, from, to)
    PROVE  Moves(c) /\ op[c] = "start"
<1>1. pc[c] = from /\ op[c] = "start"
  BY DEF Control, ControlOK, Allowed, Step, At
<1>2. from \in Labels \ {"idle", "lifecycle"} /\ to \in Labels
  BY DEF StartLabels, Labels
<1>3. Allowed(to, "start", ret[c])
  BY DEF Allowed, Operations, StartLabels, StopLabels, UpdateLabels, SnapshotLabels
<1> QED BY <1>1, <1>2, <1>3 DEF Moves

(* A stop stays on the labels of stop_microvm.                             *)
LEMMA StopMoves ==
    ASSUME Control, NEW c \in Clients, NEW from \in StopLabels,
           NEW to \in StopLabels \cup {"checkpid", "release", "fail"}, Step(c, from, to)
    PROVE  Moves(c) /\ op[c] = "stop"
<1>1. pc[c] = from /\ op[c] = "stop"
  BY DEF Control, ControlOK, Allowed, Step, At
<1>2. from \in Labels \ {"idle", "lifecycle"} /\ to \in Labels
  BY DEF StopLabels, Labels
<1>3. Allowed(to, "stop", ret[c])
  BY DEF Allowed, Operations, FileLocked, StartLabels, StopLabels, UpdateLabels, SnapshotLabels
<1> QED BY <1>1, <1>2, <1>3 DEF Moves

(* An update stays on the labels of update_microvm.                        *)
LEMMA UpdateMoves ==
    ASSUME Control, NEW c \in Clients, NEW from \in UpdateLabels,
           NEW to \in UpdateLabels \cup {"release", "ok", "fail"}, Step(c, from, to)
    PROVE  Moves(c) /\ op[c] = "update"
<1>1. pc[c] = from /\ op[c] = "update"
  BY DEF Control, ControlOK, Allowed, Step, At
<1>2. from \in Labels \ {"idle", "lifecycle"} /\ to \in Labels
  BY DEF UpdateLabels, Labels
<1>3. Allowed(to, "update", ret[c])
  BY DEF Allowed, Operations, StartLabels, StopLabels, UpdateLabels, SnapshotLabels
<1> QED BY <1>1, <1>2, <1>3 DEF Moves

(* A snapshot stays on the labels of create_snapshot.                      *)
LEMMA SnapshotMoves ==
    ASSUME Control, NEW c \in Clients, NEW from \in SnapshotLabels,
           NEW to \in SnapshotLabels \cup {"ok", "fail"}, Step(c, from, to),
           to \in {"unnest", "drop", "unmap"} => ret[c] # "none"
    PROVE  Moves(c) /\ op[c] = "snapshot"
<1>1. pc[c] = from /\ op[c] = "snapshot"
  BY DEF Control, ControlOK, Allowed, Step, At
<1>2. from \in Labels \ {"idle", "lifecycle"} /\ to \in Labels
  BY DEF SnapshotLabels, Labels
<1>3. Allowed(to, "snapshot", ret[c])
  BY DEF Allowed, Operations, StartLabels, StopLabels, UpdateLabels, SnapshotLabels
<1> QED BY <1>1, <1>2, <1>3 DEF Moves

(* Steps that several operations share.                                    *)
LEMMA ProbeMoves ==
    ASSUME Control, NEW c \in Clients, Probe(c) PROVE Moves(c) /\ HostTypeOK'
<1>1. pc[c] = "probe" /\ op[c] \in Operations \ {"configure_network"}
  BY DEF Control, ControlOK, Allowed, Probe, Step, At
<1>2. PICK to : Step(c, "probe", to) /\ to \in {"fail", OnAnswer[op[c]], OnSilence[op[c]]}
  BY DEF Probe
<1>3. Allowed("fail", op[c], ret[c])
  BY <1>1 DEF Allowed, StartLabels, StopLabels, UpdateLabels, SnapshotLabels
<1>4. to \in Labels /\ Allowed(to, op[c], ret[c])
  <2>1. CASE op[c] = "start"
    <3>1. to \in {"adopt", "checkpid", "fail"}
      BY <1>2, <2>1 DEF OnAnswer, OnSilence
    <3> QED BY <3>1, <2>1 DEF Allowed, Labels, Operations, FileLocked, StartLabels, StopLabels,
              UpdateLabels, SnapshotLabels
  <2>2. CASE op[c] = "stop"
    <3>1. to \in {"request", "checkpid", "fail"}
      BY <1>2, <2>2 DEF OnAnswer, OnSilence
    <3> QED BY <3>1, <2>2 DEF Allowed, Labels, Operations, FileLocked, StartLabels, StopLabels,
              UpdateLabels, SnapshotLabels
  <2>3. CASE op[c] = "update"
    <3>1. to \in {"checkpid", "fail"}
      BY <1>2, <2>3 DEF OnAnswer, OnSilence
    <3> QED BY <3>1, <2>3 DEF Allowed, Labels, Operations, FileLocked, StartLabels, StopLabels,
              UpdateLabels, SnapshotLabels
  <2>4. CASE op[c] = "snapshot"
    <3>1. to \in {"checklive", "checkpid", "fail"}
      BY <1>2, <2>4 DEF OnAnswer, OnSilence
    <3> QED BY <3>1, <2>4 DEF Allowed, Labels, Operations, FileLocked, StartLabels, StopLabels,
              UpdateLabels, SnapshotLabels
  <2>5. CASE op[c] = "delete"
    <3>1. to \in {"network", "fail"}
      BY <1>2, <2>5 DEF OnAnswer, OnSilence
    <3> QED BY <3>1, <2>5 DEF Allowed, Labels, Operations, FileLocked, StartLabels, StopLabels,
              UpdateLabels, SnapshotLabels
  <2> QED BY <1>1, <2>1, <2>2, <2>3, <2>4, <2>5 DEF Operations
<1>5. Moves(c)
  BY <1>2, <1>4 DEF Moves, Labels
<1> QED BY <1>5, UnchangedTypes DEF Probe, Control, TypeOK

(* CheckPid, Release, ClearSocket, ResetRuntime and HostNetwork continue   *)
(* where the operation that runs them can be.                              *)
LEMMA SharedMoves ==
    ASSUME Control, NEW c \in Clients,
           \/ CheckPid(c) \/ Release(c) \/ ClearSocket(c) \/ ResetRuntime(c) \/ HostNetwork(c)
    PROVE  Moves(c) /\ HostTypeOK'
<1> USE DEF Control, TypeOK
<1> DEFINE o == op[c]
<1>1. CASE CheckPid(c)
  <2>1. pc[c] = "checkpid" /\ o \in FileLocked
    BY <1>1 DEF ControlOK, Allowed, CheckPid, Step, At
  <2>2. PICK to : Step(c, "checkpid", to) /\ to \in {"fail", AfterExit[o]}
    BY <1>1 DEF CheckPid, OrFail
  <2>3. to \in Labels /\ Allowed(to, o, ret[c])
    <3>1. CASE o = "start" \/ o = "stop"
      <4>1. to \in {"release", "fail"} BY <2>2, <3>1 DEF AfterExit
      <4> QED BY <4>1, <3>1 DEF Allowed, Labels, Operations, StartLabels, StopLabels,
                UpdateLabels, SnapshotLabels
    <3>2. CASE o = "update"
      <4>1. to \in {"inspect", "fail"} BY <2>2, <3>2 DEF AfterExit
      <4> QED BY <4>1, <3>2 DEF Allowed, Labels, Operations, StartLabels, StopLabels,
                UpdateLabels, SnapshotLabels
    <3>3. CASE o = "snapshot"
      <4>1. to \in {"capture", "fail"} BY <2>2, <3>3 DEF AfterExit
      <4> QED BY <4>1, <3>3 DEF Allowed, Labels, Operations, StartLabels, StopLabels,
                UpdateLabels, SnapshotLabels
    <3> QED BY <2>1, <3>1, <3>2, <3>3 DEF FileLocked
  <2>4. Moves(c)
    BY <2>2, <2>3 DEF Moves, Labels
  <2> QED BY <1>1, <2>4, UnchangedTypes DEF CheckPid
<1>2. CASE Release(c)
  <2>1. pc[c] = "release" /\ o \in {"start", "stop", "update"}
    BY <1>2 DEF ControlOK, Allowed, Release, Step, At
  <2>2. PICK ok \in BOOLEAN, to \in {"fail", IF o = "update" THEN "resize" ELSE "socket"} :
          ReleaseMapping(ok) /\ Step(c, "release", to)
    BY <1>2 DEF Release, OrFail
  <2>3. to \in Labels /\ Allowed(to, o, ret[c])
    BY <2>1, <2>2 DEF Allowed, Labels, Operations, StartLabels, StopLabels,
         UpdateLabels, SnapshotLabels
  <2>4. Moves(c)
    BY <2>2, <2>3 DEF Moves, Labels
  <2>5. HostTypeOK'
    BY <1>2, <2>2, ReleaseTypes DEF Release
  <2> QED BY <2>4, <2>5
<1>3. CASE ClearSocket(c)
  <2>1. pc[c] = "socket" /\ o \in {"start", "stop"}
    BY <1>3 DEF ControlOK, Allowed, ClearSocket, Step, At
  <2>2. PICK ok \in BOOLEAN, to \in {"fail", "reset"} :
          RemoveStaleSocket(ok) /\ Step(c, "socket", to)
    BY <1>3 DEF ClearSocket, OrFail
  <2>3. to \in Labels /\ Allowed(to, o, ret[c])
    BY <2>1, <2>2 DEF Allowed, Labels, Operations, StartLabels, StopLabels,
         UpdateLabels, SnapshotLabels
  <2>4. Moves(c)
    BY <2>2, <2>3 DEF Moves, Labels
  <2>5. HostTypeOK'
    BY <1>3, <2>2, SocketTypes DEF ClearSocket
  <2> QED BY <2>4, <2>5
<1>4. CASE ResetRuntime(c)
  <2>1. pc[c] = "reset" /\ o \in {"start", "stop"}
    BY <1>4 DEF ControlOK, Allowed, ResetRuntime, Step, At
  <2>2. PICK ok \in BOOLEAN, to \in {"fail", IF o = "start" THEN "prepare" ELSE "ok"} :
          PersistRuntime(StoppedRow, ok) /\ Step(c, "reset", to)
    BY <1>4 DEF ResetRuntime, OrFail
  <2>3. to \in Labels /\ Allowed(to, o, ret[c])
    BY <2>1, <2>2 DEF Allowed, Labels, Operations, StartLabels, StopLabels,
         UpdateLabels, SnapshotLabels
  <2>4. Moves(c)
    BY <2>2, <2>3 DEF Moves, Labels
  <2>5. StoppedRow \in Row
    BY DEF StoppedRow, Row, MaybePid
  <2>6. HostTypeOK'
    BY <1>4, <2>2, <2>5, PersistTypes DEF ResetRuntime
  <2> QED BY <2>4, <2>6
<1>5. CASE HostNetwork(c)
  <2>1. pc[c] = "network" /\ o \in {"delete", "configure_network"}
    BY <1>5 DEF ControlOK, Allowed, HostNetwork, Step, At
  <2>2. PICK to : /\ Step(c, "network", to)
                  /\ to \in {"fail", IF o = "delete" THEN "volume" ELSE "verify"}
    BY <1>5 DEF HostNetwork, OrFail
  <2>3. to \in Labels /\ Allowed(to, o, ret[c])
    BY <2>1, <2>2 DEF Allowed, Labels, Operations, StartLabels, StopLabels,
         UpdateLabels, SnapshotLabels
  <2>4. Moves(c)
    BY <2>2, <2>3 DEF Moves, Labels
  <2> QED BY <1>5, <2>4, UnchangedTypes DEF HostNetwork
<1> QED BY <1>1, <1>2, <1>3, <1>4, <1>5

-----------------------------------------------------------------------------
(* start_microvm: the steps that only move.                                *)
LEMMA StartKeepsControl ==
    ASSUME Control, NEW c \in Clients, Start(c) PROVE Control'
<1>0. StoppedRow \in Row /\ StartingRow(c) \in Row /\ RunningRow(c) \in Row
  BY DEF Control, TypeOK, StoppedRow, StartingRow, RunningRow, Row, MaybePid
<1>1. CASE Adopt(c) \/ AwaitSocket(c) \/ Confirm(c) \/ KillWait(c)
  <2>1. \E f \in StartLabels, l \in StartLabels \cup {"ok", "fail"} : Step(c, f, l)
    BY <1>1 DEF Adopt, AwaitSocket, Confirm, KillWait, OrFail, StartLabels
  <2>2. UNCHANGED host
    BY <1>1 DEF Adopt, AwaitSocket, Confirm, KillWait
  <2> QED BY <2>1, <2>2, StartMoves, MovesControl, UnchangedTypes DEF Control, TypeOK
<1>2. CASE AdoptRow(c)
  <2>1. [seen[c].row EXCEPT !.state = "running"] \in Row
    BY DEF Control, TypeOK, Seen, Row
  <2>2. PICK ok \in BOOLEAN, l \in {"ok", "fail"} :
          PersistRuntime([seen[c].row EXCEPT !.state = "running"], ok) /\ Step(c, "adoptrow", l)
    BY <1>2 DEF AdoptRow, OrFail
  <2>3. HostTypeOK'
    BY <1>2, <2>1, <2>2, PersistTypes DEF AdoptRow, Control, TypeOK
  <2> QED BY <2>2, <2>3, StartMoves, MovesControl DEF StartLabels
<1>3. CASE PersistStarting(c) \/ PersistRunning(c) \/ Retain(c) \/ UndoReset(c)
  <2>1. PICK ok \in BOOLEAN, row \in Row, f \in StartLabels, l \in StartLabels \cup {"ok", "fail"} :
          PersistRuntime(row, ok) /\ Step(c, f, l)
    BY <1>0, <1>3 DEF PersistStarting, PersistRunning, Retain, UndoReset, OrFail, StartLabels
  <2>2. UNCHANGED <<record, disk, machines>>
    BY <1>3 DEF PersistStarting, PersistRunning, Retain, UndoReset
  <2>3. HostTypeOK'
    BY <2>1, <2>2, PersistTypes DEF Control, TypeOK
  <2> QED BY <2>1, <2>3, StartMoves, MovesControl
<1>4. CASE Undo(c) \/ UnLaunch(c)
  <2>1. PICK ok \in BOOLEAN, f \in StartLabels, l \in StartLabels \cup {"ok", "fail"} :
          ReleaseMapping(ok) /\ Step(c, f, l)
    BY <1>4 DEF Undo, UnLaunch, OrFail, StartLabels
  <2>2. HostTypeOK'
    BY <1>4, <2>1, ReleaseTypes DEF Undo, UnLaunch, Control, TypeOK
  <2> QED BY <2>1, <2>2, StartMoves, MovesControl
<1>5. CASE UndoSocket(c)
  <2>1. PICK ok \in BOOLEAN, l \in {"undoreset", "fail"} :
          RemoveStaleSocket(ok) /\ Step(c, "undosocket", l)
    BY <1>5 DEF UndoSocket, OrFail
  <2>2. HostTypeOK'
    BY <1>5, <2>1, SocketTypes DEF UndoSocket, Control, TypeOK
  <2> QED BY <2>1, <2>2, StartMoves, MovesControl DEF StartLabels
<1>6. CASE Ensure(c)
  <2>1. PICK ok \in BOOLEAN, l \in {"launch", "fail"} :
          EnsureMapping(ok) /\ Step(c, "ensure", l)
    BY <1>6 DEF Ensure, OrFail
  <2>2. HostTypeOK'
    BY <1>6, <2>1, EnsureTypes DEF Ensure, Control, TypeOK
  <2> QED BY <2>1, <2>2, StartMoves, MovesControl DEF StartLabels
<1>7. CASE Prepare(c)
  <2>1. PICK l \in {"ensure", "fail"} : Goto(c, l)
    BY <1>7 DEF Prepare
  <2>2. op[c] = "start" /\ pc[c] \notin {"idle", "lifecycle"}
    BY <1>7 DEF Prepare, At, Control, ControlOK, Allowed, StartLabels
  <2>3. Allowed(l, op[c], ret[c]) /\ l \in Labels
    BY <2>2 DEF Allowed, Labels, Operations, StartLabels, StopLabels, UpdateLabels, SnapshotLabels
  <2>4. seen' \in [Clients -> Seen]
    BY <1>7 DEF Prepare, Control, TypeOK, HostTypeOK, Seen
  <2>5. ControlOK' /\ LockOK'
    BY <1>7, <2>1, <2>2, <2>3, MoveControl DEF Prepare, locks
  <2>6. TypeOK'
    BY <1>7, <2>1, <2>3, <2>4, UnchangedTypes DEF Prepare, Goto, Control, TypeOK, locks
  <2> QED BY <2>5, <2>6 DEF Control
<1>8. CASE Launch(c)
  <2>1. PICK p \in Pids, ok \in BOOLEAN :
          /\ LaunchDetached(p, ok)
          /\ spawned' = [spawned EXCEPT ![c] = IF ok THEN p ELSE None]
          /\ Goto(c, IF ok THEN "starting" ELSE "unlaunch")
    BY <1>8 DEF Launch
  <2>2. op[c] = "start" /\ pc[c] \notin {"idle", "lifecycle"}
    BY <1>8 DEF Launch, At, Control, ControlOK, Allowed, StartLabels
  <2>3. PICK l \in {"starting", "unlaunch"} : Goto(c, l)
    BY <2>1
  <2>4. Allowed(l, op[c], ret[c]) /\ l \in Labels
    BY <2>2 DEF Allowed, Labels, Operations, StartLabels, StopLabels, UpdateLabels, SnapshotLabels
  <2>5. ControlOK' /\ LockOK'
    BY <1>8, <2>2, <2>3, <2>4, MoveControl DEF Launch, locks
  <2>6. HostTypeOK'
    BY <1>8, <2>1 DEF Launch, LaunchDetached, FreePids, Control, TypeOK, HostTypeOK, VmmState, rows
  <2>7. spawned' \in [Clients -> MaybePid]
    BY <2>1 DEF Control, TypeOK, MaybePid
  <2>8. TypeOK'
    BY <1>8, <2>3, <2>4, <2>6, <2>7 DEF Launch, Goto, Control, TypeOK, locks
  <2> QED BY <2>5, <2>8 DEF Control
<1>9. CASE Kill(c)
  <2>1. op[c] = "start" /\ pc[c] \notin {"idle", "lifecycle"}
    BY <1>9 DEF Kill, At, Control, ControlOK, Allowed, StartLabels
  <2>2. Allowed("killwait", op[c], ret[c]) /\ "killwait" \in Labels
    BY <2>1 DEF Allowed, Labels, Operations, StartLabels, StopLabels, UpdateLabels, SnapshotLabels
  <2>3. ControlOK' /\ LockOK'
    BY <1>9, <2>1, <2>2, MoveControl DEF Kill, locks
  <2>4. HostTypeOK'
    BY <1>9 DEF Kill, TerminateSpawned, Control, TypeOK, HostTypeOK, rows, disk
  <2>5. failed' \in [Clients -> BOOLEAN]
    <3>1. PICK ok \in BOOLEAN : failed' = [failed EXCEPT ![c] = ~ok]
      BY <1>9 DEF Kill
    <3> QED BY <3>1, Zenon DEF Control, TypeOK
  <2>6. TypeOK'
    BY <1>9, <2>2, <2>4, <2>5 DEF Kill, Goto, Control, TypeOK, locks
  <2> QED BY <2>3, <2>6 DEF Control
<1> QED
  BY <1>1, <1>2, <1>3, <1>4, <1>5, <1>6, <1>7, <1>8, <1>9 DEF Start

(* stop_microvm.                                                           *)
LEMMA StopKeepsControl ==
    ASSUME Control, NEW c \in Clients, Stop(c) PROVE Control'
<1> DEFINE next == StopLabels \cup {"checkpid", "release", "fail"}
<1>1. CASE Request(c) \/ ReProbe(c) \/ StopWait(c) \/ Escalate(c) \/ LastProbe(c) \/ ForceWait(c)
  <2>1. \E f \in StopLabels, l \in next : Step(c, f, l)
    BY <1>1 DEF Request, ReProbe, StopWait, Escalate, LastProbe, ForceWait, OrFail, StopLabels
  <2>2. UNCHANGED host
    BY <1>1 DEF Request, ReProbe, StopWait, Escalate, LastProbe, ForceWait
  <2> QED BY <2>1, <2>2, StopMoves, MovesControl, UnchangedTypes DEF Control, TypeOK
<1>2. CASE SigKill(c)
  <2>1. PICK ok \in BOOLEAN, l \in {"forcewait", "fail"} :
          TerminateSpawned(seen[c].row.pid, ok) /\ Step(c, "sigkill", l)
    BY <1>2 DEF SigKill, OrFail
  <2>2. HostTypeOK'
    BY <1>2, <2>1 DEF SigKill, TerminateSpawned, Control, TypeOK, HostTypeOK, rows, disk
  <2> QED BY <2>1, <2>2, StopMoves, MovesControl DEF StopLabels
<1> QED BY <1>1, <1>2 DEF Stop

(* update_microvm.                                                         *)
LEMMA UpdateKeepsControl ==
    ASSUME Control, NEW c \in Clients, Update(c) PROVE Control'
<1> DEFINE next == UpdateLabels \cup {"release", "ok", "fail"}
<1>0. want[c] \in MaybeSize /\ seen[c].size \in MaybeSize
  BY DEF Control, TypeOK, Seen
<1>1. CASE Inspect(c)
  <2>1. \E l \in next : Step(c, "inspect", l)
    BY <1>1 DEF Inspect, UpdateLabels
  <2> QED BY <1>1, <2>1, UpdateMoves, MovesControl, UnchangedTypes
        DEF Inspect, Control, TypeOK, UpdateLabels
<1>2. CASE Converge(c) \/ Resize(c) \/ UnResize(c)
  <2>1. PICK size \in MaybeSize, ok \in BOOLEAN, f \in UpdateLabels, l \in next :
          ResizeRootfs(size, ok) /\ Step(c, f, l)
    BY <1>0, <1>2 DEF Converge, Resize, UnResize, OrFail, UpdateLabels
  <2>2. HostTypeOK'
    BY <1>2, <2>1, ResizeTypes DEF Converge, Resize, UnResize, Control, TypeOK
  <2> QED BY <2>1, <2>2, UpdateMoves, MovesControl
<1>3. CASE UpdateRow(c)
  <2>1. PICK l \in next : Step(c, "row", l)
    BY <1>3 DEF UpdateRow, UpdateLabels
  <2>2. HostTypeOK'
    BY <1>0, <1>3 DEF UpdateRow, Control, TypeOK, HostTypeOK, disk, machines
  <2> QED BY <2>1, <2>2, UpdateMoves, MovesControl DEF UpdateLabels
<1> QED BY <1>1, <1>2, <1>3 DEF Update

(* A snapshot that turns to the removal of its view.                       *)
LEMMA DropControl ==
    ASSUME Control, NEW c \in Clients, NEW from \in SnapshotLabels,
           NEW back \in {"cow", "abort", "publish"}, GotoDrop(c, from, back), HostTypeOK'
    PROVE  Control'
<1>1. op[c] = "snapshot" /\ pc[c] \notin {"idle", "lifecycle"}
  BY DEF GotoDrop, At, Control, ControlOK, Allowed, SnapshotLabels
<1>2. ret'[c] = back /\ \A d \in Clients \ {c} : ret'[d] = ret[d]
  BY DEF GotoDrop, Control, TypeOK
<1>3. Allowed("drop", op[c], ret'[c]) /\ "drop" \in Labels
  BY <1>1, <1>2 DEF Allowed, Labels, Operations, StartLabels, StopLabels, UpdateLabels, SnapshotLabels
<1>4. ControlOK' /\ LockOK'
  BY <1>1, <1>2, <1>3, MoveControl DEF GotoDrop, locks
<1>5. TypeOK'
  BY <1>3 DEF GotoDrop, Goto, Control, TypeOK, locks
<1> QED BY <1>4, <1>5 DEF Control

(* create_snapshot.                                                        *)
LEMMA SnapshotKeepsControl ==
    ASSUME Control, NEW c \in Clients, Snapshot(c) PROVE Control'
<1> DEFINE next == SnapshotLabels \cup {"ok", "fail"}
<1> DEFINE rest == <<rows, volume, rootfs, loop, mapper, machines>>
<1>0. ASSUME UNCHANGED rest, suspended' \in BOOLEAN, view' \in ViewState PROVE HostTypeOK'
  BY <1>0 DEF Control, TypeOK, HostTypeOK, rows, machines
<1>a. view \in ViewState /\ suspended \in BOOLEAN
  BY DEF Control, TypeOK, HostTypeOK
<1>1. CASE CheckLive(c) \/ Capture(c) \/ Copy(c) \/ Publish(c)
  <2>1. \E f \in SnapshotLabels, l \in next \ {"unnest", "drop", "unmap"} : Step(c, f, l)
    BY <1>1 DEF CheckLive, Capture, Copy, Publish, OrFail, SnapshotLabels
  <2>2. UNCHANGED host
    BY <1>1 DEF CheckLive, Capture, Copy, Publish
  <2> QED BY <2>1, <2>2, SnapshotMoves, MovesControl, UnchangedTypes DEF Control, TypeOK
<1>2. CASE Origin(c) \/ Suspend(c) \/ Resume(c) \/ Nest(c) \/ AllocateCow(c)
  <2>1. HostTypeOK'
    BY <1>0, <1>2, <1>a DEF Origin, Suspend, Resume, Nest, AllocateCow, ViewState
  <2>2. \/ \E f \in SnapshotLabels, l \in next \ {"unnest", "drop", "unmap"} : Step(c, f, l)
        \/ \E f \in SnapshotLabels, b \in {"cow", "abort", "publish"} : GotoDrop(c, f, b)
    BY <1>2 DEF Origin, Suspend, Resume, Nest, AllocateCow, SnapshotLabels
  <2> QED BY <2>1, <2>2, SnapshotMoves, MovesControl, DropControl
<1>3. CASE UnNest(c) \/ Drop(c) \/ Unmap(c)
  <2>1. HostTypeOK'
    BY <1>0, <1>3, <1>a DEF UnNest, Drop, Unmap, ViewState
  <2>2. ret[c] \in {"none", "cow", "abort", "publish"}
    BY DEF Control, TypeOK
  <2>3. ret[c] # "none" => AfterDrop(c) \in next \ {"unnest", "drop", "unmap"}
    BY <2>2 DEF AfterDrop, SnapshotLabels
  <2>4. ret[c] # "none"
    BY <1>3 DEF UnNest, Drop, Unmap, Step, At, Control, ControlOK, Allowed
  <2>5. PICK f \in {"drop", "unmap", "unnest"}, l \in next : Step(c, f, l)
    BY <1>3, <2>3, <2>4 DEF UnNest, Drop, Unmap, SnapshotLabels
  <2> QED BY <2>1, <2>4, <2>5, SnapshotMoves, MovesControl DEF SnapshotLabels
<1>4. CASE MapView(c)
  <2>1. op[c] = "snapshot" /\ pc[c] \notin {"idle", "lifecycle"}
    BY <1>4 DEF MapView, At, Control, ControlOK, Allowed, SnapshotLabels
  <2>2. Allowed("resume", op[c], ret[c]) /\ "resume" \in Labels
    BY <2>1 DEF Allowed, Labels, Operations, StartLabels, StopLabels, UpdateLabels, SnapshotLabels
  <2>3. ControlOK' /\ LockOK'
    BY <1>4, <2>1, <2>2, MoveControl DEF MapView, locks
  <2>4. HostTypeOK'
    BY <1>0, <1>4, <1>a DEF MapView, ViewState
  <2>5. failed' \in [Clients -> BOOLEAN]
    BY <1>4 DEF MapView, Control, TypeOK
  <2>6. TypeOK'
    BY <1>4, <2>2, <2>4, <2>5 DEF MapView, Goto, Control, TypeOK, locks
  <2> QED BY <2>3, <2>6 DEF Control
<1>5. CASE Stream(c)
  <2>1. PICK back \in {"publish", "abort"} : ret' = [ret EXCEPT ![c] = back]
    BY <1>5 DEF Stream
  <2>2. PICK l \in {"unnest", "drop"} : Goto(c, l)
    BY <1>5 DEF Stream
  <2>3. op[c] = "snapshot" /\ pc[c] \notin {"idle", "lifecycle"}
    BY <1>5 DEF Stream, At, Control, ControlOK, Allowed, SnapshotLabels
  <2>4. ret'[c] = back /\ \A d \in Clients \ {c} : ret'[d] = ret[d]
    BY <2>1 DEF Control, TypeOK
  <2>5. Allowed(l, op[c], ret'[c]) /\ l \in Labels
    BY <2>3, <2>4 DEF Allowed, Labels, Operations, StartLabels, StopLabels, UpdateLabels, SnapshotLabels
  <2>6. ControlOK' /\ LockOK'
    BY <1>5, <2>2, <2>3, <2>4, <2>5, MoveControl DEF Stream, locks
  <2>7. TypeOK'
    BY <1>5, <2>1, <2>2, <2>5, UnchangedTypes DEF Stream, Goto, Control, TypeOK, locks
  <2> QED BY <2>6, <2>7 DEF Control
<1> QED BY <1>1, <1>2, <1>3, <1>4, <1>5 DEF Snapshot

(* delete_microvm and configure_network.                                   *)
LEMMA NameLockedKeepControl ==
    ASSUME Control, NEW c \in Clients, Delete(c) \/ ConfigureNetwork(c) PROVE Control'
<1>0. StoppedRow \in Row /\ seen[c].row \in Row /\ NoSocket \in [entry : BOOLEAN, owner : MaybePid]
  BY DEF Control, TypeOK, Seen, StoppedRow, Row, MaybePid, NoSocket
<1>1. CASE Delete(c)
  <2>1. PICK f \in {"volume", "rows"}, l \in {"rows", "ok", "fail"} : Step(c, f, l)
    BY <1>1 DEF Delete, RemoveVolume, DeleteRows
  <2>2. op[c] = "delete"
    BY <2>1 DEF Step, At, Control, ControlOK, Allowed
  <2>3. Allowed(l, op[c], ret[c]) /\ l \in Labels /\ f \in Labels
    BY <2>2 DEF Allowed, Labels, Operations, StartLabels, StopLabels, UpdateLabels, SnapshotLabels
  <2>4. HostTypeOK'
    <3>1. CASE RemoveVolume(c)
      BY <1>0, <3>1 DEF RemoveVolume, Control, TypeOK, HostTypeOK, MaybeSize, rows
    <3>2. CASE DeleteRows(c)
      BY <1>0, <3>2 DEF DeleteRows, Control, TypeOK, HostTypeOK, MaybeSize, rows, disk, machines
    <3> QED BY <1>1, <3>1, <3>2 DEF Delete
  <2>5. Moves(c)
    BY <2>1, <2>3 DEF Moves
  <2> QED BY <2>4, <2>5, MovesControl
<1>2. CASE ConfigureNetwork(c)
  <2>1. PICK f \in {"verify", "stalerow"}, l \in {"stalerow", "ok", "fail"} : Step(c, f, l)
    BY <1>2 DEF ConfigureNetwork, VerifyStopped, PersistStaleRow, OrFail
  <2>2. op[c] = "configure_network"
    BY <2>1 DEF Step, At, Control, ControlOK, Allowed
  <2>3. Allowed(l, op[c], ret[c]) /\ l \in Labels /\ f \in Labels
    BY <2>2 DEF Allowed, Labels, Operations, StartLabels, StopLabels, UpdateLabels, SnapshotLabels
  <2>4. HostTypeOK'
    <3>1. CASE VerifyStopped(c)
      BY <3>1, UnchangedTypes DEF VerifyStopped, Control, TypeOK
    <3>2. CASE PersistStaleRow(c)
      BY <1>0, <3>2, PersistTypes DEF PersistStaleRow, Control, TypeOK
    <3> QED BY <1>2, <3>1, <3>2 DEF ConfigureNetwork
  <2>5. Moves(c)
    BY <2>1, <2>3 DEF Moves
  <2> QED BY <2>4, <2>5, MovesControl
<1> QED BY <1>1, <1>2

-----------------------------------------------------------------------------
(* Entering, locking, loading and returning.                               *)
LEMMA EntryKeepsControl ==
    ASSUME Control, NEW c \in Clients,
           Invoke(c) \/ TakeLifecycle(c) \/ TakeName(c) \/ Return(c) \/ Load(c)
    PROVE  Control'
<1> USE DEF Control
<1>1. CASE Invoke(c)
  <2>1. PICK o \in Ops : /\ op' = [op EXCEPT ![c] = o]
                         /\ Goto(c, IF o \in FileLocked THEN "lifecycle" ELSE "name")
    BY <1>1 DEF Invoke
  <2>2. o \in Operations
    BY OpsAssumption
  <2>3. want' \in [Clients -> MaybeSize]
    <3>1. want' = want \/ \E s \in Sizes : want' = [want EXCEPT ![c] = s]
      BY <1>1 DEF Invoke
    <3> QED BY <3>1 DEF TypeOK, MaybeSize
  <2>4. PICK l \in {"lifecycle", "name"} : Goto(c, l) /\ (l = "name" => o \notin FileLocked)
                                           /\ (l = "lifecycle" => o \in FileLocked)
    BY <2>1
  <2>5. ASSUME NEW d \in Clients, d # c PROVE pc'[d] = pc[d] /\ op'[d] = op[d]
    BY <2>1, <2>4, <2>5 DEF TypeOK, Goto
  <2>6. pc'[c] = l /\ op'[c] = o
    BY <2>1, <2>4 DEF TypeOK, Goto
  <2>7. TypeOK'
    <3>1. pc' \in [Clients -> Labels]
      BY <2>4 DEF Goto, TypeOK, Labels
    <3>2. op' \in [Clients -> Operations \cup {None}]
      BY <2>1, <2>2 DEF TypeOK
    <3>3. HostTypeOK'
      BY <1>1, UnchangedTypes DEF Invoke, TypeOK
    <3> QED BY <1>1, <2>3, <3>1, <3>2, <3>3 DEF Invoke, TypeOK, locks
  <2>8. Allowed(l, o, ret[c])
    BY <2>2, <2>4 DEF Allowed, StartLabels, StopLabels, UpdateLabels, SnapshotLabels
  <2>9. ControlOK'
    BY <1>1, <2>5, <2>6, <2>8 DEF Invoke, ControlOK
  <2>10. LockOK'
    BY <1>1, <2>4, <2>5, <2>6 DEF Invoke, LockOK, locks
  <2> QED BY <2>7, <2>9, <2>10
<1>2. CASE TakeLifecycle(c)
  <2>1. pc' = [pc EXCEPT ![c] = "name"] /\ lifecycle' = c /\ lifecycle = None /\ pc[c] = "lifecycle"
    BY <1>2 DEF TakeLifecycle, Goto, At
  <2>2. op' = op /\ ret' = ret
    BY <1>2 DEF TakeLifecycle, locals
  <2>3. TypeOK'
    BY <1>2, UnchangedTypes DEF TakeLifecycle, Goto, TypeOK, Labels, locals
  <2>4. Allowed("name", op[c], ret[c])
    BY <2>1 DEF ControlOK, Allowed, FileLocked, Operations, StartLabels, StopLabels, UpdateLabels,
         SnapshotLabels
  <2>5. ControlOK'
    BY <2>1, <2>2, <2>4 DEF ControlOK, TypeOK
  <2>6. LockOK'
    BY <2>1, <2>2, ClientsAssumption DEF LockOK, TypeOK
  <2> QED BY <2>3, <2>5, <2>6
<1>3. CASE TakeName(c)
  <2>1. op[c] \in Operations /\ pc[c] \notin {"idle", "lifecycle"}
    BY <1>3 DEF TakeName, At, ControlOK, Allowed
  <2>2. Allowed("load", op[c], ret[c]) /\ "load" \in Labels
    BY <2>1 DEF Allowed, Labels, StartLabels, StopLabels, UpdateLabels, SnapshotLabels
  <2>3. ControlOK' /\ LockOK'
    BY <1>3, <2>1, <2>2, MoveControl DEF TakeName, locals
  <2>4. nameLock' \in [Processes -> Clients \cup {None}]
    BY <1>3, ProcessesAssumption DEF TakeName, TypeOK
  <2>5. TypeOK'
    BY <1>3, <2>2, <2>4, UnchangedTypes DEF TakeName, Goto, TypeOK, locals
  <2> QED BY <2>3, <2>5
<1>4. CASE Return(c)
  <2>1. NothingSeen \in Seen
    BY DEF NothingSeen, Seen, StoppedRow, Row, MaybePid, MaybeSize
  <2>2. nameLock' \in [Processes -> Clients \cup {None}]
    BY <1>4, ProcessesAssumption DEF Return, TypeOK
  <2>3. failed' \in [Clients -> BOOLEAN]
    BY <1>4 DEF Return, TypeOK
  <2>4. TypeOK'
    BY <1>4, <2>1, <2>2, <2>3, UnchangedTypes
       DEF Return, Goto, TypeOK, Labels, MaybeSize, MaybePid
  <2>5. ASSUME NEW d \in Clients
        PROVE  /\ d # c => pc'[d] = pc[d] /\ op'[d] = op[d] /\ ret'[d] = ret[d]
               /\ d = c => pc'[d] = "idle"
    BY <1>4 DEF Return, Goto, TypeOK
  <2>6. ASSUME NEW d \in Clients PROVE Allowed(pc'[d], op'[d], ret'[d])
    <3>1. CASE d = c
      BY <3>1, <2>5 DEF Allowed, StartLabels, StopLabels, UpdateLabels, SnapshotLabels
    <3>2. CASE d # c
      BY <3>2, <2>5 DEF ControlOK
    <3> QED BY <3>1, <3>2
  <2>7. LockOK'
    BY <1>4, <2>5 DEF Return, LockOK
  <2> QED BY <2>4, <2>6, <2>7 DEF ControlOK
<1>5. CASE Load(c)
  <2>1. PICK l \in {"fail", "probe", "network"} :
          /\ Goto(c, l) /\ (l = "network" => op[c] = "configure_network")
          /\ (l = "probe" => op[c] # "configure_network")
    BY <1>5 DEF Load
  <2>2. op[c] \in Operations /\ pc[c] \notin {"idle", "lifecycle"}
    BY <1>5 DEF Load, At, ControlOK, Allowed
  <2>3. Allowed(l, op[c], ret[c]) /\ l \in Labels
    BY <2>1, <2>2 DEF Allowed, Labels, StartLabels, StopLabels, UpdateLabels, SnapshotLabels
  <2>4. ControlOK' /\ LockOK'
    BY <1>5, <2>1, <2>2, <2>3, MoveControl DEF Load, locks
  <2>5. seen' \in [Clients -> Seen]
    BY <1>5 DEF Load, TypeOK, HostTypeOK, Seen
  <2>6. TypeOK'
    BY <1>5, <2>1, <2>3, <2>5, UnchangedTypes DEF Load, Goto, TypeOK, locks
  <2> QED BY <2>4, <2>6
<1> QED BY <1>1, <1>2, <1>3, <1>4, <1>5

(* A crash or a reboot ends the clients of S.                              *)
LEMMA AbandonKeepsControl ==
    ASSUME Control, NEW S \in SUBSET Clients, Abandon(S), HostTypeOK'
    PROVE  Control'
<1> USE DEF Control
<1>1. NothingSeen \in Seen
  BY DEF NothingSeen, Seen, StoppedRow, Row, MaybePid, MaybeSize
<1>2. failed' \in [Clients -> BOOLEAN]
  BY DEF Abandon, TypeOK
<1>3. lifecycle' \in Clients \cup {None} /\ nameLock' \in [Processes -> Clients \cup {None}]
  BY DEF Abandon, TypeOK
<1>4. pc' \in [Clients -> Labels] /\ op' \in [Clients -> Operations \cup {None}]
  BY DEF Abandon, TypeOK, Labels
<1>5. /\ seen' \in [Clients -> Seen] /\ want' \in [Clients -> MaybeSize]
      /\ spawned' \in [Clients -> MaybePid]
      /\ ret' \in [Clients -> {"none", "cow", "abort", "publish"}]
  BY <1>1 DEF Abandon, TypeOK, MaybeSize, MaybePid
<1>6. TypeOK'
  BY <1>2, <1>3, <1>4, <1>5 DEF TypeOK
<1>7. ASSUME NEW d \in Clients PROVE Allowed(pc'[d], op'[d], ret'[d])
  <2>1. CASE d \in S
    <3>1. pc'[d] = "idle"
      BY <2>1 DEF Abandon
    <3> QED BY <3>1 DEF Allowed, StartLabels, StopLabels, UpdateLabels, SnapshotLabels
  <2>2. CASE d \notin S
    BY <2>2 DEF Abandon, ControlOK
  <2> QED BY <2>1, <2>2
<1>8. LockOK'
  BY DEF Abandon, LockOK
<1> QED BY <1>6, <1>7, <1>8 DEF ControlOK

(* A crash or a reboot sends its clients to "idle" without their locks.    *)
LEMMA FailuresKeepControl ==
    ASSUME Control, (\E q \in Processes : Crash(q)) \/ Reboot PROVE Control'
<1>1. ASSUME NEW q \in Processes, Crash(q) PROVE Control'
  <2>1. {c \in Clients : ProcessOf[c] = q} \in SUBSET Clients
    OBVIOUS
  <2> QED BY <1>1, <2>1, AbandonKeepsControl, UnchangedTypes DEF Crash, Control, TypeOK
<1>2. CASE Reboot
  <2>1. HostTypeOK'
    BY <1>2 DEF Reboot, Control, TypeOK, HostTypeOK, MaybeSize, MaybePid, ViewState, VmmState, rows
  <2> QED BY <1>2, <2>1, AbandonKeepsControl DEF Reboot
<1> QED BY <1>1, <1>2

(* No step leaves Control.                                                 *)
LEMMA ControlStep ==
    Control /\ [Next]_vars => Control'
<1> SUFFICES ASSUME Control, [Next]_vars PROVE Control'
  OBVIOUS
<1>1. ASSUME NEW c \in Clients, Client(c) PROVE Control'
  <2>1. CASE Shared(c)
    BY <2>1, EntryKeepsControl, ProbeMoves, SharedMoves, MovesControl DEF Shared
  <2> QED BY <1>1, <2>1, StartKeepsControl, StopKeepsControl, UpdateKeepsControl,
             SnapshotKeepsControl, NameLockedKeepControl DEF Client
<1>2. CASE Machine /\ UNCHANGED <<locks, pc, locals>>
  BY <1>2, MachineTypes DEF Control, TypeOK, ControlOK, LockOK, locks, locals
<1>3. CASE UNCHANGED vars
  BY <1>3, UnchangedTypes DEF vars, Control, TypeOK, ControlOK, LockOK, locks, locals
<1> QED BY <1>1, <1>2, <1>3, FailuresKeepControl DEF Next

(* Nobody holds a lock initially and all clients are idle.                 *)
LEMMA ControlInit == Init => Control
<1> SUFFICES ASSUME Init PROVE Control
  OBVIOUS
<1>1. HostTypeOK
  BY SizesAssumption DEF Init, HostInit, HostTypeOK, MaybeSize, MaybePid, StoppedRow, NoSocket,
     Row, ViewState, VmmState
<1>2. NothingSeen \in Seen
  BY DEF NothingSeen, Seen, StoppedRow, Row, MaybePid, MaybeSize
<1>3. TypeOK
  BY <1>1, <1>2 DEF Init, TypeOK, Labels, MaybeSize, MaybePid
<1>4. ControlOK
  BY DEF Init, ControlOK, Allowed, StartLabels, StopLabels, UpdateLabels, SnapshotLabels
<1> QED BY <1>3, <1>4 DEF Init, LockOK, Control

(* Every variable keeps its type, whatever the clients do and whatever     *)
(* fails: in particular no operation falls off its control flow.           *)
THEOREM TypeCorrect == Spec => []TypeOK
<1>1. Control => TypeOK
  BY DEF Control
<1> QED BY <1>1, ControlInit, ControlStep, PTL DEF Spec

-----------------------------------------------------------------------------
Unmapped == mapper = None /\ loop = None

(* A machine holds the mapping, the mapping holds the loop device, and     *)
(* both have the length of the file.                                       *)
MappingOK ==
    /\ \A p \in Pids : vmm[p] = "run" => mapper # None
    /\ mapper # None => loop # None
    /\ rootfs # None => mapper \in {None, rootfs} /\ loop \in {None, rootfs}

(* The file goes before its record.                                        *)
RecordOK == DivergedDiskIsUnmapped /\ (record = None => rootfs = None)

(* What an operation o at label l, an update from size s to size w among   *)
(* them, has learnt about the disk and relies on later.  A delete of       *)
(* another process can take the file away at any point.                    *)
StartKnows(l, o) ==
    o = "start" /\ l \in {"probe", "checkpid", "release", "socket", "reset", "prepare", "ensure"}
        => rootfs \in {None, record}

StopKnows(l, o) == o = "stop" /\ l \in {"socket", "reset", "ok"} => Unmapped

UpdateKnows(l, o, w, s) ==
    o = "update" =>
        /\ l # "idle" => w \in Sizes
        /\ l \in {"probe", "checkpid", "release"} \cup UpdateLabels => record \in {None, s}
        /\ l \in {"resize", "unresize"} => Unmapped
        /\ l = "converge" => rootfs = None \/ Unmapped
        /\ l = "row" => rootfs \in {None, w} /\ (w # s => Unmapped)

DeleteKnows(l) == l = "rows" => rootfs = None

Knows(l, o, w, s) ==
    StartKnows(l, o) /\ StopKnows(l, o) /\ UpdateKnows(l, o, w, s) /\ DeleteKnows(l)

ClientOK(c) == Knows(pc[c], op[c], want[c], seen[c].size)

DiskOK == MappingOK /\ RecordOK /\ \A c \in Clients : ClientOK(c)

Inv == Control /\ DiskOK

(* Nothing about client d changes.                                         *)
Same(d) == pc'[d] = pc[d] /\ op'[d] = op[d] /\ want'[d] = want[d] /\ seen'[d] = seen[d]

(* Neither the disk nor its mapping changes and no machine starts.         *)
Quiet ==
    /\ UNCHANGED <<record, rootfs, loop, mapper>>
    /\ \A p \in Pids : vmm'[p] = "run" => vmm[p] = "run"

(* A step that leaves record, disk and machines alone is quiet.            *)
LEMMA UnchangedIsQuiet == HostTypeOK /\ UNCHANGED <<record, disk, vmm>> => Quiet
BY DEF Quiet, disk, HostTypeOK

(* A quiet step keeps what holds between mapping, file and record.         *)
LEMMA QuietState ==
    ASSUME Inv, Quiet PROVE MappingOK' /\ RecordOK'
BY DEF Inv, DiskOK, Quiet, MappingOK, RecordOK, DivergedDiskIsUnmapped

(* A client that learns nothing it does not know.                          *)
LEMMA QuietKeepsDisk ==
    ASSUME Inv, NEW c \in Clients, Quiet, \A d \in Clients \ {c} : Same(d),
           Knows(pc'[c], op'[c], want'[c], seen'[c].size)
    PROVE  DiskOK'
<1>1. ASSUME NEW d \in Clients PROVE ClientOK(d)'
  <2>1. Knows(pc'[d], op'[d], want'[d], seen'[d].size)
    BY DEF Same, Inv, DiskOK, ClientOK
  <2> QED BY <2>1 DEF Quiet, ClientOK, Knows, StartKnows, StopKnows, UpdateKnows, DeleteKnows,
             Unmapped
<1> QED BY <1>1, QuietState DEF DiskOK

(* A quiet step of one client keeps the invariant if the client ends at a  *)
(* label where it relies on nothing new.                                   *)
LEMMA QuietStep ==
    ASSUME Inv, NEW c \in Clients, NEW from, NEW to, Step(c, from, to), Quiet,
           Knows(to, op[c], want[c], seen[c].size)
    PROVE  DiskOK'
<1>1. pc'[c] = to /\ op' = op /\ want' = want /\ seen' = seen
  BY DEF Inv, Control, TypeOK, Step, Goto, locals
<1>2. \A d \in Clients \ {c} : Same(d)
  BY <1>1 DEF Inv, Control, TypeOK, Step, Goto, Same
<1> QED BY <1>1, <1>2, QuietKeepsDisk

(* The holder of the lock file changes the disk: nobody else relies on it. *)
LEMMA ExclusiveKeepsDisk ==
    ASSUME Inv, NEW c \in Clients, op[c] \in FileLocked, pc[c] \notin {"idle", "lifecycle"},
           \A d \in Clients \ {c} : Same(d),
           rootfs = None => rootfs' = None, MappingOK', RecordOK', ClientOK(c)'
    PROVE  DiskOK'
<1>1. ASSUME NEW d \in Clients, d # c PROVE ClientOK(d)'
  <2>1. op[d] \in FileLocked => pc[d] \in {"idle", "lifecycle"}
    BY <1>1 DEF Inv, Control, LockOK
  <2>2. Knows(pc[d], op[d], want[d], seen[d].size)
    BY DEF Inv, DiskOK, ClientOK
  <2>3. Same(d)
    BY <1>1
  <2>4. StartKnows(pc[d], op[d])' /\ StopKnows(pc[d], op[d])' /\ DeleteKnows(pc[d])'
    BY <2>1, <2>2, <2>3 DEF Same, Knows, StartKnows, StopKnows, DeleteKnows, FileLocked
  <2>5. UpdateKnows(pc[d], op[d], want[d], seen[d].size)'
    BY <2>1, <2>2, <2>3 DEF Same, Knows, UpdateKnows, UpdateLabels, FileLocked
  <2> QED BY <2>4, <2>5 DEF ClientOK, Knows
<1> QED BY <1>1 DEF DiskOK

(* release_mapping keeps mapping, file and record consistent, and a        *)
(* successful one leaves the disk unmapped.                                *)
LEMMA ReleaseDisk ==
    ASSUME HostTypeOK, MappingOK, RecordOK, NEW ok \in BOOLEAN, ReleaseMapping(ok),
           UNCHANGED <<record, rootfs, vmm>>
    PROVE  MappingOK' /\ RecordOK' /\ (ok => Unmapped')
<1>1. ReleaseMapping(ok) /\ mapper' # mapper => \A p \in Pids : vmm[p] # "run"
  BY DEF ReleaseMapping, Releasable, OpenCountIsZero, Running
<1>2. loop' \in {None, loop} /\ mapper' \in {None, mapper} /\ (ok => Unmapped')
  BY DEF ReleaseMapping, Unmapped
<1>3. mapper' # None => loop' # None
  BY DEF ReleaseMapping, MappingOK
<1>4. MappingOK'
  BY <1>1, <1>2, <1>3 DEF MappingOK
<1>5. RecordOK'
  BY <1>2 DEF RecordOK, DivergedDiskIsUnmapped
<1> QED BY <1>2, <1>4, <1>5

(* ensure_mapping of a disk at its recorded length keeps mapping, file and *)
(* record consistent, whether it succeeds or not.                          *)
LEMMA EnsureDisk ==
    ASSUME HostTypeOK, MappingOK, RecordOK, rootfs \in {None, record},
           NEW ok \in BOOLEAN, EnsureMapping(ok), UNCHANGED <<record, rootfs, vmm>>
    PROVE  MappingOK' /\ RecordOK'
<1>1. \/ UNCHANGED <<mapper, loop>>
      \/ rootfs # None /\ mapper = None /\ loop' = rootfs /\ mapper' \in {None, rootfs}
      \/ Running = {} /\ mapper' = None /\ loop' \in {None, loop}
  BY DEF EnsureMapping, MappingOK, Releasable, OpenCountIsZero
<1>2. MappingOK'
  BY <1>1 DEF MappingOK, Running
<1>3. RecordOK'
  BY <1>1 DEF RecordOK, DivergedDiskIsUnmapped
<1> QED BY <1>2, <1>3

(* start_microvm maps the disk only at its recorded size.                  *)
LEMMA StartKeepsDisk ==
    ASSUME Inv, NEW c \in Clients, Start(c) PROVE DiskOK'
<1> DEFINE next == (StartLabels \ {"prepare", "ensure"}) \cup {"ok", "fail"}
<1>0. Control /\ HostTypeOK /\ MappingOK /\ RecordOK
  BY DEF Inv, DiskOK, Control, TypeOK
<1>a. ASSUME NEW l \in next, NEW w, NEW s PROVE Knows(l, "start", w, s)
  BY DEF Knows, StartKnows, StopKnows, UpdateKnows, DeleteKnows, StartLabels
<1>b. \A f \in StartLabels : pc[c] = f => op[c] = "start" /\ f \notin {"idle", "lifecycle"}
  BY <1>0 DEF Control, ControlOK, Allowed, StartLabels
<1>1. CASE \/ Adopt(c) \/ AdoptRow(c) \/ PersistStarting(c) \/ AwaitSocket(c) \/ PersistRunning(c)
           \/ Confirm(c) \/ KillWait(c) \/ Retain(c) \/ UndoSocket(c) \/ UndoReset(c)
  <2>1. PICK f \in StartLabels, l \in next : Step(c, f, l)
    BY <1>1 DEF Adopt, AdoptRow, PersistStarting, AwaitSocket, PersistRunning, Confirm, KillWait,
         Retain, UndoSocket, UndoReset, OrFail, StartLabels
  <2>2. UNCHANGED <<record, disk, vmm>>
    BY <1>1 DEF Adopt, AdoptRow, PersistStarting, AwaitSocket, PersistRunning, Confirm, KillWait,
         Retain, UndoSocket, UndoReset, host, rows, machines
  <2>3. op[c] = "start"
    BY <1>b, <2>1 DEF Step, At
  <2> QED BY <1>0, <1>a, <2>1, <2>2, <2>3, UnchangedIsQuiet, QuietStep
<1>2. CASE Kill(c) \/ Launch(c) \/ Prepare(c)
  <2>1. pc[c] \in {"kill", "launch", "prepare"} /\ op[c] = "start"
    BY <1>2, <1>b DEF Kill, Launch, Prepare, At, StartLabels
  <2>2. Quiet
    <3>1. CASE Kill(c) \/ Prepare(c)
      BY <3>1, <1>0, UnchangedIsQuiet DEF Kill, Prepare, host, rows, machines
    <3>2. CASE Launch(c)
      BY <3>2, <1>0 DEF Launch, LaunchDetached, Quiet, HostTypeOK, rows
    <3> QED BY <1>2, <3>1, <3>2
  <2>3. op' = op /\ want' = want /\ \A d \in Clients \ {c} : Same(d)
    BY <1>2, <1>0 DEF Kill, Launch, Prepare, Goto, Same, Control, TypeOK
  <2>4. pc'[c] \in next \/ pc[c] = "prepare"
    BY <1>2, <1>0 DEF Kill, Launch, Prepare, Goto, At, Control, TypeOK, StartLabels
  <2>5. pc'[c] \in next \cup {"ensure"}
    BY <1>2, <1>0 DEF Kill, Launch, Prepare, Goto, At, Control, TypeOK, StartLabels
  <2>6. pc[c] = "prepare" => rootfs \in {None, record}
    BY <2>1 DEF Inv, DiskOK, ClientOK, Knows, StartKnows
  <2>7. Knows(pc'[c], op'[c], want'[c], seen'[c].size)
    BY <2>1, <2>3, <2>4, <2>5, <2>6 DEF Knows, StartKnows, StopKnows, UpdateKnows, DeleteKnows, StartLabels
  <2> QED BY <2>2, <2>3, <2>7, QuietKeepsDisk
<1>3. CASE Ensure(c) \/ Undo(c) \/ UnLaunch(c)
  <2>1. PICK f \in {"ensure", "undo", "unlaunch"}, l \in next, ok \in BOOLEAN :
          /\ Step(c, f, l)
          /\ (f = "ensure" /\ EnsureMapping(ok)) \/ ReleaseMapping(ok)
    BY <1>3 DEF Ensure, Undo, UnLaunch, OrFail, StartLabels
  <2>2. UNCHANGED <<record, rootfs, vmm>>
    BY <1>3 DEF Ensure, Undo, UnLaunch, rows, machines
  <2>3. op[c] = "start" /\ pc[c] = f
    BY <1>b, <2>1 DEF Step, At, StartLabels
  <2>4. f = "ensure" => rootfs \in {None, record}
    BY <2>3 DEF Inv, DiskOK, ClientOK, Knows, StartKnows
  <2>5. MappingOK' /\ RecordOK'
    BY <1>0, <2>1, <2>2, <2>4, EnsureDisk, ReleaseDisk
  <2>6. op' = op /\ pc'[c] = l /\ \A d \in Clients \ {c} : Same(d)
    BY <1>0, <2>1 DEF Step, Goto, Same, Control, TypeOK, locals
  <2>7. ClientOK(c)'
    BY <2>3, <2>6 DEF ClientOK, Knows, StartKnows, StopKnows, UpdateKnows, DeleteKnows, StartLabels
  <2> QED BY <2>2, <2>3, <2>5, <2>6, <2>7, ExclusiveKeepsDisk DEF FileLocked
<1> QED BY <1>1, <1>2, <1>3 DEF Start

(* stop_microvm waits, probes and kills without touching the disk.         *)
LEMMA StopKeepsDisk ==
    ASSUME Inv, NEW c \in Clients, Stop(c) PROVE DiskOK'
<1> DEFINE next == StopLabels \cup {"checkpid", "release", "fail"}
<1>1. Control /\ HostTypeOK
  BY DEF Inv, Control, TypeOK
<1>2. PICK f \in StopLabels, l \in next : Step(c, f, l)
  BY DEF Stop, Request, ReProbe, StopWait, Escalate, LastProbe, SigKill, ForceWait, OrFail, StopLabels
<1>3. UNCHANGED <<record, disk, vmm>>
  BY DEF Stop, Request, ReProbe, StopWait, Escalate, LastProbe, SigKill, ForceWait, host, rows, machines
<1>4. op[c] = "stop"
  BY <1>1, <1>2 DEF Step, At, Control, ControlOK, Allowed
<1>5. Knows(l, op[c], want[c], seen[c].size)
  BY <1>4 DEF Knows, StartKnows, StopKnows, UpdateKnows, DeleteKnows, StopLabels
<1> QED BY <1>1, <1>2, <1>3, <1>5, UnchangedIsQuiet, QuietStep

(* create_snapshot suspends the mapping but never replaces it.             *)
LEMMA SnapshotKeepsDisk ==
    ASSUME Inv, NEW c \in Clients, Snapshot(c) PROVE DiskOK'
<1>1. Control /\ HostTypeOK
  BY DEF Inv, Control, TypeOK
<1>2. UNCHANGED <<record, rootfs, loop, mapper, vmm>>
  BY DEF Snapshot, CheckLive, Capture, Copy, Origin, AllocateCow, Suspend, MapView, Resume, Nest,
     Stream, UnNest, Drop, Unmap, Publish, host, rows, disk, machines
<1>3. pc[c] \in SnapshotLabels
  BY DEF Snapshot, CheckLive, Capture, Copy, Origin, AllocateCow, Suspend, MapView, Resume, Nest,
     Stream, UnNest, Drop, Unmap, Publish, Step, GotoDrop, At, SnapshotLabels
<1>4. op[c] = "snapshot"
  BY <1>1, <1>3 DEF Control, ControlOK, Allowed
<1>5. PICK l : Goto(c, l) /\ UNCHANGED <<op, want, seen>> /\ l # "rows"
  BY <1>1, <1>4 DEF Snapshot, CheckLive, Capture, Copy, Origin, AllocateCow, Suspend, MapView, Resume, Nest,
     Stream, UnNest, Drop, Unmap, Publish, Step, GotoDrop, locals, OrFail, AfterDrop, Control, TypeOK
<1>6. pc'[c] = l /\ \A d \in Clients \ {c} : Same(d)
  BY <1>1, <1>5 DEF Goto, Same, Control, TypeOK
<1>7. Knows(pc'[c], op'[c], want'[c], seen'[c].size)
  BY <1>4, <1>5, <1>6 DEF Knows, StartKnows, StopKnows, UpdateKnows, DeleteKnows
<1>8. Quiet
  BY <1>2 DEF Quiet
<1> QED BY <1>6, <1>7, <1>8, QuietKeepsDisk

(* resize_rootfs of an unmapped disk keeps mapping, file and record        *)
(* consistent.                                                             *)
LEMMA ResizeDisk ==
    ASSUME HostTypeOK, MappingOK, RecordOK, rootfs = None \/ Unmapped,
           NEW size \in MaybeSize, NEW ok \in BOOLEAN, ResizeRootfs(size, ok),
           UNCHANGED <<record, loop, mapper, vmm>>
    PROVE  /\ MappingOK' /\ RecordOK' /\ (rootfs = None => rootfs' = None)
           /\ (ok => rootfs' = size)
<1>1. /\ rootfs = None => rootfs' = None
      /\ (ok => rootfs' = size)
  BY DEF ResizeRootfs
<1>2. MappingOK'
  BY <1>1 DEF MappingOK, Unmapped
<1>3. RecordOK'
  BY <1>1 DEF RecordOK, DivergedDiskIsUnmapped, Unmapped
<1> QED BY <1>1, <1>2, <1>3

(* update_microvm resizes only an unmapped disk: it has just released the  *)
(* mapping, or the length differed from the record, which no mapped disk   *)
(* allows.                                                                 *)
LEMMA UpdateKeepsDisk ==
    ASSUME Inv, NEW c \in Clients, Update(c) PROVE DiskOK'
<1> DEFINE s == seen[c].size
<1>0. Control /\ HostTypeOK /\ MappingOK /\ RecordOK
  BY DEF Inv, DiskOK, Control, TypeOK
<1>1. pc[c] \in UpdateLabels
  BY DEF Update, Inspect, Converge, Resize, UpdateRow, UnResize, Step, At, UpdateLabels
<1>2. op[c] = "update" /\ pc[c] \notin {"idle", "lifecycle"}
  BY <1>0, <1>1 DEF Control, ControlOK, Allowed, UpdateLabels
<1>3. UpdateKnows(pc[c], op[c], want[c], s)
  BY DEF Inv, DiskOK, ClientOK, Knows
<1>4. want[c] \in Sizes /\ record \in {None, s} /\ s \in MaybeSize /\ want[c] \in MaybeSize
  BY <1>0, <1>1, <1>2, <1>3 DEF UpdateKnows, Control, TypeOK, Seen, MaybeSize
<1>5. /\ pc'[c] \in UpdateLabels \cup {"release", "ok", "fail"}
      /\ op' = op /\ want' = want /\ seen' = seen
      /\ \A d \in Clients \ {c} : Same(d)
  BY <1>0 DEF Update, Inspect, Converge, Resize, UpdateRow, UnResize, Step, Goto, Same, OrFail,
     UpdateLabels, Control, TypeOK, locals
<1>6. ASSUME NEW l \in UpdateLabels \cup {"release", "ok", "fail"},
             UpdateKnows(l, "update", want[c], s)
      PROVE  Knows(l, op[c], want[c], s)
  BY <1>2, <1>6 DEF Knows, StartKnows, StopKnows, DeleteKnows, UpdateLabels
<1>7. ASSUME MappingOK', RecordOK', rootfs = None => rootfs' = None,
             UpdateKnows(pc[c], "update", want[c], s)'
      PROVE  DiskOK'
  <2>1. ClientOK(c)'
    BY <1>2, <1>5, <1>7 DEF ClientOK, Knows, StartKnows, StopKnows, DeleteKnows, UpdateLabels
  <2> QED BY <1>2, <1>5, <1>7, <2>1, ExclusiveKeepsDisk DEF FileLocked
<1>8. CASE Inspect(c)
  <2>1. PICK l \in {"ok", "fail", "converge", "release", "row"} :
          /\ l = "converge" => rootfs # None /\ rootfs # s
          /\ l = "row" => rootfs = s /\ want[c] = s
          /\ Step(c, "inspect", l)
    BY <1>8 DEF Inspect, DiskChanges
  <2>2. l = "converge" => Unmapped
    BY <1>0, <1>4, <2>1 DEF RecordOK, DivergedDiskIsUnmapped, Unmapped
  <2>3. UpdateKnows(l, "update", want[c], s)
    BY <1>4, <2>1, <2>2 DEF UpdateKnows, UpdateLabels
  <2>4. Knows(l, op[c], want[c], s)
    BY <1>6, <2>3 DEF UpdateLabels
  <2>5. Quiet
    BY <1>8, <1>0, UnchangedIsQuiet DEF Inspect, host, rows, machines
  <2> QED BY <2>1, <2>4, <2>5, QuietStep
<1>9. CASE Converge(c)
  <2>1. PICK ok \in BOOLEAN, l \in {"row", "release", "fail"} :
          /\ ResizeRootfs(s, ok) /\ Step(c, "converge", l)
          /\ l = "row" => ok /\ want[c] = s
    BY <1>9 DEF Converge, OrFail, DiskChanges
  <2>2. rootfs = None \/ Unmapped
    BY <1>2, <1>3, <2>1 DEF UpdateKnows, Step, At
  <2>3. UNCHANGED <<record, loop, mapper, vmm>>
    BY <1>9 DEF Converge, rows, machines
  <2>4. /\ MappingOK' /\ RecordOK' /\ (rootfs = None => rootfs' = None)
        /\ (ok => rootfs' = s)
    BY <1>0, <1>4, <2>1, <2>2, <2>3, ResizeDisk
  <2>5. pc'[c] = l
    BY <1>0, <2>1 DEF Step, Goto, Control, TypeOK
  <2>6. UpdateKnows(pc[c], "update", want[c], s)'
    BY <1>4, <1>5, <2>1, <2>3, <2>4, <2>5 DEF UpdateKnows, UpdateLabels
  <2> QED BY <1>7, <2>4, <2>6
<1>10. CASE Resize(c) \/ UnResize(c)
  <2>1. PICK ok \in BOOLEAN, size \in {want[c], s}, l \in {"row", "unresize", "fail"},
             f \in {"resize", "unresize"} :
          /\ ResizeRootfs(size, ok) /\ Step(c, f, l)
          /\ l = "row" => ok /\ size = want[c]
    BY <1>10 DEF Resize, UnResize
  <2>2. Unmapped
    BY <1>2, <1>3, <2>1 DEF UpdateKnows, Step, At
  <2>3. UNCHANGED <<record, loop, mapper, vmm>>
    BY <1>10 DEF Resize, UnResize, rows, machines
  <2>4. /\ MappingOK' /\ RecordOK' /\ (rootfs = None => rootfs' = None)
        /\ (ok => rootfs' = size)
    BY <1>0, <1>4, <2>1, <2>2, <2>3, ResizeDisk
  <2>5. pc'[c] = l /\ Unmapped'
    BY <1>0, <2>1, <2>2, <2>3 DEF Step, Goto, Control, TypeOK, Unmapped
  <2>6. UpdateKnows(pc[c], "update", want[c], s)'
    BY <1>4, <1>5, <2>1, <2>3, <2>4, <2>5 DEF UpdateKnows, UpdateLabels
  <2> QED BY <1>7, <2>4, <2>6
<1>11. CASE UpdateRow(c)
  <2>1. PICK l \in {"ok", "unresize", "fail"} :
          /\ Step(c, "row", l)
          /\ l = "unresize" => want[c] # s
          /\ \/ l = "ok" /\ record' = want[c]
             \/ l # "ok" /\ record' = record
    BY <1>11 DEF UpdateRow, DiskChanges
  <2>2. rootfs \in {None, want[c]} /\ (want[c] # s => Unmapped)
    BY <1>2, <1>3, <2>1 DEF UpdateKnows, Step, At
  <2>3. UNCHANGED <<rootfs, loop, mapper, vmm>>
    BY <1>11 DEF UpdateRow, disk, machines
  <2>4. MappingOK'
    BY <1>0, <2>3 DEF MappingOK
  <2>5. RecordOK'
    BY <1>0, <1>4, <2>1, <2>2, <2>3, SizesAssumption DEF RecordOK, DivergedDiskIsUnmapped
  <2>6. pc'[c] = l
    BY <1>0, <2>1 DEF Step, Goto, Control, TypeOK
  <2>7. UpdateKnows(pc[c], "update", want[c], s)'
    BY <1>4, <1>5, <2>1, <2>2, <2>3, <2>6 DEF UpdateKnows, UpdateLabels, Unmapped
  <2> QED BY <1>7, <2>3, <2>4, <2>5, <2>7
<1> QED BY <1>8, <1>9, <1>10, <1>11 DEF Update

(* The steps that several operations share.                                *)
LEMMA SharedKeepsDisk ==
    ASSUME Inv, NEW c \in Clients, Shared(c) PROVE DiskOK'
<1> DEFINE o == op[c]
<1> DEFINE w == want[c]
<1> DEFINE s == seen[c].size
<1>0. Control /\ TypeOK /\ HostTypeOK /\ MappingOK /\ RecordOK
  BY DEF Inv, DiskOK, Control, TypeOK
<1>k. Knows(pc[c], o, w, s)
  BY DEF Inv, DiskOK, ClientOK
<1>w. o = "update" /\ pc[c] # "idle" => w \in Sizes
  BY <1>k DEF Knows, UpdateKnows
<1>1. CASE Invoke(c)
  <2>1. PICK q \in Ops, l \in {"lifecycle", "name"} :
          /\ op' = [op EXCEPT ![c] = q] /\ Goto(c, l)
          /\ q = "update" => \E x \in Sizes : want' = [want EXCEPT ![c] = x]
          /\ q # "update" => want' = want
    BY <1>1 DEF Invoke
  <2>2. /\ op'[c] = q /\ pc'[c] = l /\ (q = "update" => want'[c] \in Sizes)
        /\ \A d \in Clients \ {c} : Same(d)
    BY <1>0, <1>1, <2>1 DEF Invoke, Goto, Same, TypeOK
  <2>3. Knows(pc'[c], op'[c], want'[c], seen'[c].size)
    BY <2>2 DEF Knows, StartKnows, StopKnows, UpdateKnows, DeleteKnows, UpdateLabels
  <2>4. Quiet
    BY <1>0, <1>1, UnchangedIsQuiet DEF Invoke, host, rows, machines
  <2> QED BY <2>2, <2>3, <2>4, QuietKeepsDisk
<1>2. CASE TakeLifecycle(c) \/ TakeName(c)
  <2>1. PICK l \in {"name", "load"} : Goto(c, l)
    BY <1>2 DEF TakeLifecycle, TakeName
  <2>2. UNCHANGED <<op, want, seen>> /\ UNCHANGED host
    BY <1>2 DEF TakeLifecycle, TakeName, locals
  <2>3. pc[c] # "idle" /\ pc'[c] = l /\ \A d \in Clients \ {c} : Same(d)
    BY <1>0, <1>2, <2>1, <2>2 DEF TakeLifecycle, TakeName, At, Goto, Same, TypeOK
  <2>4. Knows(pc'[c], op'[c], want'[c], seen'[c].size)
    BY <1>w, <2>2, <2>3 DEF Knows, StartKnows, StopKnows, UpdateKnows, DeleteKnows, UpdateLabels
  <2>5. Quiet
    BY <1>0, <2>2, UnchangedIsQuiet DEF host, rows, machines
  <2> QED BY <2>3, <2>4, <2>5, QuietKeepsDisk
<1>3. CASE Return(c)
  <2>1. pc'[c] = "idle" /\ op'[c] = None /\ \A d \in Clients \ {c} : Same(d)
    BY <1>0, <1>3 DEF Return, Goto, Same, TypeOK
  <2>2. Quiet
    BY <1>0, <1>3, UnchangedIsQuiet DEF Return, host, rows, machines
  <2>3. Knows(pc'[c], op'[c], want'[c], seen'[c].size)
    BY <2>1 DEF Knows, StartKnows, StopKnows, UpdateKnows, DeleteKnows, UpdateLabels
  <2> QED BY <2>1, <2>2, <2>3, QuietKeepsDisk
<1>4. CASE Load(c)
  <2>1. PICK l \in {"fail", "probe", "network"} :
          /\ Goto(c, l)
          /\ l # "fail" => /\ record # None /\ FilesAreValid(o)
                           /\ seen' = [seen EXCEPT ![c] = [size |-> record, row |-> runtime]]
          /\ l = "fail" => seen' = seen
    BY <1>4 DEF Load
  <2>2. UNCHANGED <<op, want>> /\ pc[c] # "idle"
    BY <1>4 DEF Load, At
  <2>3. /\ pc'[c] = l /\ (l # "fail" => seen'[c].size = record)
        /\ \A d \in Clients \ {c} : Same(d)
    BY <1>0, <2>1, <2>2 DEF Goto, Same, TypeOK
  <2>4. l = "probe" /\ o = "start" => rootfs = record
    BY <2>1 DEF FilesAreValid
  <2>5. Knows(pc'[c], op'[c], want'[c], seen'[c].size)
    BY <1>w, <2>2, <2>3, <2>4 DEF Knows, StartKnows, StopKnows, UpdateKnows, DeleteKnows, UpdateLabels
  <2>6. Quiet
    BY <1>0, <1>4, UnchangedIsQuiet DEF Load, host, rows, machines
  <2> QED BY <2>3, <2>5, <2>6, QuietKeepsDisk
<1>5. CASE Probe(c) \/ CheckPid(c) \/ HostNetwork(c)
  <2>1. PICK l : /\ \/ pc[c] = "probe" /\ l \in {"fail", OnAnswer[o], OnSilence[o]}
                    \/ pc[c] = "checkpid" /\ l \in {"fail", AfterExit[o]}
                    \/ pc[c] = "network" /\ l \in {"fail", "volume", "verify"}
                 /\ Step(c, pc[c], l)
    BY <1>5 DEF Probe, CheckPid, HostNetwork, OrFail, Step, At
  <2>2. /\ pc[c] = "probe" => o \in Operations \ {"configure_network"}
        /\ pc[c] = "checkpid" => o \in FileLocked
        /\ pc[c] = "network" => o \in {"delete", "configure_network"}
    BY <1>0 DEF Control, ControlOK, Allowed
  <2>3. /\ o = "start" => l \in {"fail", "adopt", "checkpid", "release"}
        /\ o = "update" => l \in {"fail", "checkpid", "inspect"}
        /\ o = "stop" => l \in {"fail", "request", "checkpid", "release"}
        /\ l # "rows"
    BY <2>1, <2>2 DEF OnAnswer, OnSilence, AfterExit, Operations, FileLocked
  <2>4. pc[c] # "idle" /\ pc[c] \in {"probe", "checkpid", "network"}
    BY <2>1
  <2>5. o = "start" => rootfs \in {None, record}
    BY <1>k, <2>2, <2>4 DEF Knows, StartKnows
  <2>6. o = "update" => record \in {None, s}
    BY <1>k, <2>2, <2>4 DEF Knows, UpdateKnows
  <2>7. Knows(l, o, w, s)
    BY <1>w, <2>3, <2>4, <2>5, <2>6 DEF Knows, StartKnows, StopKnows, UpdateKnows, DeleteKnows
  <2>8. Quiet
    BY <1>0, <1>5, UnchangedIsQuiet DEF Probe, CheckPid, HostNetwork, host, rows, machines
  <2> QED BY <2>1, <2>7, <2>8, QuietStep
<1>6. CASE ClearSocket(c) \/ ResetRuntime(c)
  <2>1. PICK l : /\ \/ pc[c] = "socket" /\ l \in {"fail", "reset"}
                    \/ pc[c] = "reset" /\ l \in {"fail", IF o = "start" THEN "prepare" ELSE "ok"}
                 /\ Step(c, pc[c], l)
    BY <1>6 DEF ClearSocket, ResetRuntime, OrFail, Step, At
  <2>2. o \in {"start", "stop"}
    BY <1>0, <2>1 DEF Control, ControlOK, Allowed
  <2>3. Knows(l, o, w, s)
    BY <1>k, <2>1, <2>2 DEF Knows, StartKnows, StopKnows, UpdateKnows, DeleteKnows
  <2>4. Quiet
    BY <1>0, <1>6, UnchangedIsQuiet DEF ClearSocket, ResetRuntime, rows, machines
  <2> QED BY <2>1, <2>3, <2>4, QuietStep
<1>7. CASE Release(c)
  <2>1. PICK ok \in BOOLEAN, l \in {"fail", "resize", "socket"} :
          /\ ReleaseMapping(ok) /\ Step(c, "release", l)
          /\ l # "fail" => ok /\ (l = "resize" <=> o = "update")
    BY <1>7 DEF Release, OrFail
  <2>2. pc[c] = "release" /\ o \in {"start", "stop", "update"}
    BY <1>0, <2>1 DEF Step, At, Control, ControlOK, Allowed
  <2>3. UNCHANGED <<record, rootfs, vmm>>
    BY <1>7 DEF Release, rows, machines
  <2>4. MappingOK' /\ RecordOK' /\ (ok => Unmapped')
    BY <1>0, <2>1, <2>3, ReleaseDisk
  <2>5. /\ pc'[c] = l /\ op' = op /\ want' = want /\ seen' = seen
        /\ \A d \in Clients \ {c} : Same(d)
    BY <1>0, <2>1 DEF Step, Goto, Same, TypeOK, locals
  <2>6. StartKnows(pc[c], op[c])' /\ StopKnows(pc[c], op[c])' /\ DeleteKnows(pc[c])'
    BY <1>k, <2>1, <2>2, <2>3, <2>4, <2>5 DEF Knows, StartKnows, StopKnows, DeleteKnows
  <2>7. UpdateKnows(pc[c], op[c], want[c], seen[c].size)'
    BY <1>k, <2>1, <2>2, <2>3, <2>4, <2>5 DEF Knows, UpdateKnows, UpdateLabels
  <2>8. ClientOK(c)'
    BY <2>6, <2>7 DEF ClientOK, Knows
  <2> QED BY <2>2, <2>3, <2>4, <2>5, <2>8, ExclusiveKeepsDisk DEF FileLocked
<1> QED BY <1>1, <1>2, <1>3, <1>4, <1>5, <1>6, <1>7 DEF Shared

(* delete_microvm takes the file first and the record after it, with the   *)
(* lock file in other hands; configure_network touches neither.            *)
LEMMA NameLockedKeepDisk ==
    ASSUME Inv, NEW c \in Clients, Delete(c) \/ ConfigureNetwork(c) PROVE DiskOK'
<1>0. Control /\ TypeOK /\ HostTypeOK /\ MappingOK /\ RecordOK
  BY DEF Inv, DiskOK, Control, TypeOK
<1>1. PICK f \in {"volume", "rows", "verify", "stalerow"}, l \in {"rows", "stalerow", "ok", "fail"} :
        Step(c, f, l) /\ (l = "rows" => rootfs' = None)
  BY DEF Delete, ConfigureNetwork, RemoveVolume, DeleteRows, VerifyStopped, PersistStaleRow, OrFail
<1>2. pc[c] = f /\ op[c] \in {"delete", "configure_network"}
  BY <1>0, <1>1 DEF Step, At, Control, ControlOK, Allowed
<1>3. pc'[c] = l /\ op' = op /\ \A d \in Clients \ {c} : Same(d)
  BY <1>0, <1>1 DEF Step, Goto, Same, TypeOK, locals
<1>4. f = "rows" => rootfs = None
  BY <1>2 DEF Inv, DiskOK, ClientOK, Knows, DeleteKnows
<1>5. /\ UNCHANGED <<loop, mapper, vmm>> /\ rootfs' \in {rootfs, None}
      /\ record' = record \/ (record' = None /\ rootfs = None)
  <2>1. CASE DeleteRows(c)
    <3>1. rootfs = None
      BY <1>2, <1>4, <2>1 DEF DeleteRows, Step, At
    <3> QED BY <2>1, <3>1 DEF DeleteRows, rows, disk, machines
  <2>2. CASE RemoveVolume(c)
    BY <2>2 DEF RemoveVolume, rows
  <2>3. CASE ConfigureNetwork(c)
    BY <2>3 DEF ConfigureNetwork, VerifyStopped, PersistStaleRow, host, rows, disk, machines
  <2> QED BY <2>1, <2>2, <2>3 DEF Delete
<1>6. MappingOK' /\ RecordOK'
  BY <1>0, <1>5 DEF MappingOK, RecordOK, DivergedDiskIsUnmapped
<1>7. ASSUME NEW d \in Clients, d # c PROVE ClientOK(d)'
  <2>1. Same(d) /\ Knows(pc[d], op[d], want[d], seen[d].size)
    BY <1>3, <1>7 DEF Inv, DiskOK, ClientOK
  <2>2. StartKnows(pc[d], op[d])' /\ StopKnows(pc[d], op[d])' /\ DeleteKnows(pc[d])'
    BY <1>5, <2>1 DEF Same, Knows, StartKnows, StopKnows, DeleteKnows, Unmapped
  <2>3. UpdateKnows(pc[d], op[d], want[d], seen[d].size)'
    BY <1>5, <2>1 DEF Same, Knows, UpdateKnows, Unmapped
  <2> QED BY <2>2, <2>3 DEF ClientOK, Knows
<1>8. ClientOK(c)'
  BY <1>1, <1>2, <1>3 DEF ClientOK, Knows, StartKnows, StopKnows, UpdateKnows, DeleteKnows
<1> QED BY <1>6, <1>7, <1>8 DEF DiskOK

(* Crashes and reboots leave no client relying on anything.                *)
LEMMA FailuresKeepDisk ==
    ASSUME Inv, (\E q \in Processes : Crash(q)) \/ Reboot PROVE DiskOK'
<1>0. TypeOK /\ HostTypeOK /\ MappingOK /\ RecordOK
  BY DEF Inv, DiskOK, Control, TypeOK
<1>1. ASSUME NEW q \in Processes, Crash(q) PROVE DiskOK'
  <2>1. ASSUME NEW d \in Clients PROVE pc'[d] = "idle" \/ Same(d)
    BY <1>1 DEF Crash, Abandon, Same
  <2>2. Quiet
    BY <1>0, <1>1, UnchangedIsQuiet DEF Crash, host, rows, machines
  <2>3. ASSUME NEW d \in Clients PROVE ClientOK(d)'
    <3>1. CASE Same(d)
      BY <2>2, <3>1 DEF Inv, DiskOK, Quiet, Same, ClientOK, Knows, StartKnows, StopKnows,
         UpdateKnows, DeleteKnows, Unmapped
    <3>2. CASE pc'[d] = "idle"
      BY <3>2 DEF ClientOK, Knows, StartKnows, StopKnows, UpdateKnows, DeleteKnows, UpdateLabels
    <3> QED BY <2>1, <3>1, <3>2
  <2> QED BY <2>2, <2>3, QuietState DEF DiskOK
<1>2. CASE Reboot
  <2>1. ASSUME NEW d \in Clients PROVE ClientOK(d)'
    <3>1. pc'[d] = "idle"
      BY <1>2 DEF Reboot, Abandon
    <3> QED BY <3>1 DEF ClientOK, Knows, StartKnows, StopKnows, UpdateKnows, DeleteKnows, UpdateLabels
  <2>2. MappingOK' /\ RecordOK'
    BY <1>0, <1>2 DEF Reboot, MappingOK, RecordOK, DivergedDiskIsUnmapped, rows
  <2> QED BY <2>1, <2>2 DEF DiskOK
<1> QED BY <1>1, <1>2

(* A machine opens the disk only through the mapping.                      *)
LEMMA MachineKeepsDisk ==
    ASSUME Inv, Machine, UNCHANGED <<locks, pc, locals>> PROVE DiskOK'
<1>0. HostTypeOK /\ MappingOK /\ RecordOK
  BY DEF Inv, DiskOK, Control, TypeOK
<1>1. PICK p \in Pids : Bind(p) \/ OpenDisk(p) \/ VmmExit(p) \/ FirectlExit(p)
  BY DEF Machine
<1>2. /\ UNCHANGED <<record, rootfs, loop, mapper>>
      /\ \A r \in Pids : vmm'[r] = "run" => vmm[r] = "run" \/ mapper # None
  BY <1>0, <1>1 DEF Bind, OpenDisk, VmmExit, FirectlExit, rows, disk, HostTypeOK
<1>3. MappingOK' /\ RecordOK'
  BY <1>0, <1>2 DEF MappingOK, RecordOK, DivergedDiskIsUnmapped
<1>4. UNCHANGED <<pc, op, want, seen>>
  BY DEF locals
<1>5. ASSUME NEW d \in Clients PROVE ClientOK(d)'
  BY <1>2, <1>4 DEF Inv, DiskOK, ClientOK, Knows, StartKnows, StopKnows, UpdateKnows, DeleteKnows, Unmapped
<1> QED BY <1>3, <1>5 DEF DiskOK

(* The invariant holds for a VM that has just been created.                *)
LEMMA InvInit == Init => Inv
<1> SUFFICES ASSUME Init PROVE Inv
  OBVIOUS
<1>1. MappingOK /\ RecordOK
  BY SizesAssumption DEF Init, HostInit, MappingOK, RecordOK, DivergedDiskIsUnmapped
<1>2. ASSUME NEW c \in Clients PROVE ClientOK(c)
  BY DEF Init, ClientOK, Knows, StartKnows, StopKnows, UpdateKnows, DeleteKnows, UpdateLabels
<1> QED BY <1>1, <1>2, ControlInit DEF Inv, DiskOK

(* No step of a client, of the machine or of a failure leaves the          *)
(* invariant.                                                              *)
LEMMA InvStep == Inv /\ [Next]_vars => Inv'
<1> SUFFICES ASSUME Inv, [Next]_vars PROVE Inv'
  OBVIOUS
<1>1. Control'
  BY ControlStep DEF Inv
<1>2. ASSUME NEW c \in Clients, Client(c) PROVE DiskOK'
  BY <1>2, SharedKeepsDisk, StartKeepsDisk, StopKeepsDisk, UpdateKeepsDisk, SnapshotKeepsDisk,
     NameLockedKeepDisk DEF Client
<1>3. ASSUME Machine, UNCHANGED <<locks, pc, locals>> PROVE DiskOK'
  BY <1>3, MachineKeepsDisk
<1>4. ASSUME UNCHANGED vars PROVE DiskOK'
  BY <1>4 DEF vars, host, rows, disk, machines, locals, Inv, DiskOK, MappingOK, RecordOK,
     DivergedDiskIsUnmapped, ClientOK, Knows, StartKnows, StopKnows, UpdateKnows, DeleteKnows, Unmapped
<1>5. DiskOK'
  BY <1>2, <1>3, <1>4, FailuresKeepDisk DEF Next
<1> QED BY <1>1, <1>5 DEF Inv

(* The invariant holds always.                                             *)
LEMMA InvHolds == Spec => []Inv
BY InvInit, InvStep, PTL DEF Spec

-----------------------------------------------------------------------------
(* What follows from the invariant.                                        *)

(* The mapping and the loop device under a machine always have the length  *)
(* of rootfs.ext4, whoever resizes, crashes or deletes.                    *)
THEOREM MappingMatchesDisk == Spec => []MapperMatchesDisk
<1>1. Inv => MapperMatchesDisk
  BY DEF Inv, DiskOK, MappingOK, MapperMatchesDisk
<1> QED BY <1>1, InvHolds, PTL

(* A disk whose length an interrupted update left different from its       *)
(* record is never mapped.                                                 *)
THEOREM DivergedDiskStaysUnmapped == Spec => []DivergedDiskIsUnmapped
<1>1. Inv => DivergedDiskIsUnmapped
  BY DEF Inv, DiskOK, RecordOK
<1> QED BY <1>1, InvHolds, PTL

(* A successful stop leaves no machine, no mapping and no loop device.     *)
THEOREM StopIsComplete == Spec => []StopMeansGone
<1>1. Inv => StopMeansGone
  BY DEF Inv, DiskOK, MappingOK, ClientOK, Knows, StopKnows, Unmapped, StopMeansGone, At, Running
<1> QED BY <1>1, InvHolds, PTL

-----------------------------------------------------------------------------
(* Steps of VmLifecycle as steps of the lease.                             *)
LeaseOrStutter == [Lease!LeaseNext]_(Lease!leaseVars)

(* A step that touches neither file, mapping nor machine stutters.         *)
LEMMA NoLeaseStep ==
    ASSUME UNCHANGED <<rootfs, mapper, vmm>> PROVE LeaseOrStutter
BY DEF LeaseOrStutter, Lease!leaseVars, Running

(* release_mapping detaches: its open count check excludes users.          *)
LEMMA ReleaseLease ==
    ASSUME NEW ok \in BOOLEAN, ReleaseMapping(ok), UNCHANGED <<rootfs, vmm>> PROVE LeaseOrStutter
<1>1. CASE mapper' = mapper
  BY <1>1, NoLeaseStep
<1>2. CASE mapper' # mapper
  <2>1. mapper # None /\ mapper' = None /\ Running = {}
    BY <1>2 DEF ReleaseMapping, Releasable, OpenCountIsZero
  <2>2. Lease!Detach
    BY <2>1 DEF Lease!Detach, Running
  <2> QED BY <2>2 DEF LeaseOrStutter, Lease!LeaseNext
<1> QED BY <1>1, <1>2

(* ensure_mapping attaches, or detaches what it could not complete.        *)
LEMMA EnsureLease ==
    ASSUME NEW ok \in BOOLEAN, EnsureMapping(ok), UNCHANGED <<rootfs, vmm>> PROVE LeaseOrStutter
<1>1. CASE mapper' = mapper
  BY <1>1, NoLeaseStep
<1>2. CASE mapper' # mapper
  <2>1. \/ rootfs # None /\ mapper = None /\ mapper' # None
        \/ mapper # None /\ mapper' = None /\ Running = {}
    BY <1>2 DEF EnsureMapping, Releasable, OpenCountIsZero
  <2>2. Lease!Attach \/ Lease!Detach
    BY <2>1 DEF Lease!Attach, Lease!Detach, Running
  <2> QED BY <2>2 DEF LeaseOrStutter, Lease!LeaseNext
<1> QED BY <1>1, <1>2

(* resize_rootfs of an unmapped disk is a resize of a detached one.        *)
LEMMA ResizeLease ==
    ASSUME HostTypeOK, MappingOK, rootfs = None \/ Unmapped, NEW size \in MaybeSize,
           NEW ok \in BOOLEAN, ResizeRootfs(size, ok), rootfs # None => size \in Sizes,
           UNCHANGED <<mapper, vmm>>
    PROVE  LeaseOrStutter
<1>1. CASE rootfs' = rootfs
  BY <1>1, NoLeaseStep
<1>2. CASE rootfs' # rootfs
  <2>1. rootfs # None /\ rootfs' \in Sizes /\ mapper = None /\ Running = {}
    BY <1>2 DEF ResizeRootfs, Unmapped, MappingOK, Running
  <2>2. Lease!Resize
    BY <2>1 DEF Lease!Resize, Running
  <2> QED BY <2>2 DEF LeaseOrStutter, Lease!LeaseNext
<1> QED BY <1>1, <1>2

(* A resize of an update is one of an unmapped disk to a real length.      *)
LEMMA UpdateResizes ==
    ASSUME Inv, NEW c \in Clients, Converge(c) \/ Resize(c) \/ UnResize(c)
    PROVE  /\ rootfs = None \/ Unmapped
           /\ \E size \in MaybeSize, ok \in BOOLEAN :
                ResizeRootfs(size, ok) /\ (rootfs # None => size \in Sizes)
           /\ UNCHANGED <<record, loop, mapper, vmm>>
<1> DEFINE s == seen[c].size
<1>1. pc[c] \in {"converge", "resize", "unresize"}
  BY DEF Converge, Resize, UnResize, Step, At
<1>2. UpdateKnows(pc[c], "update", want[c], s)
  BY <1>1 DEF Inv, Control, ControlOK, Allowed, UpdateLabels, DiskOK, ClientOK, Knows
<1>3. want[c] \in Sizes /\ record \in {None, s} /\ (rootfs = None \/ Unmapped)
  BY <1>1, <1>2 DEF UpdateKnows, UpdateLabels
<1>4. record \in MaybeSize /\ s \in MaybeSize /\ (rootfs # None => record # None)
  BY DEF Inv, Control, TypeOK, HostTypeOK, Seen, DiskOK, RecordOK
<1>5. rootfs # None => s \in Sizes
  BY <1>3, <1>4 DEF MaybeSize
<1>6. \E size \in {want[c], s}, ok \in BOOLEAN : ResizeRootfs(size, ok)
  BY DEF Converge, Resize, UnResize
<1>7. UNCHANGED <<record, loop, mapper, vmm>>
  BY DEF Converge, Resize, UnResize, rows, machines
<1> QED BY <1>3, <1>4, <1>5, <1>6, <1>7 DEF MaybeSize

(* Firecracker opens the disk through the mapping and closes it when it    *)
(* ends.                                                                   *)
LEMMA MachineLease ==
    ASSUME HostTypeOK, Machine PROVE LeaseOrStutter
<1>1. PICK p \in Pids : Bind(p) \/ OpenDisk(p) \/ VmmExit(p) \/ FirectlExit(p)
  BY DEF Machine
<1>2. UNCHANGED <<rootfs, mapper>>
  BY <1>1 DEF Bind, OpenDisk, VmmExit, FirectlExit, disk
<1>3. CASE Bind(p) \/ FirectlExit(p)
  <2>1. Running' = Running
    BY <1>3 DEF Bind, FirectlExit, Running, HostTypeOK
  <2> QED BY <1>2, <2>1 DEF LeaseOrStutter, Lease!leaseVars
<1>4. CASE OpenDisk(p)
  <2>1. Running' = Running \cup {p} /\ mapper # None
    BY <1>4 DEF OpenDisk, Running, HostTypeOK
  <2>2. Lease!Open(p)
    BY <1>2, <2>1 DEF Lease!Open
  <2> QED BY <2>2 DEF LeaseOrStutter, Lease!LeaseNext
<1>5. CASE VmmExit(p)
  <2>1. Running' = Running \ {p}
    BY <1>5 DEF VmmExit, Running, HostTypeOK
  <2>2. CASE p \in Running
    BY <1>2, <2>1, <2>2 DEF LeaseOrStutter, Lease!LeaseNext, Lease!Close
  <2>3. CASE p \notin Running
    <3>1. Running' = Running
      BY <2>1, <2>3
    <3> QED BY <1>2, <3>1 DEF LeaseOrStutter, Lease!leaseVars
  <2> QED BY <2>2, <2>3
<1> QED BY <1>1, <1>3, <1>4, <1>5

(* Every step of an operation is a step of the lease or a stutter.         *)
LEMMA ClientLease ==
    ASSUME Inv, NEW c \in Clients, Client(c) PROVE LeaseOrStutter
<1>0. HostTypeOK /\ MappingOK
  BY DEF Inv, DiskOK, Control, TypeOK
<1>1. CASE Shared(c)
  <2>1. CASE Release(c)
    BY <2>1, ReleaseLease DEF Release, machines
  <2>2. ASSUME ~Release(c) PROVE UNCHANGED <<rootfs, mapper, vmm>>
    BY <1>1, <2>2 DEF Shared, Invoke, TakeLifecycle, TakeName, Return, Load, Probe, CheckPid,
       ClearSocket, ResetRuntime, HostNetwork, host, disk, machines
  <2> QED BY <2>1, <2>2, NoLeaseStep
<1>2. CASE Start(c)
  <2>1. CASE Undo(c) \/ UnLaunch(c)
    BY <2>1, ReleaseLease DEF Undo, UnLaunch, machines
  <2>2. CASE Ensure(c)
    BY <2>2, EnsureLease DEF Ensure, machines
  <2>3. CASE Launch(c)
    <3>1. UNCHANGED <<rootfs, mapper>> /\ Running' = Running
      BY <1>0, <2>3 DEF Launch, LaunchDetached, FreePids, Running, HostTypeOK
    <3> QED BY <3>1 DEF LeaseOrStutter, Lease!leaseVars
  <2>4. ASSUME ~(Undo(c) \/ UnLaunch(c) \/ Ensure(c) \/ Launch(c))
        PROVE  UNCHANGED <<rootfs, mapper, vmm>>
    BY <1>2, <2>4 DEF Start, Adopt, AdoptRow, Prepare, PersistStarting, AwaitSocket, PersistRunning,
       Confirm, Kill, KillWait, Retain, UndoSocket, UndoReset, host, disk, machines
  <2> QED BY <2>1, <2>2, <2>3, <2>4, NoLeaseStep
<1>3. CASE Stop(c)
  BY <1>3, NoLeaseStep DEF Stop, Request, ReProbe, StopWait, Escalate, LastProbe, SigKill, ForceWait,
     host, disk, machines
<1>4. CASE Update(c)
  <2>1. CASE Inspect(c) \/ UpdateRow(c)
    BY <2>1, NoLeaseStep DEF Inspect, UpdateRow, host, disk, machines
  <2>2. CASE Converge(c) \/ Resize(c) \/ UnResize(c)
    BY <1>0, <2>2, UpdateResizes, ResizeLease
  <2> QED BY <1>4, <2>1, <2>2 DEF Update
<1>5. CASE Snapshot(c)
  BY <1>5, NoLeaseStep DEF Snapshot, CheckLive, Capture, Copy, Origin, AllocateCow, Suspend, MapView,
     Resume, Nest, Stream, UnNest, Drop, Unmap, Publish, host, rows, disk, machines
<1>6. CASE Delete(c) \/ ConfigureNetwork(c)
  <2>1. rootfs' \in {rootfs, None} /\ UNCHANGED <<mapper, vmm>>
    BY <1>6 DEF Delete, ConfigureNetwork, RemoveVolume, DeleteRows, VerifyStopped, PersistStaleRow,
       host, disk, machines
  <2>2. CASE rootfs' = rootfs
    BY <2>1, <2>2, NoLeaseStep
  <2>3. CASE rootfs' = None
    BY <2>1, <2>3 DEF LeaseOrStutter, Lease!LeaseNext, Lease!Remove, Running
  <2> QED BY <2>1, <2>2, <2>3
<1> QED BY <1>1, <1>2, <1>3, <1>4, <1>5, <1>6 DEF Client

(* A crash of an SDK process stutters, a reboot is a power loss.           *)
LEMMA FailuresLease ==
    ASSUME Inv, (\E q \in Processes : Crash(q)) \/ Reboot PROVE LeaseOrStutter
<1>1. CASE \E q \in Processes : Crash(q)
  BY <1>1, NoLeaseStep DEF Crash, host, disk, machines
<1>2. CASE Reboot
  <2>1. mapper' = None /\ Running' = {} /\ UNCHANGED rootfs
    BY <1>2 DEF Reboot, Running
  <2>2. Lease!PowerLoss
    BY <2>1 DEF Lease!PowerLoss
  <2> QED BY <2>2 DEF LeaseOrStutter, Lease!LeaseNext
<1> QED BY <1>1, <1>2

(* Every step of VmLifecycle is a step of the lease or a stutter.          *)
LEMMA LeaseStep == Inv /\ [Next]_vars => LeaseOrStutter
<1> SUFFICES ASSUME Inv, [Next]_vars PROVE LeaseOrStutter
  OBVIOUS
<1>1. CASE UNCHANGED vars
  BY <1>1, NoLeaseStep DEF vars, host, disk, machines
<1>2. HostTypeOK
  BY DEF Inv, Control, TypeOK
<1> QED BY <1>1, <1>2, ClientLease, MachineLease, FailuresLease DEF Next

(* All operations together, under every fault, implement the lease: the    *)
(* disk is opened only through the mapping, the mapping is never pulled    *)
(* from under a machine, and the disk keeps its length while mapped.       *)
THEOREM LifecycleImplementsLease == Spec => ImplementsLease
<1>1. Init => Lease!LeaseInit
  BY SizesAssumption DEF Init, HostInit, Lease!LeaseInit, Running
<1>2. Inv /\ [Next]_vars => [Lease!LeaseNext]_(Lease!leaseVars)
  BY LeaseStep DEF LeaseOrStutter
<1> QED BY <1>1, <1>2, InvHolds, PTL DEF Spec, ImplementsLease, Lease!LeaseSpec

(* update_microvm and its rollback change the length of the disk only      *)
(* while nothing is mapped over it and no machine has it open.             *)
THEOREM ResizesAreOffline == Spec => ResizeOffline
<1>1. Inv /\ [Next]_vars => [rootfs' # rootfs /\ rootfs' # None
                               => mapper = None /\ loop = None /\ Running = {}]_vars
  <2> SUFFICES ASSUME Inv, [Next]_vars, rootfs' # rootfs, rootfs' # None
               PROVE  mapper = None /\ loop = None /\ Running = {}
    OBVIOUS
  <2>1. PICK c \in Clients : Converge(c) \/ Resize(c) \/ UnResize(c)
    <3>1. ~UNCHANGED vars /\ ~Reboot /\ ~(\E q \in Processes : Crash(q)) /\ ~Machine
      BY DEF vars, host, disk, Reboot, Crash, Machine, Bind, OpenDisk, VmmExit, FirectlExit
    <3>2. PICK c \in Clients : Client(c)
      BY <3>1 DEF Next
    <3>3. ~Shared(c)
      BY DEF Shared, Invoke, TakeLifecycle, TakeName, Return, Load, Probe, CheckPid, Release,
         ClearSocket, ResetRuntime, HostNetwork, host, disk
    <3>4. ~Start(c)
      BY DEF Start, Adopt, AdoptRow, Prepare, Ensure, Launch, PersistStarting, AwaitSocket,
         PersistRunning, Confirm, Kill, KillWait, Retain, Undo, UndoSocket, UndoReset, UnLaunch,
         host, disk
    <3>5. ~Stop(c) /\ ~Snapshot(c)
      BY DEF Stop, Request, ReProbe, StopWait, Escalate, LastProbe, SigKill, ForceWait,
         Snapshot, CheckLive, Capture, Copy, Origin, AllocateCow, Suspend, MapView, Resume, Nest,
         Stream, UnNest, Drop, Unmap, Publish, host, disk
    <3>6. ~Delete(c) /\ ~ConfigureNetwork(c)
      BY DEF Delete, ConfigureNetwork, RemoveVolume, DeleteRows, VerifyStopped, PersistStaleRow,
         host, disk
    <3>7. ~Inspect(c) /\ ~UpdateRow(c)
      BY DEF Inspect, UpdateRow, host, disk
    <3> QED BY <3>2, <3>3, <3>4, <3>5, <3>6, <3>7 DEF Client, Update
  <2>2. Unmapped
    BY <2>1, UpdateResizes DEF ResizeRootfs
  <2> QED BY <2>2 DEF Unmapped, Inv, DiskOK, MappingOK, Running
<1> QED BY <1>1, InvHolds, PTL DEF Spec, ResizeOffline

-----------------------------------------------------------------------------
(***************************************************************************)
(* Who may have the root disk of the MicroVM open: proofs that at most one *)
(* machine writes it, that the machine between operations is the one the   *)
(* runtime row names, that a snapshot never copies a disk in place while a *)
(* machine can still open it, and that delete_microvm never removes the    *)
(* volume of a running one; and who may suspend it: proofs that a snapshot *)
(* neither leaves the guest frozen nor a view of its disk behind.          *)
(*                                                                         *)
(* The difficulty is the time between launch_detached and the moment the   *)
(* VMM opens its drive: a machine that no probe sees yet can become a      *)
(* writer at any later step of anybody.  The invariants are therefore      *)
(* about the machines that may still write, not about those that do.       *)
(***************************************************************************)

(* A client past both locks.                                               *)
Busy(c) == pc[c] \notin {"idle", "lifecycle", "name"}

(* Who may be inside: every client has an operation of this instance, and  *)
(* one that is past the name lock of its process holds it.                 *)
OpsOK == \A c \in Clients : pc[c] # "idle" => op[c] \in Ops
NameOK == \A c \in Clients : Busy(c) => nameLock[ProcessOf[c]] = c

(* What a failing operation of another process could disturb is ruled out  *)
(* by one of the two locks: all operations take the lock file, or all      *)
(* clients share one process and its name lock.                            *)
OneProcess == \A c, d \in Clients : ProcessOf[c] = ProcessOf[d]

(* c goes on behind its locks.                                             *)
Works(c) == Busy(c) /\ UNCHANGED <<lifecycle, nameLock, op>> /\ \E l : Goto(c, l)

-----------------------------------------------------------------------------
(* Every step of an operation other than entering, locking and returning   *)
(* is one behind the locks.                                                *)
LEMMA ClientWorks ==
    ASSUME NEW c \in Clients, Client(c),
           ~Invoke(c), ~TakeLifecycle(c), ~TakeName(c), ~Return(c)
    PROVE  Works(c)
<1> USE DEF Works, Busy, Step, At, locks, locals
<1>1. CASE Shared(c)
  BY <1>1 DEF Shared, Load, Probe, CheckPid, Release, ClearSocket, ResetRuntime, HostNetwork
<1>2. CASE Start(c)
  <2>1. CASE Adopt(c) \/ AdoptRow(c) \/ Prepare(c) \/ Ensure(c) \/ Launch(c)
    BY <2>1 DEF Adopt, AdoptRow, Prepare, Ensure, Launch
  <2>2. CASE PersistStarting(c) \/ AwaitSocket(c) \/ PersistRunning(c) \/ Confirm(c)
    BY <2>2 DEF PersistStarting, AwaitSocket, PersistRunning, Confirm
  <2>3. CASE Kill(c) \/ KillWait(c) \/ Retain(c)
    BY <2>3 DEF Kill, KillWait, Retain
  <2>4. CASE Undo(c) \/ UndoSocket(c) \/ UndoReset(c) \/ UnLaunch(c)
    BY <2>4 DEF Undo, UndoSocket, UndoReset, UnLaunch
  <2> QED BY <1>2, <2>1, <2>2, <2>3, <2>4 DEF Start
<1>3. CASE Stop(c)
  BY <1>3 DEF Stop, Request, ReProbe, StopWait, Escalate, LastProbe, SigKill, ForceWait
<1>4. CASE Update(c)
  BY <1>4 DEF Update, Inspect, Converge, Resize, UpdateRow, UnResize
<1>5. CASE Snapshot(c)
  <2>1. CASE CheckLive(c) \/ Capture(c) \/ Copy(c) \/ Stream(c) \/ UnNest(c) \/ Drop(c)
    BY <2>1 DEF CheckLive, Capture, Copy, Stream, UnNest, Drop
  <2>2. CASE Unmap(c) \/ Publish(c) \/ AllocateCow(c) \/ MapView(c)
    BY <2>2 DEF Unmap, Publish, AllocateCow, MapView
  <2>3. CASE Origin(c) \/ Suspend(c) \/ Resume(c) \/ Nest(c)
    BY <2>3 DEF Origin, Suspend, Resume, Nest, GotoDrop
  <2> QED BY <1>5, <2>1, <2>2, <2>3 DEF Snapshot
<1>6. CASE Delete(c) \/ ConfigureNetwork(c)
  BY <1>6 DEF Delete, RemoveVolume, DeleteRows, ConfigureNetwork, VerifyStopped, PersistStaleRow
<1> QED BY <1>1, <1>2, <1>3, <1>4, <1>5, <1>6 DEF Client

(* Nobody gets past a lock that another client holds.                      *)
LEMMA OwnersStep ==
    ASSUME Control, NameOK, OpsOK, [Next]_vars PROVE NameOK' /\ OpsOK'
<1>0. TypeOK
  BY DEF Control
<1>1. ASSUME NEW c \in Clients, Works(c) PROVE NameOK' /\ OpsOK'
  <2>1. PICK l : Goto(c, l)
    BY <1>1 DEF Works
  <2>2. \A d \in Clients : d # c => pc'[d] = pc[d]
    BY <1>0, <2>1 DEF Goto, TypeOK
  <2> QED BY <1>1, <2>2 DEF Works, Busy, NameOK, OpsOK
<1>2. ASSUME NEW c \in Clients, Invoke(c) \/ TakeLifecycle(c) PROVE NameOK' /\ OpsOK'
  <2>1. PICK l \in {"lifecycle", "name"} : Goto(c, l)
    BY <1>2 DEF Invoke, TakeLifecycle
  <2>2. nameLock' = nameLock
    BY <1>2 DEF Invoke, TakeLifecycle, locks
  <2>3. \A d \in Clients : pc'[d] = IF d = c THEN l ELSE pc[d]
    BY <1>0, <2>1 DEF Goto, TypeOK
  <2>4. NameOK'
    BY <2>2, <2>3 DEF Busy, NameOK
  <2>5. op'[c] \in Ops /\ \A d \in Clients \ {c} : op'[d] = op[d]
    BY <1>0, <1>2 DEF Invoke, TakeLifecycle, At, OpsOK, TypeOK, locals
  <2> QED BY <2>3, <2>4, <2>5 DEF OpsOK
<1>3. ASSUME NEW c \in Clients, TakeName(c) PROVE NameOK' /\ OpsOK'
  <2>1. \A d \in Clients : pc'[d] = IF d = c THEN "load" ELSE pc[d]
    BY <1>0, <1>3 DEF TakeName, Goto, TypeOK
  <2>2. \A d \in Clients : ProcessOf[d] \in Processes
    BY ProcessesAssumption
  <2>3. \A d \in Clients : nameLock'[ProcessOf[d]] =
          IF ProcessOf[d] = ProcessOf[c] THEN c ELSE nameLock[ProcessOf[d]]
    BY <1>0, <1>3, <2>2 DEF TakeName, TypeOK
  <2>4. NameOK'
    BY <1>3, <2>1, <2>3, ClientsAssumption DEF TakeName, Busy, NameOK
  <2> QED BY <1>3, <2>1, <2>4 DEF TakeName, At, OpsOK, locals
<1>4. ASSUME NEW c \in Clients, Return(c) PROVE NameOK' /\ OpsOK'
  <2>1. \A d \in Clients : /\ pc'[d] = IF d = c THEN "idle" ELSE pc[d]
                           /\ d # c => op'[d] = op[d]
    BY <1>0, <1>4 DEF Return, Goto, TypeOK
  <2>2. \A d \in Clients : ProcessOf[d] \in Processes
    BY ProcessesAssumption
  <2>3. \A d \in Clients : nameLock'[ProcessOf[d]] =
          IF ProcessOf[d] = ProcessOf[c] THEN None ELSE nameLock[ProcessOf[d]]
    BY <1>0, <1>4, <2>2 DEF Return, TypeOK
  <2>4. Busy(c)
    BY <1>4 DEF Return, Busy
  <2>5. NameOK'
    BY <2>1, <2>3, <2>4 DEF Busy, NameOK
  <2> QED BY <2>1, <2>5 DEF OpsOK
<1>5. ASSUME NEW S \in SUBSET Clients, Abandon(S), \A d \in S : \A e \in Clients :
               ProcessOf[e] = ProcessOf[d] => e \in S
      PROVE  NameOK' /\ OpsOK'
  <2>1. \A d \in Clients : /\ d \in S => pc'[d] = "idle"
                           /\ d \notin S => pc'[d] = pc[d] /\ op'[d] = op[d]
    BY <1>5 DEF Abandon
  <2>2. \A d \in Clients : ProcessOf[d] \in Processes
    BY ProcessesAssumption
  <2>3. \A d \in Clients : nameLock'[ProcessOf[d]] =
          IF nameLock[ProcessOf[d]] \in S THEN None ELSE nameLock[ProcessOf[d]]
    BY <1>5, <2>2 DEF Abandon
  <2> QED BY <2>1, <2>3 DEF Busy, NameOK, OpsOK
<1>6. ASSUME NEW q \in Processes, Crash(q) PROVE NameOK' /\ OpsOK'
  BY <1>5, <1>6 DEF Crash
<1>7. CASE Reboot
  BY <1>5, <1>7 DEF Reboot
<1>8. CASE UNCHANGED <<locks, pc, locals>>
  BY <1>8 DEF locks, locals, Busy, NameOK, OpsOK
<1> QED BY <1>1, <1>2, <1>3, <1>4, <1>6, <1>7, <1>8, ClientWorks DEF Next, vars

(* Initially nobody is inside.                                             *)
LEMMA OwnersInit == Init => NameOK /\ OpsOK
BY DEF Init, NameOK, OpsOK, Busy

-----------------------------------------------------------------------------
(* A machine that has the disk open, or that can still get that far: its   *)
(* launcher is alive to configure it and the volume it binds its socket in *)
(* is there.                                                               *)
MayWrite(p) ==
    \/ vmm[p] = "run"
    \/ p \in launcher /\ (vmm[p] = "api" \/ (vmm[p] = "boot" /\ volume))

(* The socket belongs to the one machine that has gone beyond its boot.    *)
Served ==
    /\ \A p \in Pids : MayWrite(p) /\ vmm[p] # "boot" => socket.owner = p
    /\ socket.owner # None => socket.entry

(* What may be left can no longer bind the socket.                         *)
Unbootable == \A p \in Pids : MayWrite(p) => vmm[p] = "boot" /\ socket.entry

(* One machine at a time has the socket, as long as no silent socket is    *)
(* taken for an unserved one: a machine binds only a free path, and        *)
(* remove_stale_socket removes only what nobody answers on.                *)
LEMMA ServedStep ==
    ASSUME HostTypeOK, Served, ~Fault("probe"), [Next]_vars,
           \A c \in Clients : RemoveVolume(c) => Unbootable
    PROVE  Served'
<1> USE PidsAssumption DEF HostTypeOK, MayWrite
<1>1. ASSUME UNCHANGED <<socket, vmm>>, launcher' \subseteq launcher PROVE Served'
  BY <1>1 DEF Served
<1>2. ASSUME socket' \in {socket, NoSocket}, \A p \in Pids : MayWrite(p) => vmm[p] = "boot",
             UNCHANGED <<vmm, launcher>>
      PROVE  Served'
  BY <1>2 DEF Served, NoSocket
<1>3. ASSUME NEW p \in Pids, Bind(p) \/ OpenDisk(p) \/ VmmExit(p) \/ FirectlExit(p) PROVE Served'
  <2>1. CASE Bind(p)
    <3>1. \A r \in Pids : vmm'[r] = IF r = p THEN "api" ELSE vmm[r]
      BY <2>1 DEF Bind
    <3>2. socket'.owner = p /\ socket'.entry /\ ~socket.entry /\ launcher' = launcher
      BY <2>1 DEF Bind
    <3> QED BY <3>1, <3>2 DEF Served
  <2>2. CASE OpenDisk(p)
    <3>1. \A r \in Pids : vmm'[r] = IF r = p THEN "run" ELSE vmm[r]
      BY <2>2 DEF OpenDisk
    <3> QED BY <2>2, <3>1 DEF OpenDisk, Served
  <2>3. CASE VmmExit(p)
    <3>1. \A r \in Pids : vmm'[r] = IF r = p THEN "none" ELSE vmm[r]
      BY <2>3 DEF VmmExit
    <3>2. socket'.entry = socket.entry /\ socket'.owner = IF socket.owner = p THEN None ELSE socket.owner
      BY <2>3 DEF VmmExit
    <3> QED BY <2>3, <3>1, <3>2 DEF VmmExit, Served
  <2>4. CASE FirectlExit(p)
    BY <2>4, <1>1 DEF FirectlExit
  <2> QED BY <1>3, <2>1, <2>2, <2>3, <2>4
<1>4. ASSUME NEW c \in Clients, ClearSocket(c) \/ UndoSocket(c) PROVE Served'
  <2>1. PICK ok \in BOOLEAN : RemoveStaleSocket(ok)
    BY <1>4 DEF ClearSocket, UndoSocket
  <2>2. UNCHANGED <<launcher, vmm>>
    BY <1>4 DEF ClearSocket, UndoSocket
  <2>3. socket' = socket \/ (socket' = NoSocket /\ socket.owner = None)
    BY <2>1 DEF RemoveStaleSocket, SocketAnswers, Answers
  <2> QED BY <1>1, <1>2, <2>2, <2>3 DEF Served
<1>5. ASSUME NEW c \in Clients, Launch(c) PROVE Served'
  <2>1. PICK p \in Pids, ok \in BOOLEAN : LaunchDetached(p, ok)
    BY <1>5 DEF Launch
  <2>2. CASE ok
    <3>1. /\ vmm[p] = "none" /\ launcher' = launcher \cup {p}
          /\ \A r \in Pids : vmm'[r] = IF r = p THEN "boot" ELSE vmm[r]
      BY <2>1, <2>2 DEF LaunchDetached, FreePids
    <3> QED BY <1>5, <3>1 DEF Launch, Served
  <2>3. CASE ~ok
    BY <1>1, <1>5, <2>1, <2>3 DEF Launch, LaunchDetached
  <2> QED BY <2>2, <2>3
<1>6. ASSUME NEW c \in Clients, RemoveVolume(c) PROVE Served'
  BY <1>2, <1>6 DEF RemoveVolume, Unbootable
<1>7. CASE Reboot
  BY <1>7 DEF Reboot, Served
<1>8. ASSUME NEW c \in Clients, Client(c), ~ClearSocket(c), ~UndoSocket(c), ~Launch(c),
             ~RemoveVolume(c)
      PROVE  UNCHANGED <<socket, vmm>> /\ launcher' \subseteq launcher
  <2> USE DEF host, machines
  <2>1. CASE Shared(c)
    BY <1>8, <2>1 DEF Shared, Invoke, TakeLifecycle, TakeName, Return, Load, Probe, CheckPid,
       Release, ResetRuntime, HostNetwork
  <2>2. CASE Start(c)
    BY <1>8, <2>2 DEF Start, Adopt, AdoptRow, Prepare, Ensure, PersistStarting, AwaitSocket,
       PersistRunning, Confirm, Kill, KillWait, Retain, Undo, UndoReset, UnLaunch, TerminateSpawned
  <2>3. CASE Stop(c)
    BY <2>3 DEF Stop, Request, ReProbe, StopWait, Escalate, LastProbe, SigKill, ForceWait,
       TerminateSpawned
  <2>4. CASE Update(c) \/ Delete(c) \/ ConfigureNetwork(c)
    BY <1>8, <2>4 DEF Update, Inspect, Converge, Resize, UpdateRow, UnResize, Delete, DeleteRows,
       ConfigureNetwork, VerifyStopped, PersistStaleRow
  <2>5. CASE Snapshot(c)
    BY <2>5 DEF Snapshot, CheckLive, Capture, Copy, Origin, AllocateCow, Suspend, MapView, Resume,
       Nest, Stream, UnNest, Drop, Unmap, Publish
  <2> QED BY <1>8, <2>1, <2>2, <2>3, <2>4, <2>5 DEF Client
<1>9. CASE UNCHANGED vars
  BY <1>1, <1>9 DEF vars, host, machines
<1>10. ASSUME NEW q \in Processes, Crash(q) PROVE Served'
  BY <1>1, <1>10 DEF Crash, host, machines
<1> QED BY <1>1, <1>3, <1>4, <1>5, <1>6, <1>7, <1>8, <1>9, <1>10 DEF Next, Machine

(* Nothing runs and nothing serves a VM that has just been created.        *)
LEMMA ServedInit == Init => Served
BY DEF Init, HostInit, Served, MayWrite, NoSocket

(* Two machines that run would both own the socket.                        *)
LEMMA ServedIsSingle == Served => SingleWriter
BY DEF Served, MayWrite, SingleWriter, Running

(* However many clients and processes start, stop, resize and copy the VM, *)
(* and whichever of them crash, whether the host reboots, host calls and   *)
(* database writes fail or firectl is killed: two machines never have the  *)
(* root disk open, if the probe of the socket is reliable and nobody       *)
(* deletes the VM meanwhile.                                               *)
THEOREM OneWriter ==
    ASSUME "probe" \notin Faults, "delete" \notin Ops
    PROVE  Spec => []SingleWriter
<1> DEFINE I == Control /\ NameOK /\ OpsOK /\ Served
<1>1. Init => I
  BY ControlInit, OwnersInit, ServedInit
<1>2. I /\ [Next]_vars => I'
  <2> SUFFICES ASSUME I, [Next]_vars PROVE I'
    OBVIOUS
  <2>1. \A c \in Clients : ~RemoveVolume(c)
    BY DEF RemoveVolume, Step, At, Control, ControlOK, Allowed, OpsOK
  <2>2. Served'
    BY <2>1, ServedStep DEF Fault, Control, TypeOK
  <2> QED BY <2>2, ControlStep, OwnersStep
<1>3. I => SingleWriter
  BY ServedIsSingle
<1> QED BY <1>1, <1>2, <1>3, PTL DEF Spec

-----------------------------------------------------------------------------
(* What the operations know about the machine.  Sheltered says which       *)
(* failures the rest of this module allows: neither a probe nor a database *)
(* write fails and no SDK process is killed, while firectl may die and the *)
(* host may reboot at any moment; host calls may fail if every operation   *)
(* takes the lock file, and delete and configure_network may run if all    *)
(* clients share one process.                                              *)
Sheltered ==
    /\ Faults \subseteq {"host", "launcher", "reboot"}
    /\ Ops \subseteq FileLocked \/ (OneProcess /\ ~Fault("host"))

Nobody == \A p \in Pids : ~MayWrite(p)
OnlyRunning == \A p \in Pids : MayWrite(p) => vmm[p] = "run"

(* The runtime row names the machine, and a machine that has not bound its *)
(* socket yet either never will, because the path is taken, or its row     *)
(* still says that it is starting.                                         *)
Recorded == \A p \in Pids : MayWrite(p) => runtime.pid = p
Settled ==
    \A p \in Pids : MayWrite(p) /\ vmm[p] = "boot"
        => socket.entry \/ (runtime.state = "starting" /\ Fault("host"))

(* Between the launch and the row that settles it.                         *)
Launching == {"starting", "await", "commit", "kill", "killwait", "retain"}

Between == (\A c \in Clients : pc[c] \notin Launching) => Recorded /\ Settled

(* Labels at which a client relies on the row it loaded, and labels at     *)
(* which it has made sure that no machine is left.                         *)
Judging(l, o) ==
    \/ l \in {"probe", "checkpid", "adopt", "adoptrow", "checklive"} \cup StopLabels
    \/ o = "configure_network" /\ l \in {"network", "verify", "stalerow"}
Cleared == {
    "socket", "reset", "prepare", "ensure", "launch", "unlaunch", "undosocket",
    "undoreset", "capture", "copy", "rows"}

(* What an operation o at label l has learnt, r being the row it loaded    *)
(* and s the pid it launched.                                              *)
RowKnown(l, o, r) == Judging(l, o) => r = runtime

LaunchKnown(l, s) ==
    /\ l \in Launching => s \in Pids /\ \A p \in Pids : MayWrite(p) => p = s
    /\ l \in Launching \ {"starting"} => runtime.pid = s /\ runtime.state = "starting"
    /\ l \in {"killwait", "retain"} => s \notin launcher \/ Fault("host")

SocketKnown(l) == l \in {"commit", "adopt", "adoptrow"} => socket.entry

ExitKnown(l, o, r) ==
    /\ l = "lastprobe" => r.pid \notin launcher
    /\ l = "undo" \/ (l = "release" /\ o # "update") => OnlyRunning
    /\ l \in Cleared => Nobody
    /\ o = "snapshot" /\ l = "checkpid" /\ r.state # "starting" => Unbootable
    /\ o = "delete" /\ l \in {"network", "volume"} => Unbootable

VolumeKnown(l, o) ==
    o = "start" /\ l \notin {"idle", "lifecycle", "name", "load", "fail"}
        => record # None /\ volume

Judged(l, o, r, s) ==
    /\ RowKnown(l, o, r) /\ LaunchKnown(l, s) /\ SocketKnown(l)
    /\ ExitKnown(l, o, r) /\ VolumeKnown(l, o)

JudgedOK(c) == Judged(pc[c], op[c], seen[c].row, spawned[c])

MachineOK == Served /\ Between /\ \A c \in Clients : JudgedOK(c)
MachineInv == Inv /\ NameOK /\ OpsOK /\ MachineOK

(* Nothing about client d changes.                                         *)
Stays(d) == pc'[d] = pc[d] /\ op'[d] = op[d] /\ seen'[d] = seen[d] /\ spawned'[d] = spawned[d]

(* No machine starts, none comes closer to the disk than it could before,  *)
(* and record, row and socket path stay.                                   *)
Calm ==
    /\ UNCHANGED <<runtime, volume>>
    /\ record # None => record' # None
    /\ launcher' \subseteq launcher
    /\ socket.entry => socket'.entry
    /\ \A p \in Pids :
         /\ MayWrite(p)' => MayWrite(p)
         /\ MayWrite(p)' /\ vmm'[p] = "boot" => vmm[p] = "boot"
         /\ MayWrite(p)' /\ vmm[p] = "run" => vmm'[p] = "run"
         /\ MayWrite(p)' /\ vmm[p] = "boot" /\ socket.entry => vmm'[p] = "boot"

(* Two clients are never behind the locks together.                        *)
LEMMA Exclusive ==
    ASSUME Sheltered, Control, NameOK, OpsOK, NEW c \in Clients, NEW d \in Clients, Busy(c), Busy(d)
    PROVE  c = d
<1>1. CASE Ops \subseteq FileLocked
  BY <1>1 DEF Control, LockOK, OpsOK, Busy
<1>2. CASE OneProcess
  BY <1>2 DEF NameOK, OneProcess
<1> QED BY <1>1, <1>2 DEF Sheltered

(* While one client is behind the locks and not launching, the row names   *)
(* the machine.                                                            *)
LEMMA Quiescent ==
    ASSUME Sheltered, MachineInv, NEW c \in Clients, Busy(c), pc[c] \notin Launching
    PROVE  Recorded /\ Settled
<1>1. \A d \in Clients : pc[d] \in Launching => Busy(d)
  BY DEF Launching, Busy
<1>2. \A d \in Clients : pc[d] \notin Launching
  BY <1>1, Exclusive DEF MachineInv, Inv
<1> QED BY <1>2 DEF MachineInv, MachineOK, Between

(* What a client knows survives every calm step.                           *)
LEMMA CalmKeeps ==
    ASSUME Calm, NEW l, NEW o, NEW r, NEW s, Judged(l, o, r, s)
    PROVE  Judged(l, o, r, s)'
<1>1. RowKnown(l, o, r)'
  BY DEF Calm, Judged, RowKnown
<1>2. LaunchKnown(l, s)'
  BY DEF Calm, Judged, LaunchKnown
<1>3. SocketKnown(l)'
  BY DEF Calm, Judged, SocketKnown
<1>4. (OnlyRunning => OnlyRunning') /\ (Nobody => Nobody') /\ (Unbootable => Unbootable')
  BY DEF Calm, OnlyRunning, Nobody, Unbootable
<1>5. ExitKnown(l, o, r)'
  BY <1>4 DEF Calm, Judged, ExitKnown
<1>6. VolumeKnown(l, o)'
  BY DEF Calm, Judged, VolumeKnown
<1> QED BY <1>1, <1>2, <1>3, <1>5, <1>6 DEF Judged

(* So does what holds between operations.                                  *)
LEMMA CalmRests ==
    ASSUME Calm, Recorded, Settled PROVE Recorded' /\ Settled'
BY DEF Calm, Recorded, Settled

(* A client that is not behind the locks knows nothing.                    *)
LEMMA OutsideKnowsNothing ==
    ASSUME NEW l \in {"idle", "lifecycle", "name", "load", "ok", "fail"}, NEW o, NEW r, NEW s,
           VolumeKnown(l, o)
    PROVE  Judged(l, o, r, s)
BY DEF Judged, RowKnown, LaunchKnown, SocketKnown, ExitKnown, Judging, StopLabels, Launching, Cleared

(* A step of the one client behind the locks: only what it knows itself    *)
(* afterwards is in question.                                              *)
LEMMA BusyStep ==
    ASSUME Sheltered, MachineInv, NEW c \in Clients, Busy(c), \A d \in Clients \ {c} : Stays(d),
           Served', JudgedOK(c)', pc'[c] \in Launching \/ (Recorded' /\ Settled')
    PROVE  MachineOK'
<1>1. ASSUME NEW d \in Clients, d # c PROVE JudgedOK(d)'
  <2>1. pc[d] \in {"idle", "lifecycle", "name"} /\ Stays(d)
    BY <1>1, Exclusive DEF MachineInv, Inv, Busy
  <2>2. pc'[d] \in {"idle", "lifecycle", "name"}
    BY <2>1 DEF Stays
  <2> QED BY <2>2 DEF JudgedOK, Judged, RowKnown, LaunchKnown, SocketKnown, ExitKnown, VolumeKnown,
             Judging, StopLabels, Launching, Cleared
<1>2. Between'
  BY DEF Between
<1> QED BY <1>1, <1>2 DEF MachineOK

(* The same for a calm step, judged by the state before it.                *)
LEMMA CalmStep ==
    ASSUME Sheltered, MachineInv, NEW c \in Clients, Busy(c), \A d \in Clients \ {c} : Stays(d),
           Served', Calm, Judged(pc'[c], op'[c], seen'[c].row, spawned'[c]),
           pc'[c] \in Launching \/ (Recorded /\ Settled)
    PROVE  MachineOK'
<1> DEFINE l == pc'[c]
<1> DEFINE o == op'[c]
<1> DEFINE r == seen'[c].row
<1> DEFINE s == spawned'[c]
<1>1. ASSUME NEW x, NEW y, NEW z, NEW w, x = l, y = o, z = r, w = s PROVE JudgedOK(c)'
  <2>1. Judged(x, y, z, w)'
    BY <1>1, CalmKeeps
  <2> QED BY <1>1, <2>1 DEF JudgedOK
<1>2. JudgedOK(c)'
  BY <1>1
<1>3. l \in Launching \/ (Recorded' /\ Settled')
  BY CalmRests
<1> QED BY <1>2, <1>3, BusyStep

(* The same for a step that moves c and leaves its locals alone.           *)
LEMMA CalmMove ==
    ASSUME Sheltered, MachineInv, NEW c \in Clients, NEW from, NEW to, Step(c, from, to),
           from \notin {"idle", "lifecycle", "name"}, Served', Calm,
           Judged(to, op[c], seen[c].row, spawned[c]),
           to \in Launching \/ (Recorded /\ Settled)
    PROVE  MachineOK'
<1>1. /\ pc[c] = from /\ pc'[c] = to /\ op' = op /\ seen' = seen /\ spawned' = spawned
      /\ \A d \in Clients \ {c} : pc'[d] = pc[d]
  BY DEF Step, At, Goto, locals, MachineInv, Inv, Control, TypeOK
<1>2. \A d \in Clients \ {c} : Stays(d)
  BY <1>1 DEF Stays
<1> QED BY <1>1, <1>2, CalmStep DEF Busy

(* A step that leaves the machine, the row and the volume alone is calm.   *)
LEMMA StillIsCalm ==
    ASSUME UNCHANGED <<runtime, volume, machines>>, record # None => record' # None
    PROVE  Calm
BY DEF Calm, MayWrite, machines
-----------------------------------------------------------------------------
(* Without failing probes, the answers are the truth.                      *)
LEMMA TrueAnswers ==
    ASSUME Sheltered, NEW pid
    PROVE  /\ SocketAnswers = {IF Answers THEN "yes" ELSE "no"}
           /\ ReferencesVm(pid) = {IF pid \in launcher THEN "yes" ELSE "no"}
           /\ WaitForStop(pid) = {IF Answers \/ pid \in launcher THEN "no" ELSE "yes"}
           /\ ~Fault("db") /\ ~Fault("crash")
BY DEF Sheltered, Fault, SocketAnswers, ReferencesVm, WaitForStop

(* A recorded machine without its firectl is running or harmless.          *)
LEMMA LauncherGone ==
    ASSUME Recorded, runtime.pid \notin launcher PROVE OnlyRunning
BY DEF Recorded, OnlyRunning, MayWrite

(* A released disk has no machine on it.                                   *)
LEMMA ReleasedIsUnused ==
    ASSUME MappingOK, OnlyRunning, ReleaseMapping(TRUE) PROVE Nobody
BY DEF MappingOK, ReleaseMapping, Releasable, OpenCountIsZero, Running, OnlyRunning, Nobody

(* A silent socket means that no machine got beyond its boot.              *)
LEMMA SilenceMeansUnbootable ==
    ASSUME Served, Recorded, Settled, ~Answers, runtime.state # "starting" \/ ~Fault("host")
    PROVE  Unbootable
BY PidsAssumption DEF Served, Recorded, Settled, Answers, Unbootable

(* The steps that several operations share.                                *)
LEMMA SharedKeepsMachine ==
    ASSUME Sheltered, MachineInv, Served', NEW c \in Clients, Shared(c) PROVE MachineOK'
<1> DEFINE o == op[c]
<1> DEFINE r == seen[c].row
<1>0. /\ TypeOK /\ HostTypeOK /\ Control /\ MappingOK /\ Served
      /\ Judged(pc[c], o, r, spawned[c])
  BY DEF MachineInv, Inv, DiskOK, Control, TypeOK, MachineOK, JudgedOK
<1>s. ASSUME UNCHANGED host PROVE Calm
  BY <1>s, StillIsCalm DEF host, rows, disk
<1>1. CASE Invoke(c) \/ TakeLifecycle(c) \/ TakeName(c)
  <2>1. PICK l \in {"lifecycle", "name", "load"} : Goto(c, l)
    BY <1>1 DEF Invoke, TakeLifecycle, TakeName
  <2>2. UNCHANGED <<host, seen, spawned>>
    BY <1>1 DEF Invoke, TakeLifecycle, TakeName, locals
  <2>3. /\ pc[c] \notin Launching
        /\ \A d \in Clients : pc'[d] = IF d = c THEN l ELSE pc[d]
    BY <1>0, <1>1, <2>1 DEF Invoke, TakeLifecycle, TakeName, At, Goto, TypeOK, Launching
  <2>4. \A d \in Clients \ {c} : op'[d] = op[d]
    BY <1>0, <1>1 DEF Invoke, TakeLifecycle, TakeName, TypeOK, locals
  <2>5. Calm
    BY <1>s, <2>2
  <2>6. Between'
    BY <2>3, <2>5, CalmRests DEF Launching, Between, MachineInv, MachineOK
  <2>7. ASSUME NEW d \in Clients, d # c PROVE JudgedOK(d)'
    <3>1. Judged(pc[d], op[d], seen[d].row, spawned[d])
      BY DEF MachineInv, MachineOK, JudgedOK
    <3>2. Stays(d)
      BY <2>2, <2>3, <2>4, <2>7 DEF Stays
    <3>3. ASSUME NEW x, NEW y, NEW z, NEW w, x = pc[d], y = op[d], z = seen[d].row, w = spawned[d]
          PROVE  JudgedOK(d)'
      <4>1. Judged(x, y, z, w)'
        BY <2>5, <3>1, <3>3, CalmKeeps
      <4> QED BY <3>2, <3>3, <4>1 DEF JudgedOK, Stays
    <3> QED BY <3>3
  <2>8. JudgedOK(c)'
    BY <2>3 DEF JudgedOK, Judged, RowKnown, LaunchKnown, SocketKnown, ExitKnown, VolumeKnown,
       Judging, StopLabels, Launching, Cleared
  <2> QED BY <2>6, <2>7, <2>8 DEF MachineOK
<1>2. CASE Return(c)
  <2>1. pc'[c] = "idle" /\ \A d \in Clients \ {c} : Stays(d)
    BY <1>0, <1>2 DEF Return, Goto, Stays, TypeOK
  <2>2. Busy(c) /\ pc[c] \notin Launching
    BY <1>2 DEF Return, Busy, Launching
  <2>3. Recorded /\ Settled
    BY <2>2, Quiescent
  <2>4. Judged(pc'[c], op'[c], seen'[c].row, spawned'[c])
    BY <2>1, OutsideKnowsNothing DEF VolumeKnown
  <2> QED BY <1>2, <1>s, <2>1, <2>2, <2>3, <2>4, CalmStep DEF Return
<1>q. ASSUME Busy(c), pc[c] \notin Launching PROVE Recorded /\ Settled
  BY <1>q, Quiescent
<1>3. CASE Load(c)
  <2>1. PICK l \in {"fail", "probe", "network"} :
          /\ Goto(c, l)
          /\ l # "fail" => /\ record # None /\ FilesAreValid(o)
                           /\ seen' = [seen EXCEPT ![c] = [size |-> record, row |-> runtime]]
          /\ l = "fail" => seen' = seen
          /\ l = "network" => o = "configure_network"
    BY <1>3 DEF Load
  <2>2. Busy(c) /\ pc[c] \notin Launching
    BY <1>3 DEF Load, At, Busy, Launching
  <2>3. /\ pc'[c] = l /\ op' = op /\ spawned' = spawned
        /\ l # "fail" => seen'[c].row = runtime
        /\ \A d \in Clients \ {c} : Stays(d)
    BY <1>0, <1>3, <2>1 DEF Load, Goto, Stays, TypeOK
  <2>4. o = "start" /\ l # "fail" => record # None /\ volume
    BY <2>1 DEF FilesAreValid
  <2>5. Judged(l, o, seen'[c].row, spawned[c])
    BY <2>1, <2>3, <2>4 DEF Judged, RowKnown, LaunchKnown, SocketKnown, ExitKnown, VolumeKnown,
       Judging, StopLabels, Launching, Cleared
  <2> QED BY <1>3, <1>s, <1>q, <2>2, <2>3, <2>5, CalmStep DEF Load
<1>4. CASE Probe(c)
  <2>1. pc[c] = "probe" /\ o \in Operations \ {"configure_network"}
    BY <1>0, <1>4 DEF Probe, Step, At, Control, ControlOK, Allowed
  <2>2. Recorded /\ Settled /\ Busy(c)
    BY <1>q, <2>1 DEF Busy, Launching
  <2>3. r = runtime
    BY <1>0, <2>1 DEF Judged, RowKnown, Judging
  <2>4. o = "start" => record # None /\ volume
    BY <1>0, <2>1 DEF Judged, VolumeKnown
  <2>5. o = "delete" => ~Fault("host")
    BY <2>1 DEF MachineInv, OpsOK, Sheltered, FileLocked
  <2>6. CASE Answers
    <3>1. Step(c, "probe", OnAnswer[o])
      BY <1>4, <2>6, TrueAnswers DEF Probe
    <3>2. socket.entry
      BY <1>0, <2>6 DEF Answers, Served
    <3>3. /\ o = "start" => OnAnswer[o] = "adopt"
          /\ o = "stop" => OnAnswer[o] = "request"
          /\ o = "snapshot" => OnAnswer[o] = "checklive"
          /\ o \in {"update", "delete"} => OnAnswer[o] = "fail"
      BY DEF OnAnswer
    <3>4. Judged(OnAnswer[o], o, r, spawned[c])
      BY <2>1, <2>3, <2>4, <3>2, <3>3 DEF Judged, RowKnown, LaunchKnown, SocketKnown, ExitKnown,
         VolumeKnown, Judging, StopLabels, Launching, Cleared, Operations
    <3> QED BY <1>4, <1>s, <2>2, <3>1, <3>4, CalmMove DEF Probe
  <2>7. CASE ~Answers
    <3>1. Step(c, "probe", OnSilence[o])
      BY <1>4, <2>7, TrueAnswers DEF Probe
    <3>2. /\ o = "snapshot" /\ r.state # "starting" => Unbootable
          /\ o = "delete" => Unbootable
      BY <1>0, <2>2, <2>3, <2>5, <2>7, SilenceMeansUnbootable
    <3>3. /\ o \in FileLocked => OnSilence[o] = "checkpid"
          /\ o = "delete" => OnSilence[o] = "network"
      BY DEF OnSilence, FileLocked
    <3>4. Judged(OnSilence[o], o, r, spawned[c])
      BY <2>1, <2>3, <2>4, <3>2, <3>3 DEF Judged, RowKnown, LaunchKnown, SocketKnown, ExitKnown,
         VolumeKnown, Judging, StopLabels, Launching, Cleared, Operations, FileLocked
    <3> QED BY <1>4, <1>s, <2>2, <3>1, <3>4, CalmMove DEF Probe
  <2> QED BY <2>6, <2>7
<1>5. CASE CheckPid(c)
  <2>1. pc[c] = "checkpid" /\ o \in FileLocked
    BY <1>0, <1>5 DEF CheckPid, Step, At, Control, ControlOK, Allowed
  <2>2. Recorded /\ Settled /\ Busy(c)
    BY <1>q, <2>1 DEF Busy, Launching
  <2>3. r = runtime
    BY <1>0, <2>1 DEF Judged, RowKnown, Judging
  <2>4. o = "start" => record # None /\ volume
    BY <1>0, <2>1 DEF Judged, VolumeKnown
  <2>5. PICK l \in {"fail", AfterExit[o]} :
          /\ Step(c, "checkpid", l)
          /\ l # "fail" => r.pid \notin launcher /\ (o = "snapshot" => r.state # "starting")
    BY <1>5, TrueAnswers DEF CheckPid, OrFail
  <2>6. CASE l = "fail"
    <3>1. Judged("fail", o, r, spawned[c])
      BY OutsideKnowsNothing DEF VolumeKnown
    <3> QED BY <1>5, <1>s, <2>2, <2>5, <2>6, <3>1, CalmMove DEF CheckPid
  <2>7. CASE l # "fail"
    <3>1. OnlyRunning
      BY <2>2, <2>3, <2>5, <2>7, LauncherGone
    <3>2. o = "snapshot" => Nobody
      <4>1. o = "snapshot" => Unbootable
        BY <1>0, <2>1, <2>5, <2>7 DEF Judged, ExitKnown
      <4> QED BY <3>1, <4>1 DEF OnlyRunning, Unbootable, Nobody
    <3>3. /\ o \in {"start", "stop"} => l = "release"
          /\ o = "update" => l = "inspect"
          /\ o = "snapshot" => l = "capture"
      BY <2>5, <2>7 DEF AfterExit
    <3>4. Judged(l, o, r, spawned[c])
      BY <2>1, <2>3, <2>4, <3>1, <3>2, <3>3 DEF Judged, RowKnown, LaunchKnown, SocketKnown, ExitKnown,
         VolumeKnown, Judging, StopLabels, Launching, Cleared, FileLocked
    <3> QED BY <1>5, <1>s, <2>2, <2>5, <3>4, CalmMove DEF CheckPid
  <2> QED BY <2>6, <2>7
<1>6. CASE Release(c)
  <2>1. PICK ok \in BOOLEAN, l \in {"fail", "resize", "socket"} :
          /\ ReleaseMapping(ok) /\ Step(c, "release", l)
          /\ l # "fail" => ok /\ (l = "resize" <=> o = "update")
    BY <1>6 DEF Release, OrFail
  <2>2. pc[c] = "release" /\ Recorded /\ Settled
    BY <1>q, <2>1 DEF Step, At, Busy, Launching
  <2>3. Calm
    BY <1>6, StillIsCalm DEF Release, rows
  <2>4. l = "socket" => Nobody
    BY <1>0, <2>1, <2>2, ReleasedIsUnused DEF Judged, ExitKnown
  <2>5. o = "start" => record # None /\ volume
    BY <1>0, <2>2 DEF Judged, VolumeKnown
  <2>6. Judged(l, o, r, spawned[c])
    BY <2>1, <2>4, <2>5 DEF Judged, RowKnown, LaunchKnown, SocketKnown, ExitKnown,
       VolumeKnown, Judging, StopLabels, Launching, Cleared
  <2> QED BY <2>1, <2>2, <2>3, <2>6, CalmMove
<1>7. CASE HostNetwork(c)
  <2>1. pc[c] = "network" /\ o \in {"delete", "configure_network"}
    BY <1>0, <1>7 DEF HostNetwork, Step, At, Control, ControlOK, Allowed
  <2>2. Recorded /\ Settled
    BY <1>q, <2>1 DEF Busy, Launching
  <2>3. PICK l \in {"fail", IF o = "delete" THEN "volume" ELSE "verify"} : Step(c, "network", l)
    BY <1>7 DEF HostNetwork, OrFail
  <2>4. Judged(l, o, r, spawned[c])
    BY <1>0, <2>1, <2>3 DEF Judged, RowKnown, LaunchKnown, SocketKnown, ExitKnown,
       VolumeKnown, Judging, StopLabels, Launching, Cleared
  <2> QED BY <1>7, <1>s, <2>2, <2>3, <2>4, CalmMove DEF HostNetwork
<1>8. CASE ClearSocket(c) \/ ResetRuntime(c)
  <2>1. PICK f \in {"socket", "reset"}, l \in {"fail", "reset", "prepare", "ok"} : Step(c, f, l)
    BY <1>8 DEF ClearSocket, ResetRuntime, OrFail
  <2>2. pc[c] = f /\ Busy(c) /\ o \in {"start", "stop"}
    BY <1>0, <2>1 DEF Step, At, Busy, Control, ControlOK, Allowed
  <2>3. Nobody
    BY <1>0, <2>2 DEF Judged, ExitKnown, Cleared
  <2>4. UNCHANGED <<record, volume, launcher, vmm>>
    BY <1>8 DEF ClearSocket, ResetRuntime, rows, disk, machines
  <2>5. Nobody'
    BY <2>3, <2>4 DEF Nobody, MayWrite
  <2>6. pc'[c] = l /\ op' = op /\ \A d \in Clients \ {c} : Stays(d)
    BY <1>0, <2>1 DEF Step, Goto, Stays, TypeOK, locals
  <2>7. o = "start" => record # None /\ volume
    BY <1>0, <2>2 DEF Judged, VolumeKnown
  <2>8. JudgedOK(c)'
    BY <2>1, <2>2, <2>4, <2>5, <2>6, <2>7 DEF JudgedOK, Judged, RowKnown, LaunchKnown, SocketKnown,
       ExitKnown, VolumeKnown, Judging, StopLabels, Launching, Cleared
  <2>9. Recorded' /\ Settled'
    BY <2>5 DEF Nobody, Recorded, Settled
  <2> QED BY <2>2, <2>6, <2>8, <2>9, BusyStep
<1> QED BY <1>1, <1>2, <1>3, <1>4, <1>5, <1>6, <1>7, <1>8 DEF Shared

(* start_microvm records the machine it launches before it lets go of it,  *)
(* and forgets it only when it is gone.                                    *)
LEMMA StartKeepsMachine ==
    ASSUME Sheltered, MachineInv, Served', NEW c \in Clients, Start(c) PROVE MachineOK'
<1> DEFINE r == seen[c].row
<1> DEFINE s == spawned[c]
<1>0. /\ TypeOK /\ HostTypeOK /\ Control /\ MappingOK /\ Served
      /\ Judged(pc[c], op[c], r, s)
  BY DEF MachineInv, Inv, DiskOK, Control, TypeOK, MachineOK, JudgedOK
<1>1. pc[c] \in StartLabels
  <2>1. CASE Adopt(c) \/ AdoptRow(c) \/ Prepare(c) \/ Ensure(c) \/ Launch(c) \/ PersistStarting(c)
             \/ AwaitSocket(c) \/ PersistRunning(c)
    BY <2>1 DEF Adopt, AdoptRow, Prepare, Ensure, Launch, PersistStarting, AwaitSocket,
       PersistRunning, Step, At, StartLabels
  <2>2. CASE Confirm(c) \/ Kill(c) \/ KillWait(c) \/ Retain(c)
             \/ Undo(c) \/ UndoSocket(c) \/ UndoReset(c) \/ UnLaunch(c)
    BY <2>2 DEF Confirm, Kill, KillWait, Retain, Undo, UndoSocket, UndoReset, UnLaunch, Step, At,
       StartLabels
  <2> QED BY <2>1, <2>2 DEF Start
<1>2. op[c] = "start" /\ Busy(c)
  BY <1>0, <1>1 DEF Control, ControlOK, Allowed, StartLabels, Busy
<1>3. record # None /\ volume
  BY <1>0, <1>1, <1>2 DEF Judged, VolumeKnown, StartLabels
<1>q. ASSUME pc[c] \notin Launching PROVE Recorded /\ Settled
  BY <1>2, <1>q, Quiescent
<1>s. ASSUME UNCHANGED host PROVE Calm
  BY <1>s, StillIsCalm DEF host, rows, disk
<1>m. ASSUME NEW f, NEW l, Step(c, f, l)
      PROVE  /\ pc[c] = f /\ pc'[c] = l /\ op'[c] = "start" /\ seen' = seen /\ spawned' = spawned
             /\ \A d \in Clients \ {c} : Stays(d)
  BY <1>0, <1>2, <1>m DEF Step, At, Goto, Stays, TypeOK, locals
<1>p. ASSUME NEW row, NEW ok \in BOOLEAN, PersistRuntime(row, ok) PROVE ok /\ runtime' = row
  BY <1>3, <1>p, TrueAnswers DEF PersistRuntime
<1>f. ASSUME NEW l \in {"ok", "fail"} PROVE Judged(l, op[c], r, s)
  BY <1>3, <1>f, OutsideKnowsNothing DEF VolumeKnown
<1>g. ASSUME NEW l \in StartLabels \cup {"ok", "fail"}, pc'[c] = l, op'[c] = "start",
             record' = record, volume' = volume, LaunchKnown(pc[c], spawned[c])', SocketKnown(pc[c])',
             l \in {"adopt", "adoptrow"} => seen'[c].row = runtime',
             l = "undo" => OnlyRunning', l \in Cleared => Nobody'
      PROVE  JudgedOK(c)'
  BY <1>3, <1>g DEF JudgedOK, Judged, RowKnown, LaunchKnown, SocketKnown, ExitKnown, VolumeKnown,
     Judging, StartLabels, StopLabels
<1>4. CASE Adopt(c)
  <2>1. PICK l \in {"adoptrow", "ok", "fail"} : Step(c, "adopt", l)
    BY <1>4 DEF Adopt, OrFail
  <2>2. pc[c] = "adopt"
    BY <1>m, <2>1
  <2>3. socket.entry /\ r = runtime
    BY <1>0, <2>2 DEF Judged, SocketKnown, RowKnown, Judging
  <2>4. Judged("adoptrow", op[c], r, s)
    BY <1>2, <1>3, <2>3 DEF Judged, RowKnown, LaunchKnown, SocketKnown, ExitKnown, VolumeKnown,
       Judging, StopLabels, Launching, Cleared
  <2>5. Judged(l, op[c], r, s)
    BY <1>f, <2>4
  <2> QED BY <1>4, <1>s, <1>q, <2>1, <2>2, <2>5, CalmMove DEF Adopt, Launching
<1>5. CASE AdoptRow(c)
  <2>1. PICK ok \in BOOLEAN, l \in {"ok", "fail"} :
          PersistRuntime([r EXCEPT !.state = "running"], ok) /\ Step(c, "adoptrow", l)
    BY <1>5 DEF AdoptRow, OrFail
  <2>2. pc[c] = "adoptrow" /\ pc'[c] = l /\ op'[c] = "start" /\ \A d \in Clients \ {c} : Stays(d)
    BY <1>m, <2>1
  <2>3. socket.entry /\ r = runtime /\ Recorded
    BY <1>0, <1>q, <2>2 DEF Judged, SocketKnown, RowKnown, Judging, Launching
  <2>4. runtime'.pid = runtime.pid
    BY <1>0, <1>p, <2>1, <2>3 DEF HostTypeOK, Row
  <2>5. UNCHANGED <<record, volume, machines>>
    BY <1>5 DEF AdoptRow, disk
  <2>6. Recorded' /\ Settled'
    BY <2>3, <2>4, <2>5 DEF Recorded, Settled, MayWrite, machines
  <2>7. JudgedOK(c)'
    BY <1>g, <2>2, <2>5 DEF LaunchKnown, SocketKnown, Launching, Cleared
  <2> QED BY <1>2, <2>2, <2>6, <2>7, BusyStep
<1>6. CASE Prepare(c) \/ Ensure(c)
  <2>1. pc[c] \in {"prepare", "ensure"} /\ pc'[c] \in {"ensure", "launch", "fail"} /\ op' = op
        /\ spawned' = spawned /\ \A d \in Clients \ {c} : Stays(d)
    BY <1>0, <1>6 DEF Prepare, Ensure, Step, At, Goto, Stays, OrFail, TypeOK, locals
  <2>2. Nobody
    BY <1>0, <2>1 DEF Judged, ExitKnown, Cleared
  <2>3. Calm
    <3>1. CASE Prepare(c)
      BY <1>s, <3>1 DEF Prepare
    <3>2. CASE Ensure(c)
      BY <3>2, StillIsCalm DEF Ensure, rows
    <3> QED BY <1>6, <3>1, <3>2
  <2>4. Judged(pc'[c], op'[c], seen'[c].row, spawned'[c])
    BY <1>2, <1>3, <2>1, <2>2 DEF Judged, RowKnown, LaunchKnown, SocketKnown, ExitKnown, VolumeKnown,
       Judging, StopLabels, Launching, Cleared
  <2> QED BY <1>2, <1>q, <2>1, <2>3, <2>4, CalmStep DEF Launching
<1>7. CASE Launch(c)
  <2>1. PICK p \in Pids, ok \in BOOLEAN :
          /\ LaunchDetached(p, ok)
          /\ spawned' = [spawned EXCEPT ![c] = IF ok THEN p ELSE None]
          /\ Goto(c, IF ok THEN "starting" ELSE "unlaunch")
    BY <1>7 DEF Launch
  <2>2. /\ pc[c] = "launch" /\ op' = op /\ seen' = seen
        /\ pc'[c] = IF ok THEN "starting" ELSE "unlaunch"
        /\ ok => spawned'[c] = p
        /\ \A d \in Clients \ {c} : Stays(d)
    BY <1>0, <1>7, <2>1 DEF Launch, At, Goto, Stays, TypeOK
  <2>3. Nobody
    BY <1>0, <2>2 DEF Judged, ExitKnown, Cleared
  <2>4. record' = record /\ volume' = volume
    BY <1>3, <1>7, <2>1 DEF Launch, LaunchDetached, rows, HostTypeOK
  <2>5. CASE ok
    <3>1. launcher' = launcher \cup {p} /\ vmm' = [vmm EXCEPT ![p] = "boot"]
      BY <2>1, <2>5 DEF LaunchDetached
    <3>2. \A q \in Pids : MayWrite(q)' => q = p
      BY <1>0, <2>3, <2>4, <3>1 DEF Nobody, MayWrite, HostTypeOK
    <3>3. LaunchKnown(pc[c], spawned[c])'
      BY <2>2, <2>5, <3>2 DEF LaunchKnown
    <3>4. JudgedOK(c)'
      BY <1>2, <1>g, <2>2, <2>4, <2>5, <3>3 DEF StartLabels, SocketKnown, Cleared
    <3> QED BY <1>2, <2>2, <2>5, <3>4, BusyStep DEF Launching
  <2>6. CASE ~ok
    <3>1. UNCHANGED <<launcher, vmm>>
      BY <2>1, <2>6 DEF LaunchDetached
    <3>2. Nobody'
      BY <2>3, <2>4, <3>1 DEF Nobody, MayWrite
    <3>3. JudgedOK(c)'
      BY <1>2, <1>g, <2>2, <2>4, <2>6, <3>2 DEF StartLabels, SocketKnown, LaunchKnown, Launching
    <3>4. Recorded' /\ Settled'
      BY <3>2 DEF Nobody, Recorded, Settled
    <3> QED BY <1>2, <2>2, <3>3, <3>4, BusyStep
  <2> QED BY <2>5, <2>6
<1>8. CASE PersistStarting(c)
  <2>1. PICK ok \in BOOLEAN, l \in {"await", "kill"} :
          PersistRuntime(StartingRow(c), ok) /\ Step(c, "starting", l)
    BY <1>8 DEF PersistStarting
  <2>2. pc[c] = "starting" /\ pc'[c] = l /\ op'[c] = "start" /\ spawned' = spawned
        /\ \A d \in Clients \ {c} : Stays(d)
    BY <1>m, <2>1
  <2>3. UNCHANGED <<record, volume, machines>>
    BY <1>8 DEF PersistStarting, disk
  <2>4. runtime'.pid = s /\ runtime'.state = "starting"
    BY <1>p, <2>1 DEF StartingRow
  <2>5. s \in Pids /\ \A p \in Pids : MayWrite(p)' => p = s
    BY <1>0, <2>2, <2>3 DEF Judged, LaunchKnown, Launching, MayWrite, machines
  <2>6. LaunchKnown(pc[c], spawned[c])'
    BY <2>2, <2>4, <2>5 DEF LaunchKnown
  <2>7. JudgedOK(c)'
    BY <1>g, <2>2, <2>3, <2>6 DEF StartLabels, SocketKnown, Cleared
  <2> QED BY <1>2, <2>2, <2>7, BusyStep DEF Launching
<1>9. CASE AwaitSocket(c)
  <2>1. PICK l \in {"commit", "kill"} : Step(c, "await", l) /\ (l = "commit" => Answers)
    BY <1>9, TrueAnswers DEF AwaitSocket
  <2>2. pc[c] = "await"
    BY <1>m, <2>1
  <2>3. l = "commit" => socket.entry
    BY <1>0, <2>1 DEF Answers, Served
  <2>4. Judged(l, op[c], r, s)
    BY <1>0, <1>2, <1>3, <2>2, <2>3 DEF Judged, RowKnown, LaunchKnown, SocketKnown, ExitKnown, VolumeKnown,
       Judging, StopLabels, Launching, Cleared
  <2> QED BY <1>9, <1>s, <2>1, <2>4, CalmMove DEF AwaitSocket, Launching
<1>10. CASE PersistRunning(c)
  <2>1. PICK ok \in BOOLEAN, l \in {"confirm", "fail"} :
          PersistRuntime(RunningRow(c), ok) /\ Step(c, "commit", l)
    BY <1>10 DEF PersistRunning, OrFail
  <2>2. pc[c] = "commit" /\ pc'[c] = l /\ op'[c] = "start" /\ spawned' = spawned
        /\ \A d \in Clients \ {c} : Stays(d)
    BY <1>m, <2>1
  <2>3. UNCHANGED <<record, volume, machines>>
    BY <1>10 DEF PersistRunning, disk
  <2>4. runtime'.pid = s
    BY <1>p, <2>1 DEF RunningRow
  <2>5. socket.entry /\ \A p \in Pids : MayWrite(p) => p = s
    BY <1>0, <2>2 DEF Judged, LaunchKnown, SocketKnown, Launching
  <2>6. Recorded' /\ Settled'
    BY <2>3, <2>4, <2>5 DEF Recorded, Settled, MayWrite, machines
  <2>7. JudgedOK(c)'
    BY <1>g, <2>2, <2>3 DEF StartLabels, LaunchKnown, SocketKnown, Launching, Cleared
  <2> QED BY <1>2, <2>2, <2>6, <2>7, BusyStep
<1>11. CASE Confirm(c)
  <2>1. PICK l \in {"ok", "fail"} : Step(c, "confirm", l)
    BY <1>11 DEF Confirm, OrFail
  <2> QED BY <1>11, <1>f, <1>m, <1>q, <1>s, <2>1, CalmMove DEF Confirm, Launching
<1>12. CASE Kill(c)
  <2>1. PICK ok \in BOOLEAN : TerminateSpawned(s, ok)
    BY <1>12 DEF Kill
  <2>2. pc[c] = "kill" /\ pc'[c] = "killwait" /\ op' = op /\ spawned' = spawned
        /\ \A d \in Clients \ {c} : Stays(d)
    BY <1>0, <1>12 DEF Kill, At, Goto, Stays, TypeOK
  <2>3. launcher' \subseteq launcher /\ (s \notin launcher' \/ Fault("host"))
    BY <2>1 DEF TerminateSpawned
  <2>4. UNCHANGED <<record, runtime, volume, vmm>>
    BY <1>12 DEF Kill, rows, disk
  <2>5. \A p \in Pids : MayWrite(p)' => MayWrite(p)
    BY <2>3, <2>4 DEF MayWrite
  <2>6. LaunchKnown(pc[c], spawned[c])'
    BY <1>0, <2>2, <2>3, <2>4, <2>5 DEF Judged, LaunchKnown, Launching
  <2>7. JudgedOK(c)'
    BY <1>2, <1>g, <2>2, <2>4, <2>6 DEF StartLabels, SocketKnown, Cleared
  <2> QED BY <1>2, <2>2, <2>7, BusyStep DEF Launching
<1>13. CASE KillWait(c)
  <2>1. PICK l \in {"undo", "retain"} :
          Step(c, "killwait", l) /\ (l = "undo" => s \notin launcher)
    BY <1>13, TrueAnswers DEF KillWait
  <2>2. LaunchKnown("killwait", s)
    BY <1>0, <1>m, <2>1 DEF Judged
  <2>3. l = "undo" => OnlyRunning /\ Recorded /\ Settled
    BY <2>1, <2>2 DEF LaunchKnown, Launching, OnlyRunning, Recorded, Settled, MayWrite
  <2>4. Judged(l, op[c], r, s)
    BY <1>2, <1>3, <2>2, <2>3 DEF Judged, RowKnown, LaunchKnown, SocketKnown, ExitKnown, VolumeKnown,
       Judging, StopLabels, Launching, Cleared
  <2> QED BY <1>13, <1>s, <2>1, <2>3, <2>4, CalmMove DEF KillWait, Launching
<1>14. CASE Retain(c)
  <2>1. PICK ok \in BOOLEAN : PersistRuntime(StartingRow(c), ok) /\ Step(c, "retain", "fail")
    BY <1>14 DEF Retain
  <2>2. pc[c] = "retain" /\ pc'[c] = "fail" /\ op'[c] = "start" /\ \A d \in Clients \ {c} : Stays(d)
    BY <1>m, <2>1
  <2>3. UNCHANGED <<record, volume, machines>>
    BY <1>14 DEF Retain, disk
  <2>4. runtime'.pid = s /\ runtime'.state = "starting"
    BY <1>p, <2>1 DEF StartingRow
  <2>5. (s \notin launcher \/ Fault("host")) /\ \A p \in Pids : MayWrite(p) => p = s
    BY <1>0, <2>2 DEF Judged, LaunchKnown, Launching
  <2>6. Recorded' /\ Settled'
    BY <2>3, <2>4, <2>5 DEF Recorded, Settled, MayWrite, machines
  <2>7. JudgedOK(c)'
    BY <1>g, <2>2, <2>3 DEF LaunchKnown, SocketKnown, Launching, Cleared
  <2> QED BY <1>2, <2>2, <2>6, <2>7, BusyStep
<1>15. CASE Undo(c) \/ UnLaunch(c)
  <2>1. PICK f \in {"undo", "unlaunch"}, l \in {"undosocket", "undoreset", "fail"}, ok \in BOOLEAN :
          ReleaseMapping(ok) /\ Step(c, f, l) /\ (l # "fail" => ok)
    BY <1>15 DEF Undo, UnLaunch, OrFail
  <2>2. pc[c] = f
    BY <1>m, <2>1
  <2>3. OnlyRunning
    BY <1>0, <2>2 DEF Judged, ExitKnown, Cleared, Nobody, OnlyRunning
  <2>4. l # "fail" => Nobody
    BY <1>0, <2>1, <2>3, ReleasedIsUnused
  <2>5. Judged(l, op[c], r, s)
    BY <1>2, <1>3, <2>4 DEF Judged, RowKnown, LaunchKnown, SocketKnown, ExitKnown, VolumeKnown,
       Judging, StopLabels, Launching, Cleared
  <2>6. Calm
    BY <1>15, StillIsCalm DEF Undo, UnLaunch, rows
  <2> QED BY <1>q, <2>1, <2>2, <2>5, <2>6, CalmMove DEF Launching
<1>16. CASE UndoSocket(c) \/ UndoReset(c)
  <2>1. PICK f \in {"undosocket", "undoreset"}, l \in {"undoreset", "fail"} : Step(c, f, l)
    BY <1>16 DEF UndoSocket, UndoReset, OrFail
  <2>2. pc[c] = f /\ pc'[c] = l /\ op'[c] = "start" /\ \A d \in Clients \ {c} : Stays(d)
    BY <1>m, <2>1
  <2>3. UNCHANGED <<record, volume, launcher, vmm>>
    BY <1>16 DEF UndoSocket, UndoReset, rows, disk, machines
  <2>4. Nobody'
    BY <1>0, <2>2, <2>3 DEF Judged, ExitKnown, Cleared, Nobody, MayWrite
  <2>5. Recorded' /\ Settled'
    BY <2>4 DEF Nobody, Recorded, Settled
  <2>6. JudgedOK(c)'
    BY <1>g, <2>2, <2>3, <2>4 DEF StartLabels, LaunchKnown, SocketKnown, Launching
  <2> QED BY <1>2, <2>2, <2>5, <2>6, BusyStep
<1> QED BY <1>4, <1>5, <1>6, <1>7, <1>8, <1>9, <1>10, <1>11, <1>12, <1>13, <1>14, <1>15, <1>16 DEF Start

(* stop_microvm releases the disk only when the recorded process is gone.  *)
LEMMA StopKeepsMachine ==
    ASSUME Sheltered, MachineInv, Served', NEW c \in Clients, Stop(c) PROVE MachineOK'
<1> DEFINE r == seen[c].row
<1> DEFINE s == spawned[c]
<1> DEFINE next == StopLabels \cup {"checkpid", "release", "fail"}
<1>0. TypeOK /\ HostTypeOK /\ Control /\ Judged(pc[c], op[c], r, s)
  BY DEF MachineInv, Inv, Control, TypeOK, MachineOK, JudgedOK
<1>1. PICK f \in StopLabels, l \in next :
        /\ Step(c, f, l)
        /\ l \in {"release", "lastprobe"} => r.pid \notin launcher
  <2>1. CASE Request(c) \/ ReProbe(c) \/ SigKill(c)
    BY <2>1 DEF Request, ReProbe, SigKill, OrFail, StopLabels
  <2>2. CASE StopWait(c) \/ Escalate(c) \/ ForceWait(c)
    BY <2>2, TrueAnswers DEF StopWait, Escalate, ForceWait, OrFail, StopLabels
  <2>3. CASE LastProbe(c)
    <3>1. pc[c] = "lastprobe"
      BY <2>3 DEF LastProbe, Step, At
    <3>2. r.pid \notin launcher
      BY <1>0, <3>1 DEF Judged, ExitKnown
    <3> QED BY <2>3, <3>2 DEF LastProbe, OrFail, StopLabels
  <2> QED BY <2>1, <2>2, <2>3 DEF Stop
<1>2. op[c] = "stop" /\ pc[c] = f /\ Busy(c) /\ pc[c] \notin Launching
  BY <1>0, <1>1 DEF Step, At, Control, ControlOK, Allowed, StopLabels, Busy, Launching
<1>3. Recorded /\ Settled
  BY <1>2, Quiescent
<1>4. r = runtime
  BY <1>0, <1>2 DEF Judged, RowKnown, Judging
<1>5. l = "release" => OnlyRunning
  BY <1>1, <1>3, <1>4, LauncherGone
<1>6. Judged(l, op[c], r, s)
  BY <1>1, <1>2, <1>4, <1>5 DEF Judged, RowKnown, LaunchKnown, SocketKnown, ExitKnown, VolumeKnown,
     Judging, StopLabels, Launching, Cleared
<1>7. Calm
  <2>1. CASE SigKill(c)
    <3>1. launcher' \subseteq launcher /\ UNCHANGED <<record, runtime, volume, vmm, socket>>
      BY <2>1 DEF SigKill, TerminateSpawned, rows, disk
    <3> QED BY <3>1 DEF Calm, MayWrite
  <2>2. CASE ~SigKill(c)
    <3>1. UNCHANGED host
      BY <2>2 DEF Stop, Request, ReProbe, StopWait, Escalate, LastProbe, ForceWait
    <3> QED BY <3>1, StillIsCalm DEF host, rows, disk
  <2> QED BY <2>1, <2>2
<1> QED BY <1>1, <1>2, <1>3, <1>6, <1>7, CalmMove DEF StopLabels

(* update_microvm touches neither machine nor row.                         *)
LEMMA UpdateKeepsMachine ==
    ASSUME Sheltered, MachineInv, Served', NEW c \in Clients, Update(c) PROVE MachineOK'
<1>0. TypeOK /\ Control
  BY DEF MachineInv, Inv, Control
<1>1. PICK f \in UpdateLabels, l \in UpdateLabels \cup {"release", "ok", "fail"} : Step(c, f, l)
  BY DEF Update, Inspect, Converge, Resize, UpdateRow, UnResize, OrFail, UpdateLabels
<1>2. op[c] = "update" /\ pc[c] = f /\ Busy(c) /\ pc[c] \notin Launching
  BY <1>0, <1>1 DEF Step, At, Control, ControlOK, Allowed, UpdateLabels, Busy, Launching
<1>3. Recorded /\ Settled
  BY <1>2, Quiescent
<1>4. Judged(l, op[c], seen[c].row, spawned[c])
  BY <1>1, <1>2 DEF Judged, RowKnown, LaunchKnown, SocketKnown, ExitKnown, VolumeKnown,
     Judging, StopLabels, UpdateLabels, Launching, Cleared
<1>5. want[c] # None
  BY <1>2, SizesAssumption DEF MachineInv, Inv, DiskOK, ClientOK, Knows, UpdateKnows, Busy
<1>6. UNCHANGED <<runtime, volume, machines>> /\ (record # None => record' # None)
  BY <1>5 DEF Update, Inspect, Converge, Resize, UpdateRow, UnResize, host, rows, disk
<1> QED BY <1>1, <1>2, <1>3, <1>4, <1>6, StillIsCalm, CalmMove DEF UpdateLabels

(* create_snapshot copies the disk in place only when it has made sure     *)
(* that no machine is left.                                                *)
LEMMA SnapshotKeepsMachine ==
    ASSUME Sheltered, MachineInv, Served', NEW c \in Clients, Snapshot(c) PROVE MachineOK'
<1>0. TypeOK /\ Control /\ Judged(pc[c], op[c], seen[c].row, spawned[c])
  BY DEF MachineInv, Inv, Control, MachineOK, JudgedOK
<1>1. UNCHANGED <<record, runtime, volume, machines>>
  BY DEF Snapshot, CheckLive, Capture, Copy, Origin, AllocateCow, Suspend, MapView, Resume, Nest,
     Stream, UnNest, Drop, Unmap, Publish, host, rows, disk
<1>2. pc[c] \in SnapshotLabels
  BY DEF Snapshot, CheckLive, Capture, Copy, Origin, AllocateCow, Suspend, MapView, Resume, Nest,
     Stream, UnNest, Drop, Unmap, Publish, Step, GotoDrop, At, SnapshotLabels
<1>3. op[c] = "snapshot" /\ Busy(c) /\ pc[c] \notin Launching
  BY <1>0, <1>2 DEF Control, ControlOK, Allowed, SnapshotLabels, Busy, Launching
<1>4. Recorded /\ Settled
  BY <1>3, Quiescent
<1>5. /\ UNCHANGED <<op, seen, spawned>>
      /\ \E l \in SnapshotLabels \cup {"none", "ok", "fail"} :
           Goto(c, l) /\ l \notin {"capture", "checklive"} /\ (l = "copy" => pc[c] = "capture")
  <2>1. CASE CheckLive(c) \/ Capture(c) \/ Copy(c) \/ Publish(c)
    BY <2>1 DEF CheckLive, Capture, Copy, Publish, Step, At, OrFail, locals, SnapshotLabels
  <2>2. CASE Origin(c) \/ Suspend(c) \/ AllocateCow(c)
    BY <2>2 DEF Origin, Suspend, AllocateCow, GotoDrop, Step, At, OrFail, locals, SnapshotLabels
  <2>3. CASE UnNest(c) \/ MapView(c) \/ Stream(c)
    BY <2>3 DEF UnNest, MapView, Stream, Step, At, OrFail, locals, SnapshotLabels
  <2>4. CASE Drop(c) \/ Unmap(c)
    <3>1. ret[c] \in {"none", "cow", "abort", "publish"}
      BY <1>0 DEF TypeOK
    <3>2. AfterDrop(c) \in {"none", "cow", "publish", "fail"}
      BY <3>1 DEF AfterDrop
    <3>3. PICK f \in {"drop", "unmap"}, l \in {"none", "cow", "publish", "fail", "unmap"} :
            Step(c, f, l)
      BY <2>4, <3>2 DEF Drop, Unmap
    <3> QED BY <3>3 DEF Step, locals, SnapshotLabels
  <2>5. CASE Resume(c) \/ Nest(c)
    <3>1. \/ \E f \in {"resume", "nest"}, l \in {"nest", "stream"} : Step(c, f, l)
          \/ \E f \in {"resume", "nest"} : GotoDrop(c, f, "abort")
      BY <2>5 DEF Resume, Nest
    <3>2. PICK l \in {"nest", "stream", "drop"} : Goto(c, l) /\ UNCHANGED <<op, seen, spawned>>
      BY <3>1 DEF Step, GotoDrop, locals
    <3> QED BY <3>2 DEF SnapshotLabels
  <2> QED BY <2>1, <2>2, <2>3, <2>4, <2>5 DEF Snapshot
<1>6. PICK l \in SnapshotLabels \cup {"none", "ok", "fail"} :
        Goto(c, l) /\ l \notin {"capture", "checklive"} /\ (l = "copy" => pc[c] = "capture")
  BY <1>5
<1>7. pc'[c] = l /\ \A d \in Clients \ {c} : Stays(d)
  BY <1>0, <1>5, <1>6 DEF Goto, Stays, TypeOK
<1>8. l = "copy" => Nobody
  BY <1>0, <1>6 DEF Judged, ExitKnown, Cleared
<1>9. Judged(l, op[c], seen[c].row, spawned[c])
  BY <1>3, <1>6, <1>8 DEF Judged, RowKnown, LaunchKnown, SocketKnown, ExitKnown, VolumeKnown,
     Judging, StopLabels, SnapshotLabels, Launching, Cleared
<1> QED BY <1>1, <1>3, <1>4, <1>5, <1>7, <1>9, StillIsCalm, CalmStep

(* delete_microvm takes the volume from under nothing that could still     *)
(* open the disk, and configure_network writes back the row that is there. *)
LEMMA NameLockedKeepMachine ==
    ASSUME Sheltered, MachineInv, Served', NEW c \in Clients, Delete(c) \/ ConfigureNetwork(c)
    PROVE  MachineOK'
<1> DEFINE r == seen[c].row
<1>0. TypeOK /\ HostTypeOK /\ Control /\ Judged(pc[c], op[c], r, spawned[c])
  BY DEF MachineInv, Inv, Control, TypeOK, MachineOK, JudgedOK
<1>1. PICK f \in {"volume", "rows", "verify", "stalerow"}, l \in {"rows", "stalerow", "ok", "fail"} :
        Step(c, f, l)
  BY DEF Delete, ConfigureNetwork, RemoveVolume, DeleteRows, VerifyStopped, PersistStaleRow, OrFail
<1>2. /\ pc[c] = f /\ Busy(c) /\ pc[c] \notin Launching
      /\ f \in {"volume", "rows"} => op[c] = "delete"
      /\ f \in {"verify", "stalerow"} => op[c] = "configure_network"
  BY <1>0, <1>1 DEF Step, At, Control, ControlOK, Allowed, Busy, Launching
<1>3. Recorded /\ Settled
  BY <1>2, Quiescent
<1>4. /\ pc'[c] = l /\ op' = op /\ seen' = seen /\ \A d \in Clients \ {c} : Stays(d)
  BY <1>0, <1>1 DEF Step, Goto, Stays, TypeOK, locals
<1>5. ASSUME Nobody' PROVE Recorded' /\ Settled'
  BY <1>5 DEF Nobody, Recorded, Settled
<1>6. CASE RemoveVolume(c)
  <2>1. pc[c] = "volume" /\ op[c] = "delete"
    BY <1>2, <1>6 DEF RemoveVolume, Step, At
  <2>2. ~Fault("host")
    BY <2>1 DEF MachineInv, OpsOK, Sheltered, FileLocked
  <2>3. volume' = FALSE /\ UNCHANGED <<launcher, vmm>> /\ pc'[c] = "rows"
    BY <1>0, <1>6, <2>2 DEF RemoveVolume, Step, Goto, TypeOK
  <2>4. Unbootable
    BY <1>0, <2>1 DEF Judged, ExitKnown
  <2>5. Nobody'
    BY <2>3, <2>4 DEF Unbootable, Nobody, MayWrite
  <2>6. JudgedOK(c)'
    BY <1>4, <2>1, <2>3, <2>5 DEF JudgedOK, Judged, RowKnown, LaunchKnown, SocketKnown, ExitKnown,
       VolumeKnown, Judging, StopLabels, Launching, Cleared
  <2> QED BY <1>2, <1>4, <1>5, <2>5, <2>6, BusyStep
<1>7. CASE DeleteRows(c)
  <2>1. pc[c] = "rows" /\ op[c] = "delete" /\ pc'[c] \in {"ok", "fail"}
    BY <1>0, <1>2, <1>7 DEF DeleteRows, Step, At, Goto, TypeOK
  <2>2. UNCHANGED <<volume, launcher, vmm>>
    BY <1>7 DEF DeleteRows, disk, machines
  <2>3. Nobody'
    BY <1>0, <2>1, <2>2 DEF Judged, ExitKnown, Cleared, Nobody, MayWrite
  <2>4. JudgedOK(c)'
    BY <1>4, <2>1 DEF JudgedOK, Judged, RowKnown, LaunchKnown, SocketKnown, ExitKnown,
       VolumeKnown, Judging, StopLabels, Launching, Cleared
  <2> QED BY <1>2, <1>4, <1>5, <2>3, <2>4, BusyStep
<1>8. CASE ConfigureNetwork(c)
  <2>1. pc[c] \in {"verify", "stalerow"} /\ pc'[c] \in {"stalerow", "ok", "fail"}
    BY <1>0, <1>8 DEF ConfigureNetwork, VerifyStopped, PersistStaleRow, Step, At, Goto, OrFail, TypeOK
  <2>2. r = runtime /\ op[c] = "configure_network"
    BY <1>0, <1>2, <2>1 DEF Judged, RowKnown, Judging
  <2>3. UNCHANGED <<record, runtime, volume, machines>>
    BY <1>8, <2>2 DEF ConfigureNetwork, VerifyStopped, PersistStaleRow, PersistRuntime, host, rows, disk
  <2>4. Judged(l, op[c], r, spawned[c])
    BY <1>4, <2>1, <2>2 DEF Judged, RowKnown, LaunchKnown, SocketKnown, ExitKnown,
       VolumeKnown, Judging, StopLabels, Launching, Cleared
  <2> QED BY <1>1, <1>3, <2>3, <2>4, StillIsCalm, CalmMove
<1> QED BY <1>6, <1>7, <1>8 DEF Delete

(* The machine moves on by itself, but no closer to the disk than every    *)
(* client allows for.                                                      *)
LEMMA MachineKeepsMachine ==
    ASSUME MachineInv, Served', Machine, UNCHANGED <<locks, pc, locals>> PROVE MachineOK'
<1>0. HostTypeOK
  BY DEF MachineInv, Inv, Control, TypeOK
<1>1. PICK p \in Pids : Bind(p) \/ OpenDisk(p) \/ VmmExit(p) \/ FirectlExit(p)
  BY DEF Machine
<1>2. Calm
  <2> USE <1>0 DEF Calm, MayWrite, rows, disk, HostTypeOK
  <2>1. CASE Bind(p) BY <2>1 DEF Bind
  <2>2. CASE OpenDisk(p) BY <2>2 DEF OpenDisk
  <2>3. CASE VmmExit(p) BY <2>3 DEF VmmExit
  <2>4. CASE FirectlExit(p) BY <2>4 DEF FirectlExit
  <2> QED BY <1>1, <2>1, <2>2, <2>3, <2>4
<1>3. UNCHANGED <<pc, op, seen, spawned>>
  BY DEF locals
<1>4. ASSUME NEW d \in Clients PROVE JudgedOK(d)'
  <2>1. Judged(pc[d], op[d], seen[d].row, spawned[d])
    BY DEF MachineInv, MachineOK, JudgedOK
  <2>2. ASSUME NEW x, NEW y, NEW z, NEW w, x = pc[d], y = op[d], z = seen[d].row, w = spawned[d]
        PROVE  JudgedOK(d)'
    <3>1. Judged(x, y, z, w)'
      BY <1>2, <2>1, <2>2, CalmKeeps
    <3> QED BY <1>3, <2>2, <3>1 DEF JudgedOK
  <2> QED BY <2>2
<1>5. Between'
  BY <1>2, <1>3, CalmRests DEF Between, MachineInv, MachineOK
<1> QED BY <1>4, <1>5 DEF MachineOK

(* A reboot leaves no machine and no client.                               *)
LEMMA RebootKeepsMachine ==
    ASSUME MachineInv, Served', Reboot PROVE MachineOK'
<1>1. ASSUME NEW d \in Clients PROVE JudgedOK(d)'
  <2>1. pc'[d] = "idle"
    BY DEF Reboot, Abandon
  <2> QED BY <2>1 DEF JudgedOK, Judged, RowKnown, LaunchKnown, SocketKnown, ExitKnown, VolumeKnown,
             Judging, StopLabels, Launching, Cleared
<1>2. Nobody'
  BY DEF Reboot, Nobody, MayWrite
<1> QED BY <1>1, <1>2 DEF MachineOK, Between, Recorded, Settled, Nobody

(* No step leaves the invariant.                                           *)
LEMMA MachineInvStep ==
    ASSUME Sheltered PROVE MachineInv /\ [Next]_vars => MachineInv'
<1> SUFFICES ASSUME MachineInv, [Next]_vars PROVE MachineInv'
  OBVIOUS
<1>1. Inv' /\ NameOK' /\ OpsOK'
  BY InvStep, OwnersStep DEF MachineInv, Inv
<1>2. ASSUME NEW c \in Clients, RemoveVolume(c) PROVE Unbootable
  <2>1. pc[c] = "volume" /\ op[c] = "delete"
    BY <1>2 DEF RemoveVolume, Step, At, MachineInv, Inv, Control, ControlOK, Allowed
  <2> QED BY <2>1 DEF MachineInv, MachineOK, JudgedOK, Judged, ExitKnown
<1>3. Served'
  BY <1>2, ServedStep DEF MachineInv, MachineOK, Inv, Control, TypeOK, Sheltered, Fault
<1>4. ASSUME NEW c \in Clients, Client(c) PROVE MachineOK'
  BY <1>3, <1>4, SharedKeepsMachine, StartKeepsMachine, StopKeepsMachine, UpdateKeepsMachine,
     SnapshotKeepsMachine, NameLockedKeepMachine DEF Client
<1>5. ASSUME UNCHANGED vars PROVE MachineOK'
  <2>1. UNCHANGED <<record, runtime, volume, launcher, vmm, socket, pc, op, seen, spawned>>
    BY <1>5 DEF vars, host, rows, disk, machines, locals
  <2>2. \A p \in Pids : MayWrite(p)' <=> MayWrite(p)
    BY <2>1 DEF MayWrite
  <2>3. Between'
    BY <2>1, <2>2 DEF MachineInv, MachineOK, Between, Recorded, Settled
  <2>4. ASSUME NEW d \in Clients PROVE JudgedOK(d)'
    BY <2>1, <2>2 DEF MachineInv, MachineOK, JudgedOK, Judged, RowKnown, LaunchKnown, SocketKnown,
       ExitKnown, VolumeKnown, OnlyRunning, Nobody, Unbootable, Judging
  <2> QED BY <1>3, <2>3, <2>4 DEF MachineOK
<1>6. ASSUME NEW q \in Processes PROVE ~Crash(q)
  BY DEF Crash, Sheltered, Fault
<1>7. ASSUME Machine, UNCHANGED <<locks, pc, locals>> PROVE MachineOK'
  BY <1>3, <1>7, MachineKeepsMachine
<1>8. ASSUME Reboot PROVE MachineOK'
  BY <1>3, <1>8, RebootKeepsMachine
<1>9. MachineOK'
  BY <1>4, <1>5, <1>6, <1>7, <1>8 DEF Next
<1> QED BY <1>1, <1>9 DEF MachineInv

(* A VM that has just been created has no machine.                         *)
LEMMA MachineInvInit == Init => MachineInv
<1> SUFFICES ASSUME Init PROVE MachineInv
  OBVIOUS
<1>1. \A p \in Pids : ~MayWrite(p)
  BY DEF Init, HostInit, MayWrite
<1>2. ASSUME NEW d \in Clients PROVE JudgedOK(d)
  BY DEF Init, JudgedOK, Judged, RowKnown, LaunchKnown, SocketKnown, ExitKnown, VolumeKnown,
     Judging, StopLabels, Launching, Cleared
<1>3. Between
  BY <1>1 DEF Between, Recorded, Settled
<1> QED BY <1>2, <1>3, InvInit, OwnersInit, ServedInit DEF MachineInv, MachineOK

-----------------------------------------------------------------------------
(* What follows from the invariant.                                        *)

(* While a snapshot reads the disk of a stopped VM in place, no machine    *)
(* has that disk open, or can come to open it: a machine whose firectl was *)
(* killed or could not be killed, and one that was still booting when the  *)
(* snapshot probed its socket, included.                                   *)
THEOREM StoppedCopiesAreQuiet ==
    ASSUME Sheltered PROVE Spec => []StoppedCopyHasNoWriter
<1>1. MachineInv => StoppedCopyHasNoWriter
  BY DEF MachineInv, MachineOK, JudgedOK, Judged, ExitKnown, Cleared, Nobody, MayWrite,
     StoppedCopyHasNoWriter, At, Running
<1> QED BY <1>1, MachineInvInit, MachineInvStep, PTL DEF Spec

(* Whenever no operation has the lock file, the machine on the disk is the *)
(* one whose process id the runtime row holds.                             *)
THEOREM MachinesAreRecorded ==
    ASSUME Sheltered PROVE Spec => []RunningMachineIsRecorded
<1>1. MachineInv => RunningMachineIsRecorded
  <2> SUFFICES ASSUME MachineInv, lifecycle = None, NEW p \in Running PROVE runtime.pid = p
    BY DEF RunningMachineIsRecorded
  <2>1. \A c \in Clients : pc[c] \notin Launching
    BY ClientsAssumption DEF MachineInv, Inv, Control, LockOK, ControlOK, Allowed, StartLabels,
       FileLocked, Launching
  <2> QED BY <2>1 DEF MachineInv, MachineOK, Between, Recorded, MayWrite, Running
<1> QED BY <1>1, MachineInvInit, MachineInvStep, PTL DEF Spec

(* delete_microvm, which takes the name lock only, never removes the       *)
(* volume of a machine that runs, if all callers share one process.        *)
THEOREM DeletesAreOffline ==
    ASSUME Sheltered PROVE Spec => DeleteRefusesRunning
<1>1. MachineInv /\ [Next]_vars => [volume /\ ~volume' => Running = {}]_vars
  <2> SUFFICES ASSUME MachineInv, [Next]_vars, volume, ~volume' PROVE Running = {}
    OBVIOUS
  <2>1. PICK c \in Clients : RemoveVolume(c)
    <3>1. ~UNCHANGED vars /\ ~Reboot /\ ~(\E q \in Processes : Crash(q)) /\ ~Machine
      BY DEF vars, host, disk, Reboot, Crash, Machine, Bind, OpenDisk, VmmExit, FirectlExit
    <3>2. PICK c \in Clients : Client(c)
      BY <3>1 DEF Next
    <3>3. ~Shared(c)
      BY DEF Shared, Invoke, TakeLifecycle, TakeName, Return, Load, Probe, CheckPid, Release,
         ClearSocket, ResetRuntime, HostNetwork, host, disk
    <3>4. ~Start(c)
      BY DEF Start, Adopt, AdoptRow, Prepare, Ensure, Launch, LaunchDetached, PersistStarting,
         AwaitSocket, PersistRunning, Confirm, Kill, KillWait, Retain, Undo, UndoSocket, UndoReset,
         UnLaunch, host, disk
    <3>5. ~Stop(c) /\ ~Snapshot(c)
      BY DEF Stop, Request, ReProbe, StopWait, Escalate, LastProbe, SigKill, ForceWait,
         Snapshot, CheckLive, Capture, Copy, Origin, AllocateCow, Suspend, MapView, Resume, Nest,
         Stream, UnNest, Drop, Unmap, Publish, host, disk
    <3>6. ~Update(c) /\ ~ConfigureNetwork(c) /\ ~DeleteRows(c)
      BY DEF Update, Inspect, Converge, Resize, UpdateRow, UnResize, DeleteRows, ConfigureNetwork,
         VerifyStopped, PersistStaleRow, host, disk
    <3> QED BY <3>2, <3>3, <3>4, <3>5, <3>6 DEF Client, Delete
  <2>2. pc[c] = "volume" /\ op[c] = "delete"
    BY <2>1 DEF RemoveVolume, Step, At, MachineInv, Inv, Control, ControlOK, Allowed
  <2>3. Unbootable
    BY <2>2 DEF MachineInv, MachineOK, JudgedOK, Judged, ExitKnown
  <2> QED BY <2>3 DEF Unbootable, MayWrite, Running
<1> QED BY <1>1, MachineInvInit, MachineInvStep, PTL DEF Spec, DeleteRefusesRunning

(* Beside everything Sheltered allows, deletes included, at most one       *)
(* machine writes the disk.                                                *)
THEOREM OneWriterAlsoWithDelete ==
    ASSUME Sheltered PROVE Spec => []SingleWriter
<1>1. MachineInv => SingleWriter
  BY ServedIsSingle DEF MachineInv, MachineOK
<1> QED BY <1>1, MachineInvInit, MachineInvStep, PTL DEF Spec

-----------------------------------------------------------------------------
(* Who may freeze the guest.                                               *)

(* The failures a snapshot can recover from by itself: its own process and *)
(* the host survive and the commands it runs on the host succeed, while    *)
(* probes, database writes and firectl may fail; and one of the two locks  *)
(* keeps every other operation away.                                       *)
Undisturbed ==
    /\ Faults \subseteq {"probe", "db", "launcher"}
    /\ Ops \subseteq FileLocked \/ OneProcess

(* Labels of a snapshot that has a view, and those of the two exchanges of *)
(* tables during which the origin is suspended.                            *)
Viewing == {"suspend", "map", "resume", "nest", "stream", "unnest", "drop", "unmap"}
Exchanging == {"map", "resume", "unmap"}

(* The view as a snapshot at label l has it, r being where a removal of it *)
(* returns to: a removal that makes way for a new view finds none.         *)
ViewKnown(l, r) ==
    /\ l \in {"cow"} => view = "none"
    /\ l \in {"suspend", "map"} => view = "cow"
    /\ l \in {"resume", "nest", "unmap"} => view = "mapped"
    /\ l = "stream" => view \in {"mapped", "nested"}
    /\ l = "unnest" => view = "nested"
    /\ l \in {"unnest", "unmap"} => r # "cow"
    /\ l = "drop" => view = IF r = "cow" THEN "none" ELSE "mapped"

(* From verifying the origin on, the mapping is there.                     *)
OriginKnown(l) == l \in Viewing \cup {"cow"} => mapper # None /\ rootfs # None

(* Only a start that is cleaning up has failed a step it goes on after.    *)
FailureKnown(l, o, f) == f => o = "start" /\ l # "idle"

ViewOK(c) ==
    ViewKnown(pc[c], ret[c]) /\ OriginKnown(pc[c]) /\ FailureKnown(pc[c], op[c], failed[c])

Watched ==
    /\ suspended => \E c \in Clients : pc[c] \in Exchanging
    /\ view # "none" => \E c \in Clients : pc[c] \in Viewing

FreezeOK == Watched /\ \A c \in Clients : ViewOK(c)
FreezeInv == Inv /\ NameOK /\ OpsOK /\ FreezeOK

(* Two clients are never behind the locks together.                        *)
LEMMA Alone ==
    ASSUME Undisturbed, FreezeInv, NEW c \in Clients, NEW d \in Clients, Busy(c), Busy(d)
    PROVE  c = d
<1>1. CASE Ops \subseteq FileLocked
  BY <1>1 DEF FreezeInv, Inv, Control, LockOK, OpsOK, Busy
<1>2. CASE OneProcess
  BY <1>2 DEF FreezeInv, NameOK, OneProcess
<1> QED BY <1>1, <1>2 DEF Undisturbed

(* A client behind the locks that is at no label of a view finds none, and *)
(* one that exchanges no tables finds the origin going.                    *)
LEMMA NothingFrozen ==
    ASSUME Undisturbed, FreezeInv, NEW c \in Clients, Busy(c)
    PROVE  /\ pc[c] \notin Viewing => view = "none"
           /\ pc[c] \notin Exchanging => suspended = FALSE
<1>1. \A d \in Clients : pc[d] \in Viewing \cup Exchanging => Busy(d)
  BY DEF Viewing, Exchanging, Busy
<1>2. suspended \in BOOLEAN
  BY DEF FreezeInv, Inv, Control, TypeOK, HostTypeOK
<1> QED BY <1>1, <1>2, Alone DEF FreezeInv, FreezeOK, Watched

(* A step of the one client behind the locks.                              *)
LEMMA AloneStep ==
    ASSUME Undisturbed, FreezeInv, NEW c \in Clients, Busy(c),
           \A d \in Clients \ {c} : pc'[d] = pc[d] /\ op'[d] = op[d] /\ failed'[d] = failed[d],
           ViewOK(c)', suspended' => pc'[c] \in Exchanging, view' # "none" => pc'[c] \in Viewing
    PROVE  FreezeOK'
<1>1. ASSUME NEW d \in Clients, d # c PROVE ViewOK(d)'
  <2>1. pc[d] \in {"idle", "lifecycle", "name"}
    BY <1>1, Alone DEF Busy
  <2>2. pc'[d] \in {"idle", "lifecycle", "name"}
    BY <1>1, <2>1
  <2>3. FailureKnown(pc[d], op[d], failed[d])'
    BY <1>1 DEF FreezeInv, FreezeOK, ViewOK, FailureKnown
  <2> QED BY <2>2, <2>3 DEF ViewOK, ViewKnown, OriginKnown, Viewing
<1> QED BY <1>1 DEF FreezeOK, Watched

(* What a step of any other operation, or one of a snapshot before and     *)
(* after its view, does to the view and the origin: nothing, unless it     *)
(* resumes it.                                                             *)
Beside(c) ==
    /\ pc[c] \notin Viewing
    /\ \E l \in Labels \ (Viewing \cup {"cow", "idle"}) : Goto(c, l)
    /\ UNCHANGED <<view, op, ret>>
    /\ suspended' \in {suspended, FALSE}
    /\ \/ UNCHANGED failed
       \/ op[c] = "start" /\ \E b \in BOOLEAN : failed' = [failed EXCEPT ![c] = b]

(* Such a step freezes nothing.                                            *)
LEMMA BesideStep ==
    ASSUME Undisturbed, FreezeInv, NEW c \in Clients, Busy(c), Beside(c) PROVE FreezeOK'
<1>0. TypeOK
  BY DEF FreezeInv, Inv, Control
<1>1. PICK l \in Labels \ (Viewing \cup {"cow", "idle"}) : Goto(c, l)
  BY DEF Beside
<1>2. view = "none" /\ suspended = FALSE
  BY NothingFrozen DEF Beside, Viewing, Exchanging
<1>3. pc'[c] = l /\ \A d \in Clients \ {c} : pc'[d] = pc[d] /\ op'[d] = op[d] /\ failed'[d] = failed[d]
  BY <1>0, <1>1 DEF Goto, Beside, TypeOK
<1>4. view' = "none" /\ suspended' = FALSE
  BY <1>2 DEF Beside
<1>5. failed'[c] => op'[c] = "start"
  BY <1>0 DEF Beside, FreezeInv, FreezeOK, ViewOK, FailureKnown, TypeOK
<1>6. ViewOK(c)'
  BY <1>3, <1>5 DEF ViewOK, ViewKnown, OriginKnown, FailureKnown, Viewing
<1> QED BY <1>3, <1>4, <1>6, AloneStep

(* Every step of the other operations is of that kind.                     *)
LEMMA OthersStepBeside ==
    ASSUME FreezeInv, Undisturbed, NEW c \in Clients,
           ~Invoke(c), ~TakeLifecycle(c), ~TakeName(c), ~Return(c),
           \/ Shared(c) \/ Start(c) \/ Stop(c) \/ Update(c) \/ Delete(c) \/ ConfigureNetwork(c)
    PROVE  Beside(c)
<1>0. Control /\ TypeOK
  BY DEF FreezeInv, Inv, Control
<1> USE DEF Viewing, Labels
<1>1. ASSUME NEW f \in Labels \ Viewing, NEW l \in Labels \ (Viewing \cup {"cow", "idle"}),
             Step(c, f, l), UNCHANGED view, suspended' \in {suspended, FALSE}
      PROVE  Beside(c)
  BY <1>1 DEF Beside, Step, At, locals
<1>r. ASSUME NEW ok \in BOOLEAN, ReleaseMapping(ok) PROVE suspended' \in {suspended, FALSE}
  BY <1>r DEF ReleaseMapping
<1>e. ASSUME NEW ok \in BOOLEAN, EnsureMapping(ok) PROVE suspended' \in {suspended, FALSE}
  BY <1>e DEF EnsureMapping
<1>2. CASE Shared(c)
  <2>1. CASE Load(c)
    <3>1. PICK l \in {"network", "probe", "fail"} : Goto(c, l)
      BY <2>1 DEF Load
    <3> QED BY <2>1, <3>1 DEF Load, Beside, At, host, disk
  <2>2. CASE Probe(c)
    <3>1. op[c] \in {"start", "stop", "update", "snapshot", "delete"}
      BY <1>0, <2>2 DEF Probe, Step, At, Control, ControlOK, Allowed, Operations
    <3>2. OnAnswer[op[c]] \in {"adopt", "request", "fail", "checklive"}
      BY <3>1 DEF OnAnswer
    <3>3. OnSilence[op[c]] \in {"checkpid", "network"}
      BY <3>1 DEF OnSilence
    <3>4. PICK l \in {"adopt", "request", "fail", "checklive", "checkpid", "network"} :
            Step(c, "probe", l)
      BY <2>2, <3>2, <3>3 DEF Probe
    <3> QED BY <1>1, <2>2, <3>4 DEF Probe, host, disk
  <2>3. CASE CheckPid(c)
    <3>1. op[c] \in {"start", "stop", "update", "snapshot"}
      BY <1>0, <2>3 DEF CheckPid, Step, At, Control, ControlOK, Allowed, FileLocked
    <3>2. AfterExit[op[c]] \in {"release", "inspect", "capture"}
      BY <3>1 DEF AfterExit
    <3>3. PICK l \in {"release", "inspect", "capture", "fail"} : Step(c, "checkpid", l)
      BY <2>3, <3>2 DEF CheckPid, OrFail
    <3> QED BY <1>1, <2>3, <3>3 DEF CheckPid, host, disk
  <2>4. CASE Release(c)
    <3>1. PICK ok \in BOOLEAN, l \in {"resize", "socket", "fail"} :
            ReleaseMapping(ok) /\ Step(c, "release", l)
      BY <2>4 DEF Release, OrFail
    <3> QED BY <1>1, <1>r, <2>4, <3>1 DEF Release
  <2>5. CASE ClearSocket(c) \/ ResetRuntime(c) \/ HostNetwork(c)
    <3>1. PICK f \in {"socket", "reset", "network"},
               l \in {"reset", "prepare", "ok", "volume", "verify", "fail"} : Step(c, f, l)
      BY <2>5 DEF ClearSocket, ResetRuntime, HostNetwork, OrFail
    <3>2. UNCHANGED <<view, suspended>>
      BY <2>5 DEF ClearSocket, ResetRuntime, HostNetwork, host, disk
    <3> QED BY <1>1, <3>1, <3>2
  <2> QED BY <1>2, <2>1, <2>2, <2>3, <2>4, <2>5 DEF Shared
<1>3. CASE Start(c)
  <2>1. CASE Adopt(c) \/ AdoptRow(c) \/ Prepare(c)
    <3>1. PICK l \in {"adoptrow", "ok", "ensure", "fail"} : Goto(c, l)
      BY <2>1 DEF Adopt, AdoptRow, Prepare, OrFail, Step
    <3>2. UNCHANGED <<view, suspended, op, ret, failed>> /\ pc[c] \in {"adopt", "adoptrow", "prepare"}
      BY <2>1 DEF Adopt, AdoptRow, Prepare, Step, At, locals, host, disk
    <3> QED BY <3>1, <3>2 DEF Beside
  <2>2. CASE Ensure(c)
    <3>1. PICK ok \in BOOLEAN, l \in {"launch", "fail"} : EnsureMapping(ok) /\ Step(c, "ensure", l)
      BY <2>2 DEF Ensure, OrFail
    <3> QED BY <1>1, <1>e, <2>2, <3>1 DEF Ensure
  <2>3. CASE Launch(c)
    <3>1. PICK l \in {"starting", "unlaunch"} : Goto(c, l)
      BY <2>3 DEF Launch
    <3> QED BY <2>3, <3>1 DEF Launch, Beside, At
  <2>4. CASE PersistStarting(c) \/ AwaitSocket(c) \/ PersistRunning(c) \/ Confirm(c) \/ KillWait(c)
    <3>1. PICK f \in {"starting", "await", "commit", "confirm", "killwait"},
               l \in {"await", "kill", "commit", "confirm", "ok", "undo", "retain", "fail"} : Step(c, f, l)
      BY <2>4 DEF PersistStarting, AwaitSocket, PersistRunning, Confirm, KillWait, OrFail
    <3>2. UNCHANGED <<view, suspended>>
      BY <2>4 DEF PersistStarting, AwaitSocket, PersistRunning, Confirm, KillWait, host, disk
    <3> QED BY <1>1, <3>1, <3>2
  <2>5. CASE Kill(c)
    <3>1. PICK b \in BOOLEAN : failed' = [failed EXCEPT ![c] = b]
      BY <2>5 DEF Kill
    <3>2. op[c] = "start"
      BY <1>0, <2>5 DEF Kill, At, Control, ControlOK, Allowed, StartLabels
    <3> QED BY <2>5, <3>1, <3>2 DEF Kill, Beside, At, disk
  <2>6. CASE Undo(c) \/ UnLaunch(c)
    <3>1. PICK ok \in BOOLEAN, f \in {"undo", "unlaunch"}, l \in {"undosocket", "undoreset", "fail"} :
            ReleaseMapping(ok) /\ Step(c, f, l)
      BY <2>6 DEF Undo, UnLaunch, OrFail
    <3>2. UNCHANGED view
      BY <2>6 DEF Undo, UnLaunch
    <3> QED BY <1>1, <1>r, <3>1, <3>2
  <2>7. CASE Retain(c) \/ UndoSocket(c) \/ UndoReset(c)
    <3>1. PICK f \in {"retain", "undosocket", "undoreset"}, l \in {"undoreset", "fail"} : Step(c, f, l)
      BY <2>7 DEF Retain, UndoSocket, UndoReset, OrFail
    <3>2. UNCHANGED <<view, suspended>>
      BY <2>7 DEF Retain, UndoSocket, UndoReset, disk
    <3> QED BY <1>1, <3>1, <3>2
  <2> QED BY <1>3, <2>1, <2>2, <2>3, <2>4, <2>5, <2>6, <2>7 DEF Start
<1>4. CASE Stop(c)
  <2>1. PICK f \in StopLabels, l \in StopLabels \cup {"checkpid", "release", "fail"} : Step(c, f, l)
    BY <1>4 DEF Stop, Request, ReProbe, StopWait, Escalate, LastProbe, SigKill, ForceWait, OrFail, StopLabels
  <2>2. UNCHANGED <<view, suspended>>
    BY <1>4 DEF Stop, Request, ReProbe, StopWait, Escalate, LastProbe, SigKill, ForceWait, host, disk
  <2> QED BY <1>1, <2>1, <2>2 DEF StopLabels
<1>5. CASE Update(c)
  <2>1. PICK f \in UpdateLabels, l \in UpdateLabels \cup {"release", "ok", "fail"} : Step(c, f, l)
    BY <1>5 DEF Update, Inspect, Converge, Resize, UpdateRow, UnResize, OrFail, UpdateLabels
  <2>2. UNCHANGED <<view, suspended>>
    BY <1>5 DEF Update, Inspect, Converge, Resize, UpdateRow, UnResize, host, disk
  <2> QED BY <1>1, <2>1, <2>2 DEF UpdateLabels
<1>6. CASE Delete(c) \/ ConfigureNetwork(c)
  <2>1. PICK f \in {"volume", "rows", "verify", "stalerow"}, l \in {"rows", "stalerow", "ok", "fail"} :
          Step(c, f, l)
    BY <1>6 DEF Delete, ConfigureNetwork, RemoveVolume, DeleteRows, VerifyStopped, PersistStaleRow, OrFail
  <2>2. UNCHANGED <<view, suspended>>
    BY <1>6 DEF Delete, ConfigureNetwork, RemoveVolume, DeleteRows, VerifyStopped, PersistStaleRow, host, disk
  <2> QED BY <1>1, <2>1, <2>2
<1> QED BY <1>2, <1>3, <1>4, <1>5, <1>6

(* A snapshot that is not disturbed leaves the origin going and no view    *)
(* behind, however its steps end.                                          *)
LEMMA SnapshotKeepsFreeze ==
    ASSUME Undisturbed, FreezeInv, NEW c \in Clients, Snapshot(c) PROVE FreezeOK'
<1>0. TypeOK /\ HostTypeOK /\ Control /\ MappingOK /\ ViewOK(c) /\ ~Fault("host")
  BY DEF FreezeInv, Inv, DiskOK, Control, TypeOK, FreezeOK, Undisturbed, Fault
<1>1. pc[c] \in SnapshotLabels
  BY DEF Snapshot, CheckLive, Capture, Copy, Origin, AllocateCow, Suspend, MapView, Resume, Nest,
     Stream, UnNest, Drop, Unmap, Publish, Step, GotoDrop, At, SnapshotLabels
<1>2. op[c] = "snapshot" /\ Busy(c) /\ ~failed[c]
  BY <1>0, <1>1 DEF Control, ControlOK, Allowed, SnapshotLabels, Busy, ViewOK, FailureKnown
<1>3. ASSUME NEW l, Goto(c, l), UNCHANGED <<op, failed>>,
             ViewKnown(l, ret[c])', l \in Viewing \cup {"cow"} => mapper' # None /\ rootfs' # None,
             suspended' => l \in Exchanging, view' # "none" => l \in Viewing
      PROVE  FreezeOK'
  <2>1. pc'[c] = l /\ \A d \in Clients \ {c} : pc'[d] = pc[d] /\ op'[d] = op[d] /\ failed'[d] = failed[d]
    BY <1>0, <1>3 DEF Goto, TypeOK
  <2>2. ViewOK(c)'
    BY <1>2, <1>3, <2>1 DEF ViewOK, OriginKnown, FailureKnown, ViewKnown
  <2> QED BY <1>2, <1>3, <2>1, <2>2, AloneStep
<1>4. CASE CheckLive(c) \/ Capture(c) \/ Copy(c) \/ Publish(c)
  <2>1. PICK l \in {"capturelive", "copy", "origin", "publish", "ok", "fail"} :
          Goto(c, l) /\ pc[c] \notin Viewing
    BY <1>4 DEF CheckLive, Capture, Copy, Publish, Step, At, OrFail, Viewing
  <2>2. UNCHANGED <<op, failed, view, suspended>>
    BY <1>4 DEF CheckLive, Capture, Copy, Publish, Step, locals, host, disk
  <2>3. view = "none" /\ suspended = FALSE
    BY <1>2, <2>1, NothingFrozen DEF Viewing, Exchanging
  <2> QED BY <1>3, <2>1, <2>2, <2>3 DEF ViewKnown, Viewing
<1>5. CASE Origin(c)
  <2>1. pc[c] = "origin" /\ UNCHANGED <<op, failed, mapper, rootfs, view>>
    BY <1>5 DEF Origin, Step, GotoDrop, At, locals
  <2>2. view = "none" /\ suspended = FALSE
    BY <1>2, <2>1, NothingFrozen DEF Viewing, Exchanging
  <2>3. CASE Step(c, "origin", "fail")
    BY <1>3, <1>5, <2>1, <2>2, <2>3 DEF Origin, Step, GotoDrop, ViewKnown, Viewing
  <2>4. CASE GotoDrop(c, "origin", "cow")
    <3>1. Goto(c, "drop") /\ ret'[c] = "cow"
      BY <1>0, <2>4 DEF GotoDrop, TypeOK
    <3>2. suspended' = FALSE
      BY <1>5, <2>2 DEF Origin
    <3>3. mapper # None /\ rootfs # None
      BY <1>0, <1>5, <2>4, <3>1 DEF Origin, OriginVerified, Step, Goto, TypeOK
    <3> QED BY <1>3, <2>1, <2>2, <3>1, <3>2, <3>3 DEF ViewKnown
  <2> QED BY <1>5, <2>3, <2>4 DEF Origin
<1>6. CASE AllocateCow(c)
  <2>1. view' = "cow" /\ Step(c, "cow", "suspend") /\ UNCHANGED <<mapper, rootfs, suspended>>
    BY <1>0, <1>6 DEF AllocateCow
  <2>2. suspended = FALSE
    BY <1>2, <2>1, NothingFrozen DEF Step, At, Exchanging
  <2>3. mapper # None /\ rootfs # None
    BY <1>0, <2>1 DEF Step, At, ViewOK, OriginKnown
  <2> QED BY <1>3, <2>1, <2>2, <2>3 DEF Step, locals, ViewKnown, Viewing
<1>7. CASE Suspend(c)
  <2>1. suspended' = TRUE /\ Step(c, "suspend", "map") /\ UNCHANGED <<mapper, rootfs, view>>
    BY <1>0, <1>7 DEF Suspend
  <2>2. mapper # None /\ rootfs # None /\ view = "cow"
    BY <1>0, <2>1 DEF Step, At, ViewOK, OriginKnown, ViewKnown, Viewing
  <2> QED BY <1>3, <2>1, <2>2 DEF Step, locals, ViewKnown, Viewing, Exchanging
<1>8. CASE MapView(c)
  <2>1. view' = "mapped" /\ pc[c] = "map" /\ Goto(c, "resume") /\ UNCHANGED <<op, failed, mapper, rootfs>>
    BY <1>0, <1>8 DEF MapView, At
  <2>2. mapper # None /\ rootfs # None
    BY <1>0, <2>1 DEF ViewOK, OriginKnown, Viewing
  <2> QED BY <1>3, <2>1, <2>2 DEF ViewKnown, Viewing, Exchanging
<1>9. CASE Resume(c)
  <2>1. suspended' = FALSE /\ Step(c, "resume", "nest") /\ UNCHANGED <<mapper, rootfs, view>>
    BY <1>0, <1>2, <1>9 DEF Resume
  <2>2. mapper # None /\ rootfs # None /\ view = "mapped"
    BY <1>0, <2>1 DEF Step, At, ViewOK, OriginKnown, ViewKnown, Viewing
  <2> QED BY <1>3, <2>1, <2>2 DEF Step, locals, ViewKnown, Viewing
<1>10. CASE Nest(c)
  <2>1. /\ view' \in {"mapped", "nested"} /\ Step(c, "nest", "stream")
        /\ UNCHANGED <<mapper, rootfs, suspended>>
    BY <1>0, <1>10 DEF Nest
  <2>2. suspended = FALSE
    BY <1>2, <2>1, NothingFrozen DEF Step, At, Exchanging
  <2>3. mapper # None /\ rootfs # None
    BY <1>0, <2>1 DEF Step, At, ViewOK, OriginKnown, Viewing
  <2> QED BY <1>3, <2>1, <2>2, <2>3 DEF Step, locals, ViewKnown, Viewing
<1>11. CASE Stream(c)
  <2>1. /\ pc[c] = "stream" /\ Goto(c, IF view = "nested" THEN "unnest" ELSE "drop")
        /\ UNCHANGED <<op, failed, mapper, rootfs, view, suspended>>
    BY <1>11 DEF Stream, At, host, disk
  <2>2. ret'[c] \in {"publish", "abort"}
    BY <1>0, <1>11 DEF Stream, TypeOK
  <2>3. suspended = FALSE /\ mapper # None /\ rootfs # None /\ view \in {"mapped", "nested"}
    BY <1>0, <1>2, <2>1, NothingFrozen DEF Exchanging, ViewOK, OriginKnown, ViewKnown, Viewing
  <2>4. CASE view = "nested"
    BY <1>3, <2>1, <2>2, <2>3, <2>4 DEF ViewKnown, Viewing
  <2>5. CASE view = "mapped"
    BY <1>3, <2>1, <2>2, <2>3, <2>5 DEF ViewKnown, Viewing
  <2> QED BY <2>3, <2>4, <2>5
<1>12. CASE UnNest(c)
  <2>1. view' = "mapped" /\ Step(c, "unnest", "drop") /\ UNCHANGED <<mapper, rootfs, suspended, ret>>
    BY <1>0, <1>12 DEF UnNest, Step, locals
  <2>2. suspended = FALSE /\ mapper # None /\ rootfs # None /\ ret[c] # "cow"
    BY <1>0, <1>2, <2>1, NothingFrozen DEF Step, At, Exchanging, ViewOK, OriginKnown, ViewKnown, Viewing
  <2> QED BY <1>3, <2>1, <2>2 DEF Step, locals, ViewKnown, Viewing
<1>13. CASE Drop(c)
  <2>1. pc[c] = "drop" /\ UNCHANGED <<op, failed, mapper, rootfs, ret>>
    BY <1>13 DEF Drop, Step, At, locals
  <2>2. mapper # None /\ rootfs # None /\ view = IF ret[c] = "cow" THEN "none" ELSE "mapped"
    BY <1>0, <2>1 DEF ViewOK, OriginKnown, ViewKnown, Viewing
  <2>3. VerifyMapping
    BY <1>0, <2>2 DEF VerifyMapping, MappingOK
  <2>4. CASE ret[c] = "cow"
    <3>1. suspended' = FALSE /\ view' = "none" /\ Goto(c, "cow")
      BY <1>0, <1>13, <2>2, <2>3, <2>4 DEF Drop, AfterDrop, Step
    <3> QED BY <1>3, <2>1, <2>2, <3>1 DEF ViewKnown, Viewing
  <2>5. CASE ret[c] # "cow"
    <3>1. view' = "mapped" /\ Goto(c, "unmap")
      BY <1>0, <1>13, <2>2, <2>3, <2>5 DEF Drop, Step
    <3> QED BY <1>3, <2>1, <2>2, <2>5, <3>1 DEF ViewKnown, Viewing, Exchanging
  <2> QED BY <2>4, <2>5
<1>14. CASE Unmap(c)
  <2>1. /\ pc[c] = "unmap" /\ UNCHANGED <<op, failed, mapper, rootfs, ret>>
        /\ view' = "none" /\ suspended' = FALSE /\ Goto(c, AfterDrop(c))
    BY <1>0, <1>14 DEF Unmap, Step, At, locals
  <2>2. ret[c] \in {"abort", "publish"}
    BY <1>0, <2>1 DEF ViewOK, ViewKnown, Control, ControlOK, Allowed, TypeOK
  <2>3. AfterDrop(c) \in {"publish", "fail"}
    BY <2>2 DEF AfterDrop
  <2>4. PICK l \in {"publish", "fail"} : Goto(c, l)
    BY <2>1, <2>3
  <2> QED BY <1>3, <2>1, <2>4 DEF ViewKnown, Viewing
<1> QED BY <1>4, <1>5, <1>6, <1>7, <1>8, <1>9, <1>10, <1>11, <1>12, <1>13, <1>14 DEF Snapshot

(* Entering, locking and returning.                                        *)
LEMMA EntryKeepsFreeze ==
    ASSUME FreezeInv, NEW c \in Clients,
           Invoke(c) \/ TakeLifecycle(c) \/ TakeName(c) \/ Return(c)
    PROVE  FreezeOK'
<1>0. TypeOK /\ FreezeOK
  BY DEF FreezeInv, Inv, Control
<1>1. PICK l \in {"idle", "lifecycle", "name", "load"} : Goto(c, l)
  BY DEF Invoke, TakeLifecycle, TakeName, Return
<1>2. pc[c] \in {"idle", "lifecycle", "name", "ok", "fail"}
  BY DEF Invoke, TakeLifecycle, TakeName, Return, At
<1>3. UNCHANGED <<view, suspended, mapper, rootfs>>
  BY DEF Invoke, TakeLifecycle, TakeName, Return, host, disk
<1>4. \A d \in Clients : pc'[d] = IF d = c THEN l ELSE pc[d]
  BY <1>0, <1>1 DEF Goto, TypeOK
<1>5. \A d \in Clients \ {c} : op'[d] = op[d] /\ failed'[d] = failed[d] /\ ret'[d] = ret[d]
  BY <1>0 DEF Invoke, TakeLifecycle, TakeName, Return, locals, TypeOK
<1>6. FailureKnown(pc[c], op[c], failed[c])'
  <2>1. CASE Return(c)
    BY <1>0, <2>1 DEF Return, FailureKnown, TypeOK
  <2>2. CASE Invoke(c)
    BY <1>0, <2>2 DEF Invoke, At, FreezeOK, ViewOK, FailureKnown
  <2>3. CASE TakeLifecycle(c) \/ TakeName(c)
    <3>1. pc'[c] # "idle" /\ UNCHANGED <<op, failed>>
      BY <1>0, <2>3 DEF TakeLifecycle, TakeName, Goto, TypeOK, locals
    <3> QED BY <1>0, <3>1 DEF FreezeOK, ViewOK, FailureKnown
  <2> QED BY <2>1, <2>2, <2>3
<1>7. ViewOK(c)'
  BY <1>4, <1>6 DEF ViewOK, ViewKnown, OriginKnown, Viewing
<1>8. ASSUME NEW d \in Clients, d # c PROVE ViewOK(d)'
  BY <1>0, <1>3, <1>4, <1>5, <1>8 DEF FreezeOK, ViewOK, ViewKnown, OriginKnown, FailureKnown, Viewing
<1>9. Watched'
  BY <1>0, <1>2, <1>3, <1>4 DEF FreezeOK, Watched, Viewing, Exchanging
<1> QED BY <1>7, <1>8, <1>9 DEF FreezeOK

(* No step leaves the invariant.                                           *)
LEMMA FreezeInvStep ==
    ASSUME Undisturbed PROVE FreezeInv /\ [Next]_vars => FreezeInv'
<1> SUFFICES ASSUME FreezeInv, [Next]_vars PROVE FreezeInv'
  OBVIOUS
<1>1. Inv' /\ NameOK' /\ OpsOK'
  BY InvStep, OwnersStep DEF FreezeInv, Inv
<1>2. ASSUME NEW c \in Clients, Client(c) PROVE FreezeOK'
  <2>1. CASE Invoke(c) \/ TakeLifecycle(c) \/ TakeName(c) \/ Return(c)
    BY <2>1, EntryKeepsFreeze
  <2>2. CASE ~(Invoke(c) \/ TakeLifecycle(c) \/ TakeName(c) \/ Return(c))
    <3>1. Busy(c)
      BY <1>2, <2>2, ClientWorks DEF Works
    <3>2. CASE Snapshot(c)
      BY <3>2, SnapshotKeepsFreeze
    <3>3. CASE ~Snapshot(c)
      BY <1>2, <2>2, <3>1, <3>3, OthersStepBeside, BesideStep DEF Client
    <3> QED BY <3>2, <3>3
  <2> QED BY <2>1, <2>2
<1>3. ASSUME UNCHANGED <<view, suspended, mapper, rootfs, pc, locals>> PROVE FreezeOK'
  BY <1>3 DEF FreezeInv, FreezeOK, Watched, ViewOK, ViewKnown, OriginKnown, FailureKnown, locals
<1>4. ASSUME Machine, UNCHANGED <<locks, pc, locals>> PROVE FreezeOK'
  BY <1>3, <1>4 DEF Machine, Bind, OpenDisk, VmmExit, FirectlExit, disk
<1>5. ASSUME UNCHANGED vars PROVE FreezeOK'
  BY <1>3, <1>5 DEF vars, host, disk
<1>6. ~Reboot /\ \A q \in Processes : ~Crash(q)
  BY DEF Reboot, Crash, Undisturbed, Fault
<1>7. FreezeOK'
  BY <1>2, <1>4, <1>5, <1>6 DEF Next
<1> QED BY <1>1, <1>7 DEF FreezeInv

(* Nothing is frozen on a VM that has just been created.                   *)
LEMMA FreezeInvInit == Init => FreezeInv
<1> SUFFICES ASSUME Init PROVE FreezeInv
  OBVIOUS
<1>1. FreezeOK
  BY DEF Init, HostInit, FreezeOK, Watched, ViewOK, ViewKnown, OriginKnown, FailureKnown, Viewing
<1> QED BY <1>1, InvInit, OwnersInit DEF FreezeInv

(* The guest's disk is suspended only while a snapshot exchanges the       *)
(* tables of its mapping, and no snapshot that returns, successful,        *)
(* cancelled or failed, leaves a view behind.                              *)
THEOREM GuestsAreThawed ==
    ASSUME Undisturbed PROVE Spec => []GuestIsNeverLeftFrozen
<1>1. FreezeInv => GuestIsNeverLeftFrozen
  <2> SUFFICES ASSUME FreezeInv PROVE GuestIsNeverLeftFrozen
    OBVIOUS
  <2>1. suspended => \E c \in Clients : pc[c] \in {"map", "resume", "unmap"}
    BY DEF FreezeInv, FreezeOK, Watched, Exchanging
  <2>2. ASSUME view # "none" PROVE lifecycle # None
    <3>1. PICK c \in Clients : pc[c] \in Viewing
      BY <2>2 DEF FreezeInv, FreezeOK, Watched
    <3>2. op[c] = "snapshot" /\ pc[c] \notin {"idle", "lifecycle"}
      BY <3>1 DEF FreezeInv, Inv, Control, ControlOK, Allowed, Viewing, SnapshotLabels
    <3> QED BY <3>2, ClientsAssumption DEF FreezeInv, Inv, Control, LockOK, FileLocked
  <2> QED BY <2>1, <2>2 DEF GuestIsNeverLeftFrozen
<1> QED BY <1>1, FreezeInvInit, FreezeInvStep, PTL DEF Spec
=============================================================================
