----------------------------- MODULE VmLifecycle -----------------------------
(***************************************************************************)
(* The operations of one MicroVM as concurrent clients run them: start,    *)
(* stop, update, snapshot, delete and configure_network of the SDK         *)
(* manager.  A client is one call in flight; clients of the same process   *)
(* share its in-process name lock, and all clients share the per-VM lock   *)
(* file.  Every label of pc is a point between two calls at which other    *)
(* clients, the machine, a crash or a reboot can intervene.                *)
(*                                                                         *)
(* A definition that nothing uses is a deliberately wrong variant of the   *)
(* one that follows it; the README lists which property it breaks.         *)
(***************************************************************************)
EXTENDS VmHost

CONSTANTS
    Clients,      \* concurrent SDK calls
    Processes,    \* SDK processes
    ProcessOf,    \* the process each client runs in
    Ops           \* operations the clients of this model invoke

Operations == {"start", "stop", "update", "snapshot", "delete", "configure_network"}

(* Operations that take the inter-process lock file before the name lock.  *)
FileLocked == {"start", "stop", "update", "snapshot"}

ASSUME ProcessesAssumption == ProcessOf \in [Clients -> Processes]
ASSUME ClientsAssumption == None \notin Clients
ASSUME OpsAssumption == Ops \subseteq Operations

VARIABLES
    lifecycle,   \* holder of the VM's lock file, or None
    nameLock,    \* holder of each process's name lock, or None
    pc,          \* where each client is
    op,          \* the operation it runs
    seen,        \* the record and runtime row it loaded
    want,        \* update: the requested disk size
    spawned,     \* start: the pid it launched
    failed,      \* has a step failed whose cleanup is still going on
    ret          \* snapshot: where removing the view returns to

locks == <<lifecycle, nameLock>>
locals == <<op, seen, want, spawned, failed, ret>>
vars == <<host, locks, pc, locals>>

Labels == {
    "idle", "lifecycle", "name", "load", "probe", "checkpid", "ok", "fail",
    "adopt", "adoptrow", "release", "socket", "reset", "prepare", "ensure",
    "launch", "starting", "await", "commit", "confirm",
    "kill", "killwait", "retain", "undo", "undosocket", "undoreset", "unlaunch",
    "request", "reprobe", "stopwait", "force", "lastprobe", "sigkill", "forcewait",
    "inspect", "converge", "resize", "row", "unresize",
    "checklive", "capture", "capturelive", "copy", "origin", "cow", "suspend", "map", "resume", "nest",
    "stream", "unnest", "drop", "unmap", "publish",
    "network", "volume", "rows", "verify", "stalerow"}

NothingSeen == [size |-> None, row |-> StoppedRow]
Seen == [size : MaybeSize, row : Row]

(* Every variable keeps its type: a client is always at a label of the     *)
(* control flow and the runtime row only holds the process states that the *)
(* schema of vm_runtime admits.                                            *)
TypeOK ==
    /\ HostTypeOK
    /\ lifecycle \in Clients \cup {None}
    /\ nameLock \in [Processes -> Clients \cup {None}]
    /\ pc \in [Clients -> Labels]
    /\ op \in [Clients -> Operations \cup {None}]
    /\ seen \in [Clients -> Seen]
    /\ want \in [Clients -> MaybeSize]
    /\ spawned \in [Clients -> MaybePid]
    /\ failed \in [Clients -> BOOLEAN]
    /\ ret \in [Clients -> {"none", "cow", "abort", "publish"}]

Init ==
    /\ HostInit
    /\ lifecycle = None
    /\ nameLock = [q \in Processes |-> None]
    /\ pc = [c \in Clients |-> "idle"]
    /\ op = [c \in Clients |-> None]
    /\ seen = [c \in Clients |-> NothingSeen]
    /\ want = [c \in Clients |-> None]
    /\ spawned = [c \in Clients |-> None]
    /\ failed = [c \in Clients |-> FALSE]
    /\ ret = [c \in Clients |-> "none"]

-----------------------------------------------------------------------------
(* Control flow shared by the operations.                                  *)

At(c, label) == pc[c] = label
Goto(c, label) == pc' = [pc EXCEPT ![c] = label]

(* One step of c that touches no lock and no local besides its pc.         *)
Step(c, from, to) ==
    At(c, from) /\ Goto(c, to) /\ UNCHANGED <<locks, locals>>

OrFail(ok, label) == IF ok THEN label ELSE "fail"

(* A call enters: the request is validated before any lock is taken.       *)
Invoke(c) ==
    /\ At(c, "idle")
    /\ \E o \in Ops :
         /\ op' = [op EXCEPT ![c] = o]
         /\ IF o = "update"
            THEN \E s \in Sizes : want' = [want EXCEPT ![c] = s]
            ELSE UNCHANGED want
         /\ Goto(c, IF o \in FileLocked THEN "lifecycle" ELSE "name")
    /\ UNCHANGED <<host, locks, seen, spawned, failed, ret>>

(* acquire_lifecycle_lock: polls try_lock until the file is free.          *)
TakeLifecycle(c) ==
    /\ At(c, "lifecycle") /\ lifecycle = None
    /\ lifecycle' = c
    /\ Goto(c, "name")
    /\ UNCHANGED <<host, nameLock, locals>>

TakeNameShared(c) ==
    /\ At(c, "name")
    /\ nameLock' = [nameLock EXCEPT ![ProcessOf[c]] = c]
    /\ Goto(c, "load")
    /\ UNCHANGED <<host, lifecycle, locals>>

(* target_lock(...).lock().await on vms/<name>.                            *)
TakeName(c) ==
    /\ At(c, "name") /\ nameLock[ProcessOf[c]] = None
    /\ nameLock' = [nameLock EXCEPT ![ProcessOf[c]] = c]
    /\ Goto(c, "load")
    /\ UNCHANGED <<host, lifecycle, locals>>

(* The guards go out of scope and the result is returned.                  *)
Return(c) ==
    /\ pc[c] \in {"ok", "fail"}
    /\ lifecycle' = IF lifecycle = c THEN None ELSE lifecycle
    /\ nameLock' = [nameLock EXCEPT ![ProcessOf[c]] = None]
    /\ Goto(c, "idle")
    /\ op' = [op EXCEPT ![c] = None]
    /\ seen' = [seen EXCEPT ![c] = NothingSeen]
    /\ want' = [want EXCEPT ![c] = None]
    /\ spawned' = [spawned EXCEPT ![c] = None]
    /\ failed' = [failed EXCEPT ![c] = FALSE]
    /\ ret' = [ret EXCEPT ![c] = "none"]
    /\ UNCHANGED host

FilesOfAnySizeAreValid(o) ==
    o \in {"start", "snapshot", "configure_network"} => volume /\ rootfs # None

(* The persisted files an operation checks right after loading the record: *)
(* a start or snapshot insists on the recorded size, configure_network on  *)
(* a file.                                                                 *)
FilesAreValid(o) ==
    /\ o \in {"start", "snapshot"} => volume /\ rootfs = record
    /\ o = "configure_network" => volume /\ rootfs # None

(* find_microvm and the read-only validation that follows it.              *)
Load(c) ==
    /\ At(c, "load")
    /\ \/ /\ record # None /\ FilesAreValid(op[c])
          /\ seen' = [seen EXCEPT ![c] = [size |-> record, row |-> runtime]]
          /\ Goto(c, IF op[c] = "configure_network" THEN "network" ELSE "probe")
       \/ /\ record = None \/ ~FilesAreValid(op[c]) \/ Fault("host") \/ Fault("db")
          /\ Goto(c, "fail")
          /\ UNCHANGED seen
    /\ UNCHANGED <<host, locks, op, want, spawned, failed, ret>>

OnAnswerDeleteToo == [start |-> "adopt", stop |-> "request", update |-> "fail",
                      snapshot |-> "checklive", delete |-> "network"]

(* What each operation does when the control socket answers, when it is    *)
(* silent, and once the recorded process is known to be gone.              *)
OnAnswer == [start |-> "adopt", stop |-> "request", update |-> "fail",
             snapshot |-> "checklive", delete |-> "fail"]
OnSilence == [start |-> "checkpid", stop |-> "checkpid", update |-> "checkpid",
              snapshot |-> "checkpid", delete |-> "network"]
AfterExit == [start |-> "release", stop |-> "release", update |-> "inspect",
              snapshot |-> "capture"]

Probe(c) ==
    /\ \/ "yes" \in SocketAnswers /\ Step(c, "probe", OnAnswer[op[c]])
       \/ "no" \in SocketAnswers /\ Step(c, "probe", OnSilence[op[c]])
       \/ "error" \in SocketAnswers /\ Step(c, "probe", "fail")
    /\ UNCHANGED host

SkipCheckPid(c) ==
    /\ Step(c, "checkpid", AfterExit[op[c]])
    /\ UNCHANGED host

(* verify_recorded_process_exited.  A snapshot also refuses a row that     *)
(* still says "starting".                                                  *)
CheckPid(c) ==
    /\ \E a \in ReferencesVm(seen[c].row.pid) :
         Step(c, "checkpid",
              OrFail(/\ a = "no"
                     /\ op[c] = "snapshot" => seen[c].row.state # "starting",
                     AfterExit[op[c]]))
    /\ UNCHANGED host

ReleaseIgnoringErrors(c) ==
    /\ \E ok \in BOOLEAN :
         /\ ReleaseMapping(ok)
         /\ Step(c, "release", IF op[c] = "update" THEN "resize" ELSE "socket")
    /\ UNCHANGED <<rows, volume, rootfs, view, machines>>

(* release_mapping as start, stop and update call it.                      *)
Release(c) ==
    /\ \E ok \in BOOLEAN :
         /\ ReleaseMapping(ok)
         /\ Step(c, "release", OrFail(ok, IF op[c] = "update" THEN "resize" ELSE "socket"))
    /\ UNCHANGED <<rows, volume, rootfs, view, machines>>

(* remove_stale_socket as start and stop call it.                          *)
ClearSocket(c) ==
    /\ \E ok \in BOOLEAN :
         RemoveStaleSocket(ok) /\ Step(c, "socket", OrFail(ok, "reset"))
    /\ UNCHANGED <<rows, disk, launcher, vmm>>

(* reset_runtime_to_stopped as start and stop call it.                     *)
ResetRuntime(c) ==
    /\ \E ok \in BOOLEAN :
         /\ PersistRuntime(StoppedRow, ok)
         /\ Step(c, "reset", OrFail(ok, IF op[c] = "start" THEN "prepare" ELSE "ok"))
    /\ UNCHANGED <<record, disk, machines>>

-----------------------------------------------------------------------------
(* start_microvm                                                           *)

(* A live machine is adopted only under its recorded identity.             *)
Adopt(c) ==
    /\ \E a \in ReferencesVm(seen[c].row.pid) :
         LET row == seen[c].row
             adoptable == /\ row.pid # None
                          /\ row.state \in {"starting", "running"}
                          /\ a = "yes"
         IN  Step(c, "adopt",
                  OrFail(adoptable, IF row.state = "starting" THEN "adoptrow" ELSE "ok"))
    /\ UNCHANGED host

AdoptRow(c) ==
    /\ \E ok \in BOOLEAN :
         /\ PersistRuntime([seen[c].row EXCEPT !.state = "running"], ok)
         /\ Step(c, "adoptrow", OrFail(ok, "ok"))
    /\ UNCHANGED <<record, disk, machines>>

(* validate_host, reconcile_start_network (which reloads the record) and   *)
(* start_launch_request.                                                   *)
Prepare(c) ==
    /\ At(c, "prepare")
    /\ \/ /\ record # None
          /\ seen' = [seen EXCEPT ![c] = [size |-> record, row |-> runtime]]
          /\ Goto(c, "ensure")
       \/ /\ record = None \/ Fault("host") \/ Fault("db")
          /\ Goto(c, "fail")
          /\ UNCHANGED seen
    /\ UNCHANGED <<host, locks, op, want, spawned, failed, ret>>

Ensure(c) ==
    /\ \E ok \in BOOLEAN :
         EnsureMapping(ok) /\ Step(c, "ensure", OrFail(ok, "launch"))
    /\ UNCHANGED <<rows, volume, rootfs, view, machines>>

Launch(c) ==
    /\ At(c, "launch")
    /\ \E p \in Pids, ok \in BOOLEAN :
         /\ LaunchDetached(p, ok)
         /\ spawned' = [spawned EXCEPT ![c] = IF ok THEN p ELSE None]
         /\ Goto(c, IF ok THEN "starting" ELSE "unlaunch")
    /\ UNCHANGED <<rows, rootfs, loop, mapper, suspended, view, socket>>
    /\ UNCHANGED <<locks, op, seen, want, failed, ret>>

LaunchingRow(c) == [pid |-> spawned[c], state |-> "launching"]

StartingRow(c) == [pid |-> spawned[c], state |-> "starting"]
RunningRow(c) == [pid |-> spawned[c], state |-> "running"]

PersistStarting(c) ==
    /\ \E ok \in BOOLEAN :
         /\ PersistRuntime(StartingRow(c), ok)
         /\ Step(c, "starting", IF ok THEN "await" ELSE "kill")
    /\ UNCHANGED <<record, disk, machines>>

AwaitSocketForever(c) ==
    /\ \E a \in SocketAnswers : Step(c, "await", IF a = "yes" THEN "commit" ELSE "await")
    /\ UNCHANGED host

(* wait_for_socket until its deadline.                                     *)
AwaitSocket(c) ==
    /\ \E a \in SocketAnswers : Step(c, "await", IF a = "yes" THEN "commit" ELSE "kill")
    /\ UNCHANGED host

PersistRunning(c) ==
    /\ \E ok \in BOOLEAN :
         /\ PersistRuntime(RunningRow(c), ok)
         /\ Step(c, "commit", OrFail(ok, "confirm"))
    /\ UNCHANGED <<record, disk, machines>>

(* The record is read once more for the result.                            *)
Confirm(c) ==
    /\ \E ok \in BOOLEAN :
         /\ ok => record # None
         /\ ~ok => record = None \/ Fault("db")
         /\ Step(c, "confirm", OrFail(ok, "ok"))
    /\ UNCHANGED host

(* cleanup_failed_launch: kill, wait, and only a machine known to be gone  *)
(* gives up its mapping, its socket and its identity.                      *)
Kill(c) ==
    /\ At(c, "kill")
    /\ \E ok \in BOOLEAN :
         /\ TerminateSpawned(spawned[c], ok)
         /\ failed' = [failed EXCEPT ![c] = ~ok]
    /\ Goto(c, "killwait")
    /\ UNCHANGED <<rows, disk, vmm, socket, locks, op, seen, want, spawned, ret>>

KillWithoutWait(c) ==
    /\ \E a \in WaitForStop(spawned[c]) : Step(c, "killwait", "undoreset")
    /\ UNCHANGED host

KillWait(c) ==
    /\ \E a \in WaitForStop(spawned[c]) :
         Step(c, "killwait", IF a = "yes" THEN "undo" ELSE "retain")
    /\ UNCHANGED host

Retain(c) ==
    /\ \E ok \in BOOLEAN :
         PersistRuntime(StartingRow(c), ok) /\ Step(c, "retain", "fail")
    /\ UNCHANGED <<record, disk, machines>>

Undo(c) ==
    /\ \E ok \in BOOLEAN :
         ReleaseMapping(ok) /\ Step(c, "undo", OrFail(ok /\ ~failed[c], "undosocket"))
    /\ UNCHANGED <<rows, volume, rootfs, view, machines>>

UndoSocket(c) ==
    /\ \E ok \in BOOLEAN :
         RemoveStaleSocket(ok) /\ Step(c, "undosocket", OrFail(ok, "undoreset"))
    /\ UNCHANGED <<rows, disk, launcher, vmm>>

UndoReset(c) ==
    /\ \E ok \in BOOLEAN :
         PersistRuntime(StoppedRow, ok) /\ Step(c, "undoreset", "fail")
    /\ UNCHANGED <<record, disk, machines>>

(* cleanup_unstarted_launch: nothing was spawned.                          *)
UnLaunch(c) ==
    /\ \E ok \in BOOLEAN :
         ReleaseMapping(ok) /\ Step(c, "unlaunch", OrFail(ok, "undoreset"))
    /\ UNCHANGED <<rows, volume, rootfs, view, machines>>

Start(c) ==
    \/ Adopt(c) \/ AdoptRow(c) \/ Prepare(c) \/ Ensure(c) \/ Launch(c)
    \/ PersistStarting(c) \/ AwaitSocket(c) \/ PersistRunning(c) \/ Confirm(c)
    \/ Kill(c) \/ KillWait(c) \/ Retain(c)
    \/ Undo(c) \/ UndoSocket(c) \/ UndoReset(c) \/ UnLaunch(c)

-----------------------------------------------------------------------------
(* stop_microvm                                                            *)

Request(c) ==
    /\ \/ "silent" \in ShutdownReplies /\ Step(c, "request", "reprobe")
       \/ "accepted" \in ShutdownReplies /\ Step(c, "request", "stopwait")
       \/ "error" \in ShutdownReplies /\ Step(c, "request", "fail")
    /\ UNCHANGED host

(* An undelivered request on a socket that went silent means the machine   *)
(* stopped by itself.                                                      *)
ReProbe(c) ==
    /\ \E a \in SocketAnswers : Step(c, "reprobe", OrFail(a = "no", "checkpid"))
    /\ UNCHANGED host

StopWait(c) ==
    /\ LET gone == WaitForStop(seen[c].row.pid)
       IN  \/ "yes" \in gone /\ Step(c, "stopwait", "release")
           \/ "no" \in gone /\ Step(c, "stopwait", OrFail(seen[c].row.pid # None, "force"))
           \/ "error" \in gone /\ Step(c, "stopwait", "fail")
    /\ UNCHANGED host

Escalate(c) ==
    /\ LET alive == ReferencesVm(seen[c].row.pid)
       IN  \/ "yes" \in alive /\ Step(c, "force", "sigkill")
           \/ "no" \in alive /\ Step(c, "force", "lastprobe")
           \/ "error" \in alive /\ Step(c, "force", "fail")
    /\ UNCHANGED host

LastProbe(c) ==
    /\ \E a \in SocketAnswers : Step(c, "lastprobe", OrFail(a = "no", "release"))
    /\ UNCHANGED host

SigKill(c) ==
    /\ \E ok \in BOOLEAN :
         /\ TerminateSpawned(seen[c].row.pid, ok)
         /\ Step(c, "sigkill", OrFail(ok, "forcewait"))
    /\ UNCHANGED <<rows, disk, vmm, socket>>

ForceWait(c) ==
    /\ \E a \in WaitForStop(seen[c].row.pid) :
         Step(c, "forcewait", OrFail(a = "yes", "release"))
    /\ UNCHANGED host

Stop(c) ==
    \/ Request(c) \/ ReProbe(c) \/ StopWait(c)
    \/ Escalate(c) \/ LastProbe(c) \/ SigKill(c) \/ ForceWait(c)

-----------------------------------------------------------------------------
(* update_microvm                                                          *)

DiskChanges(c) == want[c] # seen[c].size

InspectSkippingRelease(c) ==
    /\ \E to \in {"ok", "fail", "converge", "resize", "row"} :
         /\ to = "ok" => ~DiskChanges(c)
         /\ to = "converge" => rootfs # None /\ rootfs # seen[c].size
         /\ to \in {"resize", "row"} => rootfs = seen[c].size
         /\ to = "resize" => DiskChanges(c)
         /\ to = "row" => ~DiskChanges(c)
         /\ Step(c, "inspect", to)
    /\ UNCHANGED host

(* Requirements from the manifest, then the file's actual length.  An      *)
(* unchanged request returns at once; a file that an interrupted resize    *)
(* left at another length is converged first.                              *)
Inspect(c) ==
    /\ \E to \in {"ok", "fail", "converge", "release", "row"} :
         /\ to = "ok" => ~DiskChanges(c)
         /\ to = "converge" => rootfs # None /\ rootfs # seen[c].size
         /\ to \in {"release", "row"} => rootfs = seen[c].size
         /\ to = "release" => DiskChanges(c)
         /\ to = "row" => ~DiskChanges(c)
         /\ Step(c, "inspect", to)
    /\ UNCHANGED host

Converge(c) ==
    /\ \E ok, fits \in BOOLEAN :
         /\ Step(c, "converge",
                 IF DiskChanges(c) THEN OrFail(ok /\ fits, "release") ELSE OrFail(ok, "row"))
         /\ ResizeRootfs(seen[c].size, ok)
    /\ UNCHANGED <<rows, volume, loop, mapper, suspended, view, machines>>

Resize(c) ==
    /\ \E ok \in BOOLEAN :
         Step(c, "resize", IF ok THEN "row" ELSE "unresize") /\ ResizeRootfs(want[c], ok)
    /\ UNCHANGED <<rows, volume, loop, mapper, suspended, view, machines>>

(* update_microvm_resources: no row to update is an error.                 *)
UpdateRow(c) ==
    /\ \/ /\ record # None /\ record' = want[c]
          /\ Step(c, "row", "ok")
       \/ /\ record = None \/ Fault("db")
          /\ UNCHANGED record
          /\ Step(c, "row", IF DiskChanges(c) THEN "unresize" ELSE "fail")
    /\ UNCHANGED <<runtime, disk, machines>>

UnResize(c) ==
    /\ \E ok \in BOOLEAN :
         Step(c, "unresize", "fail") /\ ResizeRootfs(seen[c].size, ok)
    /\ UNCHANGED <<rows, volume, loop, mapper, suspended, view, machines>>

Update(c) == Inspect(c) \/ Converge(c) \/ Resize(c) \/ UpdateRow(c) \/ UnResize(c)

-----------------------------------------------------------------------------
(* create_snapshot                                                         *)

(* snapshot_source_is_running of an answering socket.                      *)
CheckLive(c) ==
    /\ \E a \in ReferencesVm(seen[c].row.pid) :
         Step(c, "checklive",
              OrFail(seen[c].row.state = "running" /\ seen[c].row.pid # None /\ a = "yes",
                     "capturelive"))
    /\ UNCHANGED host

(* Kernel, metadata and disk length are checked once more and cancellation *)
(* is honoured; then the disk of a stopped VM is read in place and that of *)
(* a running one through a view.                                           *)
Capture(c) ==
    /\ \E ok \in BOOLEAN :
         /\ ok => rootfs = seen[c].size
         /\ \/ Step(c, "capture", OrFail(ok, "copy"))
            \/ Step(c, "capturelive", OrFail(ok, "origin"))
    /\ UNCHANGED host

(* The archive is written from rootfs.ext4 itself, or from a private copy  *)
(* of it; cancellation and I/O errors end it early.                        *)
Copy(c) ==
    /\ \E ok \in BOOLEAN : Step(c, "copy", OrFail(ok, "publish"))
    /\ UNCHANGED host

GotoDrop(c, from, back) ==
    /\ At(c, from) /\ Goto(c, "drop")
    /\ ret' = [ret EXCEPT ![c] = back]
    /\ UNCHANGED <<locks, op, seen, want, spawned, failed>>

(* create_snapshot_view: a verified origin is resumed if it was left       *)
(* suspended and a leftover view is removed before a new one is built.     *)
OriginVerified == mapper # None /\ rootfs # None /\ VerifyMapping

Origin(c) ==
    /\ \/ /\ OriginVerified
          /\ suspended' = FALSE
          /\ GotoDrop(c, "origin", "cow")
       \/ /\ ~OriginVerified \/ Fault("host")
          /\ UNCHANGED suspended
          /\ Step(c, "origin", "fail")
    /\ UNCHANGED <<rows, volume, rootfs, loop, mapper, view, machines>>

(* The COW file is allocated and attached.                                 *)
AllocateCow(c) ==
    /\ \/ view' = "cow" /\ Step(c, "cow", "suspend")
       \/ Fault("host") /\ view' \in {"none", "cow"} /\ Step(c, "cow", "fail")
    /\ UNCHANGED <<rows, volume, rootfs, loop, mapper, suspended, machines>>

Suspend(c) ==
    /\ \/ suspended' = TRUE /\ Step(c, "suspend", "map")
       \/ Fault("host") /\ UNCHANGED suspended /\ GotoDrop(c, "suspend", "abort")
    /\ UNCHANGED <<rows, volume, rootfs, loop, mapper, view, machines>>

MapView(c) ==
    /\ At(c, "map")
    /\ \/ view' = "mapped" /\ UNCHANGED failed
       \/ Fault("host") /\ UNCHANGED view /\ failed' = [failed EXCEPT ![c] = TRUE]
    /\ Goto(c, "resume")
    /\ UNCHANGED <<rows, volume, rootfs, loop, mapper, suspended, machines>>
    /\ UNCHANGED <<locks, op, seen, want, spawned, ret>>

(* The origin is resumed whether or not the view was created; the view is  *)
(* then verified and dropped again if anything went wrong.                 *)
Resume(c) ==
    /\ \/ ~failed[c] /\ suspended' = FALSE /\ Step(c, "resume", "nest")
       \/ /\ failed[c] \/ Fault("host")
          /\ suspended' \in {FALSE} \cup {s \in {TRUE} : Fault("host")}
          /\ GotoDrop(c, "resume", "abort")
    /\ UNCHANGED <<rows, volume, rootfs, loop, mapper, view, machines>>

(* A snapshot that regenerates the address edits a private child of the    *)
(* view; one that preserves it reads the view itself.                      *)
Nest(c) ==
    /\ \/ view' \in {"mapped", "nested"} /\ Step(c, "nest", "stream")
       \/ Fault("host") /\ view' \in {"mapped", "nested"} /\ GotoDrop(c, "nest", "abort")
    /\ UNCHANGED <<rows, volume, rootfs, loop, mapper, suspended, machines>>

(* The archive is written from the view; cancellation, a full disk or an   *)
(* overflowing COW store end it early.  Either way the view comes down.    *)
Stream(c) ==
    /\ At(c, "stream")
    /\ \E back \in {"publish", "abort"} : ret' = [ret EXCEPT ![c] = back]
    /\ Goto(c, IF view = "nested" THEN "unnest" ELSE "drop")
    /\ UNCHANGED <<host, locks, op, seen, want, spawned, failed>>

(* remove_private_snapshot_view; a failure is collected and the view is    *)
(* still tried.                                                            *)
UnNest(c) ==
    /\ \/ view' = "mapped"
       \/ Fault("host") /\ UNCHANGED view
    /\ Step(c, "unnest", "drop")
    /\ UNCHANGED <<rows, volume, rootfs, loop, mapper, suspended, machines>>

AfterDrop(c) == IF ret[c] = "abort" THEN "fail" ELSE ret[c]

(* remove_snapshot_view up to suspending the origin, which it first        *)
(* resumes.  A view that something still has open is left alone.           *)
Drop(c) ==
    /\ \/ /\ rootfs # None /\ (mapper # None => VerifyMapping) /\ view \in {"none", "cow"}
          /\ suspended' = FALSE /\ view' = "none"
          /\ Step(c, "drop", AfterDrop(c))
       \/ /\ OriginVerified /\ view = "mapped"
          /\ suspended' = TRUE /\ UNCHANGED view
          /\ Step(c, "drop", "unmap")
       \/ /\ \/ rootfs = None \/ Fault("host")
             \/ mapper # None /\ ~VerifyMapping
             \/ mapper = None /\ view \in {"mapped", "nested"}
          /\ suspended' \in {suspended} \cup {s \in {FALSE} : Fault("host") /\ OriginVerified}
          /\ UNCHANGED view
          /\ Step(c, "drop", "fail")
       \/ /\ OriginVerified /\ view = "nested"
          /\ suspended' = FALSE /\ UNCHANGED view
          /\ Step(c, "drop", "fail")
    /\ UNCHANGED <<rows, volume, rootfs, loop, mapper, machines>>

UnmapWithoutResume(c) ==
    /\ view' = "none"
    /\ Step(c, "unmap", AfterDrop(c))
    /\ UNCHANGED <<rows, volume, rootfs, loop, mapper, suspended, machines>>

(* The view is removed, the origin resumed and the COW backing deleted.    *)
Unmap(c) ==
    /\ \/ view' = "none" /\ suspended' = FALSE /\ Step(c, "unmap", AfterDrop(c))
       \/ /\ Fault("host")
          /\ view' \in {"mapped", "cow"} /\ suspended' \in BOOLEAN
          /\ Step(c, "unmap", "fail")
    /\ UNCHANGED <<rows, volume, rootfs, loop, mapper, machines>>

(* A cancelled or unpublishable archive is removed instead.                *)
Publish(c) ==
    /\ \E ok \in BOOLEAN : Step(c, "publish", OrFail(ok, "ok"))
    /\ UNCHANGED host

Snapshot(c) ==
    \/ CheckLive(c) \/ Capture(c) \/ Copy(c) \/ Origin(c) \/ AllocateCow(c)
    \/ Suspend(c) \/ MapView(c) \/ Resume(c) \/ Nest(c) \/ Stream(c)
    \/ UnNest(c) \/ Drop(c) \/ Unmap(c) \/ Publish(c)

-----------------------------------------------------------------------------
(* delete_microvm and configure_network: name lock only.                   *)

(* Host network release for delete, host network reconciliation for        *)
(* configure_network.                                                      *)
HostNetwork(c) ==
    /\ \E ok \in BOOLEAN :
         /\ ok \/ Fault("host")
         /\ Step(c, "network",
                 OrFail(ok, IF op[c] = "delete" THEN "volume" ELSE "verify"))
    /\ UNCHANGED host

(* remove_owned_volume: the directory with disk and socket goes.           *)
RemoveVolume(c) ==
    /\ \/ /\ volume' = FALSE /\ rootfs' = None /\ socket' = NoSocket
          /\ Step(c, "volume", "rows")
       \/ /\ Fault("host")
          /\ rootfs' \in {rootfs, None} /\ socket' \in {socket, NoSocket}
          /\ UNCHANGED volume
          /\ Step(c, "volume", "fail")
    /\ UNCHANGED <<rows, loop, mapper, suspended, view, launcher, vmm>>

DeleteRows(c) ==
    /\ \/ record' = None /\ runtime' = StoppedRow /\ Step(c, "rows", "ok")
       \/ Fault("db") /\ UNCHANGED rows /\ Step(c, "rows", "fail")
    /\ UNCHANGED <<disk, machines>>

Delete(c) == RemoveVolume(c) \/ DeleteRows(c)

(* verify_stopped: the socket path must not exist.                         *)
VerifyStopped(c) ==
    /\ Step(c, "verify", OrFail(~socket.entry, "stalerow"))
    /\ UNCHANGED host

(* The runtime row read at the beginning is written back.                  *)
PersistStaleRow(c) ==
    /\ \E ok \in BOOLEAN :
         PersistRuntime(seen[c].row, ok) /\ Step(c, "stalerow", OrFail(ok, "ok"))
    /\ UNCHANGED <<record, disk, machines>>

ConfigureNetwork(c) == VerifyStopped(c) \/ PersistStaleRow(c)

-----------------------------------------------------------------------------
(* Failures of an SDK process and of the host.                             *)

Abandon(S) ==
    /\ lifecycle' = IF lifecycle \in S THEN None ELSE lifecycle
    /\ nameLock' = [q \in Processes |-> IF nameLock[q] \in S THEN None ELSE nameLock[q]]
    /\ pc' = [c \in Clients |-> IF c \in S THEN "idle" ELSE pc[c]]
    /\ op' = [c \in Clients |-> IF c \in S THEN None ELSE op[c]]
    /\ seen' = [c \in Clients |-> IF c \in S THEN NothingSeen ELSE seen[c]]
    /\ want' = [c \in Clients |-> IF c \in S THEN None ELSE want[c]]
    /\ spawned' = [c \in Clients |-> IF c \in S THEN None ELSE spawned[c]]
    /\ failed' = [c \in Clients |-> IF c \in S THEN FALSE ELSE failed[c]]
    /\ ret' = [c \in Clients |-> IF c \in S THEN "none" ELSE ret[c]]

(* An SDK process is killed: the kernel drops its file lock, its mutexes   *)
(* vanish, and whatever it had done so far stays.                          *)
Crash(q) ==
    /\ Fault("crash")
    /\ \E c \in Clients : ProcessOf[c] = q /\ pc[c] # "idle"
    /\ Abandon({c \in Clients : ProcessOf[c] = q})
    /\ UNCHANGED host

(* The host reboots: only files and the database survive.                  *)
Reboot ==
    /\ Fault("reboot")
    /\ Abandon(Clients)
    /\ loop' = None /\ mapper' = None /\ suspended' = FALSE
    /\ view' = IF view = "none" THEN "none" ELSE "cow"
    /\ launcher' = {} /\ vmm' = [p \in Pids |-> "none"]
    /\ socket' = [socket EXCEPT !.owner = None]
    /\ UNCHANGED <<rows, volume, rootfs>>

-----------------------------------------------------------------------------
Shared(c) ==
    \/ Invoke(c) \/ TakeLifecycle(c) \/ TakeName(c) \/ Return(c)
    \/ Load(c) \/ Probe(c) \/ CheckPid(c)
    \/ Release(c) \/ ClearSocket(c) \/ ResetRuntime(c) \/ HostNetwork(c)

Client(c) ==
    \/ Shared(c) \/ Start(c) \/ Stop(c) \/ Update(c) \/ Snapshot(c)
    \/ Delete(c) \/ ConfigureNetwork(c)

Next ==
    \/ \E c \in Clients : Client(c)
    \/ Machine /\ UNCHANGED <<locks, pc, locals>>
    \/ \E q \in Processes : Crash(q)
    \/ Reboot

Spec == Init /\ [][Next]_vars

(* Where start and update ask the registry for its manifest, with a client *)
(* that has no timeout.                                                    *)
AsksRegistry(c) == pc[c] \in {"prepare", "inspect"}

(* A client that waits neither for a lock nor for the registry keeps       *)
(* running: every other wait in the code has a deadline.  The in-process   *)
(* name lock is a Tokio mutex, which is handed over in arrival order.      *)
Fairness ==
    \A c \in Clients :
        /\ WF_vars(pc[c] # "idle" /\ ~AsksRegistry(c) /\ Client(c))
        /\ SF_vars(TakeName(c))

FairSpec == Spec /\ Fairness

-----------------------------------------------------------------------------
(* Properties.                                                             *)

(* The mapping and the loop device that a machine boots from always have   *)
(* the length of rootfs.ext4: verify_mapping would refuse any other        *)
(* mapping for good, and a machine on it would lose the end of its disk.   *)
MapperMatchesDisk ==
    mapper # None /\ rootfs # None => mapper = rootfs /\ loop = rootfs

(* A root disk whose length differs from the record, which a crashed or    *)
(* failed update leaves behind, is never mapped, so that the converging    *)
(* resize of the next update (which releases nothing first) is safe.       *)
DivergedDiskIsUnmapped ==
    record # None /\ rootfs # None /\ rootfs # record => mapper = None /\ loop = None

(* update_microvm and its rollback change the length of the disk only      *)
(* while nothing is mapped over it and no machine has it open.             *)
ResizeOffline ==
    [][rootfs' # rootfs /\ rootfs' # None
         => mapper = None /\ loop = None /\ Running = {}]_vars

(* However starts, crashes and reboots interleave, at most one machine has *)
(* the root disk open.                                                     *)
SingleWriter == \A p, q \in Running : p = q

(* A stop that reports success leaves no machine on the disk and neither   *)
(* mapping nor loop device behind.                                         *)
StopMeansGone ==
    \A c \in Clients : op[c] = "stop" /\ At(c, "ok")
        => Running = {} /\ mapper = None /\ loop = None

(* While a snapshot reads rootfs.ext4 in place, because it took the VM for *)
(* stopped, no machine has that disk open.                                 *)
StoppedCopyHasNoWriter == \A c \in Clients : At(c, "copy") => Running = {}

(* Between operations, the machine that has the disk open is the one whose *)
(* process id the runtime row holds: stop knows which firectl to force.    *)
RunningMachineIsRecorded == lifecycle = None => \A p \in Running : runtime.pid = p

(* The guest's disk is frozen only during the short exchange of Device     *)
(* Mapper tables, never during the bulk copy, and a snapshot leaves        *)
(* neither a frozen origin nor a view behind.                              *)
GuestIsNeverLeftFrozen ==
    /\ suspended => \E c \in Clients : pc[c] \in {"map", "resume", "unmap"}
    /\ lifecycle = None => view = "none"

(* delete removes the volume only while no machine runs on it.             *)
DeleteRefusesRunning ==
    [][volume /\ ~volume' => Running = {}]_vars

(* Whoever takes the lock file gives it back, as long as the registry      *)
(* answers requests for its manifest: no operation waits forever for       *)
(* anything else while holding it, not even for the name lock.             *)
LifecycleReleased ==
    (\A d \in Clients : []<>~AsksRegistry(d)) => \A c \in Clients : lifecycle = c ~> lifecycle # c

(* The root disk as a lease: who has it attached and who has it open.      *)
Lease == INSTANCE DiskLease WITH
    Users <- Pids, Lengths <- Sizes, Absent <- None,
    length <- rootfs, attached <- mapper # None, users <- Running

(* The operations together implement the lease on the root disk: it is     *)
(* opened only through the mapping of ensure_mapping, release_mapping      *)
(* never pulls that mapping from under a machine, and resize_rootfs never  *)
(* runs on an attached disk.                                               *)
ImplementsLease == Lease!LeaseSpec
=============================================================================
