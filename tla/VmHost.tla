------------------------------- MODULE VmHost -------------------------------
(***************************************************************************)
(* Everything that one MicroVM keeps on the host and in the inventory, and *)
(* the host calls through which the SDK reads and changes it.              *)
(*                                                                         *)
(* The SDK has no daemon: each `tmvm` invocation is a process of its own   *)
(* and all of them meet in the state below.  The machine itself is two     *)
(* more processes, `firectl` (whose pid is the recorded one) and the       *)
(* Firecracker VMM it spawns; both outlive the process that launched them. *)
(*                                                                         *)
(* A definition that nothing uses is a deliberately wrong variant of the   *)
(* one that follows it; the README lists which property it breaks.         *)
(***************************************************************************)
EXTENDS Naturals

CONSTANTS
    Pids,        \* process ids firectl can get
    Sizes,       \* root disk sizes
    Faults,      \* which of FaultKinds happen in this model
    None         \* the absent value

FaultKinds == {"crash", "reboot", "db", "host", "probe", "launcher"}

ASSUME PidsAssumption == None \notin Pids
ASSUME SizesAssumption == Sizes # {} /\ Sizes \subseteq Nat /\ None \notin Sizes
ASSUME FaultsAssumption == Faults \subseteq FaultKinds

VARIABLES
    record,      \* microvms row: the recorded disk size, or None once deleted
    runtime,     \* vm_runtime row: process id and process state
    volume,      \* does the VM's volume directory exist
    rootfs,      \* length of rootfs.ext4, or None
    loop,        \* length at which a loop device is attached to it, or None
    mapper,      \* size of the snapshot-origin mapping, or None
    suspended,   \* is that mapping suspended (guest I/O frozen)
    view,        \* the copy-on-write view a snapshot is read from
    launcher,    \* pids of the live firectl processes
    vmm,         \* state of the Firecracker process each of them spawned
    socket       \* firecracker.sock: directory entry and process serving it

rows == <<record, runtime>>
disk == <<volume, rootfs, loop, mapper, suspended, view>>
machines == <<launcher, vmm, socket>>
host == <<rows, disk, machines>>

MaybePid == Pids \cup {None}
MaybeSize == Sizes \cup {None}
Row == [pid : MaybePid, state : {"stopped", "starting", "running"}]
ViewState == {"none", "cow", "mapped", "nested"}
VmmState == {"none", "boot", "api", "run"}

StoppedRow == [pid |-> None, state |-> "stopped"]
NoSocket == [entry |-> FALSE, owner |-> None]

HostTypeOK ==
    /\ record \in MaybeSize
    /\ runtime \in Row
    /\ volume \in BOOLEAN
    /\ rootfs \in MaybeSize
    /\ loop \in MaybeSize
    /\ mapper \in MaybeSize
    /\ suspended \in BOOLEAN
    /\ view \in ViewState
    /\ launcher \in SUBSET Pids
    /\ vmm \in [Pids -> VmmState]
    /\ socket \in [entry : BOOLEAN, owner : MaybePid]

(* A VM whose creation has just completed: stopped, disk at its recorded   *)
(* size, nothing mapped.                                                   *)
HostInit ==
    /\ record \in Sizes
    /\ runtime = StoppedRow
    /\ volume = TRUE
    /\ rootfs = record
    /\ loop = None
    /\ mapper = None
    /\ suspended = FALSE
    /\ view = "none"
    /\ launcher = {}
    /\ vmm = [p \in Pids |-> "none"]
    /\ socket = NoSocket

Fault(kind) == kind \in Faults

-----------------------------------------------------------------------------
(* Observations.  Each is the set of answers a call may give in the        *)
(* current state; "error" stands for every Err a caller propagates.        *)

Running == {p \in Pids : vmm[p] = "run"}

Answers == socket.owner # None

(* socket_answers: a served socket answers 200; a refused, missing or      *)
(* slow (five second timeout) one counts as silent.                        *)
SocketAnswers ==
    {IF Answers THEN "yes" ELSE "no"}
        \cup IF Fault("probe") THEN {"no", "error"} ELSE {}

(* request_shutdown: SendCtrlAltDel is accepted (204) by a VMM whose guest *)
(* runs and rejected by one that has none yet; a silent socket is told     *)
(* apart from every other failure.                                         *)
ShutdownReplies ==
    {CASE ~Answers -> "silent"
       [] Answers /\ vmm[socket.owner] = "run" -> "accepted"
       [] OTHER -> "error"}
        \cup IF Fault("probe") THEN {"error"} ELSE {}

(* process_references_vm of the pid a row recorded, None being no pid:     *)
(* executable and arguments identify firectl of this very VM.              *)
ReferencesVm(pid) ==
    {IF pid \in launcher THEN "yes" ELSE "no"}
        \cup IF pid # None /\ Fault("probe") THEN {"error"} ELSE {}

(* wait_for_stop until its deadline: silence and no referencing process.   *)
WaitForStop(pid) ==
    IF Answers \/ pid \in launcher
    THEN {"no"} \cup IF Fault("probe")
                     THEN {"error"} \cup {a \in {"yes"} : pid \notin launcher}
                     ELSE {}
    ELSE {"yes"} \cup IF Fault("probe") THEN {"error"} ELSE {}

-----------------------------------------------------------------------------
(* Inventory writes.                                                       *)

(* persist_runtime: an upsert whose foreign key fails once the VM's row is *)
(* gone.                                                                   *)
PersistRuntime(row, ok) ==
    \/ ok /\ record # None /\ runtime' = row
    \/ ~ok /\ (record = None \/ Fault("db")) /\ UNCHANGED runtime

-----------------------------------------------------------------------------
(* The loop device and Device Mapper mapping over rootfs.ext4.             *)

(* dmsetup's open count: the VMM's descriptor, or a snapshot table that    *)
(* names the mapping as its origin.                                        *)
OpenCountIsZero == Running = {} /\ view \notin {"mapped", "nested"}

VerifyMapping == loop # None /\ mapper = rootfs

Releasable == rootfs # None /\ (mapper # None => OpenCountIsZero /\ VerifyMapping)

(* release_mapping: dmsetup remove, then losetup --detach.  The second     *)
(* command can fail after the first succeeded.                             *)
ReleaseMapping(ok) ==
    \/ /\ ok /\ Releasable
       /\ mapper' = None /\ loop' = None /\ suspended' = FALSE
    \/ /\ ~ok /\ (~Releasable \/ Fault("host"))
       /\ UNCHANGED <<mapper, loop, suspended>>
    \/ /\ ~ok /\ Releasable /\ Fault("host")
       /\ mapper' = None /\ suspended' = FALSE /\ UNCHANGED loop

(* ensure_mapping: reuse a verified mapping, or attach a loop device (a    *)
(* leftover one is reused) and map all of the file.  A failure can leave   *)
(* the loop device, or both, behind when its own cleanup fails too; it     *)
(* releases a mapping whose device node does not appear.                   *)
EnsureMapping(ok) ==
    \/ /\ ok /\ mapper # None /\ rootfs # None /\ VerifyMapping
       /\ UNCHANGED <<mapper, loop, suspended>>
    \/ /\ ok /\ mapper = None /\ rootfs # None
       /\ loop' = IF loop = None THEN rootfs ELSE loop
       /\ rootfs <= loop'
       /\ mapper' = rootfs /\ suspended' = FALSE
    \/ /\ ~ok /\ \/ rootfs = None
                 \/ mapper # None /\ ~VerifyMapping
                 \/ mapper = None /\ loop # None /\ rootfs # None /\ loop < rootfs
                 \/ Fault("host")
       /\ UNCHANGED <<mapper, loop, suspended>>
    \/ /\ ~ok /\ Fault("host") /\ rootfs # None /\ mapper = None
       /\ loop' = IF loop = None THEN rootfs ELSE loop
       /\ rootfs <= loop'
       /\ mapper' \in {None, rootfs} /\ suspended' = FALSE
    \/ /\ ~ok /\ Fault("host") /\ mapper # None /\ Releasable
       /\ mapper' = None /\ loop' \in {None, loop} /\ suspended' = FALSE

(* resize_rootfs to a new length.  Growing extends the file before         *)
(* resize2fs runs; shrinking leaves it to resize2fs, which rounds down to  *)
(* whole blocks, and corrects the length after.  A failure can leave the   *)
(* old length, the new one, or a shrunken one below it.                    *)
ResizeRootfs(size, ok) ==
    \/ ok /\ rootfs # None /\ rootfs' = size
    \/ ~ok /\ (rootfs = None \/ Fault("host")) /\ UNCHANGED rootfs
    \/ /\ ~ok /\ rootfs # None /\ Fault("host")
       /\ \/ rootfs' = size
          \/ size < rootfs /\ rootfs' \in {s \in Sizes : s < size}

-----------------------------------------------------------------------------
(* The machine.  firectl and Firecracker are external programs; what they  *)
(* do is taken from how the SDK launches, probes and kills them.           *)

(* Firecracker binds its control socket; it refuses an existing path.      *)
Bind(p) ==
    /\ vmm[p] = "boot" /\ volume /\ ~socket.entry
    /\ vmm' = [vmm EXCEPT ![p] = "api"]
    /\ socket' = [entry |-> TRUE, owner |-> p]
    /\ UNCHANGED <<rows, disk, launcher>>

(* firectl configures the drive: the VMM opens the mapper path.            *)
OpenDisk(p) ==
    /\ vmm[p] = "api" /\ p \in launcher /\ mapper # None
    /\ vmm' = [vmm EXCEPT ![p] = "run"]
    /\ UNCHANGED <<rows, disk, launcher, socket>>

(* The VMM ends: guest power-off, failed boot or failed bind.  Its socket  *)
(* file stays behind, unserved.                                            *)
VmmExit(p) ==
    /\ vmm[p] # "none"
    /\ vmm' = [vmm EXCEPT ![p] = "none"]
    /\ socket' = IF socket.owner = p THEN [socket EXCEPT !.owner = None] ELSE socket
    /\ UNCHANGED <<rows, disk, launcher>>

(* firectl ends once its VMM has, or is killed from outside before that.   *)
FirectlExit(p) ==
    /\ p \in launcher
    /\ vmm[p] = "none" \/ Fault("launcher")
    /\ launcher' = launcher \ {p}
    /\ UNCHANGED <<rows, disk, vmm, socket>>

Machine == \E p \in Pids : Bind(p) \/ OpenDisk(p) \/ VmmExit(p) \/ FirectlExit(p)

(* launch_detached: creates the log directory, which is the volume, and    *)
(* spawns firectl in its own process group.  Pids bounds the processes     *)
(* that can be alive at once: spawning one more fails.                     *)
FreePids == {p \in Pids : p \notin launcher /\ vmm[p] = "none"}

LaunchDetached(p, ok) ==
    \/ /\ ok /\ p \in FreePids
       /\ launcher' = launcher \cup {p}
       /\ vmm' = [vmm EXCEPT ![p] = "boot"]
       /\ volume' = TRUE
    \/ /\ ~ok /\ (FreePids = {} \/ Fault("host"))
       /\ volume' = TRUE
       /\ UNCHANGED <<launcher, vmm>>

(* terminate_spawned: SIGKILL to the recorded pid, which is firectl's.     *)
TerminateSpawned(p, ok) ==
    \/ ok /\ launcher' = launcher \ {p}
    \/ ~ok /\ p \in launcher /\ Fault("host") /\ UNCHANGED launcher

RemoveAnySocket(ok) ==
    \/ ok /\ socket' = NoSocket
    \/ ~ok /\ UNCHANGED socket /\ Fault("host")

(* remove_stale_socket: an entry that still answers is refused.            *)
RemoveStaleSocket(ok) ==
    \/ ok /\ ~socket.entry /\ UNCHANGED socket
    \/ ok /\ socket.entry /\ "no" \in SocketAnswers /\ socket' = NoSocket
    \/ /\ ~ok /\ UNCHANGED socket
       /\ \/ socket.entry /\ SocketAnswers \cap {"yes", "error"} # {}
          \/ Fault("host")

=============================================================================
