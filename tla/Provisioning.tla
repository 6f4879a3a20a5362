---------------------------- MODULE Provisioning ----------------------------
(***************************************************************************)
(* How MicroVMs come to exist and cease to: create_microvm with its        *)
(* in-memory journal and rollback, restore_snapshot with its durable       *)
(* journal and the reconciliation of what an interrupted restore left, and *)
(* delete_microvm.  Each is a sequence of steps on the inventory, the      *)
(* volume directory, the host network and the shared kernel files; any     *)
(* step can fail and the process or the host can stop between two.         *)
(*                                                                         *)
(* Operations on one name exclude each other (the name lock of the         *)
(* process); operations on different names interleave and share kernels.   *)
(* HostNetwork models what happens inside one configuration of the         *)
(* network, ArtifactCache how kernels and images get onto the disk.        *)
(*                                                                         *)
(* A definition that nothing uses is a deliberately wrong variant of the   *)
(* one that follows it; the README lists which property it breaks.         *)
(***************************************************************************)
EXTENDS Naturals, FiniteSets

CONSTANTS
    Names,
    Kernels,
    KernelOf,    \* the kernel of the image, or of the archive, of each name
    Installed,   \* possible sets of kernels downloaded beforehand
    ProvOps,     \* per name, the operations its user asks for
    ProvFaults,  \* which of "io", "db", "cancel", "crash", "reboot" happen
    ProvBudget,  \* how many of them happen in one behaviour
    None

ASSUME KernelOfAssumption == KernelOf \in [Names -> Kernels]
ASSUME InstalledAssumption == Installed \subseteq SUBSET Kernels /\ Installed # {}
ASSUME ProvOpsAssumption == ProvOps \in [Names -> SUBSET {"create", "restore", "delete"}]
ASSUME NoneAssumption ==
    None \notin {"partial", "good", "create", "restore", "delete", "failed"}
ASSUME ProvFaultsAssumption ==
    ProvFaults \subseteq {"io", "db", "cancel", "crash", "reboot"} /\ ProvBudget \in Nat

VARIABLES
    row,         \* per name: which of its inventory rows there are
    files,       \* per name: what there is of its volume directory
    tap,         \* names whose network is configured on the host
    kernel,      \* per kernel: None, a "partial" or a "good" file
    registered,  \* kernels with an inventory row
    journal,     \* per name: the row of restore_journal, or None
    staging,     \* names whose journalled staging directory exists
    pc,
    call,        \* per name: the locals of the operation under way
    faults

inventory == <<row, registered, journal>>
disk == <<files, kernel, staging>>
control == <<pc, call, faults>>
vars == <<row, files, tap, kernel, registered, journal, staging, pc, call, faults>>

Rows == {"vm", "network", "credential", "runtime"}
VolumeFiles == {"dir", "rootfs", "ssh", "keys"}
Complete(n) == row[n] = Rows

(* What a call can own: what its in-memory journal says a failure has to   *)
(* undo.                                                                   *)
Ownable == VolumeFiles \cup {"tap", "kernel", "row", "staging", "journal"}
Journals == [network : BOOLEAN, volume : BOOLEAN, kernel : BOOLEAN]
ASSUME JournalsAssumption == None \notin Journals

Idle == [op |-> None, owns |-> {}, made |-> {}, job |-> {}, install |-> FALSE,
         failed |-> FALSE, result |-> None]

ProvLabels ==
    {"idle", "resolve", "claim", "volume", "keys", "inject", "network", "guest",
     "save_network", "save_credential", "runtime", "rollback",
     "stage", "reconcile", "validate", "attach", "log_network", "mkdir", "log_volume",
     "copy", "copy_keys", "log_kernel", "open_kernel", "fill_kernel", "configure",
     "commit", "abort",
     "release", "remove_volume", "remove_row"}

(* Every variable has its type, and no row of a MicroVM outlives the one   *)
(* in microvms that the others refer to: deletion and rollback remove all  *)
(* of them together.                                                       *)
ProvTypeOK ==
    /\ row \in [Names -> SUBSET Rows]
    /\ \A n \in Names : row[n] # {} => "vm" \in row[n]
    /\ files \in [Names -> SUBSET VolumeFiles]
    /\ tap \subseteq Names /\ staging \subseteq Names /\ registered \subseteq Kernels
    /\ kernel \in [Kernels -> {"partial", "good", None}]
    /\ journal \in [Names -> Journals \cup {None}]
    /\ pc \in [Names -> ProvLabels] /\ faults \in 0..ProvBudget
    /\ \A n \in Names :
         /\ call[n].op \in {"create", "restore", "delete", None}
         /\ {call[n].owns, call[n].made, call[n].job} \subseteq SUBSET Ownable

Init ==
    /\ row = [n \in Names |-> {}] /\ files = [n \in Names |-> {}] /\ tap = {}
    /\ registered \in Installed
    /\ kernel = [k \in Kernels |-> IF k \in registered THEN "good" ELSE None]
    /\ journal = [n \in Names |-> None] /\ staging = {}
    /\ pc = [n \in Names |-> "idle"] /\ call = [n \in Names |-> Idle] /\ faults = 0

(***************************************************************************)
(* Control flow of a call.                                                 *)
(***************************************************************************)
ProvFault(kind) == kind \in ProvFaults /\ faults < ProvBudget /\ faults' = faults + 1
FaultOf(kinds) == \E kind \in kinds : ProvFault(kind)
Forced(condition) == condition /\ UNCHANGED faults

At(n, label) == pc[n] = label
Goto(n, label) == pc' = [pc EXCEPT ![n] = label]
Set(n, c) == call' = [call EXCEPT ![n] = c]

(* The call moves on, having taken note of what it now owns.               *)
Step(n, label, owned) ==
    /\ Goto(n, label)
    /\ Set(n, [call[n] EXCEPT !.owns = @ \cup owned, !.made = @ \cup owned])

(* It moves on having made something it has not taken note of yet.         *)
Unnoted(n, label, made) ==
    Goto(n, label) /\ Set(n, [call[n] EXCEPT !.made = @ \cup made])

Return(n, result) == Goto(n, "idle") /\ Set(n, [Idle EXCEPT !.result = result])

(* rollback_creation and the error arm of a restore remove what the call   *)
(* owns in this order; so does the reconciliation of a journal.            *)
RollbackOrder == [tap |-> 1, keys |-> 2, rootfs |-> 3, ssh |-> 4, dir |-> 5, row |-> 6]
AbortOrderWithoutNetwork == [dir |-> 2, kernel |-> 3, staging |-> 4, journal |-> 5]
AbortOrder == [tap |-> 1, dir |-> 2, kernel |-> 3, staging |-> 4, journal |-> 5]

Earlier(n, r, s) ==
    LET order == IF call[n].op = "create" THEN RollbackOrder ELSE AbortOrder
    IN  order[r] <= order[s]
First(n, r) == r \in call[n].job /\ \A s \in call[n].job : Earlier(n, r, s)

(***************************************************************************)
(* Removing one thing, and what stands in the way: fs::remove_dir of a     *)
(* directory that is not empty.  A restore removes its volume with         *)
(* everything in it, and an attempt that fails may have removed a part.    *)
(***************************************************************************)
Recursive(n) == call[n].op # "create"
Blocked(n, r) ==
    \/ r = "ssh" /\ "keys" \in files[n]
    \/ r = "dir" /\ ~Recursive(n) /\ files[n] \ {"dir"} # {}

RemoveFile(n, r) ==
    /\ files' = [files EXCEPT ![n] = IF r = "dir" THEN {} ELSE @ \ {r}]
    /\ UNCHANGED <<row, tap, kernel, registered, journal, staging>>

Remove(n, r) ==
    \/ r \in VolumeFiles /\ RemoveFile(n, r)
    \/ r = "tap" /\ tap' = tap \ {n} /\ UNCHANGED <<inventory, disk>>
    \/ /\ r = "kernel" /\ kernel' = [kernel EXCEPT ![KernelOf[n]] = None]
       /\ UNCHANGED <<inventory, tap, files, staging>>
    \/ r = "staging" /\ staging' = staging \ {n} /\ UNCHANGED <<inventory, tap, files, kernel>>
    \/ r = "row" /\ row' = [row EXCEPT ![n] = {}] /\ UNCHANGED <<registered, journal, disk, tap>>
    \/ /\ r = "journal" /\ journal' = [journal EXCEPT ![n] = None]
       /\ UNCHANGED <<row, registered, disk, tap>>

RemovalFails(n, r) ==
    /\ \/ Forced(Blocked(n, r))
       \/ r \in {"row", "journal"} /\ ProvFault("db")
       \/ r \notin {"row", "journal"} /\ ProvFault("io")
    /\ \/ UNCHANGED files
       \/ /\ r = "dir" /\ Recursive(n) /\ "dir" \in files[n]
          /\ \E kept \in SUBSET files[n] : "dir" \in kept /\ files' = [files EXCEPT ![n] = kept]
    /\ UNCHANGED <<inventory, tap, kernel, staging>>

UndoNextForgetting(n, label) ==
    /\ At(n, label)
    /\ \E r \in Ownable :
         LET rest == [call[n] EXCEPT !.job = @ \ {r}]
         IN  /\ First(n, r)
             /\ \/ ~Blocked(n, r) /\ Remove(n, r) /\ Set(n, rest) /\ UNCHANGED <<pc, faults>>
                \/ RemovalFails(n, r) /\ Set(n, [rest EXCEPT !.failed = TRUE]) /\ UNCHANGED pc

(* One removal of an undo; a failure is noted and the next one follows,    *)
(* but a restore keeps its journal when something could not be removed.    *)
UndoNext(n, label) ==
    /\ At(n, label)
    /\ \E r \in Ownable :
         LET rest == [call[n] EXCEPT !.job = @ \ {r}]
             kept == r = "journal" /\ call[n].failed
         IN  /\ First(n, r)
             /\ \/ /\ ~Blocked(n, r) /\ ~kept /\ Remove(n, r)
                   /\ Set(n, rest) /\ UNCHANGED <<pc, faults>>
                \/ ~kept /\ RemovalFails(n, r) /\ Set(n, [rest EXCEPT !.failed = TRUE]) /\ UNCHANGED pc
                \/ kept /\ Set(n, rest) /\ UNCHANGED <<inventory, disk, tap, pc, faults>>

Undone(n, label) ==
    /\ At(n, label) /\ call[n].job = {}
    /\ Return(n, IF call[n].failed THEN "cleanup" ELSE "failed")
    /\ UNCHANGED <<inventory, disk, tap, faults>>

(***************************************************************************)
(* create_microvm.                                                         *)
(***************************************************************************)
Rollback(n) ==
    /\ Goto(n, "rollback")
    /\ Set(n, [call[n] EXCEPT !.job = call[n].owns \cap DOMAIN RollbackOrder])

InvokeCreate(n) ==
    /\ At(n, "idle") /\ "create" \in ProvOps[n]
    /\ Goto(n, "resolve") /\ Set(n, [Idle EXCEPT !.op = "create"])
    /\ UNCHANGED <<inventory, disk, tap, faults>>

(* A name that exists is returned when the request matches it and it is    *)
(* complete, and refused otherwise.  A new one needs a kernel that         *)
(* verifies and a volume that does not exist or is an empty directory.     *)
ResolveCreation(n) ==
    /\ At(n, "resolve")
    /\ \/ Forced(Complete(n)) /\ Return(n, "done")
       \/ Forced(row[n] # {}) /\ Return(n, "failed")
       \/ /\ row[n] = {} /\ KernelOf[n] \in registered /\ kernel[KernelOf[n]] = "good"
          /\ files[n] \subseteq {"dir"} /\ UNCHANGED faults
          /\ Step(n, "claim", {})
       \/ /\ \/ Forced(\/ KernelOf[n] \notin registered \/ kernel[KernelOf[n]] # "good"
                       \/ ~ files[n] \subseteq {"dir"})
             \/ FaultOf({"io", "db"})
          /\ row[n] = {} /\ Return(n, "failed")
    /\ UNCHANGED <<inventory, disk, tap>>

ClaimName(n) ==
    /\ At(n, "claim")
    /\ \/ /\ row' = [row EXCEPT ![n] = {"vm"}] /\ Step(n, "volume", {"row"})
          /\ UNCHANGED faults
       \/ FaultOf({"db"}) /\ Return(n, "failed") /\ UNCHANGED row
    /\ UNCHANGED <<registered, journal, disk, tap>>

(* prepare_rootfs cleans up after itself when it fails.                    *)
PrepareVolume(n) ==
    /\ At(n, "volume")
    /\ \/ /\ files' = [files EXCEPT ![n] = {"dir", "rootfs"}]
          /\ Step(n, "keys", {"rootfs"} \cup ({"dir"} \ files[n])) /\ UNCHANGED faults
       \/ FaultOf({"io"}) /\ Rollback(n) /\ UNCHANGED files
    /\ UNCHANGED <<inventory, kernel, staging, tap>>

(* generate removes the keys it could not write but not their directory,   *)
(* which the creation already owns.                                        *)
GenerateKeys(n) ==
    /\ At(n, "keys")
    /\ \/ /\ files' = [files EXCEPT ![n] = @ \cup {"ssh", "keys"}]
          /\ Step(n, "inject", {"ssh", "keys"}) /\ UNCHANGED faults
       \/ /\ FaultOf({"io"}) /\ Goto(n, "rollback")
          /\ \E made \in {{}, {"ssh"}} : files' = [files EXCEPT ![n] = @ \cup made]
          /\ Set(n, [call[n] EXCEPT
                !.job = (call[n].owns \cup {"ssh"}) \cap DOMAIN RollbackOrder])
    /\ UNCHANGED <<inventory, kernel, staging, tap>>

InjectKey(n) ==
    /\ At(n, "inject")
    /\ \/ Step(n, "network", {}) /\ UNCHANGED faults
       \/ FaultOf({"io"}) /\ Rollback(n)
    /\ UNCHANGED <<inventory, disk, tap>>

(* An interface of the same name that nobody owns makes it fail; what a    *)
(* failed configuration did, it has undone.                                *)
ConfigureNetwork(n) ==
    /\ At(n, "network")
    /\ \/ n \notin tap /\ tap' = tap \cup {n} /\ Unnoted(n, "guest", {"tap"}) /\ UNCHANGED faults
       \/ (Forced(n \in tap) \/ FaultOf({"io", "db"})) /\ Rollback(n) /\ UNCHANGED tap
    /\ UNCHANGED <<inventory, disk>>

(* The network enters the in-memory journal only after the guest's half of *)
(* the configuration was written.                                          *)
ConfigureGuest(n) ==
    /\ At(n, "guest")
    /\ \/ Step(n, "save_network", {"tap"}) /\ UNCHANGED faults
       \/ FaultOf({"io"}) /\ Rollback(n)
    /\ UNCHANGED <<inventory, disk, tap>>

SaveRow(n, label, part, next) ==
    /\ At(n, label)
    /\ \/ /\ row' = [row EXCEPT ![n] = @ \cup {part}] /\ UNCHANGED faults
          /\ IF part = "runtime" THEN Return(n, "done") ELSE Step(n, next, {})
       \/ FaultOf({"db"} \cup (IF part = "runtime" THEN {"io"} ELSE {})) /\ Rollback(n) /\ UNCHANGED row
    /\ UNCHANGED <<registered, journal, disk, tap>>

(* Dropping the future of a creation ends it where it waits; nothing is    *)
(* rolled back.                                                            *)
DropCreation(n) ==
    /\ call[n].op = "create" /\ pc[n] \in {"resolve", "claim", "volume", "network", "runtime"}
    /\ ProvFault("cancel") /\ Return(n, None)
    /\ UNCHANGED <<inventory, disk, tap>>

CreateStep(n) ==
    \/ ResolveCreation(n) \/ ClaimName(n) \/ PrepareVolume(n) \/ GenerateKeys(n)
    \/ InjectKey(n) \/ ConfigureNetwork(n) \/ ConfigureGuest(n)
    \/ SaveRow(n, "save_network", "network", "save_credential")
    \/ SaveRow(n, "save_credential", "credential", "runtime")
    \/ SaveRow(n, "runtime", "runtime", "idle")
    \/ UndoNext(n, "rollback") \/ Undone(n, "rollback")

(***************************************************************************)
(* restore_snapshot.                                                       *)
(***************************************************************************)
AbortRestore(n) ==
    /\ Goto(n, "abort")
    /\ Set(n, [call[n] EXCEPT !.job = call[n].owns \cap DOMAIN AbortOrder])

(* A step that can only move on or abort.                                  *)
RestoreStep(n, label, kinds, next) ==
    /\ At(n, label)
    /\ \/ Step(n, next, {}) /\ UNCHANGED faults
       \/ FaultOf(kinds) /\ AbortRestore(n)
    /\ UNCHANGED <<inventory, disk, tap>>

InvokeRestore(n) ==
    /\ At(n, "idle") /\ "restore" \in ProvOps[n]
    /\ Goto(n, "stage") /\ Set(n, [Idle EXCEPT !.op = "restore"])
    /\ UNCHANGED <<inventory, disk, tap, faults>>

(* What the journal of an earlier restore says is left to remove.          *)
Journalled(j) ==
    (IF j.network THEN {"tap"} ELSE {}) \cup (IF j.volume THEN {"dir"} ELSE {})
    \cup (IF j.kernel THEN {"kernel"} ELSE {}) \cup {"staging"}
ReconcileJobKeepingJournal(j) == IF j = None THEN {} ELSE Journalled(j)
ReconcileJob(j) == IF j = None THEN {} ELSE Journalled(j) \cup {"journal"}

(* read_archive: the archive is verified and unpacked before any lock is   *)
(* taken; its guard removes the directory again when the call ends.        *)
StageArchive(n) ==
    /\ At(n, "stage")
    /\ \/ /\ Goto(n, "reconcile") /\ UNCHANGED faults
          /\ Set(n, [call[n] EXCEPT !.job = ReconcileJob(journal[n])])
       \/ FaultOf({"io", "cancel"}) /\ Return(n, "failed")
    /\ UNCHANGED <<inventory, disk, tap>>

(* The first failure ends the call and leaves the journal for the next.    *)
ReconcileNext(n) ==
    /\ At(n, "reconcile")
    /\ \/ /\ call[n].job = {} /\ Step(n, "validate", {})
          /\ UNCHANGED <<inventory, disk, tap, faults>>
       \/ \E r \in Ownable :
            /\ First(n, r)
            /\ \/ /\ Remove(n, r) /\ Set(n, [call[n] EXCEPT !.job = @ \ {r}])
                  /\ UNCHANGED <<pc, faults>>
               \/ RemovalFails(n, r) /\ Return(n, "failed")

InstallAlways(n) == TRUE
(* The kernel the archive brings is installed unless one that verifies is  *)
(* registered; a file without a row, or a row without a file, is refused.  *)
InstallNeeded(n) == KernelOf[n] \notin registered
KernelUsable(n) == kernel[KernelOf[n]] = IF KernelOf[n] \in registered THEN "good" ELSE None

(* Everything that is refused is refused before the journal is written.    *)
ValidateRestore(n) ==
    /\ At(n, "validate")
    /\ LET free == row[n] = {} /\ files[n] = {} /\ KernelUsable(n) IN
       \/ /\ free /\ Goto(n, "attach") /\ UNCHANGED faults
          /\ journal' = [journal EXCEPT ![n] = [network |-> FALSE, volume |-> FALSE, kernel |-> FALSE]]
          /\ staging' = staging \cup {n}
          /\ Set(n, [call[n] EXCEPT !.owns = {"staging", "journal"}, !.made = {"staging", "journal"},
                                    !.install = InstallNeeded(n)])
       \/ /\ Forced(~free) \/ FaultOf({"io", "db"})
          /\ Return(n, "failed") /\ UNCHANGED <<journal, staging>>
    /\ UNCHANGED <<row, registered, files, kernel, tap>>

AttachNetwork(n) ==
    /\ At(n, "attach")
    /\ \/ n \notin tap /\ tap' = tap \cup {n} /\ Step(n, "log_network", {"tap"}) /\ UNCHANGED faults
       \/ (Forced(n \in tap) \/ FaultOf({"io", "db", "cancel"})) /\ AbortRestore(n) /\ UNCHANGED tap
    /\ UNCHANGED <<inventory, disk>>

(* record_restore_journal: the flag is set in memory first, so a failed    *)
(* write still leaves it to the clean-up of this call.                     *)
LogOwned(n, label, field, owned, next) ==
    /\ At(n, label)
    /\ LET noted == [call[n] EXCEPT !.owns = @ \cup {owned}] IN
       \/ /\ journal' = [journal EXCEPT ![n][field] = TRUE]
          /\ Goto(n, next) /\ Set(n, noted) /\ UNCHANGED faults
       \/ /\ FaultOf({"db"}) /\ Goto(n, "abort") /\ UNCHANGED journal
          /\ Set(n, [noted EXCEPT !.job = noted.owns \cap DOMAIN AbortOrder])
    /\ UNCHANGED <<row, registered, disk, tap>>

MakeVolume(n) ==
    /\ At(n, "mkdir")
    /\ \/ /\ files[n] = {} /\ files' = [files EXCEPT ![n] = {"dir"}]
          /\ Step(n, "log_volume", {"dir"}) /\ UNCHANGED faults
       \/ /\ Forced(files[n] # {}) \/ FaultOf({"io", "db", "cancel"})
          /\ AbortRestore(n) /\ UNCHANGED files
    /\ UNCHANGED <<inventory, kernel, staging, tap>>

CopyIgnoringErrors(n, label, new, kinds, next) ==
    /\ At(n, label)
    /\ \E got \in SUBSET new : files' = [files EXCEPT ![n] = @ \cup got]
    /\ Step(n, next, {}) /\ UNCHANGED <<inventory, kernel, staging, tap, faults>>

(* A copy that fails can leave a part of the file.                         *)
CopyPayload(n, label, new, kinds, next) ==
    /\ At(n, label)
    /\ \/ /\ files' = [files EXCEPT ![n] = @ \cup new]
          /\ Step(n, next, {}) /\ UNCHANGED faults
       \/ /\ FaultOf(kinds) /\ AbortRestore(n)
          /\ \E got \in SUBSET new : files' = [files EXCEPT ![n] = @ \cup got]
    /\ UNCHANGED <<inventory, kernel, staging, tap>>

(* create_new: a file that appeared since the validation makes it fail.    *)
OpenKernel(n) ==
    /\ At(n, "open_kernel")
    /\ \/ /\ kernel[KernelOf[n]] = None /\ kernel' = [kernel EXCEPT ![KernelOf[n]] = "partial"]
          /\ Unnoted(n, "fill_kernel", {"kernel"}) /\ UNCHANGED faults
       \/ /\ Forced(kernel[KernelOf[n]] # None) \/ FaultOf({"io"})
          /\ AbortRestore(n) /\ UNCHANGED kernel
    /\ UNCHANGED <<inventory, files, staging, tap>>

FillKernel(n) ==
    /\ At(n, "fill_kernel")
    /\ \/ kernel' = [kernel EXCEPT ![KernelOf[n]] = "good"] /\ Step(n, "configure", {}) /\ UNCHANGED faults
       \/ /\ FaultOf({"io"}) /\ AbortRestore(n)
          /\ \E left \in {None, "partial"} : kernel' = [kernel EXCEPT ![KernelOf[n]] = left]
    /\ UNCHANGED <<inventory, files, staging, tap>>

(* One transaction publishes the machine and its kernel and forgets the    *)
(* journal.                                                                *)
CommitRestore(n) ==
    /\ At(n, "commit")
    /\ \/ /\ row[n] = {} /\ row' = [row EXCEPT ![n] = Rows]
          /\ registered' = registered \cup {KernelOf[n]}
          /\ journal' = [journal EXCEPT ![n] = None] /\ staging' = staging \ {n}
          /\ Return(n, "done") /\ UNCHANGED faults
       \/ /\ Forced(row[n] # {}) \/ FaultOf({"db"})
          /\ AbortRestore(n) /\ UNCHANGED <<inventory, staging>>
    /\ UNCHANGED <<files, kernel, tap>>

RestoreSteps(n) ==
    \/ StageArchive(n) \/ ReconcileNext(n) \/ ValidateRestore(n) \/ AttachNetwork(n)
    \/ LogOwned(n, "log_network", "network", "tap", "mkdir")
    \/ MakeVolume(n)
    \/ LogOwned(n, "log_volume", "volume", "dir", "copy")
    \/ CopyPayload(n, "copy", {"rootfs"}, {"io", "cancel"}, "copy_keys")
    \/ CopyPayload(n, "copy_keys", {"ssh", "keys"}, {"io"},
                   IF call[n].install THEN "log_kernel" ELSE "configure")
    \/ LogOwned(n, "log_kernel", "kernel", "kernel", "open_kernel")
    \/ OpenKernel(n) \/ FillKernel(n)
    \/ RestoreStep(n, "configure", {"io"}, "commit")
    \/ CommitRestore(n)
    \/ UndoNext(n, "abort") \/ Undone(n, "abort")

(***************************************************************************)
(* delete_microvm: every failure keeps the row, so that a retry resumes.   *)
(***************************************************************************)
InvokeDelete(n) ==
    /\ At(n, "idle") /\ "delete" \in ProvOps[n] /\ row[n] # {}
    /\ Goto(n, "release") /\ Set(n, [Idle EXCEPT !.op = "delete"])
    /\ UNCHANGED <<inventory, disk, tap, faults>>

DeleteNext(n, label, r, needed, next) ==
    /\ At(n, label)
    /\ \/ /\ IF needed THEN Remove(n, r) ELSE UNCHANGED <<inventory, disk, tap>>
          /\ IF next = "idle" THEN Return(n, "done") ELSE Step(n, next, {})
          /\ UNCHANGED faults
       \/ needed /\ RemovalFails(n, r) /\ Return(n, "failed")

DeleteStep(n) ==
    \/ DeleteNext(n, "release", "tap", "network" \in row[n], "remove_volume")
    \/ DeleteNext(n, "remove_volume", "dir", TRUE, "remove_row")
    \/ DeleteNext(n, "remove_row", "row", TRUE, "idle")

(***************************************************************************)
(* The process or the host stops.                                          *)
(***************************************************************************)
StopAll ==
    pc' = [n \in Names |-> "idle"] /\ call' = [n \in Names |-> Idle] /\ UNCHANGED <<inventory, disk>>
Crash == \E n \in Names : ~At(n, "idle") /\ ProvFault("crash") /\ StopAll /\ UNCHANGED tap
Reboot == ProvFault("reboot") /\ StopAll /\ tap' = {}

Work(n) == CreateStep(n) \/ RestoreSteps(n) \/ DeleteStep(n)
Next ==
    \/ \E n \in Names : InvokeCreate(n) \/ InvokeRestore(n) \/ InvokeDelete(n)
    \/ \E n \in Names : Work(n) \/ DropCreation(n)
    \/ Crash \/ Reboot

Spec == Init /\ [][Next]_vars

(* A call that began goes on until it returns, unless it is a creation     *)
(* that waits for the registry's manifest, and a user whose restore was    *)
(* interrupted asks again.                                                 *)
Fairness == \A n \in Names : WF_vars(~At(n, "resolve") /\ Work(n)) /\ WF_vars(InvokeRestore(n))
FairSpec == Spec /\ Fairness

(***************************************************************************)
(* Properties.                                                             *)
(***************************************************************************)

(* Nothing but its own deletion (or a reboot, for its interface) takes     *)
(* anything away from a complete MicroVM: neither the rollback or the      *)
(* reconciliation of an operation on this or another name, nor a failure.  *)
Whole(n) ==
    /\ files[n] \subseteq files'[n]
    /\ n \in tap => n \in tap'
    /\ kernel[KernelOf[n]] = "good" => kernel'[KernelOf[n]] = "good"
OnlyDeletionDestroys ==
    [][Reboot \/ \A n \in Names : Complete(n) /\ call[n].op # "delete" => Whole(n)]_vars

(* A MicroVM becomes complete in the inventory only when its disk, keys    *)
(* and network and its registered kernel are in place.                     *)
PublishesWholeMachines ==
    [][\A n \in Names :
         ~Complete(n) /\ Complete(n)' =>
            /\ files'[n] = VolumeFiles /\ n \in tap'
            /\ KernelOf[n] \in registered' /\ kernel'[KernelOf[n]] = "good"]_vars

(* When an operation reports its own error and no failure of the clean-up, *)
(* nothing that it made is left.  (For a creation, the network excepted:   *)
(* ConfigureGuest.)                                                        *)
There(n) ==
    files[n] \cup (IF n \in tap THEN {"tap"} ELSE {})
    \cup (IF kernel[KernelOf[n]] # None THEN {"kernel"} ELSE {})
    \cup (IF row[n] # {} THEN {"row"} ELSE {}) \cup (IF n \in staging THEN {"staging"} ELSE {})
    \cup (IF journal[n] # None THEN {"journal"} ELSE {})
FailedCallLeavesNothing ==
    [][\A n \in Names :
         call[n].op \in {"create", "restore"} /\ call'[n].op = None /\ call'[n].result = "failed" =>
            (call[n].made \ (IF call[n].op = "create" THEN {"tap"} ELSE {})) \cap There(n)' = {}]_vars

(* Of the files an interrupted restore leaves behind, those that a retry   *)
(* could not go over are in restore_journal: a volume with files in it of  *)
(* a name that has no row, and a kernel file without a row.  Neither an    *)
(* empty volume directory nor the network is promised: the directory and   *)
(* the TAP are made first and journalled after (MakeVolume, AttachNetwork),*)
(* so a crash between the two leaves them without an entry.                *)
LeftoversAreJournalled ==
    /\ ProvTypeOK
    /\ \A n \in Names :
         At(n, "idle") /\ row[n] = {} /\ "create" \notin ProvOps[n] /\ files[n] \ {"dir"} # {}
            => journal[n] # None /\ journal[n].volume
    /\ \A k \in Kernels :
         kernel[k] # None /\ k \notin registered
            => \E n \in Names : KernelOf[n] = k /\ journal[n] # None /\ journal[n].kernel

(* What a restore journalled does not stay for ever: repeated calls        *)
(* reconcile it, or finish the restore.                                    *)
JournalsAreReconciled == \A n \in Names : journal[n] # None ~> journal[n] = None
=============================================================================
