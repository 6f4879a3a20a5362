------------------------------ MODULE Capture ------------------------------
(***************************************************************************)
(* The worker of create_snapshot, one host command at a time: the stable   *)
(* view of a running guest's disk (a copy-on-write file, its loop device   *)
(* and a Device Mapper snapshot taken while the guest's mapping is         *)
(* suspended), the private view or copy that is sanitized when the archive *)
(* shall not carry the guest's address, the archive written from it, the   *)
(* removal of all of it, and only then the publication.  VmLifecycle       *)
(* treats the same call as one of the operations that a lifecycle lock     *)
(* keeps apart; here the lock is the single pc, and what matters is which  *)
(* of the commands fails, and where the process is killed.                 *)
(*                                                                         *)
(* A definition that nothing uses is a deliberately wrong variant of the   *)
(* one that follows it; the README lists which property it breaks.         *)
(***************************************************************************)
EXTENDS Naturals, Sequences, FiniteSets

CONSTANTS
    Policies,       \* which of "preserve", "regenerate" users ask for
    CaptureFaults,  \* which of "io", "cancel", "crash", "reboot" happen
    CaptureBudget,  \* how many of them happen in one behaviour
    MaxWrites,      \* how often the guest changes its disk
    Foreign,        \* a file at the requested path that is not the call's
    None

ASSUME PoliciesAssumption == Policies \subseteq {"preserve", "regenerate"}
ASSUME CaptureFaultsAssumption ==
    /\ CaptureFaults \subseteq {"io", "cancel", "crash", "reboot"}
    /\ CaptureBudget \in Nat /\ MaxWrites \in Nat

VARIABLES
    running,    \* the guest runs
    content,    \* how often it has changed its disk
    devs,       \* loop devices, mappings and files there are
    orphans,    \* private ones of earlier calls
    suspended,  \* the guest's mapping is suspended
    invalid,    \* the kernel has invalidated the stable view
    frozen,     \* what the stable view shows
    output,     \* None, the published archive, or Foreign
    cancelled,  \* the call's cancellation token
    pc,
    call,       \* the locals of the call under way
    faults

host == <<devs, orphans, suspended, invalid, frozen>>
guest == <<running, content>>
vars == <<running, content, devs, orphans, suspended, invalid, frozen, output,
          cancelled, pc, call, faults>>

(* Files and devices of the guest's own disk, of the stable view, of the   *)
(* private view, and the files of the archive and of the private copy.     *)
Lasting == {"loop", "origin"}
Stable == {"cow", "cowloop", "view"}
Private == {"pcow", "ploop", "private"}
Files == {"copy", "tmp", "staged"}
Devices == Lasting \cup Stable \cup Private \cup Files
Kernel == {"loop", "origin", "cowloop", "view", "ploop", "private"}

Parts == 2    \* in how many reads the disk is archived
Torn == MaxWrites + 1
Versions == 0..Torn
Archives == [parts : [1..Parts -> Versions], since : 0..MaxWrites, policy : Policies,
             sanitized : BOOLEAN]

(* An archive is neither a file of somebody else nor the lack of one.      *)
ASSUME OutputAssumption == {None, Foreign} \cap Archives = {} /\ None # Foreign

Idle == [policy |-> None, online |-> FALSE, since |-> 0, parts |-> <<>>, sanitized |-> FALSE,
         copied |-> None, holds |-> {}, made |-> {}, leaked |-> {}, next |-> None,
         failed |-> FALSE, unclean |-> FALSE, stuck |-> FALSE, result |-> None]

CaptureLabels ==
    {"idle", "begin", "origin", "drop_resume", "drop_view", "drop_remove", "drop_thaw", "drop_loop",
     "drop_file", "cow", "cowloop", "suspend", "map", "resume", "verify",
     "private_cow", "private_loop", "private_map", "private_verify",
     "remove_private", "remove_ploop", "remove_pcow", "copy", "sanitize",
     "open", "read", "rest", "stage", "end_copy", "settle", "publish", "publish_unlink"}

CaptureTypeOK ==
    /\ running \in BOOLEAN /\ content \in 0..MaxWrites
    /\ devs \subseteq Devices /\ orphans \subseteq Private
    /\ suspended \in BOOLEAN /\ invalid \in BOOLEAN /\ frozen \in Versions
    /\ output \in Archives \cup {None, Foreign}
    /\ cancelled \in BOOLEAN /\ pc \in CaptureLabels /\ faults \in 0..CaptureBudget
    /\ call.policy \in Policies \cup {None} /\ call.holds \cup call.made \subseteq Devices

(* Every variable has its type, and nothing refers to what is not there:   *)
(* a mapping has its loop devices, a loop device its backing file.  A loop *)
(* whose file is gone is what remove_snapshot_view calls an orphan and     *)
(* refuses to touch, and it would bar every later capture.                 *)
NothingDangles ==
    /\ CaptureTypeOK
    /\ ("origin" \in devs => "loop" \in devs) /\ (suspended => "origin" \in devs)
    /\ ("cowloop" \in devs => "cow" \in devs)
    /\ ("view" \in devs => {"cowloop", "origin"} \subseteq devs)
    /\ \A made \in {devs, orphans} :
         /\ ("ploop" \in made => "pcow" \in made)
         /\ ("private" \in made => "ploop" \in made /\ "view" \in devs)

Init ==
    /\ running = FALSE /\ content = 0
    /\ devs = {} /\ orphans = {} /\ suspended = FALSE /\ invalid = FALSE /\ frozen = 0
    /\ output = None /\ cancelled = FALSE /\ pc = "idle" /\ call = Idle /\ faults = 0

(***************************************************************************)
(* snapshot_cow_size, in whole sectors, and what a persistent snapshot     *)
(* needs: chunks of 64 sectors, one for the header and one of metadata for *)
(* every 2048 chunks, the one after the last included.                     *)
(***************************************************************************)
ChunkSectors == 64
ReserveSectors == 32768
CowSectors(sectors) ==
    sectors + (IF sectors \div 16 > ReserveSectors THEN sectors \div 16 ELSE ReserveSectors) + 1

DiskChunks(sectors) == (sectors + ChunkSectors - 1) \div ChunkSectors
NeededChunks(sectors) == DiskChunks(sectors) + 1 + (DiskChunks(sectors) \div 2048 + 1)

(***************************************************************************)
(* Control flow of the call.                                               *)
(***************************************************************************)
CaptureFault(kind) == kind \in CaptureFaults /\ faults < CaptureBudget /\ faults' = faults + 1
Fine == UNCHANGED faults
Broken == CaptureFault("io")
FailsIf(condition) == (condition /\ Fine) \/ Broken

Goto(label) == pc' = label /\ UNCHANGED call
Fail(label) == pc' = label /\ call' = [call EXCEPT !.failed = TRUE]
Make(d) == devs' = devs \cup {d} /\ UNCHANGED <<orphans, suspended, invalid, frozen>>
Unmake(d) == devs' = devs \ {d} /\ UNCHANGED <<orphans, suspended, invalid, frozen>>
Thaw == suspended' = FALSE /\ UNCHANGED <<devs, orphans, invalid, frozen>>
Note(d, label) == pc' = label /\ call' = [call EXCEPT !.made = @ \cup {d}]
Return(result) ==
    pc' = "idle" /\ call' = [Idle EXCEPT !.result = result] /\ cancelled' = FALSE

(* What the worker removes once the archive is written or has failed:      *)
(* what it holds a path of, in this order.                                 *)
Ending(holds) ==
    IF "private" \in holds THEN "remove_private"
    ELSE IF "copy" \in holds THEN "end_copy"
    ELSE IF "view" \in holds THEN "drop_resume" ELSE "settle"

End(c) == pc' = Ending(c.holds) /\ call' = [c EXCEPT !.next = "settle"]
GiveUp == End([call EXCEPT !.failed = TRUE])

At(label) == pc = label
OnHost == UNCHANGED <<guest, output, cancelled>>
Aside == UNCHANGED <<guest, host, output, cancelled>>

(***************************************************************************)
(* create_snapshot: checks, and the first thing the worker does.  A call   *)
(* names its private view and its files after itself: what an earlier one  *)
(* left of these it neither sees nor removes.                              *)
(***************************************************************************)
InvokeCapture(policy) ==
    /\ At("idle") /\ pc' = "begin"
    /\ orphans' = orphans \cup (devs \cap Private) /\ devs' = devs \ (Private \cup Files)
    /\ call' = [Idle EXCEPT !.policy = policy, !.online = running, !.since = content]
    /\ UNCHANGED <<guest, suspended, invalid, frozen, output, cancelled, faults>>

Cancel == ~At("idle") /\ ~cancelled /\ CaptureFault("cancel") /\ cancelled' = TRUE
          /\ UNCHANGED <<guest, host, output, pc, call>>

Begin ==
    /\ At("begin") /\ Fine /\ Aside
    /\ \/ cancelled /\ Fail("settle")
       \/ ~cancelled /\ Goto(IF call.online THEN "origin"
                             ELSE IF call.policy = "regenerate" THEN "copy" ELSE "open")

(* create_snapshot_view begins: the guest's mapping must be there and      *)
(* verify; a killed call may have left it suspended.                       *)
VerifyOrigin ==
    /\ At("origin")
    /\ \/ "origin" \in devs /\ Fine /\ Thaw /\ pc' = "drop_resume"
          /\ call' = [call EXCEPT !.next = "cow"]
       \/ FailsIf("origin" \notin devs) /\ Fail("settle") /\ UNCHANGED host
    /\ OnHost

(***************************************************************************)
(* remove_snapshot_view, used before a view is made, when making one       *)
(* failed, and at the end.                                                 *)
(***************************************************************************)
DropFails(c) == pc' = "settle" /\ call' = [c EXCEPT !.failed = TRUE, !.unclean = c.made # {}]

DropResume ==
    /\ At("drop_resume")
    /\ \/ Fine /\ Thaw /\ Goto("drop_view")
       \/ Broken /\ DropFails([call EXCEPT !.stuck = suspended]) /\ UNCHANGED host
    /\ OnHost

(* The view is removed while the guest is suspended, and only if nothing   *)
(* has it open: a private view does.                                       *)
DropView ==
    /\ At("drop_view")
    /\ \/ "view" \notin devs /\ Fine /\ Goto("drop_loop") /\ UNCHANGED host
       \/ /\ "view" \in devs /\ "private" \notin devs \cup orphans /\ Fine
          /\ suspended' = TRUE /\ Goto("drop_remove")
          /\ UNCHANGED <<devs, orphans, invalid, frozen>>
       \/ /\ "view" \in devs /\ FailsIf("private" \in devs \cup orphans)
          /\ DropFails(call) /\ UNCHANGED host
    /\ OnHost

RemoveViewUnlessItFails ==
    /\ At("drop_remove")
    /\ \/ Fine /\ Unmake("view") /\ Goto("drop_thaw")
       \/ Broken /\ DropFails(call) /\ (Unmake("view") \/ UNCHANGED host)
    /\ OnHost

(* The command fails, or it succeeds and the wait that follows does not    *)
(* see it.                                                                 *)
RemoveView ==
    /\ At("drop_remove")
    /\ \/ Fine /\ Unmake("view") /\ Goto("drop_thaw")
       \/ /\ Broken /\ (Unmake("view") \/ UNCHANGED host)
          /\ pc' = "drop_thaw" /\ call' = [call EXCEPT !.next = "failed"]
    /\ OnHost

(* The guest is resumed whether or not the view could be removed.          *)
DropThaw ==
    /\ At("drop_thaw")
    /\ \/ Fine /\ Thaw /\ (IF call.next = "failed" THEN DropFails(call) ELSE Goto("drop_loop"))
       \/ Broken /\ DropFails([call EXCEPT !.stuck = TRUE]) /\ UNCHANGED host
    /\ OnHost

Dropped == IF call.next = "cow" THEN Goto("cow") ELSE Goto("settle")

DropLoopAfterFile ==
    /\ At("drop_loop")
    /\ \/ Fine /\ Unmake("cow") /\ Goto("drop_file")
       \/ Broken /\ DropFails(call) /\ UNCHANGED host
    /\ OnHost

(* cleanup_snapshot_backing: first the loop device, then its file.         *)
DropLoop ==
    /\ At("drop_loop")
    /\ \/ "cow" \in devs /\ Fine /\ Unmake("cowloop") /\ Goto("drop_file")
       \/ {"cow", "cowloop"} \cap devs = {} /\ Fine /\ Dropped /\ UNCHANGED host
       \/ Broken /\ DropFails(call) /\ UNCHANGED host
    /\ OnHost

DropFile ==
    /\ At("drop_file")
    /\ \/ Fine /\ Unmake("cow") /\ Dropped
       \/ Broken /\ DropFails(call) /\ UNCHANGED host
    /\ OnHost

(***************************************************************************)
(* create_snapshot_view, after what was there has been removed.            *)
(***************************************************************************)
UndoView == pc' = "drop_resume" /\ call' = [call EXCEPT !.failed = TRUE, !.next = "settle"]

(* A file that could not be filled is removed, if it can be.               *)
AllocateCow ==
    /\ At("cow")
    /\ \/ Fine /\ Make("cow") /\ Note("cow", "cowloop")
       \/ Broken /\ Fail("settle") /\ UNCHANGED host
       \/ /\ Broken /\ Make("cow") /\ pc' = "settle"
          /\ call' = [call EXCEPT !.failed = TRUE, !.unclean = TRUE]
    /\ OnHost

AttachCow ==
    /\ At("cowloop")
    /\ \/ Fine /\ Make("cowloop") /\ Note("cowloop", "suspend")
       \/ /\ Broken /\ (Make("cowloop") \/ UNCHANGED host)
          /\ pc' = "drop_loop"
          /\ call' = [call EXCEPT !.failed = TRUE, !.next = "settle", !.made = @ \cup {"cowloop"}]
    /\ OnHost

SkipSuspend == At("suspend") /\ Goto("map") /\ UNCHANGED <<guest, host, output, cancelled, faults>>

Suspend ==
    /\ At("suspend")
    /\ \/ Fine /\ suspended' = TRUE /\ Goto("map") /\ UNCHANGED <<devs, orphans, invalid, frozen>>
       \/ Broken /\ UndoView /\ UNCHANGED host
    /\ OnHost

(* The view shows the disk as it is when the guest is suspended; of a      *)
(* disk that is being written there is no telling what it would show.      *)
(* Device Mapper is asked once more without the overflow mode when it does *)
(* not know it.                                                            *)
MapView ==
    /\ At("map")
    /\ \/ /\ Fine /\ devs' = devs \cup {"view"} /\ invalid' = FALSE
          /\ frozen' = IF suspended THEN content ELSE Torn
          /\ Note("view", "resume") /\ UNCHANGED <<orphans, suspended>>
       \/ Broken /\ pc' = "resume" /\ call' = [call EXCEPT !.failed = TRUE] /\ UNCHANGED host
    /\ OnHost

(* The guest is resumed whether or not the view could be mapped.           *)
Resume ==
    /\ At("resume")
    /\ \/ Fine /\ Thaw /\ (IF call.failed THEN UndoView ELSE Goto("verify"))
       \/ Broken /\ UndoView /\ UNCHANGED host
    /\ OnHost

VerifyViewWithoutUndo ==
    /\ At("verify")
    /\ \/ /\ Fine /\ ~invalid /\ call' = [call EXCEPT !.holds = @ \cup {"view"}]
          /\ pc' = IF call.policy = "regenerate" THEN "private_cow" ELSE "open"
       \/ FailsIf(invalid) /\ Fail("settle")
    /\ UNCHANGED host /\ OnHost

(* find, table, status and the device node of the new view.                *)
VerifyView ==
    /\ At("verify")
    /\ \/ /\ Fine /\ ~invalid /\ call' = [call EXCEPT !.holds = @ \cup {"view"}]
          /\ pc' = IF call.policy = "regenerate" THEN "private_cow" ELSE "open"
       \/ FailsIf(invalid) /\ UndoView
    /\ UNCHANGED host /\ OnHost

(***************************************************************************)
(* create_private_snapshot: a writable snapshot of the view, or a copy     *)
(* where Device Mapper cannot nest them.                                   *)
(***************************************************************************)
ViewIsSound == "view" \in devs /\ ~invalid

(* As AllocateCow, but an error in looking at the new file returns without *)
(* removing it.                                                            *)
AllocatePrivate ==
    /\ At("private_cow")
    /\ \/ ViewIsSound /\ Fine /\ Make("pcow") /\ Note("pcow", "private_loop")
       \/ FailsIf(~ViewIsSound) /\ GiveUp /\ UNCHANGED host
       \/ /\ Broken /\ Make("pcow")
          /\ LET c == [call EXCEPT !.failed = TRUE, !.made = @ \cup {"pcow"}] IN
             End([c EXCEPT !.unclean = TRUE]) \/ End([c EXCEPT !.leaked = {"pcow"}])
    /\ OnHost

UndoPrivate(label) ==
    pc' = label /\ call' = [call EXCEPT !.failed = TRUE, !.next = "settle"]

AttachPrivate ==
    /\ At("private_loop")
    /\ \/ Fine /\ Make("ploop") /\ Note("ploop", "private_map")
       \/ Broken /\ UndoPrivate("remove_pcow") /\ UNCHANGED host
       \/ /\ Broken /\ pc' = "remove_ploop" /\ Make("ploop")
          /\ call' = [call EXCEPT !.failed = TRUE, !.next = "settle", !.made = @ \cup {"ploop"}]
    /\ OnHost

(* The parent's device numbers are read first: a failure there returns     *)
(* without removing the loop device and its file.                          *)
MapPrivate ==
    /\ At("private_map")
    /\ \/ ViewIsSound /\ Fine /\ Make("private") /\ Note("private", "private_verify")
       \/ /\ Broken /\ UNCHANGED host
          /\ End([call EXCEPT !.failed = TRUE, !.leaked = {"pcow", "ploop"}])
       \/ FailsIf(~ViewIsSound) /\ UndoPrivate("remove_ploop") /\ UNCHANGED host
       \/ /\ Fine /\ pc' = "remove_ploop" /\ call' = [call EXCEPT !.next = "copy"]
          /\ UNCHANGED host
    /\ OnHost

VerifyPrivate ==
    /\ At("private_verify")
    /\ \/ /\ ViewIsSound /\ Fine /\ pc' = "sanitize"
          /\ call' = [call EXCEPT !.holds = @ \cup {"private"}]
       \/ FailsIf(~ViewIsSound) /\ UndoPrivate("remove_private")
    /\ UNCHANGED host /\ OnHost

(* remove_private_snapshot and cleanup_private_backing: mapping, loop      *)
(* device, file.                                                           *)
PrivateStays ==
    End([call EXCEPT !.failed = TRUE, !.unclean = TRUE, !.holds = @ \ {"private"}])

RemovePrivate ==
    /\ At("remove_private")
    /\ \/ Fine /\ Unmake("private") /\ Goto("remove_ploop")
       \/ Broken /\ PrivateStays /\ (Unmake("private") \/ UNCHANGED host)
    /\ OnHost

RemovePrivateLoop ==
    /\ At("remove_ploop")
    /\ \/ Fine /\ Unmake("ploop") /\ Goto("remove_pcow")
       \/ Broken /\ PrivateStays /\ UNCHANGED host
    /\ OnHost

RemovePrivateCow ==
    /\ At("remove_pcow")
    /\ \/ /\ Fine /\ Unmake("pcow")
          /\ IF call.next = "copy" THEN Goto("copy")
             ELSE End([call EXCEPT !.holds = @ \ {"private"}])
       \/ Broken /\ PrivateStays /\ UNCHANGED host
    /\ OnHost

(* private_snapshot_copy_path and copy_stable_view_exact, of the view or   *)
(* of a stopped guest's disk: neither changes meanwhile, so that the copy  *)
(* is one step.                                                            *)
Source == IF "view" \in call.holds THEN frozen ELSE content

CopyDisk ==
    /\ At("copy")
    /\ \/ /\ ~cancelled /\ (call.online => ViewIsSound) /\ Fine
          /\ Make("copy") /\ pc' = "sanitize"
          /\ call' = [call EXCEPT !.copied = Source, !.holds = @ \cup {"copy"},
                                  !.made = @ \cup {"copy"}]
       \/ FailsIf(cancelled \/ (call.online /\ ~ViewIsSound)) /\ GiveUp /\ UNCHANGED host
       \/ /\ Broken /\ Make("copy")
          /\ End([call EXCEPT !.failed = TRUE, !.unclean = TRUE])
    /\ OnHost

(* prepare_private_snapshot_view takes the address out of the guest files  *)
(* of the private view or copy.                                            *)
Sanitize ==
    /\ At("sanitize")
    /\ \/ Fine /\ pc' = "open" /\ call' = [call EXCEPT !.sanitized = TRUE]
       \/ Broken /\ GiveUp
    /\ Aside

(***************************************************************************)
(* create_archive_with_progress: a temporary file, which is linked to the  *)
(* staged name once it is complete.                                        *)
(***************************************************************************)
Sound == call.online => ViewIsSound

OpenTemporary ==
    /\ At("open")
    /\ \/ Fine /\ Make("tmp") /\ Note("tmp", "read")
       \/ Broken /\ GiveUp /\ UNCHANGED host
    /\ OnHost

(* The temporary file of a failed archive is removed, or reported when it  *)
(* cannot be.                                                              *)
Discard(forced) ==
    \/ FailsIf(forced) /\ Unmake("tmp") /\ GiveUp
    \/ Broken /\ UNCHANGED host /\ End([call EXCEPT !.failed = TRUE, !.unclean = TRUE])

(* Every read looks at the token first and, now and then, at the view; a   *)
(* view that was invalidated cannot be read.                               *)
ReadDisk ==
    /\ At("read")
    /\ \/ /\ ~cancelled /\ Sound /\ Fine /\ UNCHANGED host
          /\ call' = [call EXCEPT !.parts =
                Append(@, IF "copy" \in call.holds THEN call.copied ELSE Source)]
          /\ pc' = IF Len(call'.parts) = Parts THEN "rest" ELSE "read"
       \/ Discard(cancelled \/ ~Sound)
    /\ OnHost

(* The kernel and the keys, the manifest, the end of the streams, and a    *)
(* last look at the token and at the view.                                 *)
FinishArchive ==
    /\ At("rest")
    /\ \/ ~cancelled /\ Sound /\ Fine /\ Goto("stage") /\ UNCHANGED host
       \/ Discard(cancelled \/ ~Sound)
    /\ OnHost

StageArchive ==
    /\ At("stage")
    /\ \/ /\ Fine /\ devs' = (devs \ {"tmp"}) \cup {"staged"}
          /\ End([call EXCEPT !.holds = @ \cup {"staged"}, !.made = @ \cup {"staged"}])
       \/ \E left \in SUBSET {"tmp", "staged"} :
            /\ Broken /\ devs' = (devs \ {"tmp"}) \cup left
            /\ End([call EXCEPT !.failed = TRUE, !.unclean = left # {}])
    /\ UNCHANGED <<orphans, suspended, invalid, frozen>> /\ OnHost

(***************************************************************************)
(* The end of the worker: what it holds is removed, and the archive is     *)
(* published only when nothing of that failed.                             *)
(***************************************************************************)
RemoveCopy ==
    /\ At("end_copy")
    /\ \/ Fine /\ Unmake("copy") /\ End([call EXCEPT !.holds = @ \ {"copy"}])
       \/ /\ Broken /\ UNCHANGED host
          /\ End([call EXCEPT !.holds = @ \ {"copy"}, !.failed = TRUE, !.unclean = TRUE])
    /\ OnHost

Outcome(c) == IF c.unclean THEN "cleanup" ELSE "failed"
Withdraw(c) ==
    \/ Fine /\ Unmake("staged") /\ Return(Outcome(c))
    \/ Broken /\ UNCHANGED host /\ Return("cleanup")

SettleIgnoringFailures ==
    /\ At("settle") /\ UNCHANGED <<guest, output>>
    /\ \/ /\ "staged" \in call.holds /\ ~cancelled
          /\ Fine /\ Goto("publish") /\ UNCHANGED <<host, cancelled>>
       \/ "staged" \in call.holds /\ cancelled /\ Withdraw(call)
       \/ "staged" \notin call.holds /\ Fine /\ UNCHANGED host /\ Return(Outcome(call))

Settle ==
    /\ At("settle") /\ UNCHANGED <<guest, output>>
    /\ \/ /\ "staged" \in call.holds /\ ~call.failed /\ ~cancelled
          /\ Fine /\ Goto("publish") /\ UNCHANGED <<host, cancelled>>
       \/ "staged" \in call.holds /\ (call.failed \/ cancelled) /\ Withdraw(call)
       \/ "staged" \notin call.holds /\ Fine /\ UNCHANGED host /\ Return(Outcome(call))

Archive == [parts |-> call.parts, since |-> call.since, policy |-> call.policy,
            sanitized |-> call.sanitized]

(* publish_staged_archive links the name, which fails when it exists.  An  *)
(* error in looking whether it does returns without removing the staged    *)
(* archive.                                                                *)
Publish ==
    /\ At("publish") /\ UNCHANGED guest
    /\ \/ /\ output = None /\ Fine /\ output' = Archive /\ Goto("publish_unlink")
          /\ UNCHANGED <<host, cancelled>>
       \/ output # None /\ Withdraw(call) /\ UNCHANGED output
       \/ Broken /\ Unmake("staged") /\ Return("failed") /\ UNCHANGED output
       \/ Broken /\ UNCHANGED <<host, output>> /\ Return("cleanup")
       \/ /\ Broken /\ UNCHANGED <<host, output>> /\ pc' = "idle" /\ cancelled' = FALSE
          /\ call' = [Idle EXCEPT !.result = "failed", !.leaked = {"staged"}]

(* When the staged name cannot be removed or the directory not synced, the *)
(* published one is removed again, if it can be.                           *)
FinishPublication ==
    /\ At("publish_unlink") /\ UNCHANGED guest
    /\ \/ Fine /\ Unmake("staged") /\ Return("done") /\ UNCHANGED output
       \/ Broken /\ output' = None /\ Unmake("staged") /\ Return("failed")
       \/ Broken /\ output' = None /\ UNCHANGED host /\ Return("cleanup")
       \/ Broken /\ UNCHANGED <<output, host>> /\ Return("cleanup")

(***************************************************************************)
(* The guest, the host and everybody else.  start_microvm and stop_microvm *)
(* take the lock that a capture holds; VmLifecycle has their steps.        *)
(***************************************************************************)
GuestWrites ==
    /\ running /\ ~suspended /\ content < MaxWrites /\ content' = content + 1
    /\ UNCHANGED <<running, host, output, cancelled, pc, call, faults>>

GuestExits ==
    /\ running /\ running' = FALSE
    /\ UNCHANGED <<content, host, output, cancelled, pc, call, faults>>

StartGuest ==
    /\ At("idle") /\ ~running /\ running' = TRUE
    /\ devs' = devs \cup Lasting
    /\ UNCHANGED <<content, orphans, suspended, invalid, frozen, output, cancelled, pc,
                   call, faults>>

(* release_mapping refuses a mapping that is in use: a view holds it open. *)
StopGuest ==
    /\ At("idle") /\ Lasting \cap devs # {}
    /\ running' = FALSE
    /\ \/ "view" \in devs /\ UNCHANGED <<devs, suspended>>
       \/ "view" \notin devs /\ devs' = devs \ Lasting /\ suspended' = FALSE
    /\ UNCHANGED <<content, orphans, invalid, frozen, output, cancelled, pc, call, faults>>

Invalidate ==
    /\ "view" \in devs /\ ~invalid /\ Broken /\ invalid' = TRUE
    /\ UNCHANGED <<guest, devs, orphans, suspended, frozen, output, cancelled, pc, call>>

Occupy ==
    /\ output = None /\ output' = Foreign
    /\ UNCHANGED <<guest, host, cancelled, pc, call, faults>>

Crash ==
    /\ ~At("idle") /\ CaptureFault("crash") /\ Return("killed")
    /\ UNCHANGED <<guest, host, output>>

Reboot ==
    /\ CaptureFault("reboot") /\ Return("killed") /\ running' = FALSE
    /\ devs' = devs \ Kernel /\ orphans' = orphans \ Kernel
    /\ suspended' = FALSE /\ invalid' = FALSE
    /\ UNCHANGED <<content, frozen, output>>

DropSteps == \/ DropResume \/ DropView \/ RemoveView \/ DropThaw \/ DropLoop \/ DropFile
ViewSteps == \/ VerifyOrigin \/ AllocateCow \/ AttachCow \/ Suspend \/ MapView \/ Resume
             \/ VerifyView
PrivateSteps == \/ AllocatePrivate \/ AttachPrivate \/ MapPrivate \/ VerifyPrivate
                \/ RemovePrivate \/ RemovePrivateLoop \/ RemovePrivateCow
                \/ CopyDisk \/ Sanitize
ArchiveSteps == \/ OpenTemporary \/ ReadDisk \/ FinishArchive \/ StageArchive
EndSteps == RemoveCopy \/ Settle \/ Publish \/ FinishPublication

Worker == Begin \/ DropSteps \/ ViewSteps \/ PrivateSteps \/ ArchiveSteps \/ EndSteps
Environment == \/ GuestWrites \/ GuestExits \/ StartGuest \/ StopGuest \/ Invalidate
               \/ Occupy \/ Cancel \/ Crash \/ Reboot

Next == (\E policy \in Policies : InvokeCapture(policy)) \/ Worker \/ Environment

Spec == Init /\ [][Next]_vars

(***************************************************************************)
(* Properties.                                                             *)
(***************************************************************************)

(* A published archive holds the disk as it was at one moment, not before  *)
(* the snapshot was asked for, although the guest goes on writing while it *)
(* is read; and it is sanitized if that was asked for.                     *)
ArchiveIsOneMoment ==
    output \in Archives =>
        /\ \A i \in 1..Parts : output.parts[i] = output.parts[1]
        /\ output.parts[1] \in output.since..MaxWrites
        /\ output.sanitized <=> output.policy = "regenerate"

Returns == pc # "idle" /\ pc' = "idle" /\ call'.result # "killed"

(* A call that has found the guest's mapping never returns with the guest  *)
(* suspended, whatever fails in it, unless the commands that resume it     *)
(* fail too.                                                               *)
ReturnsThawed ==
    [][Returns /\ call.online /\ call.next # None /\ suspended' => call.stuck]_vars

(* A call that fails without reporting that its cleanup failed has removed *)
(* every file and device it made.  Three error paths are known not to: see *)
(* AllocatePrivate, MapPrivate and Publish.                                *)
CleanReturn ==
    [][Returns /\ call'.result \in {"failed", "done"}
       => call.made \cap devs' \subseteq call.leaked \cup call'.leaked]_vars

(* An archive gets its name only when everything temporary that the call   *)
(* made is gone and the guest runs freely, and it never takes the name of  *)
(* a file that somebody else put there, even while it was being written.   *)
PublishesSafely ==
    [][/\ output = Foreign => output' = Foreign
       /\ output' # output /\ output' \in Archives
            => call.made \cap devs \subseteq {"staged"} /\ (call.online => ~suspended)]_vars

=============================================================================
