------------------------------ MODULE RootDisk ------------------------------
(***************************************************************************)
(* The root disk file of one machine: how long the file is, how much of it *)
(* the ext4 filesystem spans, and the few guest files the SDK edits.       *)
(*                                                                         *)
(* A creation grows a copy of the image and edits the guest's keys and     *)
(* network files with debugfs, offline.  An update resizes file and        *)
(* filesystem in separate steps and the database last.  A snapshot strips  *)
(* the network unit from a private copy and a restore writes a new one.    *)
(* The lifecycle lock admits one of these calls at a time; what makes them *)
(* hard is that each is many host commands, any of which may fail, and     *)
(* that the process may die between two of them.                           *)
(*                                                                         *)
(* Sizes are counted in units of which a filesystem block has Block.       *)
(*                                                                         *)
(* A definition that nothing uses is a deliberately wrong variant of the   *)
(* one that follows it; the README lists which property it breaks.         *)
(***************************************************************************)
EXTENDS Integers, Sequences, SequencesExt, FiniteSets

CONSTANTS
    Block,          \* units in one filesystem block
    Sizes,          \* disk sizes that may be asked for
    ImageSize,      \* length of the image file, spanned by its filesystem
    Images,         \* guest trees an image may ship
    KeyTypes,       \* host key types, HOST_KEY_TYPES
    GuestEdits,     \* what a running guest may do to a file: [path, node]
    MaxCalls,       \* bound: calls of the SDK
    FaultBudget     \* bound: failed host commands and killed processes

Floor(size) == size - (size % Block)

ASSUME RootDiskAssumption ==
    /\ Block \in Nat \ {0}
    /\ ImageSize \in Nat \ {0} /\ ImageSize % Block = 0
    /\ Sizes \subseteq Nat \ {0}

Private(t) == "etc/ssh/" \o t
Public(t) == Private(t) \o ".pub"

Directories == {"root", "root/.ssh", "etc", "etc/ssh", "etc/systemd", "etc/systemd/network"}
HostKeyFiles == {Private(t) : t \in KeyTypes} \cup {Public(t) : t \in KeyTypes}
Paths == Directories \cup HostKeyFiles \cup {"authorized_keys", "10-taumaru.network", "resolv.conf"}

\* No path stands for two files.
ASSUME KeyTypesAssumption ==
    /\ IsFiniteSet(KeyTypes)
    /\ \A t \in KeyTypes :
         /\ Private(t) \notin Directories \cup {"authorized_keys", "10-taumaru.network", "resolv.conf"}
         /\ Public(t) \notin Directories \cup {"authorized_keys", "10-taumaru.network", "resolv.conf"}
         /\ \A u \in KeyTypes :
              /\ Private(t) # Public(u)
              /\ t # u => Private(t) # Private(u) /\ Public(t) # Public(u)

\* An image ships no key twice, and no host key that the SDK makes later.
ASSUME TreeAssumption ==
    \A image \in Images :
        /\ DOMAIN image = Paths
        /\ \A p \in Paths : DOMAIN image[p] = {"kind", "mode", "data"}
        /\ image["authorized_keys"].data \in Seq(STRING)
        /\ IsInjective(image["authorized_keys"].data)
        /\ image["authorized_keys"].kind = "absent" => image["authorized_keys"].data = << >>
        /\ \A t \in KeyTypes : image[Private(t)].data # <<"generated">>
ASSUME GuestEditsAssumption ==
    \A e \in GuestEdits : e.path \in Paths /\ DOMAIN e.node = {"kind", "mode", "data"}
ASSUME BudgetAssumption == MaxCalls \in Nat /\ FaultBudget \in Nat

Node(kind, mode, data) == [kind |-> kind, mode |-> mode, data |-> data]
Absent == Node("absent", "none", << >>)

VARIABLES
    disk,       \* [len, fs]: the file and the filesystem in it, 0 if no file
    used,       \* what the filesystem holds: resize2fs -P
    db,         \* disk_size_bytes of the machine's row, 0 if there is no row
    guest,      \* guest[p]: what the filesystem has at path p
    archive,    \* a snapshot of this machine: [disk, guest, used]
    running,    \* the guest runs
    job,        \* the SDK call under way
    spent       \* how much of each bound is used up

vars == <<disk, used, db, guest, archive, running, job, spent>>

NoDisk == [len |-> 0, fs |-> 0]
NoTree == [p \in Paths |-> Absent]
NoArchive == [disk |-> NoDisk, guest |-> NoTree, used |-> 0]

IdleJob == [pc |-> "idle", kind |-> "update", todo |-> << >>, size |-> 0, goal |-> 0,
            call |-> "resize", reason |-> "none", clean |-> TRUE]

Init ==
    /\ disk = NoDisk /\ used = 0 /\ db = 0
    /\ guest = NoTree
    /\ archive = NoArchive
    /\ running = FALSE
    /\ job = IdleJob
    /\ spent = [calls |-> 0, faults |-> 0]

At(pc) == job.pc = pc
Goto(pc) == job' = [job EXCEPT !.pc = pc]
Step(op, path) == [op |-> op, path |-> path]

---------------------------------------------------------------------------
(* The guest files, in the order they are edited.                          *)

EnsureAll(paths) == [i \in DOMAIN paths |-> Step("directory", paths[i])]

\* inject_public_key, then ensure_host_keys.
KeySteps ==
    EnsureAll(<<"root", "root/.ssh">>)
        \o <<Step("chmod", "root/.ssh"), Step("keys", "authorized_keys"),
             Step("chmod", "authorized_keys")>>
        \o EnsureAll(<<"etc", "etc/ssh">>)
        \o [i \in 1..Cardinality(KeyTypes) |->
               Step("host key", Private(SetToSeq(KeyTypes)[i]))]

\* write_guest_ipv4_config, then write_guest_resolv_conf.
NetworkSteps ==
    EnsureAll(<<"etc", "etc/systemd", "etc/systemd/network">>)
        \o <<Step("unit", "10-taumaru.network"), Step("chmod", "10-taumaru.network"),
             Step("resolver", "resolv.conf"), Step("chmod", "resolv.conf")>>

Mode(path) ==
    CASE path = "root/.ssh" -> "0700"
      [] path = "authorized_keys" -> "0600"
      [] OTHER -> "0644"

Now == Head(job.todo)
Doing(op) == At("edit") /\ job.todo # << >> /\ Now.op = op
Here == guest[Now.path]
Done == job' = [job EXCEPT !.todo = Tail(@)]
Refuse == Goto("failed")
SetNode(path, node) == guest' = [guest EXCEPT ![path] = node]
Write(path, data) == SetNode(path, Node("regular", "default", data))

MakeDirectory(path) == SetNode(path, Node("directory", "default", << >>))

\* A missing directory is made; a link or a file in its place is refused.
EnsureDirectory ==
    /\ Doing("directory")
    /\ CASE Here.kind = "absent" ->
                MakeDirectory(Now.path) /\ Done
         [] Here.kind = "directory" -> Done /\ UNCHANGED guest
         [] OTHER -> Refuse /\ UNCHANGED guest
    /\ UNCHANGED <<disk, used, db, archive, running, spent>>

Chmod ==
    /\ Doing("chmod")
    /\ SetNode(Now.path, [Here EXCEPT !.mode = Mode(Now.path)])
    /\ Done
    /\ UNCHANGED <<disk, used, db, archive, running, spent>>

\* What the file being written is to hold.
Contents(path) ==
    CASE path = "authorized_keys" ->
            LET existing == IF Here.kind = "regular" THEN Here.data ELSE << >>
            IN  IF Contains(existing, "new key") THEN existing ELSE Append(existing, "new key")
      [] path = "10-taumaru.network" -> <<"address">>
      [] OTHER -> <<"static">>

(* Keys, unit and resolver: a new file is written at once; an existing one *)
(* is removed by one debugfs command and written by the next.  Only        *)
(* resolv.conf may be a link, which is removed like a file.                *)
EditFile ==
    /\ Doing("keys") \/ Doing("unit") \/ Doing("resolver")
    /\ LET kept == Now.op = "keys" /\ Here.kind = "regular" /\ Contains(Here.data, "new key")
       IN  CASE Here.kind = "absent" -> Write(Now.path, Contents(Now.path)) /\ Done
             [] kept -> Done /\ UNCHANGED guest
             [] ~kept /\ (Here.kind = "regular" \/ (Here.kind = "symlink" /\ Now.op = "resolver")) ->
                  /\ job' = [job EXCEPT !.todo =
                                <<[op |-> "write", path |-> Now.path, data |-> Contents(Now.path)]>>
                                    \o Tail(@)]
                  /\ SetNode(Now.path, Absent)
             [] OTHER -> Refuse /\ UNCHANGED guest
    /\ UNCHANGED <<disk, used, db, archive, running, spent>>

WriteReplacement ==
    /\ Doing("write")
    /\ Write(Now.path, Now.data)
    /\ Done
    /\ UNCHANGED <<disk, used, db, archive, running, spent>>

(* An existing private key is kept as it is.  Otherwise a pair is made,    *)
(* and the private half goes in first.                                     *)
GenerateHostKey ==
    /\ Doing("host key")
    /\ CASE Here.kind = "absent" ->
              /\ Write(Now.path, <<"generated">>)
              /\ job' = [job EXCEPT !.todo =
                            <<Step("public key", Now.path \o ".pub"), Step("private mode", Now.path),
                              Step("chmod", Now.path \o ".pub")>> \o Tail(@)]
         [] Here.kind = "regular" -> Done /\ UNCHANGED guest
         [] OTHER -> Refuse /\ UNCHANGED guest
    /\ UNCHANGED <<disk, used, db, archive, running, spent>>

PrivateOf(public) == CHOOSE f \in {Private(t) : t \in KeyTypes} : f \o ".pub" = public

WritePublicKeyIfMissing ==
    /\ Doing("public key")
    /\ IF Here.kind = "absent" THEN Write(Now.path, <<"generated">>) ELSE UNCHANGED guest
    /\ Done
    /\ UNCHANGED <<disk, used, db, archive, running, spent>>

\* debugfs does not write over a file; without the pair the private half goes.
WritePublicKey ==
    /\ Doing("public key")
    /\ IF Here.kind = "absent"
       THEN Write(Now.path, <<"generated">>) /\ Done
       ELSE SetNode(PrivateOf(Now.path), Absent) /\ Refuse
    /\ UNCHANGED <<disk, used, db, archive, running, spent>>

PrivateMode ==
    /\ Doing("private mode")
    /\ SetNode(Now.path, [Here EXCEPT !.mode = "0600"])
    /\ Done
    /\ UNCHANGED <<disk, used, db, archive, running, spent>>

EditStep ==
    \/ EnsureDirectory \/ Chmod \/ EditFile \/ WriteReplacement
    \/ GenerateHostKey \/ WritePublicKey \/ PrivateMode

---------------------------------------------------------------------------
(* create_microvm: copy, grow, edit, record.                               *)

Call(start) ==
    /\ At("idle") /\ spent.calls < MaxCalls
    /\ spent' = [spent EXCEPT !.calls = @ + 1]
    /\ job' = start

InvokeCreate(size, image) ==
    /\ db = 0 /\ size >= ImageSize
    /\ Call([IdleJob EXCEPT !.pc = "fill", !.kind = "create", !.size = size])
    /\ disk' = [len |-> size, fs |-> ImageSize]        \* copied, published at its size
    /\ used' = Floor(ImageSize)
    /\ guest' = image
    /\ UNCHANGED <<db, archive, running>>

\* resize2fs without a size fills the file; a disk of the image's size is kept.
FillImage ==
    /\ At("fill")
    /\ disk' = IF disk.len > ImageSize THEN [disk EXCEPT !.fs = Floor(disk.len)] ELSE disk
    /\ job' = [job EXCEPT !.pc = "edit", !.todo = KeySteps \o NetworkSteps]
    /\ UNCHANGED <<used, db, guest, archive, running, spent>>

InvokeRestore ==
    /\ db = 0 /\ archive.disk.len # 0
    /\ Call([IdleJob EXCEPT !.pc = "edit", !.kind = "restore", !.size = archive.disk.len,
                            !.todo = NetworkSteps])
    /\ disk' = archive.disk /\ used' = archive.used /\ guest' = archive.guest
    /\ UNCHANGED <<db, archive, running>>

\* The row of the new machine makes it one: verify_rootfs_size held before.
RecordMachine ==
    /\ At("edit") /\ job.todo = << >>
    /\ db' = job.size
    /\ Goto("ok")
    /\ UNCHANGED <<disk, used, guest, archive, running, spent>>

Discard == /\ disk' = NoDisk /\ used' = 0 /\ guest' = NoTree /\ db' = 0

\* The rollback of a creation or restore removes the volume.
DiscardVolume ==
    /\ At("failed") /\ job.kind \in {"create", "restore"}
    /\ Discard
    /\ job' = IdleJob
    /\ UNCHANGED <<archive, running, spent>>

InvokeDelete ==
    /\ db # 0 /\ ~running
    /\ Call(IdleJob)
    /\ Discard
    /\ UNCHANGED <<archive, running>>

(* The private copy of a capture has the recorded size and loses the       *)
(* network unit, which must be a regular file there; any failure fails the *)
(* capture and drops the copy.                                             *)
Sanitize ==
    /\ db # 0
    /\ Call(IdleJob)
    /\ archive' = IF disk.len = db /\ guest["10-taumaru.network"].kind = "regular"
                  THEN [disk |-> disk, used |-> used,
                        guest |-> [guest EXCEPT !["10-taumaru.network"] = Absent]]
                  ELSE archive
    /\ UNCHANGED <<disk, used, db, guest, running>>

---------------------------------------------------------------------------
(* update_microvm: converge the file to the record, resize, record.        *)

\* size = db stands for a change of memory or processors alone.
InvokeUpdate(size) ==
    /\ db # 0 /\ ~running
    /\ Call([IdleJob EXCEPT !.pc = "begin", !.size = size])
    /\ UNCHANGED <<disk, used, db, guest, archive, running>>

Resize(call, goal) == job' = [job EXCEPT !.pc = "probe", !.call = call, !.goal = goal]

BeginWithoutConverging ==
    /\ At("begin")
    /\ Goto("check")
    /\ UNCHANGED <<disk, used, db, guest, archive, running, spent>>

\* A file of another length than recorded is what an interrupted resize left.
BeginUpdate ==
    /\ At("begin")
    /\ IF disk.len # db THEN Resize("converge", db) ELSE Goto("check")
    /\ UNCHANGED <<disk, used, db, guest, archive, running, spent>>

CheckUsed ==
    /\ At("check")
    /\ CASE job.size = db -> Goto("record")
         [] job.size # db /\ job.size < used -> job' = [job EXCEPT !.pc = "failed", !.reason = "used"]
         [] OTHER -> Resize("resize", job.size)
    /\ UNCHANGED <<disk, used, db, guest, archive, running, spent>>

ResizeOk ==
    job' = [job EXCEPT !.pc = CASE job.call = "converge" -> "check"
                                [] job.call = "resize" -> "record"
                                [] OTHER -> "failed"]

\* Where a failure of the resize leads: the first one is rolled back.
ResizeFails(faulty) ==
    job' = [job EXCEPT
        !.clean = @ /\ ~faulty,
        !.pc = IF job.call = "resize" THEN "probe" ELSE "failed",
        !.call = IF @ = "resize" THEN "rollback" ELSE @,
        !.goal = IF job.call = "resize" THEN db ELSE @,
        !.reason = IF job.call = "resize" THEN "resize"
                   ELSE IF job.call = "rollback" THEN "cleanup" ELSE "converge"]

ProbeLength ==
    /\ At("probe")
    /\ IF disk.len = job.goal THEN ResizeOk
       ELSE Goto(IF job.goal > disk.len THEN "extend" ELSE "shrink")
    /\ UNCHANGED <<disk, used, db, guest, archive, running, spent>>

\* set_len, before resize2fs has the filesystem follow.
Extend ==
    /\ At("extend")
    /\ disk' = [disk EXCEPT !.len = job.goal]
    /\ Goto("grow")
    /\ UNCHANGED <<used, db, guest, archive, running, spent>>

Grow ==
    /\ At("grow")
    /\ disk' = [disk EXCEPT !.fs = Floor(disk.len)]
    /\ Goto("converge")
    /\ UNCHANGED <<used, db, guest, archive, running, spent>>

ShrinkFileFirst ==
    /\ At("shrink")
    /\ disk' = [disk EXCEPT !.len = job.goal]
    /\ Goto("grow")
    /\ UNCHANGED <<used, db, guest, archive, running, spent>>

(* resize2fs to a given size: it leaves everything alone if the filesystem *)
(* has that size, refuses what the content does not fit in, and otherwise  *)
(* cuts the file after the filesystem.                                     *)
Shrink ==
    /\ At("shrink")
    /\ CASE disk.fs = Floor(job.goal) -> Goto("converge") /\ UNCHANGED disk
         [] Floor(job.goal) < used -> ResizeFails(FALSE) /\ UNCHANGED disk
         [] OTHER -> disk' = [disk EXCEPT !.fs = Floor(job.goal)] /\ Goto("cut")
    /\ UNCHANGED <<used, db, guest, archive, running, spent>>

Cut ==
    /\ At("cut")
    /\ disk' = [disk EXCEPT !.len = disk.fs]
    /\ Goto("converge")
    /\ UNCHANGED <<used, db, guest, archive, running, spent>>

ConvergeTrustingLength ==
    /\ At("converge")
    /\ IF disk.len # job.goal THEN ResizeFails(FALSE) ELSE ResizeOk
    /\ UNCHANGED <<disk, used, db, guest, archive, running, spent>>

\* The filesystem as the superblock has it must fit; the file is set exactly.
Converge ==
    /\ At("converge")
    /\ IF disk.fs > job.goal THEN ResizeFails(FALSE) /\ UNCHANGED disk
       ELSE disk' = [disk EXCEPT !.len = job.goal] /\ ResizeOk
    /\ UNCHANGED <<used, db, guest, archive, running, spent>>

RecordUpdate ==
    /\ At("record")
    /\ db' = job.size
    /\ Goto("ok")
    /\ UNCHANGED <<disk, used, guest, archive, running, spent>>

\* A failed write of the row takes a changed disk back to its old size.
RecordFails ==
    IF job.size # db
    THEN job' = [job EXCEPT !.clean = FALSE, !.pc = "probe", !.call = "rollback",
                            !.goal = db, !.reason = "record"]
    ELSE job' = [job EXCEPT !.clean = FALSE, !.pc = "failed", !.reason = "record"]

UpdateStep ==
    \/ BeginUpdate \/ CheckUsed \/ ProbeLength \/ Extend \/ Grow
    \/ Shrink \/ Cut \/ Converge \/ RecordUpdate

Return ==
    /\ At("ok") \/ (At("failed") /\ job.kind = "update")
    /\ job' = IdleJob
    /\ UNCHANGED <<disk, used, db, guest, archive, running, spent>>

---------------------------------------------------------------------------
(* Faults.  A host command fails before it changed anything; resize2fs can *)
(* also fail between the filesystem and the file (At("cut")).              *)

Fault == /\ spent.faults < FaultBudget
         /\ spent' = [spent EXCEPT !.faults = @ + 1]

CommandFails ==
    /\ Fault
    /\ CASE job.pc \in {"probe", "extend", "grow", "shrink", "cut", "converge"} ->
                ResizeFails(TRUE)
         [] At("record") -> RecordFails
         [] job.pc \in {"begin", "check", "fill", "edit"} ->
                job' = [job EXCEPT !.clean = FALSE, !.pc = "failed", !.reason = "host"]
         [] OTHER -> FALSE
    /\ UNCHANGED <<disk, used, db, guest, archive, running>>

(* The process dies.  What a creation or a restore had built is removed by *)
(* the next call (Provisioning); an update leaves the disk as it is.       *)
Crash ==
    /\ Fault
    /\ ~At("idle")
    /\ IF job.kind \in {"create", "restore"} /\ ~At("ok")
       THEN Discard ELSE UNCHANGED <<disk, used, db, guest>>
    /\ job' = IdleJob
    /\ UNCHANGED <<archive, running>>

---------------------------------------------------------------------------
(* The guest.                                                              *)

\* start_microvm refuses a file of another length than the record's.
Start ==
    /\ At("idle") /\ db # 0 /\ ~running
    /\ disk.len = db
    /\ running' = TRUE
    /\ UNCHANGED <<disk, used, db, guest, archive, job, spent>>

GuestWrites ==
    /\ running /\ used + Block <= disk.fs
    /\ used' = used + Block
    /\ UNCHANGED <<disk, db, guest, archive, running, job, spent>>

GuestEditsFile(e) ==
    /\ running
    /\ SetNode(e.path, e.node)
    /\ UNCHANGED <<disk, used, db, archive, running, job, spent>>

Stop ==
    /\ running
    /\ running' = FALSE
    /\ UNCHANGED <<disk, used, db, guest, archive, job, spent>>

---------------------------------------------------------------------------
Next ==
    \/ \E size \in Sizes, image \in Images : InvokeCreate(size, image)
    \/ \E size \in Sizes : InvokeUpdate(size)
    \/ InvokeRestore \/ InvokeDelete \/ Sanitize
    \/ FillImage \/ EditStep \/ RecordMachine \/ DiscardVolume
    \/ UpdateStep \/ Return
    \/ CommandFails \/ Crash
    \/ Start \/ Stop \/ GuestWrites
    \/ \E e \in GuestEdits : GuestEditsFile(e)

Spec == Init /\ [][Next]_vars

---------------------------------------------------------------------------
(* Every variable has its type; a machine that is recorded has a file.     *)
RootDiskTypeOK ==
    /\ disk \in [len : Sizes \cup {0} \cup 0..ImageSize \cup {Floor(s) : s \in Sizes},
                 fs : {0, ImageSize} \cup {Floor(s) : s \in Sizes}]
    /\ used % Block = 0
    /\ db \in Sizes \cup {0}
    /\ DOMAIN guest = Paths /\ DOMAIN archive.guest = Paths
    /\ running \in BOOLEAN
    /\ running => db # 0
    /\ db # 0 => disk.len # 0
    /\ spent.calls \in 0..MaxCalls /\ spent.faults \in 0..FaultBudget

(* At no point, not after any failed command or crash within a resize, is  *)
(* the file shorter than the filesystem in it, or the filesystem smaller   *)
(* than its content; every variable has its type.                          *)
NothingTruncated == RootDiskTypeOK /\ used <= disk.fs /\ disk.fs <= disk.len

(* A disk update that reports success made file, filesystem and record     *)
(* agree on the size asked for, whatever an earlier update left behind.    *)
(* After one that failed the file has its recorded length, so that the     *)
(* machine starts again, unless the rollback (or the converging before it) *)
(* failed too.                                                             *)
UpdateIsAllOrNothing ==
    job.kind = "update" =>
        /\ At("ok") =>
             /\ disk.len = job.size /\ db = job.size
             /\ job.call = "resize" /\ job.goal = job.size => disk.fs = Floor(job.size)
        /\ At("failed") /\ job.reason \in {"used", "resize", "record"} => disk.len = db

(* An update during which nothing went wrong succeeds, from every disk     *)
(* that earlier failures and crashes can leave, unless the size asked for  *)
(* is below what the filesystem holds.                                     *)
CleanUpdateSucceeds ==
    At("failed") /\ job.kind = "update" /\ job.clean => job.reason = "used"

(* The guest of a machine that is created: no link stands in the place of  *)
(* a directory, the image's keys are kept and the new one is there once,   *)
(* every host key is a pair of one origin, and network and resolver files  *)
(* are the SDK's own.                                                      *)
PreparedGuest ==
    /\ \A p \in Directories : guest[p].kind = "directory"
    /\ guest["authorized_keys"].kind = "regular"
    /\ guest["authorized_keys"].mode = "0600" /\ guest["root/.ssh"].mode = "0700"
    /\ \E image \in Images :
        LET shipped == image["authorized_keys"].data
        IN  Range(guest["authorized_keys"].data) = Range(shipped) \cup {"new key"}
    /\ IsInjective(guest["authorized_keys"].data)
    /\ \A t \in KeyTypes :
        /\ guest[Private(t)].kind = "regular"
        /\ guest[Private(t)].data = <<"generated">> =>
               guest[Public(t)].data = <<"generated">> /\ guest[Private(t)].mode = "0600"

NetworkIsOwn ==
    /\ guest["10-taumaru.network"].kind = "regular"
    /\ guest["10-taumaru.network"].data = <<"address">>
    /\ guest["resolv.conf"].kind = "regular" /\ guest["resolv.conf"].data = <<"static">>

(* A machine is recorded only with its guest prepared: a created one with  *)
(* keys and network, a restored one with its own network configuration.    *)
RecordedGuestIsPrepared ==
    [][db = 0 /\ db' # 0 => NetworkIsOwn /\ (job.kind = "create" => PreparedGuest)]_vars
=============================================================================
