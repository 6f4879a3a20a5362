---------------------------- MODULE ArtifactCache ----------------------------
(***************************************************************************)
(* The artifact cache of one SDK home: the downloaded files, the inventory *)
(* rows that vouch for them, and the four operations that meet over them:  *)
(* downloads, prune, the part of create_microvm that consumes artifacts,   *)
(* and delete_microvm, which drops the references prune respects.          *)
(*                                                                         *)
(* Downloads and prune share a target lock per file, but only inside one   *)
(* SDK process; creation takes none.  A row of `downloads` and the logical *)
(* row of the kernel, image or binary it belongs to are always written in  *)
(* one transaction, so a member has one row here.  All versions a registry *)
(* publishes of a member have one size: the size check, which is all that  *)
(* reuse looks at, then tells a wrong version from nothing.                *)
(*                                                                         *)
(* A definition that nothing uses is a deliberately wrong variant of the   *)
(* one that follows it; the README lists which property it breaks.         *)
(***************************************************************************)
EXTENDS Naturals, Sequences

CONSTANTS
    Members,     \* downloadable files: a kernel, an image, a binary component
    KindOf,      \* their artifact kind
    Requests,    \* the packages each client downloads, as sequences of members
    PruneOrder,  \* prunable members as prune visits them: kernels, then images
    Releases,    \* contents the registry publishes, one after the other
    Needs,       \* what a creation resolves: image, kernel, runtime binaries
    Vms,         \* names of MicroVMs
    Clients,     \* concurrent SDK calls
    Processes,
    ProcessOf,   \* the process each client runs in
    Ops,         \* operations each client of this model invokes
    Faults,      \* which of CacheFaults happen in this model
    Damages,     \* what can become of a cached file behind the SDK's back
    None

CacheOps == {"download", "prune", "create", "delete"}
CacheFaults == {"cancel", "net", "db", "fs", "crash", "republish"}

Versions == {Releases[i] : i \in DOMAIN Releases}
Prunable == {PruneOrder[i] : i \in DOMAIN PruneOrder}
Needed == {Needs[i] : i \in DOMAIN Needs}

ASSUME ReleasesAssumption ==
    /\ Releases \in Seq(Versions) /\ Releases # <<>>
    /\ Versions \cap {"bad", "short", "special"} = {}
ASSUME KindAssumption == KindOf \in [Members -> {"kernel", "image", "binary"}]
ASSUME RequestAssumption == Requests \in [Clients -> SUBSET (Seq(Members) \ {<<>>})]
ASSUME NeedsAssumption ==
    Needs \in Seq(Members) /\ \E m \in Needed : KindOf[m] = "image"
ASSUME PruneOrderAssumption ==
    PruneOrder \in Seq({m \in Members : KindOf[m] # "binary"})
ASSUME CacheProcessAssumption == ProcessOf \in [Clients -> Processes]
ASSUME NoneAssumption == None \notin Clients \cup Versions \cup Vms
ASSUME CacheOpsAssumption == Ops \in [Clients -> SUBSET CacheOps] /\ Faults \subseteq CacheFaults
ASSUME DamagesAssumption == Damages \subseteq {"bad", "short", "special", None}

VARIABLES
    registry,    \* the version the registry serves now
    file,        \* what is at each member's target path
    row,         \* the version its inventory row pins, or None
    vms,         \* rows of microvms
    rootfs,      \* what each VM's root disk was copied from
    target,      \* holder of each process's lock on each target path
    pc, op,
    job,         \* members the call has still to process
    candidates,  \* prune: members it has still to consider
    want,        \* the version in the manifest the call fetched
    found,       \* what it last read of the current member: row or bytes
    part,        \* contents of its temporary file
    cancelled,   \* has its cancellation token been triggered
    vm           \* create and delete: the VM named

store == <<file, row, vms, rootfs>>
locals == <<op, job, candidates, want, found, part, cancelled, vm>>
vars == <<registry, store, target, pc, locals>>

(* Whole files of a version, wrong bytes of the right size, a file of      *)
(* another size, a directory or link, or nothing.                          *)
Contents == Versions \cup {"bad", "short", "special", None}
Regular(content) == content \notin {"special", None}
RightSize(content) == Regular(content) /\ content # "short"

Found == [row : Versions \cup {None}, bytes : Contents]
NotFound == [row |-> None, bytes |-> None]

Labels == {
    "idle", "lock", "inspect", "hash", "decide", "droprow", "unlink", "connect",
    "stream", "publish", "persist", "done",
    "kernels", "images", "references", "prunefile", "prunerow",
    "resolve", "verify", "claim", "copy", "unclaim", "remove"}

(* Where a call holds the lock of its current member.                      *)
Locked == {"inspect", "hash", "decide", "droprow", "unlink", "connect", "stream",
           "publish", "persist", "done"}

(* Every variable keeps its type, and a target lock is held exactly by a   *)
(* download of its process that is working on that member (the guard of    *)
(* download_member).                                                       *)
CacheTypeOK ==
    /\ registry \in Versions
    /\ file \in [Members -> Contents]
    /\ row \in [Members -> Versions \cup {None}]
    /\ vms \in SUBSET Vms
    /\ rootfs \in [Vms -> Contents]
    /\ target \in [Processes -> [Members -> Clients \cup {None}]]
    /\ pc \in [Clients -> Labels]
    /\ op \in [Clients -> CacheOps \cup {None}]
    /\ job \in [Clients -> Seq(Members)]
    /\ candidates \in [Clients -> SUBSET Members]
    /\ want \in [Clients -> Versions \cup {None}]
    /\ found \in [Clients -> Found]
    /\ part \in [Clients -> Contents]
    /\ cancelled \in [Clients -> BOOLEAN]
    /\ vm \in [Clients -> Vms \cup {None}]
    /\ \A q \in Processes, m \in Members, c \in Clients :
         target[q][m] = c <=> ProcessOf[c] = q /\ pc[c] \in Locked /\ Head(job[c]) = m

(* A home in which nothing has been downloaded yet.                        *)
Init ==
    /\ registry = Releases[1]
    /\ file = [m \in Members |-> None]
    /\ row = [m \in Members |-> None]
    /\ vms = {}
    /\ rootfs = [v \in Vms |-> None]
    /\ target = [q \in Processes |-> [m \in Members |-> None]]
    /\ pc = [c \in Clients |-> "idle"]
    /\ op = [c \in Clients |-> None]
    /\ job = [c \in Clients |-> <<>>]
    /\ candidates = [c \in Clients |-> {}]
    /\ want = [c \in Clients |-> None]
    /\ found = [c \in Clients |-> NotFound]
    /\ part = [c \in Clients |-> None]
    /\ cancelled = [c \in Clients |-> FALSE]
    /\ vm = [c \in Clients |-> None]

Fault(kind) == kind \in Faults
At(c, label) == pc[c] = label
Goto(c, label) == pc' = [pc EXCEPT ![c] = label]
Member(c) == Head(job[c])
Referenced(m) == vms # {} /\ KindOf[m] # "binary" /\ m \in Needed
SetFile(m, content) == file' = [file EXCEPT ![m] = content]
SetRow(m, version) == row' = [row EXCEPT ![m] = version]

(* One step of c that touches no lock and no local but its pc.             *)
Step(c, from, to) == At(c, from) /\ Goto(c, to) /\ UNCHANGED <<registry, target, locals>>

(* The call returns: its guard and its temporary file go with it.          *)
Return(c) ==
    /\ Goto(c, "idle")
    /\ target' = [target EXCEPT ![ProcessOf[c]] =
                     [m \in Members |-> IF @[m] = c THEN None ELSE @[m]]]
    /\ op' = [op EXCEPT ![c] = None]
    /\ job' = [job EXCEPT ![c] = <<>>]
    /\ candidates' = [candidates EXCEPT ![c] = {}]
    /\ want' = [want EXCEPT ![c] = None]
    /\ found' = [found EXCEPT ![c] = NotFound]
    /\ part' = [part EXCEPT ![c] = None]
    /\ cancelled' = [cancelled EXCEPT ![c] = FALSE]
    /\ vm' = [vm EXCEPT ![c] = None]
    /\ UNCHANGED registry

-----------------------------------------------------------------------------
(* Downloads.                                                              *)

(* download_kernel, download_binary, download_distribution(_image): the    *)
(* manifest is fetched and fixes the expected digest of every member.      *)
InvokeDownload(c) ==
    /\ At(c, "idle") /\ "download" \in Ops[c]
    /\ \E r \in Requests[c] : job' = [job EXCEPT ![c] = r]
    /\ op' = [op EXCEPT ![c] = "download"]
    /\ want' = [want EXCEPT ![c] = registry]
    /\ Goto(c, "lock")
    /\ UNCHANGED <<registry, store, target, candidates, found, part, cancelled, vm>>

(* DownloadCancellation: the caller triggers the token at any moment.      *)
Cancel(c) ==
    /\ Fault("cancel") /\ op[c] = "download" /\ ~cancelled[c]
    /\ cancelled' = [cancelled EXCEPT ![c] = TRUE]
    /\ UNCHANGED <<registry, store, target, pc, op, job, candidates, want, found, part, vm>>

(* download_member, up to the lock: a cancelled call does not wait for it. *)
LockTarget(c) ==
    /\ At(c, "lock") /\ ~cancelled[c] /\ target[ProcessOf[c]][Member(c)] = None
    /\ target' = [target EXCEPT ![ProcessOf[c]][Member(c)] = c]
    /\ Goto(c, "inspect")
    /\ UNCHANGED <<registry, store, locals>>

CancelPointsOutsideTransfer == {"inspect", "decide", "droprow", "publish"}

(* Every point at which the token is looked at.  A call already waiting    *)
(* for the lock looks only once it has it.                                 *)
CancelPoints == {"inspect", "decide", "droprow", "stream", "publish"}

NoticeCancel(c) ==
    /\ cancelled[c]
    /\ \/ pc[c] \in CancelPoints
       \/ At(c, "lock") /\ target[ProcessOf[c]][Member(c)] = None
    /\ Return(c) /\ UNCHANGED store

(* inspect_member without an integrity: a row is Complete when it pins     *)
(* what the manifest asks for, else as good as missing.                    *)
InspectMember(c) ==
    /\ At(c, "inspect") /\ ~cancelled[c]
    /\ \/ /\ found' = [found EXCEPT ![c] = [NotFound EXCEPT !.row = row[Member(c)]]]
          /\ Goto(c, "hash")
          /\ UNCHANGED <<registry, target, op, job, candidates, want, part, cancelled, vm>>
       \/ Fault("db") /\ Return(c)
    /\ UNCHANGED store

Complete(c) == found[c].row = want[c]
HashFirst(m) == KindOf[m] = "binary"

Hashed(c) == HashFirst(Member(c)) \/ ~Complete(c)

(* calculate_file_integrity: needed unless a kernel or image is Complete.  *)
(* A file that is there and cannot be read ends the call.                  *)
HashMember(c) ==
    /\ At(c, "hash") /\ UNCHANGED store
    /\ \/ LET bytes == file[Member(c)]
          IN  /\ found' = [found EXCEPT ![c].bytes =
                              IF Hashed(c) /\ Regular(bytes) THEN bytes ELSE None]
              /\ Goto(c, "decide")
              /\ UNCHANGED <<registry, target, op, job, candidates, want, part, cancelled, vm>>
       \/ Hashed(c) /\ Fault("fs") /\ Return(c)

(* decide_cache.  A Complete row is trusted: nothing is compared with the  *)
(* hash even where one was computed.                                       *)
DecideCache(c) ==
    CASE Complete(c) -> "skip"
      [] ~Complete(c) /\ found[c].bytes = want[c] -> "adopt"
      [] OTHER -> "replace"

(* What was read of the member is of no use past the decision.             *)
Decided(c, label) ==
    /\ Goto(c, label)
    /\ found' = [found EXCEPT ![c] = NotFound]
    /\ UNCHANGED <<registry, target, op, job, candidates, want, part, cancelled, vm>>

Decide(c) ==
    /\ At(c, "decide") /\ ~cancelled[c] /\ DecideCache(c) # "skip"
    /\ Decided(c, IF DecideCache(c) = "adopt" THEN "persist" ELSE "droprow")
    /\ UNCHANGED store

SkipWithoutStat(c) ==
    /\ At(c, "decide") /\ ~cancelled[c] /\ DecideCache(c) = "skip"
    /\ Decided(c, "done")
    /\ UNCHANGED store

(* The Skip arm.  A binary must have been hashed, to whatever digest; a    *)
(* kernel or image must be a regular file of the right size.               *)
Skip(c) ==
    /\ At(c, "decide") /\ ~cancelled[c] /\ DecideCache(c) = "skip"
    /\ UNCHANGED store
    /\ IF HashFirst(Member(c)) /\ found[c].bytes = None THEN Return(c)
       ELSE Decided(c, IF HashFirst(Member(c)) \/ RightSize(file[Member(c)])
                       THEN "done" ELSE "droprow")

KeepRow(c) ==
    Step(c, "droprow", "unlink") /\ ~cancelled[c] /\ UNCHANGED store

(* replace_member: the rows go first, in one transaction.                  *)
DropRow(c) ==
    /\ At(c, "droprow") /\ ~cancelled[c]
    /\ \/ /\ SetRow(Member(c), None) /\ Goto(c, "unlink")
          /\ UNCHANGED <<registry, target, locals>>
       \/ Fault("db") /\ Return(c) /\ UNCHANGED row
    /\ UNCHANGED <<file, vms, rootfs>>

(* remove_invalid_target_if_exists: file, link or directory alike.         *)
UnlinkTarget(c) ==
    /\ At(c, "unlink")
    /\ \/ /\ SetFile(Member(c), None) /\ Goto(c, "connect")
          /\ UNCHANGED <<registry, target, locals>>
       \/ Fault("fs") /\ Return(c) /\ UNCHANGED file
    /\ UNCHANGED <<row, vms, rootfs>>

(* stream_to_temporary: a fresh temporary file, then the request.  Its     *)
(* answer is awaited before the loop that watches the token, by a client   *)
(* without a timeout: the step is the registry's to take.                  *)
Connect(c) ==
    /\ At(c, "connect") /\ UNCHANGED store
    /\ \/ /\ part' = [part EXCEPT ![c] = "short"]
          /\ Goto(c, "stream")
          /\ UNCHANGED <<registry, target, op, job, candidates, want, found, cancelled, vm>>
       \/ (Fault("net") \/ Fault("fs")) /\ Return(c)

ReceiveUnverified(c) ==
    /\ At(c, "stream") /\ ~cancelled[c] /\ UNCHANGED store
    /\ \E bytes \in {registry} \cup IF Fault("net") THEN {"bad"} ELSE {} :
         part' = [part EXCEPT ![c] = bytes]
    /\ Goto(c, "publish")
    /\ UNCHANGED <<registry, target, op, job, candidates, want, found, cancelled, vm>>

(* The body arrives, whole or not; verify_integrity compares its size and  *)
(* digest with the manifest the call started from.                         *)
Receive(c) ==
    /\ At(c, "stream") /\ ~cancelled[c] /\ UNCHANGED store
    /\ \/ /\ registry = want[c]
          /\ part' = [part EXCEPT ![c] = registry]
          /\ Goto(c, "publish")
          /\ UNCHANGED <<registry, target, op, job, candidates, want, found, cancelled, vm>>
       \/ (registry # want[c] \/ Fault("net") \/ Fault("fs")) /\ Return(c)

(* stream_and_publish: an atomic rename over whatever is at the target.    *)
Publish(c) ==
    /\ At(c, "publish") /\ ~cancelled[c]
    /\ \/ /\ SetFile(Member(c), part[c])
          /\ part' = [part EXCEPT ![c] = None]
          /\ Goto(c, "persist")
          /\ UNCHANGED <<registry, target, op, job, candidates, want, found, cancelled, vm>>
       \/ (file[Member(c)] = "special" \/ Fault("fs")) /\ Return(c) /\ UNCHANGED file
    /\ UNCHANGED <<row, vms, rootfs>>

(* persist_member: download row and member row in one transaction, for an  *)
(* adopted file as for a downloaded one.                                   *)
PersistMember(c) ==
    /\ At(c, "persist")
    /\ \/ /\ SetRow(Member(c), want[c]) /\ Goto(c, "done")
          /\ UNCHANGED <<registry, target, locals>>
       \/ Fault("db") /\ Return(c) /\ UNCHANGED row
    /\ UNCHANGED <<file, vms, rootfs>>

(* The member is reported (its lock is released) and the next one begins,  *)
(* or the package is complete.                                             *)
NextMember(c) ==
    /\ At(c, "done") /\ UNCHANGED store
    /\ \/ Len(job[c]) = 1 /\ Return(c)
       \/ /\ Len(job[c]) > 1
          /\ job' = [job EXCEPT ![c] = Tail(job[c])]
          /\ target' = [target EXCEPT ![ProcessOf[c]][Member(c)] = None]
          /\ Goto(c, "lock")
          /\ UNCHANGED <<registry, op, candidates, want, found, part, cancelled, vm>>

Download(c) ==
    \/ LockTarget(c) \/ NoticeCancel(c) \/ InspectMember(c) \/ HashMember(c)
    \/ Decide(c) \/ Skip(c) \/ DropRow(c) \/ UnlinkTarget(c)
    \/ Publish(c) \/ PersistMember(c) \/ NextMember(c)

(* The two steps a download owes to the registry.                          *)
Transfer(c) == Connect(c) \/ Receive(c)

-----------------------------------------------------------------------------
(* prune_unused_artifacts.                                                 *)

InvokePrune(c) ==
    /\ At(c, "idle") /\ "prune" \in Ops[c]
    /\ op' = [op EXCEPT ![c] = "prune"]
    /\ Goto(c, "kernels")
    /\ UNCHANGED <<registry, store, target, job, candidates, want, found, part, cancelled, vm>>

(* list_prunable_kernels, list_prunable_images, list_prune_references: one *)
(* query after the other.  No orphan row can exist, both rows of a member  *)
(* being written together.                                                 *)
Recorded(kind) == {m \in Prunable : KindOf[m] = kind /\ row[m] # None}

Candidates(c, set) ==
    /\ candidates' = [candidates EXCEPT ![c] = set]
    /\ UNCHANGED <<registry, target, op, job, want, found, part, cancelled, vm>>

ListPrunable(c) ==
    /\ UNCHANGED store
    /\ \E kind \in {"kernel", "image"} :
         /\ At(c, IF kind = "kernel" THEN "kernels" ELSE "images")
         /\ \/ /\ Candidates(c, candidates[c] \cup Recorded(kind))
               /\ Goto(c, IF kind = "kernel" THEN "images" ELSE "references")
            \/ Fault("db") /\ Return(c)

ListReferences(c) ==
    /\ At(c, "references") /\ UNCHANGED store
    /\ \/ /\ Candidates(c, {m \in candidates[c] : ~Referenced(m)})
          /\ Goto(c, "prunefile")
       \/ Fault("db") /\ Return(c)

(* The candidate the loop over kernels and then images has reached.        *)
Reached(c, m) ==
    /\ m \in candidates[c]
    /\ \E i \in DOMAIN PruneOrder :
         /\ PruneOrder[i] = m
         /\ \A j \in 1..(i - 1) : PruneOrder[j] \notin candidates[c]

(* On to the next candidate.                                               *)
Advance(c, m) ==
    /\ Candidates(c, candidates[c] \ {m})
    /\ Goto(c, "prunefile")

(* delete_prune_file: a target whose lock is taken is skipped; one that is *)
(* absent goes straight to its row; one that is no regular file, or whose  *)
(* removal fails, keeps it.                                                *)
PruneFile(c) ==
    /\ At(c, "prunefile") /\ UNCHANGED <<row, vms, rootfs>>
    /\ \/ candidates[c] = {} /\ Return(c) /\ UNCHANGED file
       \/ \E m \in Members :
            LET busy == target[ProcessOf[c]][m] # None
            IN  /\ Reached(c, m)
                /\ \/ /\ busy \/ file[m] = "special" \/ Fault("fs")
                      /\ Advance(c, m) /\ UNCHANGED file
                   \/ /\ ~busy /\ file[m] # "special"
                      /\ SetFile(m, None)
                      /\ Goto(c, "prunerow")
                      /\ UNCHANGED <<registry, target, locals>>

(* delete_kernel_if_unreferenced, delete_image_if_unreferenced: after the  *)
(* target lock was released, and only now looking at references again.     *)
PruneRow(c) ==
    /\ At(c, "prunerow") /\ UNCHANGED <<file, vms, rootfs>>
    /\ \E m \in Members :
         /\ Reached(c, m) /\ Advance(c, m)
         /\ \/ (Referenced(m) \/ row[m] = None \/ Fault("db")) /\ UNCHANGED row
            \/ ~Referenced(m) /\ SetRow(m, None)

Prune(c) == ListPrunable(c) \/ ListReferences(c) \/ PruneFile(c) \/ PruneRow(c)

-----------------------------------------------------------------------------
(* What create_microvm and delete_microvm do with artifacts.               *)

(* create_microvm fetches the manifest and visits what it needs in order.  *)
InvokeCreate(c) ==
    /\ At(c, "idle") /\ "create" \in Ops[c]
    /\ \E v \in Vms \ vms : vm' = [vm EXCEPT ![c] = v]
    /\ job' = [job EXCEPT ![c] = Needs]
    /\ op' = [op EXCEPT ![c] = "create"]
    /\ want' = [want EXCEPT ![c] = registry]
    /\ Goto(c, "resolve")
    /\ UNCHANGED <<registry, store, target, candidates, found, part, cancelled>>

(* resolve_kernel, resolve_distribution_image, resolve_binary: a row must  *)
(* exist and, but for binaries, pin what the manifest says.                *)
ResolveMember(c) ==
    /\ At(c, "resolve") /\ UNCHANGED store
    /\ LET r == row[Member(c)]
           usable == r # None /\ (HashFirst(Member(c)) \/ r = want[c])
       IN  \/ /\ usable
              /\ found' = [found EXCEPT ![c].row = r]
              /\ Goto(c, "verify")
              /\ UNCHANGED <<registry, target, op, job, candidates, want, part, cancelled, vm>>
           \/ (~usable \/ Fault("db")) /\ Return(c)

(* verify_local_artifact: the whole file is read and its digest compared.  *)
VerifyMember(c) ==
    /\ At(c, "verify") /\ UNCHANGED store
    /\ \/ /\ file[Member(c)] = found[c].row
          /\ Goto(c, IF Len(job[c]) > 1 THEN "resolve" ELSE "claim")
          /\ job' = [job EXCEPT ![c] = Tail(@)]
          /\ found' = [found EXCEPT ![c] = NotFound]
          /\ UNCHANGED <<registry, target, op, candidates, want, part, cancelled, vm>>
       \/ (file[Member(c)] # found[c].row \/ Fault("fs")) /\ Return(c)

(* insert_microvm: names are unique; from here on the VM references its    *)
(* kernel and image.                                                       *)
ClaimRow(c) ==
    /\ At(c, "claim") /\ UNCHANGED <<file, row, rootfs>>
    /\ \/ /\ vm[c] \notin vms /\ vms' = vms \cup {vm[c]}
          /\ Goto(c, "copy")
          /\ UNCHANGED <<registry, target, locals>>
       \/ (vm[c] \in vms \/ Fault("db")) /\ Return(c) /\ UNCHANGED vms

Image == CHOOSE m \in Needed : KindOf[m] = "image"

(* prepare_rootfs copies whatever regular file is at the image's path now. *)
CopyImage(c) ==
    /\ At(c, "copy") /\ UNCHANGED <<file, row, vms>>
    /\ \/ /\ Regular(file[Image])
          /\ rootfs' = [rootfs EXCEPT ![vm[c]] = file[Image]]
          /\ Return(c)
       \/ /\ ~Regular(file[Image]) \/ Fault("fs")
          /\ Goto(c, "unclaim")
          /\ UNCHANGED <<registry, rootfs, target, locals>>

(* rollback_creation: the row is deleted last; the query can fail.         *)
Unclaim(c) ==
    /\ At(c, "unclaim") /\ Return(c) /\ UNCHANGED <<file, row, rootfs>>
    /\ \/ vms' = vms \ {vm[c]}
       \/ Fault("db") /\ UNCHANGED vms

(* delete_microvm as far as references go: volume, then row.               *)
InvokeDelete(c) ==
    /\ At(c, "idle") /\ "delete" \in Ops[c]
    /\ \E v \in vms : vm' = [vm EXCEPT ![c] = v]
    /\ op' = [op EXCEPT ![c] = "delete"]
    /\ Goto(c, "remove")
    /\ UNCHANGED <<registry, store, target, job, candidates, want, found, part, cancelled>>

RemoveVm(c) ==
    /\ At(c, "remove") /\ Return(c) /\ UNCHANGED <<file, row>>
    /\ rootfs' = [rootfs EXCEPT ![vm[c]] = None]
    /\ \/ vms' = vms \ {vm[c]}
       \/ Fault("db") /\ UNCHANGED vms

CreateDelete(c) ==
    \/ ResolveMember(c) \/ VerifyMember(c) \/ ClaimRow(c) \/ CopyImage(c) \/ Unclaim(c)
    \/ RemoveVm(c)

-----------------------------------------------------------------------------
(* The environment.                                                        *)

(* The registry replaces what it publishes.                                *)
Republish ==
    /\ Fault("republish")
    /\ \E i \in 1..(Len(Releases) - 1) :
         Releases[i] = registry /\ registry' = Releases[i + 1]
    /\ UNCHANGED <<store, target, pc, locals>>

(* Something other than the SDK damages a file of the cache, at a moment   *)
(* when no call is working on it.                                          *)
Damage ==
    /\ \A c \in Clients : At(c, "idle")
    /\ \E m \in Members :
         /\ file[m] \in Versions
         /\ \E content \in Damages : SetFile(m, content)
    /\ UNCHANGED <<registry, row, vms, rootfs, target, pc, locals>>

(* A process dies: its calls and locks are gone, everything they wrote     *)
(* stays.  The temporary file of a transfer stays too, under a name that   *)
(* is never used again, and is no longer anybody's.                        *)
Crash(q) ==
    LET Dies(c) == ProcessOf[c] = q
        Reset(f, initial) == [c \in Clients |-> IF Dies(c) THEN initial ELSE f[c]]
    IN  /\ Fault("crash")
        /\ \E c \in Clients : Dies(c) /\ pc[c] # "idle"
        /\ target' = [target EXCEPT ![q] = [m \in Members |-> None]]
        /\ pc' = Reset(pc, "idle")
        /\ op' = Reset(op, None)
        /\ job' = Reset(job, <<>>)
        /\ candidates' = Reset(candidates, {})
        /\ want' = Reset(want, None)
        /\ found' = Reset(found, NotFound)
        /\ part' = Reset(part, None)
        /\ cancelled' = Reset(cancelled, FALSE)
        /\ vm' = Reset(vm, None)
        /\ UNCHANGED <<registry, store>>

Next ==
    \/ \E c \in Clients :
         \/ InvokeDownload(c) \/ Download(c) \/ Transfer(c) \/ Cancel(c)
         \/ InvokePrune(c) \/ Prune(c)
         \/ InvokeCreate(c) \/ InvokeDelete(c) \/ CreateDelete(c)
    \/ \E q \in Processes : Crash(q)
    \/ Republish \/ Damage

Spec == Init /\ [][Next]_vars

(* A call goes on while it can.  Nothing is promised of the registry: the  *)
(* client sets no timeout, so the answer to a request and the body that    *)
(* follows may be awaited for ever.                                        *)
FairSpec ==
    Spec /\ \A c \in Clients : WF_vars(Download(c) \/ Prune(c) \/ CreateDelete(c))

-----------------------------------------------------------------------------
(* Properties.                                                             *)

(* Nothing but verified bytes is ever at a target path, whenever a         *)
(* transfer is cut short, cancelled, corrupted, overtaken by a new release *)
(* or killed: stream_to_temporary verifies, stream_and_publish renames.    *)
PublishedIsVerified ==
    CacheTypeOK /\ \A m \in Members : file[m] \in Versions \cup {None}

(* An inventory row is never over other bytes than those it pins: the file *)
(* is intact or, after prune or a crash in it, absent, which every reader  *)
(* notices.  This is what lets decide_cache trust a row without hashing.   *)
RecordedIsIntactOrAbsent ==
    \A m \in Members : row[m] # None => file[m] \in {row[m], None}

(* When download_member reports a member, downloaded, adopted or skipped,  *)
(* the target holds what the manifest promised.                            *)
ReportedIsVerified ==
    [][\A c \in Clients :
         ~At(c, "done") /\ pc'[c] = "done" => file'[Member(c)] = want[c]]_vars

(* If every download still running has been cancelled, and the registry    *)
(* answered the request of each, every call returns even if no body ever   *)
(* arrives: the transfer loop waits for the token as well as for data, and *)
(* every way out of download_member releases the target lock that others   *)
(* wait for.  The answer to the request is the exception: fetch_file is    *)
(* awaited before that loop, so a registry that accepts a request and      *)
(* stays silent holds a cancelled download, and its lock, for good.        *)
CancelEndsDownloads ==
    /\ <>[](\A c \in Clients : op[c] = "download" => cancelled[c])
    /\ \A c \in Clients : []<>~At(c, "connect")
    => \A c \in Clients : []<>At(c, "idle")

=============================================================================
