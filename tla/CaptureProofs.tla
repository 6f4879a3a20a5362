---------------------------- MODULE CaptureProofs ----------------------------
(***************************************************************************)
(* What holds of create_snapshot's worker for every set of policies, every *)
(* number of faults and however often the guest writes; and of the store   *)
(* for disks of every size.                                                *)
(*                                                                         *)
(* Every lemma ...Keeps has the same shape.  It first says what the step   *)
(* does, field by field of the call's record (DOMAIN call' and the effects *)
(* <1>3), and then proves the parts of the invariant one by one from that. *)
(***************************************************************************)
EXTENDS Capture, SequenceTheorems, TLAPS

(* The copy-on-write file that snapshot_cow_size asks for has room for     *)
(* every chunk of the disk, the header and the metadata areas of the       *)
(* kernel, whatever the size of the disk: the guest cannot write so much   *)
(* that the kernel invalidates the view.                                   *)
THEOREM StoreIsLargeEnough ==
  \A sectors \in Nat \ {0} : NeededChunks(sectors) * ChunkSectors <= CowSectors(sectors)
<1> TAKE sectors \in Nat \ {0}
<1> DEFINE chunks == (sectors + 63) \div 64
           areas == chunks \div 2048
           share == sectors \div 16
<1>1. chunks \in Nat /\ 64 * chunks <= sectors + 63
  BY SMT
<1>2. areas \in Nat /\ 2048 * areas <= chunks
  BY <1>1, SMT
<1>3. share \in Nat /\ sectors <= 16 * share + 15
  BY SMT
<1>4. (chunks + 1 + (areas + 1)) * 64 <= sectors + 63 + 128 + 64 * areas
  BY <1>1, <1>2, SMT
<1>5. 2048 * areas * 64 <= sectors + 63
  BY <1>1, <1>2, SMT
<1>6. ASSUME share > 32768
      PROVE  (chunks + 1 + (areas + 1)) * 64 <= sectors + share + 1
  BY <1>3, <1>4, <1>5, <1>6, SMT
<1>7. ASSUME ~(share > 32768)
      PROVE  (chunks + 1 + (areas + 1)) * 64 <= sectors + 32768 + 1
  BY <1>3, <1>4, <1>5, <1>7, SMT
<1> QED
  BY <1>6, <1>7, SMT DEF NeededChunks, DiskChunks, ChunkSectors, CowSectors, ReserveSectors

-----------------------------------------------------------------------------
(***************************************************************************)
(* The inductive invariant.                                                *)
(***************************************************************************)
Viewing == {"cow", "cowloop", "suspend", "map", "resume", "verify"}
Dropping == {"drop_resume", "drop_view", "drop_remove", "drop_thaw", "drop_loop", "drop_file"}
Removing == {"remove_private", "remove_ploop", "remove_pcow"}
Cloning == {"private_cow", "private_loop", "private_map", "private_verify"} \cup Removing
Archiving == {"open", "read", "rest", "stage"}
Closing == {"settle", "publish", "publish_unlink"}

Fields == {"policy", "online", "since", "parts", "sanitized", "copied", "holds", "made", "leaked",
           "next", "failed", "unclean", "stuck", "result"}

(* The locals of a call and their types.                                   *)
CallOK ==
    /\ DOMAIN call = Fields
    /\ call.policy \in Policies \cup {None} /\ call.online \in BOOLEAN
    /\ call.since \in 0..MaxWrites /\ call.parts \in Seq(Versions)
    /\ call.sanitized \in BOOLEAN
    /\ call.holds \in SUBSET Devices /\ call.made \in SUBSET (Devices \ Lasting)
    /\ call.failed \in BOOLEAN /\ call.unclean \in BOOLEAN /\ call.stuck \in BOOLEAN

Types == CaptureTypeOK /\ CallOK

(* What NothingDangles says of the devices.                                *)
Standing ==
    /\ ("origin" \in devs => "loop" \in devs) /\ (suspended => "origin" \in devs)
    /\ ("cowloop" \in devs => "cow" \in devs)
    /\ ("view" \in devs => "cowloop" \in devs /\ "origin" \in devs)
    /\ ("ploop" \in devs => "pcow" \in devs) /\ ("ploop" \in orphans => "pcow" \in orphans)
    /\ ("private" \in devs => "ploop" \in devs /\ "view" \in devs)
    /\ ("private" \in orphans => "ploop" \in orphans /\ "view" \in devs)

(* What is known of the call at each of its steps.                         *)
Flow ==
    /\ pc = "idle" => call.holds = {}
    /\ pc # "idle" => call.policy \in Policies /\ call.since <= content
    /\ pc \in {"begin", "origin"} =>
         call.made = {} /\ call.next = None
    /\ pc \in {"begin", "origin"} \cup Viewing => call.holds = {}
    /\ pc \in Dropping \ {"drop_thaw"} => call.next # "failed"
    /\ call.next = "cow" /\ pc \in Dropping =>
         call.made = {} /\ call.holds = {} /\ ~call.failed
    /\ pc \in {"begin", "origin", "copy", "sanitize"} \cup (Viewing \ {"resume"})
            \cup (Cloning \ Removing) \cup Archiving => ~call.failed
    /\ pc = "cow" => call.made = {}
    /\ pc \in Removing /\ call.next = "copy" =>
         "private" \notin call.holds /\ "staged" \notin call.holds /\ ~call.failed
    /\ pc \in Cloning \ Removing => "private" \notin call.holds
    /\ pc \in Cloning \cup {"copy"} => "copy" \notin call.holds
    /\ pc \in {"copy", "end_copy"} => "private" \notin call.holds
    /\ "private" \in call.holds =>
         call.policy = "regenerate" /\ "view" \in call.holds /\ "copy" \notin call.holds
    /\ pc \in Closing \cup Dropping => "private" \notin call.holds /\ "copy" \notin call.holds
    /\ pc \in Cloning \cup {"copy", "sanitize"} => call.policy = "regenerate"
    /\ "staged" \in call.holds =>
         pc \in Dropping \cup Removing \cup {"end_copy"} \cup Closing
    /\ pc \in {"publish", "publish_unlink"} => "staged" \in call.holds /\ ~call.failed
    /\ call.unclean \/ call.stuck \/ call.leaked # {} => call.failed \/ pc = "idle"

(* A call on a stopped guest never gets near a mapping; one on a running   *)
(* guest archives the view it holds.                                       *)
Sides ==
    /\ pc # "idle" /\ ~call.online =>
         /\ ~running /\ {"view", "private"} \cap call.holds = {}
         /\ call.made \cap (Stable \cup Private) = {}
         /\ pc \notin {"origin"} \cup Viewing \cup Dropping \cup Cloning
    /\ call.online /\ pc \in Cloning \cup Archiving \cup {"copy", "sanitize"} =>
         "view" \in call.holds
    /\ call.online /\ pc \in {"settle"} /\ ~call.failed => ~suspended
    /\ pc \in {"publish"} /\ call.online => ~suspended

(* Which devices there are for sure, or for sure not, at each step.        *)
Layered ==
    /\ Standing
    /\ pc \in Viewing \cup Dropping \cup Cloning \/ "view" \in call.holds => "origin" \in devs
    /\ pc = "drop_remove" => "private" \notin devs \cup orphans
    /\ pc = "drop_thaw" => call.next = "failed" \/ "view" \notin devs
    /\ pc \in {"drop_loop", "drop_file", "cow", "cowloop", "suspend", "map"} => "view" \notin devs
    /\ pc \in {"drop_file", "cow"} => "cowloop" \notin devs
    /\ pc = "cow" => "cow" \notin devs
    /\ pc = "cowloop" => "cow" \in devs
    /\ pc \in {"suspend", "map"} => {"cow", "cowloop"} \subseteq devs
    /\ pc \in {"begin", "origin", "private_cow"} \cup Viewing => devs \cap Private = {}
    /\ pc \in Dropping /\ call.next = "cow" => devs \cap Private = {}
    /\ pc = "private_loop" => "pcow" \in devs
    /\ pc \in {"private_loop", "remove_pcow"} => "ploop" \notin devs
    /\ pc \in {"private_map", "private_verify"} => {"pcow", "ploop"} \subseteq devs
    /\ pc \in {"private_loop", "private_map", "remove_ploop", "remove_pcow"} =>
         "private" \notin devs

(* Between which steps the guest may be suspended.                         *)
Freezes ==
    /\ pc = "map" => suspended
    /\ suspended /\ call.online
         /\ pc \notin {"idle", "begin", "origin", "map", "resume", "drop_resume", "drop_remove",
                       "drop_thaw"}
       => call.stuck \/ (pc = "settle" /\ call.next = None /\ call.failed)
    /\ call.stuck /\ pc # "idle" => pc = "settle"

(* What the archive is read from does not change while it is read.         *)
Reading == IF "copy" \in call.holds THEN call.copied ELSE Source

OneMoment ==
    /\ (pc \in {"verify"} \/ (pc = "resume" /\ ~call.failed) \/ "view" \in call.holds)
         => frozen \in call.since..MaxWrites
    /\ "copy" \in call.holds => call.copied \in call.since..MaxWrites
    /\ pc \in {"begin", "origin", "copy", "sanitize", "open"} \cup Viewing \cup (Cloning \ Removing)
         => call.parts = <<>>
    /\ pc \in Removing /\ call.next = "copy" => call.parts = <<>>
    /\ pc \in Dropping /\ call.next = "cow" => call.parts = <<>>
    /\ Len(call.parts) <= Parts
    /\ \A i \in DOMAIN call.parts : call.parts[i] = call.parts[1]
                                    /\ call.parts[i] \in call.since..MaxWrites
    /\ pc = "read" =>
         Len(call.parts) < Parts /\ \A i \in DOMAIN call.parts : call.parts[i] = Reading
    /\ pc \in {"rest", "stage"} \/ "staged" \in call.holds => Len(call.parts) = Parts
    /\ call.sanitized => call.policy = "regenerate"
    /\ call.policy = "regenerate" /\ (pc \in Archiving \/ "staged" \in call.holds) => call.sanitized
    /\ pc = "publish_unlink" => output \in Archives
    /\ ArchiveIsOneMoment

(* What the call has made and not yet removed, unless it knows that it     *)
(* could not be removed.                                                   *)
Left == call.made \cap devs
Tidy ==
    pc # "idle" /\ ~call.unclean =>
        /\ "tmp" \in Left => pc \in {"read", "rest", "stage"}
        /\ "staged" \in Left => "staged" \in call.holds
        /\ "copy" \in Left => "copy" \in call.holds
        /\ Left \cap Private \subseteq call.leaked \/ "private" \in call.holds
             \/ pc \in Cloning \ {"private_cow"}
        /\ Left \cap Stable = {} \/ pc \in Viewing \cup Dropping
             \/ (pc \notin Closing /\ "view" \in call.holds)

CaptureInv == Types /\ Flow /\ Sides /\ Layered /\ Freezes /\ OneMoment /\ Tidy

(* d differs from c at most in the named fields.                           *)
SameBut(c, d, S) ==
    /\ "policy" \in S \/ d.policy = c.policy
    /\ "online" \in S \/ d.online = c.online
    /\ "since" \in S \/ d.since = c.since
    /\ "parts" \in S \/ d.parts = c.parts
    /\ "sanitized" \in S \/ d.sanitized = c.sanitized
    /\ "copied" \in S \/ d.copied = c.copied
    /\ "holds" \in S \/ d.holds = c.holds
    /\ "made" \in S \/ d.made = c.made
    /\ "leaked" \in S \/ d.leaked = c.leaked
    /\ "next" \in S \/ d.next = c.next
    /\ "failed" \in S \/ d.failed = c.failed
    /\ "unclean" \in S \/ d.unclean = c.unclean
    /\ "stuck" \in S \/ d.stuck = c.stuck

(* The locals when there is no call.                                       *)
Blank(c) ==
    /\ c.policy = None /\ c.online = FALSE /\ c.since = 0 /\ c.parts = <<>> /\ c.sanitized = FALSE
    /\ c.holds = {} /\ c.made = {} /\ c.next = None /\ c.failed = FALSE /\ c.unclean = FALSE
    /\ c.stuck = FALSE

(* The outcomes of StageArchive: the archive has its staged name, or some  *)
(* of its two names are left.                                              *)
Staged ==
    /\ At("stage") /\ Fine /\ devs' = (devs \ {"tmp"}) \cup {"staged"}
    /\ End([call EXCEPT !.holds = @ \cup {"staged"}, !.made = @ \cup {"staged"}])
    /\ UNCHANGED <<orphans, suspended, invalid, frozen>> /\ OnHost
Unstaged(left) ==
    /\ At("stage") /\ Broken /\ devs' = (devs \ {"tmp"}) \cup left
    /\ End([call EXCEPT !.failed = TRUE, !.unclean = left # {}])
    /\ UNCHANGED <<orphans, suspended, invalid, frozen>> /\ OnHost

-----------------------------------------------------------------------------
(* The names of files and devices.                                         *)
LEMMA DeviceNames ==
    /\ {"cow", "cowloop", "view", "pcow", "ploop", "private", "copy", "tmp", "staged"}
         \subseteq Devices \ Lasting
    /\ Lasting \subseteq Devices /\ Private \subseteq Devices
BY DEF Devices, Lasting, Stable, Private, Files

(* The budget and the token.                                               *)
LEMMA FlagsKept ==
    ASSUME faults \in 0..CaptureBudget
    PROVE  /\ Fine => faults' \in 0..CaptureBudget
           /\ \A k : CaptureFault(k) => faults' \in 0..CaptureBudget
           /\ \A r : Return(r) => cancelled' \in BOOLEAN
<1>1. Fine => faults' \in 0..CaptureBudget
  BY DEF Fine
<1>2. ASSUME NEW k, CaptureFault(k) PROVE faults' \in 0..CaptureBudget
  BY <1>2, CaptureFaultsAssumption DEF CaptureFault
<1>3. ASSUME NEW r, Return(r) PROVE cancelled' \in BOOLEAN
  BY <1>3 DEF Return
<1> QED BY <1>1, <1>2, <1>3

(* What is published has the type of an archive.                           *)
LEMMA ArchiveTypes ==
    ASSUME CaptureInv, pc = "publish" PROVE  Archive \in Archives
<1>1. call.parts \in Seq(Versions) /\ Len(call.parts) = Parts /\ call.policy \in Policies
  BY DEF CaptureInv, Types, CallOK, Flow, OneMoment
<1>2. call.parts \in [1..Parts -> Versions]
  BY <1>1, LenProperties
<1> QED BY <1>1, <1>2 DEF CaptureInv, Types, CallOK, Archive, Archives

(* Without a call the locals have their types.                             *)
LEMMA BlankOK ==
    ASSUME DOMAIN call' = Fields, Blank(call') PROVE  CallOK'
<1>1. <<>> \in Seq(Versions) /\ 0 \in 0..MaxWrites
  BY CaptureFaultsAssumption
<1> QED BY <1>1 DEF Blank, CallOK

-----------------------------------------------------------------------------
(* The worker begins, or finds that it was cancelled.                      *)
LEMMA BeginKeeps == ASSUME CaptureInv, Begin PROVE  CaptureInv'
<1>1. CallOK /\ suspended \in BOOLEAN /\ content \in 0..MaxWrites /\ frozen \in Versions
  BY DEF CaptureInv, Types, CaptureTypeOK
<1>2. DOMAIN call' = Fields
  BY <1>1 DEF CallOK, Fields, Begin, Fail, Goto
<1>3. /\ pc = "begin" /\ UNCHANGED <<guest, output, devs, orphans, suspended, invalid, frozen>>
      /\ \/ pc' = "settle" /\ SameBut(call, call', {"failed"}) /\ call'.failed
         \/ /\ pc' = (IF call.online THEN "origin"
                     ELSE IF call.policy = "regenerate" THEN "copy" ELSE "open")
            /\ call' = call
  BY <1>1 DEF CallOK, Fields, SameBut, Begin, At, Fine, Aside, Fail, Goto, guest, host
<1>4. cancelled' \in BOOLEAN /\ faults' \in 0..CaptureBudget
  BY FlagsKept DEF CaptureInv, Types, CaptureTypeOK, Begin, Aside
<1> USE <1>2, <1>3, <1>4 DEF CaptureInv, Viewing, Dropping, Removing, Cloning, Archiving,
          Closing, SameBut, guest
<1>5. CallOK'
  BY <1>1 DEF CallOK
<1>6. CaptureTypeOK'
  BY <1>5 DEF Types, CaptureTypeOK, CallOK, CaptureLabels
<1>7. Flow'
  BY DEF Flow, Sides
<1>8. Sides'
  BY DEF Sides, Flow, Freezes
<1>9. Layered'
  BY DEF Layered, Standing, Flow, Lasting, Private, Files, Kernel
<1>10. Freezes'
  BY DEF Freezes, Flow
<1>11. OneMoment'
  BY DEF OneMoment, ArchiveIsOneMoment, Reading, Source, Parts, Flow
<1>12. Tidy'
  BY DEF Tidy, Left, Flow, Sides, Layered, Stable, Private
<1> QED BY <1>5, <1>6, <1>7, <1>8, <1>9, <1>10, <1>11, <1>12 DEF Types

(* remove_snapshot_view resumes the guest first.                           *)
LEMMA DropResumeKeeps == ASSUME CaptureInv, DropResume PROVE  CaptureInv'
<1>1. CallOK /\ suspended \in BOOLEAN /\ content \in 0..MaxWrites /\ frozen \in Versions
  BY DEF CaptureInv, Types, CaptureTypeOK
<1>2. DOMAIN call' = Fields
  BY <1>1 DEF CallOK, Fields, DropResume, Goto, DropFails
<1>3. /\ pc = "drop_resume" /\ UNCHANGED <<guest, output, devs, orphans, invalid, frozen>>
      /\ \/ pc' = "drop_view" /\ call' = call /\ suspended' = FALSE
         \/ /\ suspended' = suspended /\ pc' = "settle"
            /\ SameBut(call, call', {"failed", "unclean", "stuck"}) /\ call'.failed
            /\ call'.unclean = (call.made # {}) /\ call'.stuck = suspended
  BY <1>1 DEF CallOK, Fields, SameBut, DropResume, At, Fine, Thaw, Goto, Broken, DropFails,
         host, OnHost, CaptureFault, guest
<1>4. cancelled' \in BOOLEAN /\ faults' \in 0..CaptureBudget
  BY FlagsKept DEF CaptureInv, Types, CaptureTypeOK, DropResume, Broken, OnHost
<1> USE <1>2, <1>3, <1>4 DEF CaptureInv, Viewing, Dropping, Removing, Cloning, Archiving,
          Closing, SameBut, guest
<1>5. CallOK'
  BY <1>1 DEF CallOK
<1>6. CaptureTypeOK'
  BY <1>5 DEF Types, CaptureTypeOK, CallOK, CaptureLabels
<1>7. Flow'
  BY DEF Flow, Sides
<1>8. Sides'
  BY DEF Sides, Flow, Freezes
<1>9. Layered'
  BY DEF Layered, Standing, Flow, Lasting, Private, Files, Kernel
<1>10. Freezes'
  BY DEF Freezes, Flow
<1>11. OneMoment'
  BY DEF OneMoment, ArchiveIsOneMoment, Reading, Source, Parts, Flow
<1>12. Tidy'
  BY DEF Tidy, Left, Flow, Sides, Layered, Stable, Private
<1> QED BY <1>5, <1>6, <1>7, <1>8, <1>9, <1>10, <1>11, <1>12 DEF Types

(* The view is looked at, and the guest suspended to remove it.            *)
LEMMA DropViewKeeps == ASSUME CaptureInv, DropView PROVE  CaptureInv'
<1>1. CallOK /\ suspended \in BOOLEAN /\ content \in 0..MaxWrites /\ frozen \in Versions
  BY DEF CaptureInv, Types, CaptureTypeOK
<1>2. DOMAIN call' = Fields
  BY <1>1 DEF CallOK, Fields, DropView, Goto, DropFails
<1>3. /\ pc = "drop_view" /\ UNCHANGED <<guest, output, devs, orphans, invalid, frozen>>
      /\ \/ /\ "view" \notin devs /\ suspended' = suspended /\ pc' = "drop_loop"
            /\ call' = call
         \/ /\ "view" \in devs /\ "private" \notin devs \cup orphans /\ suspended' = TRUE
            /\ pc' = "drop_remove" /\ call' = call
         \/ /\ "view" \in devs /\ suspended' = suspended
            /\ SameBut(call, call', {"failed", "unclean"}) /\ pc' = "settle"
            /\ call'.failed /\ call'.unclean = (call.made # {})
  BY <1>1 DEF CallOK, Fields, SameBut, DropView, At, Fine, Goto, host, FailsIf, DropFails,
         OnHost, Broken, guest, CaptureFault
<1>4. cancelled' \in BOOLEAN /\ faults' \in 0..CaptureBudget
  BY FlagsKept DEF CaptureInv, Types, CaptureTypeOK, DropView, FailsIf, OnHost, Broken
<1> USE <1>2, <1>3, <1>4 DEF CaptureInv, Viewing, Dropping, Removing, Cloning, Archiving,
          Closing, SameBut, guest
<1>5. CallOK'
  BY <1>1 DEF CallOK
<1>6. CaptureTypeOK'
  BY <1>5 DEF Types, CaptureTypeOK, CallOK, CaptureLabels
<1>7. Flow'
  BY DEF Flow, Sides
<1>8. Sides'
  BY DEF Sides, Flow, Freezes
<1>9. Layered'
  BY DEF Layered, Standing, Flow, Lasting, Private, Files, Kernel
<1>10. Freezes'
  BY DEF Freezes, Flow
<1>11. OneMoment'
  BY DEF OneMoment, ArchiveIsOneMoment, Reading, Source, Parts, Flow
<1>12. Tidy'
  BY DEF Tidy, Left, Flow, Sides, Layered, Stable, Private
<1> QED BY <1>5, <1>6, <1>7, <1>8, <1>9, <1>10, <1>11, <1>12 DEF Types

(* The view is removed, or the command fails with or without effect.       *)
LEMMA RemoveViewKeeps == ASSUME CaptureInv, RemoveView PROVE  CaptureInv'
<1>1. CallOK /\ suspended \in BOOLEAN /\ content \in 0..MaxWrites /\ frozen \in Versions
  BY DEF CaptureInv, Types, CaptureTypeOK
<1>2. DOMAIN call' = Fields
  BY <1>1 DEF CallOK, Fields, RemoveView, Goto
<1>3. /\ pc = "drop_remove" /\ UNCHANGED <<guest, output, orphans, suspended, invalid, frozen>>
      /\ \/ devs' = devs \ {"view"} /\ pc' = "drop_thaw" /\ call' = call
         \/ /\ devs' \in {devs, devs \ {"view"}} /\ pc' = "drop_thaw"
            /\ SameBut(call, call', {"next"}) /\ call'.next = "failed"
  BY <1>1 DEF CallOK, Fields, SameBut, RemoveView, At, Fine, Unmake, Goto, Broken, host,
         OnHost, CaptureFault, guest
<1>4. cancelled' \in BOOLEAN /\ faults' \in 0..CaptureBudget
  BY FlagsKept DEF CaptureInv, Types, CaptureTypeOK, RemoveView, Broken, OnHost
<1> USE <1>2, <1>3, <1>4 DEF CaptureInv, Viewing, Dropping, Removing, Cloning, Archiving,
          Closing, SameBut, guest
<1>5. CallOK'
  BY <1>1 DEF CallOK
<1>6. CaptureTypeOK'
  BY <1>5 DEF Types, CaptureTypeOK, CallOK, CaptureLabels
<1>7. Flow'
  BY DEF Flow, Sides
<1>8. Sides'
  BY DEF Sides, Flow, Freezes
<1>9. Layered'
  BY DEF Layered, Standing, Flow, Lasting, Private, Files, Kernel
<1>10. Freezes'
  BY DEF Freezes, Flow
<1>11. OneMoment'
  BY DEF OneMoment, ArchiveIsOneMoment, Reading, Source, Parts, Flow
<1>12. Tidy'
  BY DEF Tidy, Left, Flow, Sides, Layered, Stable, Private
<1> QED BY <1>5, <1>6, <1>7, <1>8, <1>9, <1>10, <1>11, <1>12 DEF Types

(* The guest is resumed after the view was removed.                        *)
LEMMA DropThawKeeps == ASSUME CaptureInv, DropThaw PROVE  CaptureInv'
<1>1. CallOK /\ suspended \in BOOLEAN /\ content \in 0..MaxWrites /\ frozen \in Versions
  BY DEF CaptureInv, Types, CaptureTypeOK
<1>2. DOMAIN call' = Fields
  BY <1>1 DEF CallOK, Fields, DropThaw, DropFails, Goto
<1>3. /\ pc = "drop_thaw" /\ UNCHANGED <<guest, output, devs, orphans, invalid, frozen>>
      /\ \/ /\ suspended' = FALSE /\ call.next = "failed"
            /\ SameBut(call, call', {"failed", "unclean"}) /\ pc' = "settle"
            /\ call'.failed /\ call'.unclean = (call.made # {})
         \/ /\ suspended' = FALSE /\ call.next # "failed" /\ pc' = "drop_loop"
            /\ call' = call
         \/ /\ suspended' = suspended /\ pc' = "settle"
            /\ SameBut(call, call', {"failed", "unclean", "stuck"}) /\ call'.failed
            /\ call'.unclean = (call.made # {}) /\ call'.stuck
  BY <1>1 DEF CallOK, Fields, SameBut, DropThaw, At, Fine, Thaw, DropFails, Goto, Broken,
         host, OnHost, CaptureFault, guest
<1>4. cancelled' \in BOOLEAN /\ faults' \in 0..CaptureBudget
  BY FlagsKept DEF CaptureInv, Types, CaptureTypeOK, DropThaw, Broken, OnHost
<1> USE <1>2, <1>3, <1>4 DEF CaptureInv, Viewing, Dropping, Removing, Cloning, Archiving,
          Closing, SameBut, guest
<1>5. CallOK'
  BY <1>1 DEF CallOK
<1>6. CaptureTypeOK'
  BY <1>5 DEF Types, CaptureTypeOK, CallOK, CaptureLabels
<1>7. Flow'
  BY DEF Flow, Sides
<1>8. Sides'
  BY DEF Sides, Flow, Freezes
<1>9. Layered'
  BY DEF Layered, Standing, Flow, Lasting, Private, Files, Kernel
<1>10. Freezes'
  BY DEF Freezes, Flow
<1>11. OneMoment'
  BY DEF OneMoment, ArchiveIsOneMoment, Reading, Source, Parts, Flow
<1>12. Tidy'
  BY DEF Tidy, Left, Flow, Sides, Layered, Stable, Private
<1> QED BY <1>5, <1>6, <1>7, <1>8, <1>9, <1>10, <1>11, <1>12 DEF Types

(* The stable view's loop device is detached.                              *)
LEMMA DropLoopKeeps == ASSUME CaptureInv, DropLoop PROVE  CaptureInv'
<1>1. CallOK /\ suspended \in BOOLEAN /\ content \in 0..MaxWrites /\ frozen \in Versions
  BY DEF CaptureInv, Types, CaptureTypeOK
<1>2. DOMAIN call' = Fields
  BY <1>1 DEF CallOK, Fields, DropLoop, Goto, Dropped, DropFails
<1>3. /\ pc = "drop_loop" /\ UNCHANGED <<guest, output, orphans, suspended, invalid, frozen>>
      /\ \/ /\ "cow" \in devs /\ devs' = devs \ {"cowloop"} /\ pc' = "drop_file"
            /\ call' = call
         \/ /\ "cow" \notin devs /\ "cowloop" \notin devs /\ devs' = devs
            /\ pc' = (IF call.next = "cow" THEN "cow" ELSE "settle") /\ call' = call
         \/ /\ devs' = devs /\ SameBut(call, call', {"failed", "unclean"})
            /\ pc' = "settle" /\ call'.failed /\ call'.unclean = (call.made # {})
  BY <1>1 DEF CallOK, Fields, SameBut, DropLoop, At, Fine, Unmake, Goto, Dropped, host,
         Broken, DropFails, OnHost, CaptureFault, guest
<1>4. cancelled' \in BOOLEAN /\ faults' \in 0..CaptureBudget
  BY FlagsKept DEF CaptureInv, Types, CaptureTypeOK, DropLoop, Broken, OnHost
<1> USE <1>2, <1>3, <1>4 DEF CaptureInv, Viewing, Dropping, Removing, Cloning, Archiving,
          Closing, SameBut, guest
<1>5. CallOK'
  BY <1>1 DEF CallOK
<1>6. CaptureTypeOK'
  BY <1>5 DEF Types, CaptureTypeOK, CallOK, CaptureLabels
<1>7. Flow'
  BY DEF Flow, Sides
<1>8. Sides'
  BY DEF Sides, Flow, Freezes
<1>9. Layered'
  BY DEF Layered, Standing, Flow, Lasting, Private, Files, Kernel
<1>10. Freezes'
  BY DEF Freezes, Flow
<1>11. OneMoment'
  BY DEF OneMoment, ArchiveIsOneMoment, Reading, Source, Parts, Flow
<1>12. Tidy'
  BY DEF Tidy, Left, Flow, Sides, Layered, Stable, Private
<1> QED BY <1>5, <1>6, <1>7, <1>8, <1>9, <1>10, <1>11, <1>12 DEF Types

(* The stable view's file is removed.                                      *)
LEMMA DropFileKeeps == ASSUME CaptureInv, DropFile PROVE  CaptureInv'
<1>1. CallOK /\ suspended \in BOOLEAN /\ content \in 0..MaxWrites /\ frozen \in Versions
  BY DEF CaptureInv, Types, CaptureTypeOK
<1>2. DOMAIN call' = Fields
  BY <1>1 DEF CallOK, Fields, DropFile, Dropped, DropFails, Goto
<1>3. /\ pc = "drop_file" /\ UNCHANGED <<guest, output, orphans, suspended, invalid, frozen>>
      /\ \/ /\ devs' = devs \ {"cow"}
            /\ pc' = (IF call.next = "cow" THEN "cow" ELSE "settle") /\ call' = call
         \/ /\ devs' = devs /\ SameBut(call, call', {"failed", "unclean"})
            /\ pc' = "settle" /\ call'.failed /\ call'.unclean = (call.made # {})
  BY <1>1 DEF CallOK, Fields, SameBut, DropFile, At, Fine, Unmake, Dropped, Broken,
         DropFails, host, OnHost, Goto, CaptureFault, guest
<1>4. cancelled' \in BOOLEAN /\ faults' \in 0..CaptureBudget
  BY FlagsKept DEF CaptureInv, Types, CaptureTypeOK, DropFile, Broken, OnHost
<1> USE <1>2, <1>3, <1>4 DEF CaptureInv, Viewing, Dropping, Removing, Cloning, Archiving,
          Closing, SameBut, guest
<1>5. CallOK'
  BY <1>1 DEF CallOK
<1>6. CaptureTypeOK'
  BY <1>5 DEF Types, CaptureTypeOK, CallOK, CaptureLabels
<1>7. Flow'
  BY DEF Flow, Sides
<1>8. Sides'
  BY DEF Sides, Flow, Freezes
<1>9. Layered'
  BY DEF Layered, Standing, Flow, Lasting, Private, Files, Kernel
<1>10. Freezes'
  BY DEF Freezes, Flow
<1>11. OneMoment'
  BY DEF OneMoment, ArchiveIsOneMoment, Reading, Source, Parts, Flow
<1>12. Tidy'
  BY DEF Tidy, Left, Flow, Sides, Layered, Stable, Private
<1> QED BY <1>5, <1>6, <1>7, <1>8, <1>9, <1>10, <1>11, <1>12 DEF Types

(* The guest's mapping is verified and resumed.                            *)
LEMMA VerifyOriginKeeps == ASSUME CaptureInv, VerifyOrigin PROVE  CaptureInv'
<1>1. CallOK /\ suspended \in BOOLEAN /\ content \in 0..MaxWrites /\ frozen \in Versions
  BY DEF CaptureInv, Types, CaptureTypeOK
<1>2. DOMAIN call' = Fields
  BY <1>1 DEF CallOK, Fields, VerifyOrigin, Fail
<1>3. /\ pc = "origin" /\ UNCHANGED <<guest, output, devs, orphans, invalid, frozen>>
      /\ \/ /\ "origin" \in devs /\ suspended' = FALSE /\ pc' = "drop_resume"
            /\ SameBut(call, call', {"next"}) /\ call'.next = "cow"
         \/ /\ suspended' = suspended /\ pc' = "settle"
            /\ SameBut(call, call', {"failed"}) /\ call'.failed
  BY <1>1 DEF CallOK, Fields, SameBut, VerifyOrigin, At, Fine, Thaw, FailsIf, Fail, host,
         OnHost, Broken, guest, CaptureFault
<1>4. cancelled' \in BOOLEAN /\ faults' \in 0..CaptureBudget
  BY FlagsKept DEF CaptureInv, Types, CaptureTypeOK, VerifyOrigin, FailsIf, OnHost, Broken
<1> USE <1>2, <1>3, <1>4 DEF CaptureInv, Viewing, Dropping, Removing, Cloning, Archiving,
          Closing, SameBut, guest
<1>5. CallOK'
  BY <1>1 DEF CallOK
<1>6. CaptureTypeOK'
  BY <1>5 DEF Types, CaptureTypeOK, CallOK, CaptureLabels
<1>7. Flow'
  BY DEF Flow, Sides
<1>8. Sides'
  BY DEF Sides, Flow, Freezes
<1>9. Layered'
  BY DEF Layered, Standing, Flow, Lasting, Private, Files, Kernel
<1>10. Freezes'
  BY DEF Freezes, Flow
<1>11. OneMoment'
  BY DEF OneMoment, ArchiveIsOneMoment, Reading, Source, Parts, Flow
<1>12. Tidy'
  BY DEF Tidy, Left, Flow, Sides, Layered, Stable, Private
<1> QED BY <1>5, <1>6, <1>7, <1>8, <1>9, <1>10, <1>11, <1>12 DEF Types

(* The copy-on-write file is made.                                         *)
LEMMA AllocateCowKeeps == ASSUME CaptureInv, AllocateCow PROVE  CaptureInv'
<1>1. CallOK /\ suspended \in BOOLEAN /\ content \in 0..MaxWrites /\ frozen \in Versions
  BY DEF CaptureInv, Types, CaptureTypeOK
<1>2. DOMAIN call' = Fields
  BY <1>1 DEF CallOK, Fields, AllocateCow, Note, Fail
<1>3. /\ pc = "cow" /\ UNCHANGED <<guest, output, orphans, suspended, invalid, frozen>>
      /\ \/ /\ devs' = devs \cup {"cow"} /\ pc' = "cowloop"
            /\ SameBut(call, call', {"made"}) /\ call'.made = call.made \cup {"cow"}
         \/ /\ devs' = devs /\ pc' = "settle" /\ SameBut(call, call', {"failed"})
            /\ call'.failed
         \/ /\ devs' = devs \cup {"cow"} /\ pc' = "settle"
            /\ SameBut(call, call', {"failed", "unclean"}) /\ call'.failed
            /\ call'.unclean
  BY <1>1 DEF CallOK, Fields, SameBut, AllocateCow, At, Fine, Make, Note, Broken, Fail,
         host, OnHost, CaptureFault, guest
<1>4. cancelled' \in BOOLEAN /\ faults' \in 0..CaptureBudget
  BY FlagsKept DEF CaptureInv, Types, CaptureTypeOK, AllocateCow, Broken, OnHost
<1> USE <1>2, <1>3, <1>4 DEF CaptureInv, Viewing, Dropping, Removing, Cloning, Archiving,
          Closing, SameBut, guest
<1>5. CallOK'
  BY <1>1, DeviceNames DEF CallOK
<1>6. CaptureTypeOK'
  BY <1>5, DeviceNames DEF Types, CaptureTypeOK, CallOK, CaptureLabels
<1>7. Flow'
  BY DEF Flow, Sides
<1>8. Sides'
  BY DEF Sides, Flow, Freezes, Stable, Private
<1>9. Layered'
  BY DEF Layered, Standing, Flow, Lasting, Private, Files, Kernel
<1>10. Freezes'
  BY DEF Freezes, Flow
<1>11. OneMoment'
  BY DEF OneMoment, ArchiveIsOneMoment, Reading, Source, Parts, Flow
<1>12. Tidy'
  BY DEF Tidy, Left, Flow, Sides, Layered, Stable, Private
<1> QED BY <1>5, <1>6, <1>7, <1>8, <1>9, <1>10, <1>11, <1>12 DEF Types

(* It gets its loop device.                                                *)
LEMMA AttachCowKeeps == ASSUME CaptureInv, AttachCow PROVE  CaptureInv'
<1>1. CallOK /\ suspended \in BOOLEAN /\ content \in 0..MaxWrites /\ frozen \in Versions
  BY DEF CaptureInv, Types, CaptureTypeOK
<1>2. DOMAIN call' = Fields
  BY <1>1 DEF CallOK, Fields, AttachCow, Note
<1>3. /\ pc = "cowloop" /\ UNCHANGED <<guest, output, orphans, suspended, invalid, frozen>>
      /\ \/ /\ devs' = devs \cup {"cowloop"} /\ pc' = "suspend"
            /\ SameBut(call, call', {"made"}) /\ call'.made = call.made \cup {"cowloop"}
         \/ /\ devs' \in {devs, devs \cup {"cowloop"}} /\ pc' = "drop_loop"
            /\ SameBut(call, call', {"failed", "next", "made"}) /\ call'.failed
            /\ call'.next = "settle" /\ call'.made = call.made \cup {"cowloop"}
  BY <1>1 DEF CallOK, Fields, SameBut, AttachCow, At, Fine, Make, Note, Broken, host,
         OnHost, CaptureFault, guest
<1>4. cancelled' \in BOOLEAN /\ faults' \in 0..CaptureBudget
  BY FlagsKept DEF CaptureInv, Types, CaptureTypeOK, AttachCow, Broken, OnHost
<1> USE <1>2, <1>3, <1>4 DEF CaptureInv, Viewing, Dropping, Removing, Cloning, Archiving,
          Closing, SameBut, guest
<1>5. CallOK'
  BY <1>1, DeviceNames DEF CallOK
<1>6. CaptureTypeOK'
  BY <1>5, DeviceNames DEF Types, CaptureTypeOK, CallOK, CaptureLabels
<1>7. Flow'
  BY DEF Flow, Sides
<1>8. Sides'
  BY DEF Sides, Flow, Freezes, Stable, Private
<1>9. Layered'
  BY DEF Layered, Standing, Flow, Lasting, Private, Files, Kernel
<1>10. Freezes'
  BY DEF Freezes, Flow
<1>11. OneMoment'
  BY DEF OneMoment, ArchiveIsOneMoment, Reading, Source, Parts, Flow
<1>12. Tidy'
  BY DEF Tidy, Left, Flow, Sides, Layered, Stable, Private
<1> QED BY <1>5, <1>6, <1>7, <1>8, <1>9, <1>10, <1>11, <1>12 DEF Types

(* The guest is suspended.                                                 *)
LEMMA SuspendKeeps == ASSUME CaptureInv, Suspend PROVE  CaptureInv'
<1>1. CallOK /\ suspended \in BOOLEAN /\ content \in 0..MaxWrites /\ frozen \in Versions
  BY DEF CaptureInv, Types, CaptureTypeOK
<1>2. DOMAIN call' = Fields
  BY <1>1 DEF CallOK, Fields, Suspend, Goto, UndoView
<1>3. /\ pc = "suspend" /\ UNCHANGED <<guest, output, devs, orphans, invalid, frozen>>
      /\ \/ suspended' = TRUE /\ pc' = "map" /\ call' = call
         \/ /\ suspended' = suspended /\ pc' = "drop_resume"
            /\ SameBut(call, call', {"failed", "next"}) /\ call'.failed
            /\ call'.next = "settle"
  BY <1>1 DEF CallOK, Fields, SameBut, Suspend, At, Fine, Goto, Broken, UndoView, host,
         OnHost, CaptureFault, guest
<1>4. cancelled' \in BOOLEAN /\ faults' \in 0..CaptureBudget
  BY FlagsKept DEF CaptureInv, Types, CaptureTypeOK, Suspend, Broken, OnHost
<1> USE <1>2, <1>3, <1>4 DEF CaptureInv, Viewing, Dropping, Removing, Cloning, Archiving,
          Closing, SameBut, guest
<1>5. CallOK'
  BY <1>1 DEF CallOK
<1>6. CaptureTypeOK'
  BY <1>5 DEF Types, CaptureTypeOK, CallOK, CaptureLabels
<1>7. Flow'
  BY DEF Flow, Sides
<1>8. Sides'
  BY DEF Sides, Flow, Freezes
<1>9. Layered'
  BY DEF Layered, Standing, Flow, Lasting, Private, Files, Kernel
<1>10. Freezes'
  BY DEF Freezes, Flow
<1>11. OneMoment'
  BY DEF OneMoment, ArchiveIsOneMoment, Reading, Source, Parts, Flow
<1>12. Tidy'
  BY DEF Tidy, Left, Flow, Sides, Layered, Stable, Private
<1> QED BY <1>5, <1>6, <1>7, <1>8, <1>9, <1>10, <1>11, <1>12 DEF Types

(* The view is mapped while the guest is suspended.                        *)
LEMMA MapViewKeeps == ASSUME CaptureInv, MapView PROVE  CaptureInv'
<1>1. CallOK /\ suspended \in BOOLEAN /\ content \in 0..MaxWrites /\ frozen \in Versions
  BY DEF CaptureInv, Types, CaptureTypeOK
<1>2. DOMAIN call' = Fields
  BY <1>1 DEF CallOK, Fields, MapView, Note
<1>3. /\ pc = "map" /\ UNCHANGED <<guest, output, orphans, suspended>>
      /\ \/ /\ devs' = devs \cup {"view"} /\ invalid' = FALSE
            /\ frozen' = (IF suspended THEN content ELSE Torn) /\ pc' = "resume"
            /\ SameBut(call, call', {"made"}) /\ call'.made = call.made \cup {"view"}
         \/ /\ UNCHANGED <<devs, invalid, frozen>> /\ pc' = "resume"
            /\ SameBut(call, call', {"failed"}) /\ call'.failed
  BY <1>1 DEF CallOK, Fields, SameBut, MapView, At, Fine, Torn, Note, Broken, host, OnHost,
         CaptureFault, guest
<1>4. cancelled' \in BOOLEAN /\ faults' \in 0..CaptureBudget
  BY FlagsKept DEF CaptureInv, Types, CaptureTypeOK, MapView, Broken, OnHost
<1> USE <1>2, <1>3, <1>4 DEF CaptureInv, Viewing, Dropping, Removing, Cloning, Archiving,
          Closing, SameBut, guest
<1>5. CallOK'
  BY <1>1, DeviceNames DEF CallOK
<1>6. CaptureTypeOK'
  <2>1. frozen' \in Versions
    BY <1>1, CaptureFaultsAssumption DEF Versions, Torn
  <2> QED BY <1>5, <2>1, DeviceNames DEF Types, CaptureTypeOK, CallOK, CaptureLabels
<1>7. Flow'
  BY DEF Flow, Sides
<1>8. Sides'
  BY DEF Sides, Flow, Freezes, Stable, Private
<1>9. Layered'
  BY DEF Layered, Standing, Flow, Lasting, Private, Files, Kernel
<1>10. Freezes'
  BY DEF Freezes, Flow
<1>11. OneMoment'
  BY <1>1 DEF CallOK, Freezes, OneMoment, ArchiveIsOneMoment, Reading, Source, Parts, Flow
<1>12. Tidy'
  BY DEF Tidy, Left, Flow, Sides, Layered, Stable, Private
<1> QED BY <1>5, <1>6, <1>7, <1>8, <1>9, <1>10, <1>11, <1>12 DEF Types

(* The guest is resumed whether or not there is a view.                    *)
LEMMA ResumeKeeps == ASSUME CaptureInv, Resume PROVE  CaptureInv'
<1>1. CallOK /\ suspended \in BOOLEAN /\ content \in 0..MaxWrites /\ frozen \in Versions
  BY DEF CaptureInv, Types, CaptureTypeOK
<1>2. DOMAIN call' = Fields
  BY <1>1 DEF CallOK, Fields, Resume, UndoView, Goto
<1>3. /\ pc = "resume" /\ UNCHANGED <<guest, output, devs, orphans, invalid, frozen>>
      /\ \/ /\ suspended' = FALSE /\ call.failed /\ pc' = "drop_resume"
            /\ SameBut(call, call', {"failed", "next"}) /\ call'.failed
            /\ call'.next = "settle"
         \/ suspended' = FALSE /\ ~call.failed /\ pc' = "verify" /\ call' = call
         \/ /\ suspended' = suspended /\ pc' = "drop_resume"
            /\ SameBut(call, call', {"failed", "next"}) /\ call'.failed
            /\ call'.next = "settle"
  BY <1>1 DEF CallOK, Fields, SameBut, Resume, At, Fine, Thaw, UndoView, Goto, Broken, host,
         OnHost, CaptureFault, guest
<1>4. cancelled' \in BOOLEAN /\ faults' \in 0..CaptureBudget
  BY FlagsKept DEF CaptureInv, Types, CaptureTypeOK, Resume, Broken, OnHost
<1> USE <1>2, <1>3, <1>4 DEF CaptureInv, Viewing, Dropping, Removing, Cloning, Archiving,
          Closing, SameBut, guest
<1>5. CallOK'
  BY <1>1 DEF CallOK
<1>6. CaptureTypeOK'
  BY <1>5 DEF Types, CaptureTypeOK, CallOK, CaptureLabels
<1>7. Flow'
  BY DEF Flow, Sides
<1>8. Sides'
  BY DEF Sides, Flow, Freezes
<1>9. Layered'
  BY DEF Layered, Standing, Flow, Lasting, Private, Files, Kernel
<1>10. Freezes'
  BY DEF Freezes, Flow
<1>11. OneMoment'
  BY DEF OneMoment, ArchiveIsOneMoment, Reading, Source, Parts, Flow
<1>12. Tidy'
  BY DEF Tidy, Left, Flow, Sides, Layered, Stable, Private
<1> QED BY <1>5, <1>6, <1>7, <1>8, <1>9, <1>10, <1>11, <1>12 DEF Types

(* The view is verified; from now on the call holds it.                    *)
LEMMA VerifyViewKeeps == ASSUME CaptureInv, VerifyView PROVE  CaptureInv'
<1>1. CallOK /\ suspended \in BOOLEAN /\ content \in 0..MaxWrites /\ frozen \in Versions
  BY DEF CaptureInv, Types, CaptureTypeOK
<1>2. DOMAIN call' = Fields
  BY <1>1 DEF CallOK, Fields, VerifyView, UndoView
<1>3. /\ pc = "verify" /\ UNCHANGED <<guest, output, devs, orphans, suspended, invalid, frozen>>
      /\ \/ /\ pc' = (IF call.policy = "regenerate" THEN "private_cow" ELSE "open")
            /\ SameBut(call, call', {"holds"}) /\ call'.holds = call.holds \cup {"view"}
         \/ /\ pc' = "drop_resume" /\ SameBut(call, call', {"failed", "next"})
            /\ call'.failed /\ call'.next = "settle"
  BY <1>1 DEF CallOK, Fields, SameBut, VerifyView, At, Fine, FailsIf, UndoView, host,
         OnHost, Broken, guest, CaptureFault
<1>4. cancelled' \in BOOLEAN /\ faults' \in 0..CaptureBudget
  BY FlagsKept DEF CaptureInv, Types, CaptureTypeOK, VerifyView, FailsIf, OnHost, Broken
<1> USE <1>2, <1>3, <1>4 DEF CaptureInv, Viewing, Dropping, Removing, Cloning, Archiving,
          Closing, SameBut, guest
<1>5. CallOK'
  BY <1>1, DeviceNames DEF CallOK
<1>6. CaptureTypeOK'
  BY <1>5, DeviceNames DEF Types, CaptureTypeOK, CallOK, CaptureLabels
<1>7. Flow'
  BY DEF Flow, Sides
<1>8. Sides'
  BY DEF Sides, Flow, Freezes, Stable, Private
<1>9. Layered'
  BY DEF Layered, Standing, Flow, Lasting, Private, Files, Kernel
<1>10. Freezes'
  BY DEF Freezes, Flow
<1>11. OneMoment'
  BY DEF OneMoment, ArchiveIsOneMoment, Reading, Source, Parts, Flow
<1>12. Tidy'
  BY DEF Tidy, Left, Flow, Sides, Layered, Stable, Private
<1> QED BY <1>5, <1>6, <1>7, <1>8, <1>9, <1>10, <1>11, <1>12 DEF Types

(* The file of the private view is made.                                   *)
LEMMA AllocatePrivateKeeps == ASSUME CaptureInv, AllocatePrivate PROVE  CaptureInv'
<1>1. CallOK /\ suspended \in BOOLEAN /\ content \in 0..MaxWrites /\ frozen \in Versions
  BY DEF CaptureInv, Types, CaptureTypeOK
<1>2. DOMAIN call' = Fields
  BY <1>1 DEF CallOK, Fields, AllocatePrivate, Note, GiveUp, End
<1>3. /\ pc = "private_cow" /\ UNCHANGED <<guest, output, orphans, suspended, invalid, frozen>>
      /\ \/ /\ devs' = devs \cup {"pcow"} /\ pc' = "private_loop"
            /\ SameBut(call, call', {"made"}) /\ call'.made = call.made \cup {"pcow"}
         \/ /\ devs' = devs /\ pc' = Ending(call'.holds)
            /\ SameBut(call, call', {"failed", "next"}) /\ call'.next = "settle"
            /\ call'.failed
         \/ /\ devs' = devs \cup {"pcow"} /\ pc' = Ending(call'.holds)
            /\ SameBut(call, call', {"failed", "made", "next", "unclean"})
            /\ call'.next = "settle" /\ call'.failed /\ call'.unclean
            /\ call'.made = call.made \cup {"pcow"}
         \/ /\ devs' = devs \cup {"pcow"} /\ pc' = Ending(call'.holds)
            /\ SameBut(call, call', {"failed", "leaked", "made", "next"})
            /\ call'.next = "settle" /\ call'.failed /\ call'.leaked = {"pcow"}
            /\ call'.made = call.made \cup {"pcow"}
  BY <1>1 DEF CallOK, Fields, SameBut, AllocatePrivate, At, ViewIsSound, Fine, Make, Note,
         FailsIf, GiveUp, host, Broken, End, OnHost, CaptureFault, Ending, guest
<1>4. cancelled' \in BOOLEAN /\ faults' \in 0..CaptureBudget
  BY FlagsKept DEF CaptureInv, Types, CaptureTypeOK, AllocatePrivate, FailsIf, Broken,
         OnHost
<1> USE <1>2, <1>3, <1>4 DEF CaptureInv, Viewing, Dropping, Removing, Cloning, Archiving,
          Closing, SameBut, guest, Ending
<1>5. CallOK'
  BY <1>1, DeviceNames DEF CallOK
<1>6. CaptureTypeOK'
  BY <1>5, DeviceNames DEF Types, CaptureTypeOK, CallOK, CaptureLabels
<1>7. Flow'
  BY DEF Flow, Sides
<1>8. Sides'
  BY DEF Sides, Flow, Freezes, Stable, Private
<1>9. Layered'
  BY DEF Layered, Standing, Flow, Lasting, Private, Files, Kernel
<1>10. Freezes'
  BY DEF Freezes, Flow
<1>11. OneMoment'
  BY DEF OneMoment, ArchiveIsOneMoment, Reading, Source, Parts, Flow
<1>12. Tidy'
  BY DEF Tidy, Left, Flow, Sides, Layered, Stable, Private
<1> QED BY <1>5, <1>6, <1>7, <1>8, <1>9, <1>10, <1>11, <1>12 DEF Types

(* It gets its loop device.                                                *)
LEMMA AttachPrivateKeeps == ASSUME CaptureInv, AttachPrivate PROVE  CaptureInv'
<1>1. CallOK /\ suspended \in BOOLEAN /\ content \in 0..MaxWrites /\ frozen \in Versions
  BY DEF CaptureInv, Types, CaptureTypeOK
<1>2. DOMAIN call' = Fields
  BY <1>1 DEF CallOK, Fields, AttachPrivate, Note, UndoPrivate
<1>3. /\ pc = "private_loop" /\ UNCHANGED <<guest, output, orphans, suspended, invalid, frozen>>
      /\ \/ /\ devs' = devs \cup {"ploop"} /\ pc' = "private_map"
            /\ SameBut(call, call', {"made"}) /\ call'.made = call.made \cup {"ploop"}
         \/ /\ devs' = devs /\ pc' = "remove_pcow"
            /\ SameBut(call, call', {"failed", "next"}) /\ call'.failed
            /\ call'.next = "settle"
         \/ /\ devs' = devs \cup {"ploop"} /\ pc' = "remove_ploop"
            /\ SameBut(call, call', {"failed", "next", "made"}) /\ call'.failed
            /\ call'.next = "settle" /\ call'.made = call.made \cup {"ploop"}
  BY <1>1 DEF CallOK, Fields, SameBut, AttachPrivate, At, Fine, Make, Note, Broken,
         UndoPrivate, host, OnHost, CaptureFault, guest
<1>4. cancelled' \in BOOLEAN /\ faults' \in 0..CaptureBudget
  BY FlagsKept DEF CaptureInv, Types, CaptureTypeOK, AttachPrivate, Broken, OnHost
<1> USE <1>2, <1>3, <1>4 DEF CaptureInv, Viewing, Dropping, Removing, Cloning, Archiving,
          Closing, SameBut, guest
<1>5. CallOK'
  BY <1>1, DeviceNames DEF CallOK
<1>6. CaptureTypeOK'
  BY <1>5, DeviceNames DEF Types, CaptureTypeOK, CallOK, CaptureLabels
<1>7. Flow'
  BY DEF Flow, Sides
<1>8. Sides'
  BY DEF Sides, Flow, Freezes, Stable, Private
<1>9. Layered'
  BY DEF Layered, Standing, Flow, Lasting, Private, Files, Kernel
<1>10. Freezes'
  BY DEF Freezes, Flow
<1>11. OneMoment'
  BY DEF OneMoment, ArchiveIsOneMoment, Reading, Source, Parts, Flow
<1>12. Tidy'
  BY DEF Tidy, Left, Flow, Sides, Layered, Stable, Private
<1> QED BY <1>5, <1>6, <1>7, <1>8, <1>9, <1>10, <1>11, <1>12 DEF Types

(* The private view is mapped on the stable one.                           *)
LEMMA MapPrivateKeeps == ASSUME CaptureInv, MapPrivate PROVE  CaptureInv'
<1>1. CallOK /\ suspended \in BOOLEAN /\ content \in 0..MaxWrites /\ frozen \in Versions
  BY DEF CaptureInv, Types, CaptureTypeOK
<1>2. DOMAIN call' = Fields
  BY <1>1 DEF CallOK, Fields, MapPrivate, Note, End, UndoPrivate
<1>3. /\ pc = "private_map" /\ UNCHANGED <<guest, output, orphans, suspended, invalid, frozen>>
      /\ \/ /\ "view" \in devs /\ devs' = devs \cup {"private"} /\ pc' = "private_verify"
            /\ SameBut(call, call', {"made"}) /\ call'.made = call.made \cup {"private"}
         \/ /\ devs' = devs /\ pc' = Ending(call'.holds)
            /\ SameBut(call, call', {"failed", "leaked", "next"}) /\ call'.next = "settle"
            /\ call'.failed /\ call'.leaked = {"pcow", "ploop"}
         \/ /\ devs' = devs /\ pc' = "remove_ploop"
            /\ SameBut(call, call', {"failed", "next"}) /\ call'.failed
            /\ call'.next = "settle"
         \/ /\ devs' = devs /\ pc' = "remove_ploop" /\ SameBut(call, call', {"next"})
            /\ call'.next = "copy"
  BY <1>1 DEF CallOK, Fields, SameBut, MapPrivate, At, ViewIsSound, Fine, Make, Note,
         Broken, host, End, FailsIf, UndoPrivate, OnHost, CaptureFault, Ending, guest
<1>4. cancelled' \in BOOLEAN /\ faults' \in 0..CaptureBudget
  BY FlagsKept DEF CaptureInv, Types, CaptureTypeOK, MapPrivate, Broken, FailsIf, OnHost
<1> USE <1>2, <1>3, <1>4 DEF CaptureInv, Viewing, Dropping, Removing, Cloning, Archiving,
          Closing, SameBut, guest, Ending
<1>5. CallOK'
  BY <1>1, DeviceNames DEF CallOK
<1>6. CaptureTypeOK'
  BY <1>5, DeviceNames DEF Types, CaptureTypeOK, CallOK, CaptureLabels
<1>7. Flow'
  BY DEF Flow, Sides
<1>8. Sides'
  BY DEF Sides, Flow, Freezes, Stable, Private
<1>9. Layered'
  BY DEF Layered, Standing, Flow, Lasting, Private, Files, Kernel
<1>10. Freezes'
  BY DEF Freezes, Flow
<1>11. OneMoment'
  BY DEF OneMoment, ArchiveIsOneMoment, Reading, Source, Parts, Flow
<1>12. Tidy'
  BY DEF Tidy, Left, Flow, Sides, Layered, Stable, Private
<1> QED BY <1>5, <1>6, <1>7, <1>8, <1>9, <1>10, <1>11, <1>12 DEF Types

(* The private view is verified; from now on the call holds it.            *)
LEMMA VerifyPrivateKeeps == ASSUME CaptureInv, VerifyPrivate PROVE  CaptureInv'
<1>1. CallOK /\ suspended \in BOOLEAN /\ content \in 0..MaxWrites /\ frozen \in Versions
  BY DEF CaptureInv, Types, CaptureTypeOK
<1>2. DOMAIN call' = Fields
  BY <1>1 DEF CallOK, Fields, VerifyPrivate, UndoPrivate
<1>3. /\ pc = "private_verify"
      /\ UNCHANGED <<guest, output, devs, orphans, suspended, invalid, frozen>>
      /\ \/ /\ pc' = "sanitize" /\ SameBut(call, call', {"holds"})
            /\ call'.holds = call.holds \cup {"private"}
         \/ /\ pc' = "remove_private" /\ SameBut(call, call', {"failed", "next"})
            /\ call'.failed /\ call'.next = "settle"
  BY <1>1 DEF CallOK, Fields, SameBut, VerifyPrivate, At, ViewIsSound, Fine, FailsIf,
         UndoPrivate, host, OnHost, Broken, guest, CaptureFault
<1>4. cancelled' \in BOOLEAN /\ faults' \in 0..CaptureBudget
  BY FlagsKept DEF CaptureInv, Types, CaptureTypeOK, VerifyPrivate, FailsIf, OnHost, Broken
<1> USE <1>2, <1>3, <1>4 DEF CaptureInv, Viewing, Dropping, Removing, Cloning, Archiving,
          Closing, SameBut, guest
<1>5. CallOK'
  BY <1>1, DeviceNames DEF CallOK
<1>6. CaptureTypeOK'
  BY <1>5, DeviceNames DEF Types, CaptureTypeOK, CallOK, CaptureLabels
<1>7. Flow'
  BY DEF Flow, Sides
<1>8. Sides'
  BY DEF Sides, Flow, Freezes, Stable, Private
<1>9. Layered'
  BY DEF Layered, Standing, Flow, Lasting, Private, Files, Kernel
<1>10. Freezes'
  BY DEF Freezes, Flow
<1>11. OneMoment'
  BY DEF OneMoment, ArchiveIsOneMoment, Reading, Source, Parts, Flow
<1>12. Tidy'
  BY DEF Tidy, Left, Flow, Sides, Layered, Stable, Private
<1> QED BY <1>5, <1>6, <1>7, <1>8, <1>9, <1>10, <1>11, <1>12 DEF Types

(* The private mapping is removed.                                         *)
LEMMA RemovePrivateKeeps == ASSUME CaptureInv, RemovePrivate PROVE  CaptureInv'
<1>1. CallOK /\ suspended \in BOOLEAN /\ content \in 0..MaxWrites /\ frozen \in Versions
  BY DEF CaptureInv, Types, CaptureTypeOK
<1>2. DOMAIN call' = Fields
  BY <1>1 DEF CallOK, Fields, RemovePrivate, Goto, PrivateStays, End
<1>3. /\ pc = "remove_private" /\ UNCHANGED <<guest, output, orphans, suspended, invalid, frozen>>
      /\ \/ devs' = devs \ {"private"} /\ pc' = "remove_ploop" /\ call' = call
         \/ /\ devs' \in {devs, devs \ {"private"}} /\ pc' = Ending(call'.holds)
            /\ SameBut(call, call', {"failed", "holds", "next", "unclean"})
            /\ call'.next = "settle" /\ call'.holds = call.holds \ {"private"}
            /\ call'.failed /\ call'.unclean
  BY <1>1 DEF CallOK, Fields, SameBut, RemovePrivate, At, Fine, Unmake, Goto, Broken,
         PrivateStays, host, OnHost, CaptureFault, End, guest, Ending
<1>4. cancelled' \in BOOLEAN /\ faults' \in 0..CaptureBudget
  BY FlagsKept DEF CaptureInv, Types, CaptureTypeOK, RemovePrivate, Broken, OnHost
<1> USE <1>2, <1>3, <1>4 DEF CaptureInv, Viewing, Dropping, Removing, Cloning, Archiving,
          Closing, SameBut, guest, Ending
<1>5. CallOK'
  BY <1>1 DEF CallOK
<1>6. CaptureTypeOK'
  BY <1>5 DEF Types, CaptureTypeOK, CallOK, CaptureLabels
<1>7. Flow'
  BY DEF Flow, Sides
<1>8. Sides'
  BY DEF Sides, Flow, Freezes
<1>9. Layered'
  BY DEF Layered, Standing, Flow, Lasting, Private, Files, Kernel
<1>10. Freezes'
  BY DEF Freezes, Flow
<1>11. OneMoment'
  BY DEF OneMoment, ArchiveIsOneMoment, Reading, Source, Parts, Flow
<1>12. Tidy'
  BY DEF Tidy, Left, Flow, Sides, Layered, Stable, Private
<1> QED BY <1>5, <1>6, <1>7, <1>8, <1>9, <1>10, <1>11, <1>12 DEF Types

(* Its loop device is detached.                                            *)
LEMMA RemovePrivateLoopKeeps == ASSUME CaptureInv, RemovePrivateLoop PROVE  CaptureInv'
<1>1. CallOK /\ suspended \in BOOLEAN /\ content \in 0..MaxWrites /\ frozen \in Versions
  BY DEF CaptureInv, Types, CaptureTypeOK
<1>2. DOMAIN call' = Fields
  BY <1>1 DEF CallOK, Fields, RemovePrivateLoop, Goto, PrivateStays, End
<1>3. /\ pc = "remove_ploop" /\ UNCHANGED <<guest, output, orphans, suspended, invalid, frozen>>
      /\ \/ devs' = devs \ {"ploop"} /\ pc' = "remove_pcow" /\ call' = call
         \/ /\ devs' = devs /\ pc' = Ending(call'.holds)
            /\ SameBut(call, call', {"failed", "holds", "next", "unclean"})
            /\ call'.next = "settle" /\ call'.holds = call.holds \ {"private"}
            /\ call'.failed /\ call'.unclean
  BY <1>1 DEF CallOK, Fields, SameBut, RemovePrivateLoop, At, Fine, Unmake, Goto, Broken,
         PrivateStays, host, OnHost, CaptureFault, End, guest, Ending
<1>4. cancelled' \in BOOLEAN /\ faults' \in 0..CaptureBudget
  BY FlagsKept DEF CaptureInv, Types, CaptureTypeOK, RemovePrivateLoop, Broken, OnHost
<1> USE <1>2, <1>3, <1>4 DEF CaptureInv, Viewing, Dropping, Removing, Cloning, Archiving,
          Closing, SameBut, guest, Ending
<1>5. CallOK'
  BY <1>1 DEF CallOK
<1>6. CaptureTypeOK'
  BY <1>5 DEF Types, CaptureTypeOK, CallOK, CaptureLabels
<1>7. Flow'
  BY DEF Flow, Sides
<1>8. Sides'
  BY DEF Sides, Flow, Freezes
<1>9. Layered'
  BY DEF Layered, Standing, Flow, Lasting, Private, Files, Kernel
<1>10. Freezes'
  BY DEF Freezes, Flow
<1>11. OneMoment'
  BY DEF OneMoment, ArchiveIsOneMoment, Reading, Source, Parts, Flow
<1>12. Tidy'
  BY DEF Tidy, Left, Flow, Sides, Layered, Stable, Private
<1> QED BY <1>5, <1>6, <1>7, <1>8, <1>9, <1>10, <1>11, <1>12 DEF Types

(* Its file is removed.                                                    *)
LEMMA RemovePrivateCowKeeps == ASSUME CaptureInv, RemovePrivateCow PROVE  CaptureInv'
<1>1. CallOK /\ suspended \in BOOLEAN /\ content \in 0..MaxWrites /\ frozen \in Versions
  BY DEF CaptureInv, Types, CaptureTypeOK
<1>2. DOMAIN call' = Fields
  BY <1>1 DEF CallOK, Fields, RemovePrivateCow, Goto, End, PrivateStays
<1>3. /\ pc = "remove_pcow" /\ UNCHANGED <<guest, output, orphans, suspended, invalid, frozen>>
      /\ \/ /\ devs' = devs \ {"pcow"} /\ call.next = "copy" /\ pc' = "copy"
            /\ call' = call
         \/ /\ devs' = devs \ {"pcow"} /\ call.next # "copy" /\ pc' = Ending(call'.holds)
            /\ SameBut(call, call', {"holds", "next"}) /\ call'.next = "settle"
            /\ call'.holds = call.holds \ {"private"}
         \/ /\ devs' = devs /\ pc' = Ending(call'.holds)
            /\ SameBut(call, call', {"failed", "holds", "next", "unclean"})
            /\ call'.next = "settle" /\ call'.holds = call.holds \ {"private"}
            /\ call'.failed /\ call'.unclean
  BY <1>1 DEF CallOK, Fields, SameBut, RemovePrivateCow, At, Fine, Unmake, Goto, End,
         Broken, PrivateStays, host, OnHost, Ending, CaptureFault, guest
<1>4. cancelled' \in BOOLEAN /\ faults' \in 0..CaptureBudget
  BY FlagsKept DEF CaptureInv, Types, CaptureTypeOK, RemovePrivateCow, Broken, OnHost
<1> USE <1>2, <1>3, <1>4 DEF CaptureInv, Viewing, Dropping, Removing, Cloning, Archiving,
          Closing, SameBut, guest, Ending
<1>5. CallOK'
  BY <1>1 DEF CallOK
<1>6. CaptureTypeOK'
  BY <1>5 DEF Types, CaptureTypeOK, CallOK, CaptureLabels
<1>7. Flow'
  <2>1. CASE pc' = "copy"
    BY <2>1 DEF Flow
  <2>2. CASE pc' # "copy"
    BY <2>2 DEF Flow
  <2> QED BY <2>1, <2>2
<1>8. Sides'
  BY DEF Sides, Flow, Freezes
<1>9. Layered'
  BY DEF Layered, Standing, Flow, Lasting, Private, Files, Kernel
<1>10. Freezes'
  BY DEF Freezes, Flow
<1>11. OneMoment'
  BY DEF OneMoment, ArchiveIsOneMoment, Reading, Source, Parts, Flow
<1>12. Tidy'
  BY DEF Tidy, Left, Flow, Sides, Layered, Stable, Private
<1> QED BY <1>5, <1>6, <1>7, <1>8, <1>9, <1>10, <1>11, <1>12 DEF Types

(* The disk is copied where views cannot be nested.                        *)
LEMMA CopyDiskKeeps == ASSUME CaptureInv, CopyDisk PROVE  CaptureInv'
<1>1. CallOK /\ suspended \in BOOLEAN /\ content \in 0..MaxWrites /\ frozen \in Versions
  BY DEF CaptureInv, Types, CaptureTypeOK
<1>2. DOMAIN call' = Fields
  BY <1>1 DEF CallOK, Fields, CopyDisk, Source, GiveUp, End
<1>3. /\ pc = "copy" /\ UNCHANGED <<guest, output, orphans, suspended, invalid, frozen>>
      /\ \/ /\ devs' = devs \cup {"copy"} /\ pc' = "sanitize"
            /\ SameBut(call, call', {"copied", "holds", "made"}) /\ call'.copied = Source
            /\ call'.holds = call.holds \cup {"copy"}
            /\ call'.made = call.made \cup {"copy"}
         \/ /\ devs' = devs /\ pc' = Ending(call'.holds)
            /\ SameBut(call, call', {"failed", "next"}) /\ call'.next = "settle"
            /\ call'.failed
         \/ /\ devs' = devs \cup {"copy"} /\ pc' = Ending(call'.holds)
            /\ SameBut(call, call', {"failed", "next", "unclean"})
            /\ call'.next = "settle" /\ call'.failed /\ call'.unclean
  BY <1>1 DEF CallOK, Fields, SameBut, CopyDisk, At, ViewIsSound, Fine, Make, Source,
         FailsIf, GiveUp, host, Broken, End, OnHost, CaptureFault, Ending, guest
<1>4. cancelled' \in BOOLEAN /\ faults' \in 0..CaptureBudget
  BY FlagsKept DEF CaptureInv, Types, CaptureTypeOK, CopyDisk, FailsIf, Broken, OnHost
<1> USE <1>2, <1>3, <1>4 DEF CaptureInv, Viewing, Dropping, Removing, Cloning, Archiving,
          Closing, SameBut, guest, Ending
<1>5. CallOK'
  BY <1>1, DeviceNames DEF CallOK
<1>6. CaptureTypeOK'
  BY <1>5, DeviceNames DEF Types, CaptureTypeOK, CallOK, CaptureLabels
<1>7. Flow'
  BY DEF Flow, Sides
<1>8. Sides'
  BY DEF Sides, Flow, Freezes, Stable, Private
<1>9. Layered'
  BY DEF Layered, Standing, Flow, Lasting, Private, Files, Kernel
<1>10. Freezes'
  BY DEF Freezes, Flow
<1>11. OneMoment'
  BY <1>1 DEF CallOK, Sides, OneMoment, ArchiveIsOneMoment, Reading, Source, Parts, Flow
<1>12. Tidy'
  BY DEF Tidy, Left, Flow, Sides, Layered, Stable, Private
<1> QED BY <1>5, <1>6, <1>7, <1>8, <1>9, <1>10, <1>11, <1>12 DEF Types

(* The private view or copy is sanitized.                                  *)
LEMMA SanitizeKeeps == ASSUME CaptureInv, Sanitize PROVE  CaptureInv'
<1>1. CallOK /\ suspended \in BOOLEAN /\ content \in 0..MaxWrites /\ frozen \in Versions
  BY DEF CaptureInv, Types, CaptureTypeOK
<1>2. DOMAIN call' = Fields
  BY <1>1 DEF CallOK, Fields, Sanitize, GiveUp, End
<1>3. /\ pc = "sanitize" /\ UNCHANGED <<guest, output, devs, orphans, suspended, invalid, frozen>>
      /\ \/ pc' = "open" /\ SameBut(call, call', {"sanitized"}) /\ call'.sanitized
         \/ /\ pc' = Ending(call'.holds) /\ SameBut(call, call', {"failed", "next"})
            /\ call'.next = "settle" /\ call'.failed
  BY <1>1 DEF CallOK, Fields, SameBut, Sanitize, At, Fine, Broken, GiveUp, Aside,
         CaptureFault, End, guest, host, Ending
<1>4. cancelled' \in BOOLEAN /\ faults' \in 0..CaptureBudget
  BY FlagsKept DEF CaptureInv, Types, CaptureTypeOK, Sanitize, Broken, Aside
<1> USE <1>2, <1>3, <1>4 DEF CaptureInv, Viewing, Dropping, Removing, Cloning, Archiving,
          Closing, SameBut, guest, Ending
<1>5. CallOK'
  BY <1>1 DEF CallOK
<1>6. CaptureTypeOK'
  BY <1>5 DEF Types, CaptureTypeOK, CallOK, CaptureLabels
<1>7. Flow'
  BY DEF Flow, Sides
<1>8. Sides'
  BY DEF Sides, Flow, Freezes
<1>9. Layered'
  BY DEF Layered, Standing, Flow, Lasting, Private, Files, Kernel
<1>10. Freezes'
  BY DEF Freezes, Flow
<1>11. OneMoment'
  BY DEF OneMoment, ArchiveIsOneMoment, Reading, Source, Parts, Flow
<1>12. Tidy'
  BY DEF Tidy, Left, Flow, Sides, Layered, Stable, Private
<1> QED BY <1>5, <1>6, <1>7, <1>8, <1>9, <1>10, <1>11, <1>12 DEF Types

(* The temporary file of the archive is opened.                            *)
LEMMA OpenTemporaryKeeps == ASSUME CaptureInv, OpenTemporary PROVE  CaptureInv'
<1>1. CallOK /\ suspended \in BOOLEAN /\ content \in 0..MaxWrites /\ frozen \in Versions
  BY DEF CaptureInv, Types, CaptureTypeOK
<1>2. DOMAIN call' = Fields
  BY <1>1 DEF CallOK, Fields, OpenTemporary, Note, GiveUp, End
<1>3. /\ pc = "open" /\ UNCHANGED <<guest, output, orphans, suspended, invalid, frozen>>
      /\ \/ /\ devs' = devs \cup {"tmp"} /\ pc' = "read" /\ SameBut(call, call', {"made"})
            /\ call'.made = call.made \cup {"tmp"}
         \/ /\ devs' = devs /\ pc' = Ending(call'.holds)
            /\ SameBut(call, call', {"failed", "next"}) /\ call'.next = "settle"
            /\ call'.failed
  BY <1>1 DEF CallOK, Fields, SameBut, OpenTemporary, At, Fine, Make, Note, Broken, GiveUp,
         host, OnHost, CaptureFault, End, guest, Ending
<1>4. cancelled' \in BOOLEAN /\ faults' \in 0..CaptureBudget
  BY FlagsKept DEF CaptureInv, Types, CaptureTypeOK, OpenTemporary, Broken, OnHost
<1> USE <1>2, <1>3, <1>4 DEF CaptureInv, Viewing, Dropping, Removing, Cloning, Archiving,
          Closing, SameBut, guest, Ending
<1>5. CallOK'
  BY <1>1, DeviceNames DEF CallOK
<1>6. CaptureTypeOK'
  BY <1>5, DeviceNames DEF Types, CaptureTypeOK, CallOK, CaptureLabels
<1>7. Flow'
  BY DEF Flow, Sides
<1>8. Sides'
  BY DEF Sides, Flow, Freezes, Stable, Private
<1>9. Layered'
  BY DEF Layered, Standing, Flow, Lasting, Private, Files, Kernel
<1>10. Freezes'
  BY DEF Freezes, Flow
<1>11. OneMoment'
  BY DEF OneMoment, ArchiveIsOneMoment, Reading, Source, Parts, Flow
<1>12. Tidy'
  BY DEF Tidy, Left, Flow, Sides, Layered, Stable, Private
<1> QED BY <1>5, <1>6, <1>7, <1>8, <1>9, <1>10, <1>11, <1>12 DEF Types

(* A part of the disk is read into the archive.                            *)
LEMMA ReadDiskKeeps == ASSUME CaptureInv, ReadDisk PROVE  CaptureInv'
<1>1. CallOK /\ suspended \in BOOLEAN /\ content \in 0..MaxWrites /\ frozen \in Versions
  BY DEF CaptureInv, Types, CaptureTypeOK
<1>2. DOMAIN call' = Fields
  BY <1>1 DEF CallOK, Fields, ReadDisk, Source, Discard, GiveUp, End
<1>3. /\ pc = "read" /\ UNCHANGED <<guest, output, orphans, suspended, invalid, frozen>>
      /\ \/ /\ devs' = devs /\ SameBut(call, call', {"parts"})
            /\ call'.parts = Append(call.parts, Reading)
            /\ pc' = (IF Len(call'.parts) = Parts THEN "rest" ELSE "read")
         \/ /\ devs' = devs \ {"tmp"} /\ pc' = Ending(call'.holds)
            /\ SameBut(call, call', {"failed", "next"}) /\ call'.next = "settle"
            /\ call'.failed
         \/ /\ devs' = devs /\ pc' = Ending(call'.holds)
            /\ SameBut(call, call', {"failed", "next", "unclean"})
            /\ call'.next = "settle" /\ call'.failed /\ call'.unclean
  BY <1>1 DEF CallOK, Fields, SameBut, ReadDisk, At, Sound, Fine, host, Source, Parts,
         Discard, OnHost, ViewIsSound, FailsIf, Unmake, GiveUp, Broken, End, guest,
         CaptureFault, Ending, Reading
<1>4. cancelled' \in BOOLEAN /\ faults' \in 0..CaptureBudget
  BY FlagsKept DEF CaptureInv, Types, CaptureTypeOK, ReadDisk, Discard, OnHost, FailsIf,
         Broken
<1> USE <1>2, <1>3, <1>4 DEF CaptureInv, Viewing, Dropping, Removing, Cloning, Archiving,
          Closing, SameBut, guest, Ending
<1>5. CallOK'
  <2>1. Reading \in Versions
    BY <1>1, CaptureFaultsAssumption DEF OneMoment, Versions, Torn, Reading, Source, CallOK
  <2>2. Append(call.parts, Reading) \in Seq(Versions)
    BY <2>1, <1>1, AppendProperties DEF CallOK
  <2> QED BY <1>1, <2>2 DEF CallOK
<1>6. CaptureTypeOK'
  BY <1>5 DEF Types, CaptureTypeOK, CallOK, CaptureLabels
<1>7. Flow'
  BY DEF Flow, Sides
<1>8. Sides'
  BY DEF Sides, Flow, Freezes
<1>9. Layered'
  BY DEF Layered, Standing, Flow, Lasting, Private, Files, Kernel
<1>10. Freezes'
  BY DEF Freezes, Flow
<1>11. OneMoment'
  <2>1. CASE call'.parts = call.parts
    BY <2>1 DEF OneMoment, ArchiveIsOneMoment, Parts, Flow
  <2>2. CASE call'.parts = Append(call.parts, Reading)
    <3>1. Reading \in call.since..MaxWrites
      BY <1>1 DEF OneMoment, Sides, Flow, Reading, Source, CallOK
    <3>2. /\ Len(call'.parts) = Len(call.parts) + 1 /\ DOMAIN call'.parts = 1..(Len(call.parts) + 1)
          /\ Len(call.parts) \in Nat
          /\ \A i \in DOMAIN call'.parts : call'.parts[i] = Reading
      BY <2>2, <1>1, AppendProperties DEF CallOK, OneMoment
    <3> QED BY <2>2, <3>1, <3>2, OutputAssumption DEF OneMoment, ArchiveIsOneMoment, Parts,
       Flow, Reading, Source
  <2> QED BY <2>1, <2>2
<1>12. Tidy'
  BY DEF Tidy, Left, Flow, Sides, Layered, Stable, Private
<1> QED BY <1>5, <1>6, <1>7, <1>8, <1>9, <1>10, <1>11, <1>12 DEF Types

(* The archive is completed.                                               *)
LEMMA FinishArchiveKeeps == ASSUME CaptureInv, FinishArchive PROVE  CaptureInv'
<1>1. CallOK /\ suspended \in BOOLEAN /\ content \in 0..MaxWrites /\ frozen \in Versions
  BY DEF CaptureInv, Types, CaptureTypeOK
<1>2. DOMAIN call' = Fields
  BY <1>1 DEF CallOK, Fields, FinishArchive, Goto, Discard, GiveUp, End
<1>3. /\ pc = "rest" /\ UNCHANGED <<guest, output, orphans, suspended, invalid, frozen>>
      /\ \/ devs' = devs /\ pc' = "stage" /\ call' = call
         \/ /\ devs' = devs \ {"tmp"} /\ pc' = Ending(call'.holds)
            /\ SameBut(call, call', {"failed", "next"}) /\ call'.next = "settle"
            /\ call'.failed
         \/ /\ devs' = devs /\ pc' = Ending(call'.holds)
            /\ SameBut(call, call', {"failed", "next", "unclean"})
            /\ call'.next = "settle" /\ call'.failed /\ call'.unclean
  BY <1>1 DEF CallOK, Fields, SameBut, FinishArchive, At, Sound, Fine, Goto, host, Discard,
         OnHost, ViewIsSound, FailsIf, Unmake, GiveUp, Broken, End, guest, CaptureFault,
         Ending
<1>4. cancelled' \in BOOLEAN /\ faults' \in 0..CaptureBudget
  BY FlagsKept DEF CaptureInv, Types, CaptureTypeOK, FinishArchive, Discard, OnHost,
         FailsIf, Broken
<1> USE <1>2, <1>3, <1>4 DEF CaptureInv, Viewing, Dropping, Removing, Cloning, Archiving,
          Closing, SameBut, guest, Ending
<1>5. CallOK'
  BY <1>1 DEF CallOK
<1>6. CaptureTypeOK'
  BY <1>5 DEF Types, CaptureTypeOK, CallOK, CaptureLabels
<1>7. Flow'
  BY DEF Flow, Sides
<1>8. Sides'
  BY DEF Sides, Flow, Freezes
<1>9. Layered'
  BY DEF Layered, Standing, Flow, Lasting, Private, Files, Kernel
<1>10. Freezes'
  BY DEF Freezes, Flow
<1>11. OneMoment'
  BY DEF OneMoment, ArchiveIsOneMoment, Reading, Source, Parts, Flow
<1>12. Tidy'
  BY DEF Tidy, Left, Flow, Sides, Layered, Stable, Private
<1> QED BY <1>5, <1>6, <1>7, <1>8, <1>9, <1>10, <1>11, <1>12 DEF Types

(* The archive gets its staged name.                                       *)
LEMMA StagedKeeps == ASSUME CaptureInv, Staged PROVE  CaptureInv'
<1>1. CallOK /\ suspended \in BOOLEAN /\ content \in 0..MaxWrites /\ frozen \in Versions
  BY DEF CaptureInv, Types, CaptureTypeOK
<1>2. DOMAIN call' = Fields
  BY <1>1 DEF CallOK, Fields, Staged, End
<1>3. /\ pc = "stage" /\ UNCHANGED <<guest, output, orphans, suspended, invalid, frozen>>
      /\ /\ devs' = (devs \ {"tmp"}) \cup {"staged"} /\ pc' = Ending(call'.holds)
         /\ SameBut(call, call', {"holds", "made", "next"}) /\ call'.next = "settle"
         /\ call'.holds = call.holds \cup {"staged"}
         /\ call'.made = call.made \cup {"staged"}
  BY <1>1 DEF CallOK, Fields, SameBut, Staged, At, Fine, End, OnHost, Ending, guest
<1>4. cancelled' \in BOOLEAN /\ faults' \in 0..CaptureBudget
  BY FlagsKept DEF CaptureInv, Types, CaptureTypeOK, Staged, OnHost
<1> USE <1>2, <1>3, <1>4 DEF CaptureInv, Viewing, Dropping, Removing, Cloning, Archiving,
          Closing, SameBut, guest, Ending
<1>5. CallOK'
  BY <1>1, DeviceNames DEF CallOK
<1>6. CaptureTypeOK'
  BY <1>5, DeviceNames DEF Types, CaptureTypeOK, CallOK, CaptureLabels
<1>7. Flow'
  BY DEF Flow, Sides
<1>8. Sides'
  BY DEF Sides, Flow, Freezes, Stable, Private
<1>9. Layered'
  BY DEF Layered, Standing, Flow, Lasting, Private, Files, Kernel
<1>10. Freezes'
  BY DEF Freezes, Flow
<1>11. OneMoment'
  BY DEF OneMoment, ArchiveIsOneMoment, Reading, Source, Parts, Flow
<1>12. Tidy'
  BY DEF Tidy, Left, Flow, Sides, Layered, Stable, Private
<1> QED BY <1>5, <1>6, <1>7, <1>8, <1>9, <1>10, <1>11, <1>12 DEF Types

(* The archive does not get its staged name.                               *)
LEMMA UnstagedKeeps == ASSUME CaptureInv, NEW left \in SUBSET {"tmp", "staged"}, Unstaged(left)
    PROVE  CaptureInv'
<1>1. CallOK /\ suspended \in BOOLEAN /\ content \in 0..MaxWrites /\ frozen \in Versions
  BY DEF CaptureInv, Types, CaptureTypeOK
<1>2. DOMAIN call' = Fields
  BY <1>1 DEF CallOK, Fields, Unstaged, End
<1>3. /\ pc = "stage" /\ UNCHANGED <<guest, output, orphans, suspended, invalid, frozen>>
      /\ /\ devs' = (devs \ {"tmp"}) \cup left /\ call'.unclean = (left # {})
         /\ pc' = Ending(call'.holds)
         /\ SameBut(call, call', {"failed", "next", "unclean"}) /\ call'.next = "settle"
         /\ call'.failed
  BY <1>1 DEF CallOK, Fields, SameBut, Unstaged, At, Broken, End, OnHost, CaptureFault,
         Ending, guest
<1>4. cancelled' \in BOOLEAN /\ faults' \in 0..CaptureBudget
  BY FlagsKept DEF CaptureInv, Types, CaptureTypeOK, Unstaged, Broken, OnHost
<1> USE <1>2, <1>3, <1>4 DEF CaptureInv, Viewing, Dropping, Removing, Cloning, Archiving,
          Closing, SameBut, guest, Ending
<1>5. CallOK'
  BY <1>1, DeviceNames DEF CallOK
<1>6. CaptureTypeOK'
  BY <1>5, DeviceNames DEF Types, CaptureTypeOK, CallOK, CaptureLabels
<1>7. Flow'
  BY DEF Flow, Sides
<1>8. Sides'
  BY DEF Sides, Flow, Freezes, Stable, Private
<1>9. Layered'
  BY DEF Layered, Standing, Flow, Lasting, Private, Files, Kernel
<1>10. Freezes'
  BY DEF Freezes, Flow
<1>11. OneMoment'
  BY DEF OneMoment, ArchiveIsOneMoment, Reading, Source, Parts, Flow
<1>12. Tidy'
  BY DEF Tidy, Left, Flow, Sides, Layered, Stable, Private
<1> QED BY <1>5, <1>6, <1>7, <1>8, <1>9, <1>10, <1>11, <1>12 DEF Types

(* The private copy is removed.                                            *)
LEMMA RemoveCopyKeeps == ASSUME CaptureInv, RemoveCopy PROVE  CaptureInv'
<1>1. CallOK /\ suspended \in BOOLEAN /\ content \in 0..MaxWrites /\ frozen \in Versions
  BY DEF CaptureInv, Types, CaptureTypeOK
<1>2. DOMAIN call' = Fields
  BY <1>1 DEF CallOK, Fields, RemoveCopy, End
<1>3. /\ pc = "end_copy" /\ UNCHANGED <<guest, output, orphans, suspended, invalid, frozen>>
      /\ \/ /\ devs' = devs \ {"copy"} /\ pc' = Ending(call'.holds)
            /\ SameBut(call, call', {"holds", "next"}) /\ call'.next = "settle"
            /\ call'.holds = call.holds \ {"copy"}
         \/ /\ devs' = devs /\ pc' = Ending(call'.holds)
            /\ SameBut(call, call', {"failed", "holds", "next", "unclean"})
            /\ call'.next = "settle" /\ call'.holds = call.holds \ {"copy"}
            /\ call'.failed /\ call'.unclean
  BY <1>1 DEF CallOK, Fields, SameBut, RemoveCopy, At, Fine, Unmake, End, Broken, host,
         OnHost, Ending, CaptureFault, guest
<1>4. cancelled' \in BOOLEAN /\ faults' \in 0..CaptureBudget
  BY FlagsKept DEF CaptureInv, Types, CaptureTypeOK, RemoveCopy, Broken, OnHost
<1> USE <1>2, <1>3, <1>4 DEF CaptureInv, Viewing, Dropping, Removing, Cloning, Archiving,
          Closing, SameBut, guest, Ending
<1>5. CallOK'
  BY <1>1 DEF CallOK
<1>6. CaptureTypeOK'
  BY <1>5 DEF Types, CaptureTypeOK, CallOK, CaptureLabels
<1>7. Flow'
  BY DEF Flow, Sides
<1>8. Sides'
  BY DEF Sides, Flow, Freezes
<1>9. Layered'
  BY DEF Layered, Standing, Flow, Lasting, Private, Files, Kernel
<1>10. Freezes'
  BY DEF Freezes, Flow
<1>11. OneMoment'
  BY DEF OneMoment, ArchiveIsOneMoment, Reading, Source, Parts, Flow
<1>12. Tidy'
  BY DEF Tidy, Left, Flow, Sides, Layered, Stable, Private
<1> QED BY <1>5, <1>6, <1>7, <1>8, <1>9, <1>10, <1>11, <1>12 DEF Types

(* The worker is done: publish, or withdraw what is staged.                *)
LEMMA SettleKeeps == ASSUME CaptureInv, Settle PROVE  CaptureInv'
<1>1. CallOK /\ suspended \in BOOLEAN /\ content \in 0..MaxWrites /\ frozen \in Versions
  BY DEF CaptureInv, Types, CaptureTypeOK
<1>2. DOMAIN call' = Fields
  BY <1>1 DEF CallOK, Fields, Settle, Goto, Withdraw, Return, Outcome, Idle
<1>3. /\ pc = "settle" /\ UNCHANGED <<guest, output, orphans, suspended, invalid, frozen>>
      /\ \/ /\ devs' = devs /\ pc' = "publish" /\ call' = call /\ "staged" \in call.holds
            /\ ~call.failed
         \/ devs' \in {devs, devs \ {"staged"}} /\ pc' = "idle" /\ Blank(call')
  BY <1>1 DEF CallOK, Fields, Blank, SameBut, Settle, At, guest, Fine, Goto, host, Withdraw,
         Return, Outcome, Unmake, Broken, Idle, CaptureFault
<1>4. cancelled' \in BOOLEAN /\ faults' \in 0..CaptureBudget
  BY FlagsKept DEF CaptureInv, Types, CaptureTypeOK, Settle, Withdraw, Broken
<1> USE <1>2, <1>3, <1>4 DEF CaptureInv, Viewing, Dropping, Removing, Cloning, Archiving,
          Closing, SameBut, guest, Blank
<1>5. CallOK'
  BY <1>1, BlankOK DEF CallOK
<1>6. CaptureTypeOK'
  BY <1>5 DEF Types, CaptureTypeOK, CallOK, CaptureLabels
<1>7. Flow'
  BY DEF Flow, Sides
<1>8. Sides'
  BY DEF Sides, Flow, Freezes
<1>9. Layered'
  BY DEF Layered, Standing, Flow, Lasting, Private, Files, Kernel
<1>10. Freezes'
  BY DEF Freezes, Flow
<1>11. OneMoment'
  BY DEF OneMoment, ArchiveIsOneMoment, Reading, Source, Parts, Flow
<1>12. Tidy'
  BY DEF Tidy, Left, Flow, Sides, Layered, Stable, Private
<1> QED BY <1>5, <1>6, <1>7, <1>8, <1>9, <1>10, <1>11, <1>12 DEF Types

(* The staged archive is linked to the requested name.                     *)
LEMMA PublishKeeps == ASSUME CaptureInv, Publish PROVE  CaptureInv'
<1>1. CallOK /\ suspended \in BOOLEAN /\ content \in 0..MaxWrites /\ frozen \in Versions
  BY DEF CaptureInv, Types, CaptureTypeOK
<1>2. DOMAIN call' = Fields
  BY <1>1 DEF CallOK, Fields, Publish, Goto, Withdraw, Return, Idle, Outcome
<1>3. /\ pc = "publish" /\ UNCHANGED <<guest, orphans, suspended, invalid, frozen>>
      /\ \/ /\ output = None /\ output' = Archive /\ devs' = devs
            /\ pc' = "publish_unlink" /\ call' = call
         \/ /\ output' = output /\ devs' \in {devs, devs \ {"staged"}} /\ pc' = "idle"
            /\ Blank(call')
  BY <1>1 DEF CallOK, Fields, Blank, SameBut, Publish, At, guest, Fine, Archive, Goto, host,
         Withdraw, Broken, Unmake, Return, Idle, Outcome, CaptureFault
<1>4. cancelled' \in BOOLEAN /\ faults' \in 0..CaptureBudget
  BY FlagsKept DEF CaptureInv, Types, CaptureTypeOK, Publish, Withdraw, Broken
<1> USE <1>2, <1>3, <1>4 DEF CaptureInv, Viewing, Dropping, Removing, Cloning, Archiving,
          Closing, SameBut, guest, Blank
<1>5. CallOK'
  BY <1>1, BlankOK DEF CallOK
<1>6. CaptureTypeOK'
  <2>1. output' = Archive => output' \in Archives
    BY ArchiveTypes
  <2> QED BY <1>5, <2>1 DEF Types, CaptureTypeOK, CallOK, CaptureLabels
<1>7. Flow'
  BY DEF Flow, Sides
<1>8. Sides'
  BY DEF Sides, Flow, Freezes
<1>9. Layered'
  BY DEF Layered, Standing, Flow, Lasting, Private, Files, Kernel
<1>10. Freezes'
  BY DEF Freezes, Flow
<1>11. OneMoment'
  <2>1. CASE output' = Archive /\ call' = call
    <3>1. output' \in Archives
      BY <2>1, ArchiveTypes
    <3>2. /\ output'.parts = call.parts /\ output'.since = call.since
          /\ output'.policy = call.policy /\ output'.sanitized = call.sanitized
      BY <2>1 DEF Archive
    <3>3. ArchiveIsOneMoment'
      BY <2>1, <3>1, <3>2, <1>1 DEF OneMoment, ArchiveIsOneMoment, Parts, Flow, CallOK
    <3> QED BY <2>1, <3>1, <3>3 DEF OneMoment, Reading, Source
  <2>2. CASE output' = output /\ Blank(call')
    BY <2>2 DEF OneMoment, ArchiveIsOneMoment, Parts, Flow, Reading, Source
  <2> QED BY <2>1, <2>2
<1>12. Tidy'
  BY DEF Tidy, Left, Flow, Sides, Layered, Stable, Private
<1> QED BY <1>5, <1>6, <1>7, <1>8, <1>9, <1>10, <1>11, <1>12 DEF Types

(* The staged name is removed.                                             *)
LEMMA FinishPublicationKeeps == ASSUME CaptureInv, FinishPublication PROVE  CaptureInv'
<1>1. CallOK /\ suspended \in BOOLEAN /\ content \in 0..MaxWrites /\ frozen \in Versions
  BY DEF CaptureInv, Types, CaptureTypeOK
<1>2. DOMAIN call' = Fields
  BY <1>1 DEF CallOK, Fields, FinishPublication, Return, Idle
<1>3. /\ pc = "publish_unlink" /\ UNCHANGED <<guest, orphans, suspended, invalid, frozen>>
      /\ /\ output' \in {output, None} /\ devs' \in {devs, devs \ {"staged"}}
         /\ pc' = "idle" /\ Blank(call')
  BY <1>1 DEF CallOK, Fields, Blank, SameBut, FinishPublication, At, guest, Fine, Unmake,
         Return, Broken, host, Idle, CaptureFault
<1>4. cancelled' \in BOOLEAN /\ faults' \in 0..CaptureBudget
  BY FlagsKept DEF CaptureInv, Types, CaptureTypeOK, FinishPublication, Broken
<1> USE <1>2, <1>3, <1>4 DEF CaptureInv, Viewing, Dropping, Removing, Cloning, Archiving,
          Closing, SameBut, guest, Blank
<1>5. CallOK'
  BY <1>1, BlankOK DEF CallOK
<1>6. CaptureTypeOK'
  BY <1>5 DEF Types, CaptureTypeOK, CallOK, CaptureLabels
<1>7. Flow'
  BY DEF Flow, Sides
<1>8. Sides'
  BY DEF Sides, Flow, Freezes
<1>9. Layered'
  BY DEF Layered, Standing, Flow, Lasting, Private, Files, Kernel
<1>10. Freezes'
  BY DEF Freezes, Flow
<1>11. OneMoment'
  BY OutputAssumption DEF OneMoment, ArchiveIsOneMoment, Reading, Source, Parts, Flow
<1>12. Tidy'
  BY DEF Tidy, Left, Flow, Sides, Layered, Stable, Private
<1> QED BY <1>5, <1>6, <1>7, <1>8, <1>9, <1>10, <1>11, <1>12 DEF Types

(* The guest writes to its disk.                                           *)
LEMMA GuestWritesKeeps == ASSUME CaptureInv, GuestWrites PROVE  CaptureInv'
<1>1. CallOK /\ suspended \in BOOLEAN /\ content \in 0..MaxWrites /\ frozen \in Versions
  BY DEF CaptureInv, Types, CaptureTypeOK
<1>2. DOMAIN call' = Fields
  BY <1>1 DEF CallOK, GuestWrites
<1>3. /\ UNCHANGED <<running, devs, orphans, suspended, invalid, frozen, output, pc, call>>
      /\ running /\ ~suspended /\ content < MaxWrites /\ content' = content + 1
  BY <1>1 DEF CallOK, Fields, SameBut, GuestWrites, host
<1>4. cancelled' \in BOOLEAN /\ faults' \in 0..CaptureBudget
  BY FlagsKept DEF CaptureInv, Types, CaptureTypeOK, GuestWrites
<1> USE <1>2, <1>3, <1>4 DEF CaptureInv, Viewing, Dropping, Removing, Cloning, Archiving,
          Closing, SameBut, guest
<1>5. CallOK'
  BY <1>1 DEF CallOK
<1>6. CaptureTypeOK'
  BY <1>5, CaptureFaultsAssumption DEF Types, CaptureTypeOK, CallOK, CaptureLabels, Versions, Torn
<1>7. Flow'
  BY <1>1 DEF CallOK, Flow
<1>8. Sides'
  BY DEF Sides, Flow, Freezes
<1>9. Layered'
  BY DEF Layered, Standing, Flow, Lasting, Private, Files, Kernel
<1>10. Freezes'
  BY DEF Freezes, Flow
<1>11. OneMoment'
  BY <1>1 DEF CallOK, Sides, OneMoment, ArchiveIsOneMoment, Reading, Source, Parts, Flow
<1>12. Tidy'
  BY DEF Tidy, Left, Flow, Sides, Layered, Stable, Private
<1> QED BY <1>5, <1>6, <1>7, <1>8, <1>9, <1>10, <1>11, <1>12 DEF Types

(* The guest powers off.                                                   *)
LEMMA GuestExitsKeeps == ASSUME CaptureInv, GuestExits PROVE  CaptureInv'
<1>1. CallOK /\ suspended \in BOOLEAN /\ content \in 0..MaxWrites /\ frozen \in Versions
  BY DEF CaptureInv, Types, CaptureTypeOK
<1>2. DOMAIN call' = Fields
  BY <1>1 DEF CallOK, GuestExits
<1>3. /\ UNCHANGED <<content, devs, orphans, suspended, invalid, frozen, output, pc, call>>
      /\ running' = FALSE
  BY <1>1 DEF CallOK, Fields, SameBut, GuestExits, host
<1>4. cancelled' \in BOOLEAN /\ faults' \in 0..CaptureBudget
  BY FlagsKept DEF CaptureInv, Types, CaptureTypeOK, GuestExits
<1> USE <1>2, <1>3, <1>4 DEF CaptureInv, Viewing, Dropping, Removing, Cloning, Archiving,
          Closing, SameBut, guest
<1>5. CallOK'
  BY <1>1 DEF CallOK
<1>6. CaptureTypeOK'
  BY <1>5 DEF Types, CaptureTypeOK, CallOK, CaptureLabels
<1>7. Flow'
  BY DEF Flow, Sides
<1>8. Sides'
  BY DEF Sides, Flow, Freezes
<1>9. Layered'
  BY DEF Layered, Standing, Flow, Lasting, Private, Files, Kernel
<1>10. Freezes'
  BY DEF Freezes, Flow
<1>11. OneMoment'
  BY DEF OneMoment, ArchiveIsOneMoment, Reading, Source, Parts, Flow
<1>12. Tidy'
  BY DEF Tidy, Left, Flow, Sides, Layered, Stable, Private
<1> QED BY <1>5, <1>6, <1>7, <1>8, <1>9, <1>10, <1>11, <1>12 DEF Types

(* The guest is started.                                                   *)
LEMMA StartGuestKeeps == ASSUME CaptureInv, StartGuest PROVE  CaptureInv'
<1>1. CallOK /\ suspended \in BOOLEAN /\ content \in 0..MaxWrites /\ frozen \in Versions
  BY DEF CaptureInv, Types, CaptureTypeOK
<1>2. DOMAIN call' = Fields
  BY <1>1 DEF CallOK, StartGuest
<1>3. /\ pc = "idle" /\ UNCHANGED <<content, orphans, suspended, invalid, frozen, output, pc, call>>
      /\ running' = TRUE /\ devs' = devs \cup Lasting
  BY <1>1 DEF CallOK, Fields, SameBut, StartGuest, At
<1>4. cancelled' \in BOOLEAN /\ faults' \in 0..CaptureBudget
  BY FlagsKept DEF CaptureInv, Types, CaptureTypeOK, StartGuest
<1> USE <1>2, <1>3, <1>4 DEF CaptureInv, Viewing, Dropping, Removing, Cloning, Archiving,
          Closing, SameBut, guest
<1>5. CallOK'
  BY <1>1, DeviceNames DEF CallOK
<1>6. CaptureTypeOK'
  BY <1>5, DeviceNames DEF Types, CaptureTypeOK, CallOK, CaptureLabels, Lasting, Kernel
<1>7. Flow'
  BY DEF Flow, Sides
<1>8. Sides'
  BY DEF Sides, Flow, Freezes, Stable, Private
<1>9. Layered'
  BY DEF Layered, Standing, Flow, Lasting, Private, Files, Kernel
<1>10. Freezes'
  BY DEF Freezes, Flow
<1>11. OneMoment'
  BY DEF OneMoment, ArchiveIsOneMoment, Reading, Source, Parts, Flow
<1>12. Tidy'
  BY DEF Tidy, Left, Flow, Sides, Layered, Stable, Private
<1> QED BY <1>5, <1>6, <1>7, <1>8, <1>9, <1>10, <1>11, <1>12 DEF Types

(* The guest is stopped.                                                   *)
LEMMA StopGuestKeeps == ASSUME CaptureInv, StopGuest PROVE  CaptureInv'
<1>1. CallOK /\ suspended \in BOOLEAN /\ content \in 0..MaxWrites /\ frozen \in Versions
  BY DEF CaptureInv, Types, CaptureTypeOK
<1>2. DOMAIN call' = Fields
  BY <1>1 DEF CallOK, StopGuest
<1>3. /\ pc = "idle" /\ UNCHANGED <<content, orphans, invalid, frozen, output, pc, call>>
      /\ \/ running' = FALSE /\ devs' = devs /\ suspended' = suspended
         \/ /\ running' = FALSE /\ "view" \notin devs /\ devs' = devs \ Lasting
            /\ suspended' = FALSE
  BY <1>1 DEF CallOK, Fields, SameBut, StopGuest, At
<1>4. cancelled' \in BOOLEAN /\ faults' \in 0..CaptureBudget
  BY FlagsKept DEF CaptureInv, Types, CaptureTypeOK, StopGuest
<1> USE <1>2, <1>3, <1>4 DEF CaptureInv, Viewing, Dropping, Removing, Cloning, Archiving,
          Closing, SameBut, guest
<1>5. CallOK'
  BY <1>1, DeviceNames DEF CallOK
<1>6. CaptureTypeOK'
  BY <1>5, DeviceNames DEF Types, CaptureTypeOK, CallOK, CaptureLabels, Lasting, Kernel
<1>7. Flow'
  BY DEF Flow, Sides
<1>8. Sides'
  BY DEF Sides, Flow, Freezes, Stable, Private
<1>9. Layered'
  BY DEF Layered, Standing, Flow, Lasting, Private, Files, Kernel
<1>10. Freezes'
  BY DEF Freezes, Flow
<1>11. OneMoment'
  BY DEF OneMoment, ArchiveIsOneMoment, Reading, Source, Parts, Flow
<1>12. Tidy'
  BY DEF Tidy, Left, Flow, Sides, Layered, Stable, Private
<1> QED BY <1>5, <1>6, <1>7, <1>8, <1>9, <1>10, <1>11, <1>12 DEF Types

(* The kernel invalidates the view.                                        *)
LEMMA InvalidateKeeps == ASSUME CaptureInv, Invalidate PROVE  CaptureInv'
<1>1. CallOK /\ suspended \in BOOLEAN /\ content \in 0..MaxWrites /\ frozen \in Versions
  BY DEF CaptureInv, Types, CaptureTypeOK
<1>2. DOMAIN call' = Fields
  BY <1>1 DEF CallOK, Invalidate
<1>3. /\ UNCHANGED <<guest, devs, orphans, suspended, frozen, output, pc, call>>
      /\ invalid' = TRUE
  BY <1>1 DEF CallOK, Fields, SameBut, Invalidate, Broken, guest, CaptureFault
<1>4. cancelled' \in BOOLEAN /\ faults' \in 0..CaptureBudget
  BY FlagsKept DEF CaptureInv, Types, CaptureTypeOK, Invalidate, Broken
<1> USE <1>2, <1>3, <1>4 DEF CaptureInv, Viewing, Dropping, Removing, Cloning, Archiving,
          Closing, SameBut, guest
<1>5. CallOK'
  BY <1>1 DEF CallOK
<1>6. CaptureTypeOK'
  BY <1>5 DEF Types, CaptureTypeOK, CallOK, CaptureLabels
<1>7. Flow'
  BY DEF Flow, Sides
<1>8. Sides'
  BY DEF Sides, Flow, Freezes
<1>9. Layered'
  BY DEF Layered, Standing, Flow, Lasting, Private, Files, Kernel
<1>10. Freezes'
  BY DEF Freezes, Flow
<1>11. OneMoment'
  BY DEF OneMoment, ArchiveIsOneMoment, Reading, Source, Parts, Flow
<1>12. Tidy'
  BY DEF Tidy, Left, Flow, Sides, Layered, Stable, Private
<1> QED BY <1>5, <1>6, <1>7, <1>8, <1>9, <1>10, <1>11, <1>12 DEF Types

(* Somebody else takes the requested name.                                 *)
LEMMA OccupyKeeps == ASSUME CaptureInv, Occupy PROVE  CaptureInv'
<1>1. CallOK /\ suspended \in BOOLEAN /\ content \in 0..MaxWrites /\ frozen \in Versions
  BY DEF CaptureInv, Types, CaptureTypeOK
<1>2. DOMAIN call' = Fields
  BY <1>1 DEF CallOK, Occupy
<1>3. /\ UNCHANGED <<guest, devs, orphans, suspended, invalid, frozen, pc, call>>
      /\ output = None /\ output' = Foreign
  BY <1>1 DEF CallOK, Fields, SameBut, Occupy, guest, host
<1>4. cancelled' \in BOOLEAN /\ faults' \in 0..CaptureBudget
  BY FlagsKept DEF CaptureInv, Types, CaptureTypeOK, Occupy
<1> USE <1>2, <1>3, <1>4 DEF CaptureInv, Viewing, Dropping, Removing, Cloning, Archiving,
          Closing, SameBut, guest
<1>5. CallOK'
  BY <1>1 DEF CallOK
<1>6. CaptureTypeOK'
  BY <1>5 DEF Types, CaptureTypeOK, CallOK, CaptureLabels
<1>7. Flow'
  BY DEF Flow, Sides
<1>8. Sides'
  BY DEF Sides, Flow, Freezes
<1>9. Layered'
  BY DEF Layered, Standing, Flow, Lasting, Private, Files, Kernel
<1>10. Freezes'
  BY DEF Freezes, Flow
<1>11. OneMoment'
  BY OutputAssumption DEF OneMoment, ArchiveIsOneMoment, Reading, Source, Parts, Flow
<1>12. Tidy'
  BY DEF Tidy, Left, Flow, Sides, Layered, Stable, Private
<1> QED BY <1>5, <1>6, <1>7, <1>8, <1>9, <1>10, <1>11, <1>12 DEF Types

(* The call is cancelled.                                                  *)
LEMMA CancelKeeps == ASSUME CaptureInv, Cancel PROVE  CaptureInv'
<1>1. CallOK /\ suspended \in BOOLEAN /\ content \in 0..MaxWrites /\ frozen \in Versions
  BY DEF CaptureInv, Types, CaptureTypeOK
<1>2. DOMAIN call' = Fields
  BY <1>1 DEF CallOK, Cancel
<1>3. /\ UNCHANGED <<guest, devs, orphans, suspended, invalid, frozen, output, pc, call>>
      /\ TRUE
  BY <1>1 DEF CallOK, Fields, SameBut, Cancel, At, CaptureFault, guest, host
<1>4. cancelled' \in BOOLEAN /\ faults' \in 0..CaptureBudget
  BY FlagsKept DEF CaptureInv, Types, CaptureTypeOK, Cancel
<1> USE <1>2, <1>3, <1>4 DEF CaptureInv, Viewing, Dropping, Removing, Cloning, Archiving,
          Closing, SameBut, guest
<1>5. CallOK'
  BY <1>1 DEF CallOK
<1>6. CaptureTypeOK'
  BY <1>5 DEF Types, CaptureTypeOK, CallOK, CaptureLabels
<1>7. Flow'
  BY DEF Flow, Sides
<1>8. Sides'
  BY DEF Sides, Flow, Freezes
<1>9. Layered'
  BY DEF Layered, Standing, Flow, Lasting, Private, Files, Kernel
<1>10. Freezes'
  BY DEF Freezes, Flow
<1>11. OneMoment'
  BY DEF OneMoment, ArchiveIsOneMoment, Reading, Source, Parts, Flow
<1>12. Tidy'
  BY DEF Tidy, Left, Flow, Sides, Layered, Stable, Private
<1> QED BY <1>5, <1>6, <1>7, <1>8, <1>9, <1>10, <1>11, <1>12 DEF Types

(* The process is killed.                                                  *)
LEMMA CrashKeeps == ASSUME CaptureInv, Crash PROVE  CaptureInv'
<1>1. CallOK /\ suspended \in BOOLEAN /\ content \in 0..MaxWrites /\ frozen \in Versions
  BY DEF CaptureInv, Types, CaptureTypeOK
<1>2. DOMAIN call' = Fields
  BY <1>1 DEF CallOK, Fields, Crash, Return, Idle
<1>3. /\ UNCHANGED <<guest, devs, orphans, suspended, invalid, frozen, output>>
      /\ pc' = "idle" /\ Blank(call')
  BY <1>1 DEF CallOK, Fields, Blank, SameBut, Crash, At, CaptureFault, Return, guest, host,
         Idle
<1>4. cancelled' \in BOOLEAN /\ faults' \in 0..CaptureBudget
  BY FlagsKept DEF CaptureInv, Types, CaptureTypeOK, Crash
<1> USE <1>2, <1>3, <1>4 DEF CaptureInv, Viewing, Dropping, Removing, Cloning, Archiving,
          Closing, SameBut, guest, Blank
<1>5. CallOK'
  BY BlankOK
<1>6. CaptureTypeOK'
  BY <1>5 DEF Types, CaptureTypeOK, CallOK, CaptureLabels
<1>7. Flow'
  BY DEF Flow, Sides
<1>8. Sides'
  BY DEF Sides, Flow, Freezes
<1>9. Layered'
  BY DEF Layered, Standing, Flow, Lasting, Private, Files, Kernel
<1>10. Freezes'
  BY DEF Freezes, Flow
<1>11. OneMoment'
  BY DEF OneMoment, ArchiveIsOneMoment, Reading, Source, Parts, Flow
<1>12. Tidy'
  BY DEF Tidy, Left, Flow, Sides, Layered, Stable, Private
<1> QED BY <1>5, <1>6, <1>7, <1>8, <1>9, <1>10, <1>11, <1>12 DEF Types

(* The host restarts.                                                      *)
LEMMA RebootKeeps == ASSUME CaptureInv, Reboot PROVE  CaptureInv'
<1>1. CallOK /\ suspended \in BOOLEAN /\ content \in 0..MaxWrites /\ frozen \in Versions
  BY DEF CaptureInv, Types, CaptureTypeOK
<1>2. DOMAIN call' = Fields
  BY <1>1 DEF CallOK, Fields, Reboot, Return, Idle
<1>3. /\ UNCHANGED <<content, frozen, output>>
      /\ /\ running' = FALSE /\ suspended' = FALSE /\ invalid' = FALSE
         /\ devs' = devs \ Kernel /\ orphans' = orphans \ Kernel /\ pc' = "idle"
         /\ Blank(call')
  BY <1>1 DEF CallOK, Fields, Blank, SameBut, Reboot, CaptureFault, Return, Idle
<1>4. cancelled' \in BOOLEAN /\ faults' \in 0..CaptureBudget
  BY FlagsKept DEF CaptureInv, Types, CaptureTypeOK, Reboot
<1> USE <1>2, <1>3, <1>4 DEF CaptureInv, Viewing, Dropping, Removing, Cloning, Archiving,
          Closing, SameBut, guest, Blank
<1>5. CallOK'
  BY BlankOK
<1>6. CaptureTypeOK'
  BY <1>5, DeviceNames DEF Types, CaptureTypeOK, CallOK, CaptureLabels, Lasting, Kernel
<1>7. Flow'
  BY DEF Flow, Sides
<1>8. Sides'
  BY DEF Sides, Flow, Freezes, Stable, Private
<1>9. Layered'
  BY DEF Layered, Standing, Flow, Lasting, Private, Files, Kernel
<1>10. Freezes'
  BY DEF Freezes, Flow
<1>11. OneMoment'
  BY DEF OneMoment, ArchiveIsOneMoment, Reading, Source, Parts, Flow
<1>12. Tidy'
  BY DEF Tidy, Left, Flow, Sides, Layered, Stable, Private
<1> QED BY <1>5, <1>6, <1>7, <1>8, <1>9, <1>10, <1>11, <1>12 DEF Types

(* A new call starts with nothing of its own.                              *)
LEMMA InvokeCaptureKeeps ==
    ASSUME CaptureInv, NEW policy \in Policies, InvokeCapture(policy) PROVE  CaptureInv'
<1>1. CaptureTypeOK
  BY DEF CaptureInv, Types
<1>2. DOMAIN call' = Fields
  BY DEF InvokeCapture, Idle, Fields
<1>3. /\ pc = "idle" /\ pc' = "begin" /\ UNCHANGED <<guest, suspended, invalid, frozen, output>>
      /\ orphans' = orphans \cup (devs \cap Private) /\ devs' = devs \ (Private \cup Files)
      /\ call'.policy = policy /\ call'.online = running /\ call'.since = content
      /\ call'.parts = <<>> /\ call'.sanitized = FALSE
      /\ call'.holds = {} /\ call'.made = {} /\ call'.leaked = {} /\ call'.next = None
      /\ call'.failed = FALSE /\ call'.unclean = FALSE /\ call'.stuck = FALSE
  BY DEF InvokeCapture, At, Idle, guest
<1>4. UNCHANGED <<cancelled, faults>>
  BY DEF InvokeCapture
<1> USE <1>2, <1>3, <1>4 DEF CaptureInv, Viewing, Dropping, Removing, Cloning, Archiving,
          Closing, guest
<1>5. CallOK'
  <2>1. <<>> \in Seq(Versions)
    OBVIOUS
  <2> QED BY <1>1, <2>1 DEF CallOK, CaptureTypeOK
<1>6. CaptureTypeOK'
  BY <1>1 DEF CaptureTypeOK, CaptureLabels
<1>7. Flow'
  BY <1>1 DEF Flow, CaptureTypeOK
<1>8. Sides'
  BY <1>1 DEF Sides, CaptureTypeOK
<1>9. Layered'
  BY DEF Layered, Standing, Private, Files
<1>10. Freezes'
  BY DEF Freezes
<1>11. OneMoment'
  BY DEF OneMoment, ArchiveIsOneMoment, Parts
<1>12. Tidy'
  BY DEF Tidy, Left
<1> QED BY <1>5, <1>6, <1>7, <1>8, <1>9, <1>10, <1>11, <1>12 DEF Types

(* Staging ends in one of its outcomes.                                    *)
LEMMA StageOutcomes ==
    StageArchive => Staged \/ \E left \in SUBSET {"tmp", "staged"} : Unstaged(left)
BY Zenon DEF StageArchive, Staged, Unstaged

(* The invariant holds when nothing has happened yet.                      *)
LEMMA InitCapture == Init => CaptureInv
<1> SUFFICES ASSUME Init PROVE  CaptureInv
  OBVIOUS
<1>1. /\ DOMAIN call = Fields /\ Blank(call) /\ call.leaked = {} /\ call.next = None
  BY DEF Init, Idle, Fields, Blank
<1>2. /\ <<>> \in Seq(Versions) /\ 0 \in Versions
      /\ 0 \in 0..MaxWrites /\ 0 \in 0..CaptureBudget
  BY CaptureFaultsAssumption DEF Versions, Torn
<1>3. CallOK
  BY <1>1, <1>2 DEF CallOK, Blank
<1>4. CaptureTypeOK
  BY <1>2, <1>3 DEF Init, CaptureTypeOK, CallOK, CaptureLabels
<1> USE <1>1 DEF Init, Blank, Viewing, Dropping, Removing, Cloning, Archiving, Closing
<1>5. Flow /\ Sides /\ Freezes /\ Tidy
  BY DEF Flow, Sides, Freezes, Tidy
<1>6. Layered
  BY DEF Layered, Standing
<1>7. OneMoment
  BY OutputAssumption DEF OneMoment, ArchiveIsOneMoment, Parts
<1> QED BY <1>3, <1>4, <1>5, <1>6, <1>7 DEF CaptureInv, Types

(* Every step keeps the invariant.                                         *)
LEMMA NextCapture == CaptureInv /\ [Next]_vars => CaptureInv'
<1>1. ASSUME CaptureInv, UNCHANGED vars PROVE  CaptureInv'
  <2> USE <1>1 DEF vars, CaptureInv
  <2>1. CallOK' /\ CaptureTypeOK'
    BY DEF Types, CallOK, CaptureTypeOK
  <2>2. Flow' /\ Sides' /\ Freezes' /\ Tidy' /\ Layered'
    BY DEF Flow, Sides, Freezes, Tidy, Left, Layered, Standing
  <2>3. OneMoment'
    BY DEF OneMoment, ArchiveIsOneMoment, Reading, Source
  <2> QED BY <2>1, <2>2, <2>3 DEF Types
<1>2. ASSUME CaptureInv, Worker PROVE  CaptureInv'
  <2>1. DropSteps => CaptureInv'
    BY <1>2, DropResumeKeeps, DropViewKeeps, RemoveViewKeeps, DropThawKeeps, DropLoopKeeps,
       DropFileKeeps DEF DropSteps
  <2>2. ViewSteps => CaptureInv'
    BY <1>2, VerifyOriginKeeps, AllocateCowKeeps, AttachCowKeeps, SuspendKeeps, MapViewKeeps,
       ResumeKeeps, VerifyViewKeeps DEF ViewSteps
  <2>3. PrivateSteps => CaptureInv'
    BY <1>2, AllocatePrivateKeeps, AttachPrivateKeeps, MapPrivateKeeps, VerifyPrivateKeeps,
       RemovePrivateKeeps, RemovePrivateLoopKeeps, RemovePrivateCowKeeps, CopyDiskKeeps,
       SanitizeKeeps DEF PrivateSteps
  <2>4. ArchiveSteps => CaptureInv'
    BY <1>2, OpenTemporaryKeeps, ReadDiskKeeps, FinishArchiveKeeps, StageOutcomes, StagedKeeps,
       UnstagedKeeps DEF ArchiveSteps
  <2>5. EndSteps => CaptureInv'
    BY <1>2, RemoveCopyKeeps, SettleKeeps, PublishKeeps, FinishPublicationKeeps DEF EndSteps
  <2> QED BY <1>2, <2>1, <2>2, <2>3, <2>4, <2>5, BeginKeeps DEF Worker
<1>3. ASSUME CaptureInv, Environment PROVE  CaptureInv'
  BY <1>3, GuestWritesKeeps, GuestExitsKeeps, StartGuestKeeps, StopGuestKeeps, InvalidateKeeps,
     OccupyKeeps, CancelKeeps, CrashKeeps, RebootKeeps DEF Environment
<1> QED BY <1>1, <1>2, <1>3, InvokeCaptureKeeps DEF Next

(* The inductive invariant is one of the specification.                    *)
LEMMA CaptureInvariant == Spec => []CaptureInv
BY InitCapture, NextCapture, PTL DEF Spec

(* NothingDangles, for every set of policies and faults and every number   *)
(* of them: whichever command of create_snapshot fails and wherever the    *)
(* process dies, no mapping outlives its loop devices and no loop device   *)
(* its file.                                                               *)
THEOREM LayersStand == Spec => []NothingDangles
<1>1. CaptureInv => NothingDangles
  BY DEF CaptureInv, Types, Layered, Standing, NothingDangles
<1> QED BY <1>1, CaptureInvariant, PTL

(* ArchiveIsOneMoment, for guests that write as often as they like: a      *)
(* published archive is the disk of one moment after the call began, and   *)
(* sanitized exactly if that was asked for.                                *)
THEOREM ArchivesAreConsistent == Spec => []ArchiveIsOneMoment
<1>1. CaptureInv => ArchiveIsOneMoment
  BY DEF CaptureInv, OneMoment
<1> QED BY <1>1, CaptureInvariant, PTL

(* A call ends, unless it is killed, in one of three steps.                *)
LEMMA ReturnSteps ==
    ASSUME CaptureInv, Next, Returns
    PROVE  (Settle \/ Publish \/ FinishPublication) /\ Blank(call')
<1> USE DEF Returns, At, Goto, Fail, Ending, End
<1>1. pc # "idle" /\ pc' = "idle" /\ call'.result # "killed"
  OBVIOUS
<1>2. ~ \E policy \in Policies : InvokeCapture(policy)
  BY DEF InvokeCapture
<1>3. ~Begin /\ ~DropSteps
  BY DEF Begin, DropSteps, DropResume, DropView, RemoveView, DropThaw, DropLoop, DropFile,
         DropFails, Dropped
<1>4. ~ViewSteps
  BY DEF ViewSteps, VerifyOrigin, AllocateCow, AttachCow, Suspend, MapView, Resume, VerifyView,
         Note, UndoView
<1>5. ~PrivateSteps
  BY DEF PrivateSteps, AllocatePrivate, AttachPrivate, MapPrivate, VerifyPrivate, RemovePrivate,
         RemovePrivateLoop, RemovePrivateCow, CopyDisk, Sanitize, Note, UndoPrivate, PrivateStays,
         GiveUp
<1>6. ~ArchiveSteps /\ ~RemoveCopy
  BY DEF ArchiveSteps, OpenTemporary, ReadDisk, FinishArchive, StageArchive, RemoveCopy, Note,
         Discard, GiveUp
<1>7. ~Environment
  BY DEF Environment, GuestWrites, GuestExits, StartGuest, StopGuest, Invalidate, Occupy, Cancel,
         Crash, Reboot, Return, Idle
<1>8. Settle \/ Publish \/ FinishPublication
  BY <1>1, <1>2, <1>3, <1>4, <1>5, <1>6, <1>7 DEF Next, Worker, EndSteps
<1> QED BY <1>1, <1>8
     DEF Settle, Publish, FinishPublication, Withdraw, Return, Idle, Blank

(* ReturnsThawed: whatever fails in a call that has found the guest's      *)
(* mapping, it leaves the guest running freely unless the commands that    *)
(* resume it fail as well.                                                 *)
THEOREM GuestIsThawed == Spec => ReturnsThawed
<1>1. ASSUME CaptureInv, Next, Returns, call.online, call.next # None, suspended'
      PROVE  call.stuck
  <2>1. (Settle \/ Publish \/ FinishPublication) /\ suspended' = suspended
    BY <1>1, ReturnSteps DEF Settle, Publish, FinishPublication, Withdraw, Unmake, host
  <2>2. pc \in Closing
    BY <2>1 DEF Settle, Publish, FinishPublication, At, Closing
  <2> QED BY <1>1, <2>1, <2>2 DEF CaptureInv, Freezes, Closing
<1>2. CaptureInv /\ [Next]_vars
      => [Returns /\ call.online /\ call.next # None /\ suspended' => call.stuck]_vars
  BY <1>1
<1> QED BY <1>2, CaptureInvariant, PTL DEF Spec, ReturnsThawed

(* CleanReturn: a call that does not report a failed cleanup has removed   *)
(* what it made, but for the three error paths that forget it.             *)
THEOREM CallsCleanUp == Spec => CleanReturn
<1>1. ASSUME CaptureInv, Next, Returns, call'.result \in {"failed", "done"}
      PROVE  call.made \cap devs' \subseteq call.leaked \cup call'.leaked
  <2>1. pc \in Closing /\ ~call.unclean => Left \subseteq call.leaked \cup {"staged"}
    BY <1>1 DEF CaptureInv, Types, CallOK, Tidy, Flow, Left, Closing, Viewing, Dropping, Cloning,
       Removing, Devices, Lasting, Stable, Private, Files
  <2>2. CASE Settle
    <3>1. pc \in Closing /\ ~call.unclean
      BY <1>1, <2>2, ReturnSteps DEF Settle, At, Closing, Returns, Goto, Withdraw, Return,
         Outcome, Idle
    <3>2. "staged" \notin devs' \/ "staged" \notin call.made
      <4>1. CASE "staged" \in call.holds
        BY <1>1, <2>2, <4>1 DEF Settle, Withdraw, Unmake, Return, Idle, Goto, Returns
      <4>2. CASE "staged" \notin call.holds
        <5>1. "staged" \notin Left /\ devs' = devs
          BY <1>1, <2>2, <3>1, <4>2 DEF Settle, host, CaptureInv, Tidy, Closing
        <5> QED BY <5>1 DEF Left
      <4> QED BY <4>1, <4>2
    <3>3. devs' \subseteq devs
      BY <2>2 DEF Settle, Withdraw, Unmake, host
    <3> QED BY <2>1, <3>1, <3>2, <3>3 DEF Left
  <2>3. CASE Publish
    <3>1. pc \in Closing /\ ~call.unclean
      BY <1>1, <2>3 DEF Publish, At, Closing, CaptureInv, Flow
    <3>2. "staged" \notin devs' \/ "staged" \in call'.leaked
      BY <1>1, <2>3, <3>1 DEF Publish, Withdraw, Unmake, Return, Outcome, Idle, Returns, Goto,
         host
    <3>3. devs' \subseteq devs
      BY <2>3 DEF Publish, Withdraw, Unmake, host
    <3> QED BY <2>1, <3>1, <3>2, <3>3 DEF Left
  <2>4. CASE FinishPublication
    <3>1. pc \in Closing /\ ~call.unclean
      BY <1>1, <2>4 DEF FinishPublication, At, Closing, CaptureInv, Flow
    <3>2. "staged" \notin devs' /\ devs' \subseteq devs
      BY <1>1, <2>4, <3>1 DEF FinishPublication, Unmake, Return, Idle, host
    <3> QED BY <2>1, <3>1, <3>2 DEF Left
  <2> QED BY <1>1, <2>2, <2>3, <2>4, ReturnSteps
<1> QED BY <1>1, CaptureInvariant, PTL DEF Spec, CleanReturn

(* Only two steps of a call and the world around it touch the output.      *)
LEMMA OutputSteps ==
    ASSUME Next, output' # output PROVE  Publish \/ FinishPublication \/ Occupy
<1> USE DEF OnHost, Aside
<1>1. ~ \E policy \in Policies : InvokeCapture(policy)
  BY DEF InvokeCapture
<1>2. ~Begin /\ ~DropSteps
  BY DEF Begin, DropSteps, DropResume, DropView, RemoveView, DropThaw, DropLoop, DropFile
<1>3. ~ViewSteps
  BY DEF ViewSteps, VerifyOrigin, AllocateCow, AttachCow, Suspend, MapView, Resume, VerifyView
<1>4. ~PrivateSteps
  BY DEF PrivateSteps, AllocatePrivate, AttachPrivate, MapPrivate, VerifyPrivate, RemovePrivate,
         RemovePrivateLoop, RemovePrivateCow, CopyDisk, Sanitize
<1>5. ~ArchiveSteps /\ ~RemoveCopy /\ ~Settle
  BY DEF ArchiveSteps, OpenTemporary, ReadDisk, FinishArchive, StageArchive, RemoveCopy, Settle
<1>6. Environment => Occupy
  BY DEF Environment, GuestWrites, GuestExits, StartGuest, StopGuest, Invalidate, Cancel, Crash,
         Reboot
<1> QED BY <1>1, <1>2, <1>3, <1>4, <1>5, <1>6 DEF Next, Worker, EndSteps

(* PublishesSafely: a file that somebody else put at the requested path    *)
(* stays, and an archive gets the name only once everything temporary is   *)
(* gone and the guest runs freely.                                         *)
THEOREM PublicationIsLast == Spec => PublishesSafely
<1>1. ASSUME CaptureInv, Next, output = Foreign PROVE  output' = Foreign
  <2>1. ~Occupy /\ ~FinishPublication
    BY <1>1, OutputAssumption DEF Occupy, FinishPublication, At, CaptureInv, OneMoment
  <2>2. Publish => output' = output
    BY <1>1, OutputAssumption DEF Publish
  <2> QED BY <1>1, <2>1, <2>2, OutputSteps
<1>2. ASSUME CaptureInv, Next, output' # output, output' \in Archives
      PROVE  call.made \cap devs \subseteq {"staged"} /\ (call.online => ~suspended)
  <2>1. pc = "publish"
    BY <1>2, OutputSteps, OutputAssumption DEF Occupy, FinishPublication, Publish, At
  <2>2. ~call.failed /\ ~call.unclean /\ call.leaked = {}
    BY <1>2, <2>1 DEF CaptureInv, Flow
  <2>3. Left \subseteq {"staged"}
    BY <1>2, <2>1, <2>2 DEF CaptureInv, Types, CallOK, Tidy, Flow, Left, Closing, Viewing,
       Dropping,
       Cloning, Removing, Devices, Lasting, Stable, Private, Files
  <2>4. call.online => ~suspended
    BY <1>2, <2>1 DEF CaptureInv, Sides
  <2> QED BY <2>3, <2>4 DEF Left
<1> QED BY <1>1, <1>2, CaptureInvariant, PTL DEF Spec, PublishesSafely

==============================================================================
