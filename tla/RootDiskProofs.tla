--------------------------- MODULE RootDiskProofs ---------------------------
(***************************************************************************)
(* What holds of the root disk and of the guest on it for every block      *)
(* size, every set of disk sizes, images and host key types, any number of *)
(* calls and any number of faults.                                         *)
(*                                                                         *)
(* Every lemma ...Keeps first says what the step does to the job and to    *)
(* the disk, and then proves the parts of the invariant from that.         *)
(***************************************************************************)
EXTENDS RootDisk, TLAPS, FiniteSetTheorems, SequenceTheorems

(* The places of a call.                                                   *)
JobFields == {"pc", "kind", "todo", "size", "goal", "call", "reason", "clean"}

Resizing == {"probe", "extend", "grow", "shrink", "cut", "converge"}
Updating == {"begin", "check", "record"} \cup Resizing
Building == {"fill", "edit"}

Lengths == Sizes \cup {0} \cup 0..ImageSize \cup {Floor(s) : s \in Sizes}
Spans == {0, ImageSize} \cup {Floor(s) : s \in Sizes}

(* The length of a disk, its filesystem and what that holds.               *)
WholeDisk(d, u) ==
    /\ DOMAIN d = {"len", "fs"}
    /\ d = [len |-> d.len, fs |-> d.fs]
    /\ d.len \in Lengths /\ d.fs \in Spans
    /\ u \in Nat /\ u % Block = 0
    /\ u <= d.fs /\ d.fs <= d.len

(* The other variables.                                                    *)
Types ==
    /\ DOMAIN guest = Paths
    /\ running \in BOOLEAN
    /\ db \in Sizes \cup {0}

Budget ==
    /\ DOMAIN spent = {"calls", "faults"}
    /\ spent.calls \in 0..MaxCalls /\ spent.faults \in 0..FaultBudget

JobTypes ==
    /\ DOMAIN job = JobFields
    /\ job.pc \in {"idle", "ok", "failed"} \cup Updating \cup Building
    /\ job.kind \in {"create", "restore", "update"}
    /\ job.call \in {"converge", "resize", "rollback"}
    /\ job.clean \in BOOLEAN

(* The snapshot is a disk one may start from.                              *)
Archived ==
    /\ WholeDisk(archive.disk, archive.used)
    /\ archive.disk.len \in Sizes \cup {0}
    /\ archive.disk.len # 0 => 0 < archive.used
    /\ DOMAIN archive.guest = Paths

(* A recorded machine: its content fits in its recorded size, and while    *)
(* its guest runs no call is at work and the file is as long as recorded.  *)
Machine ==
    /\ db # 0 => 0 < used /\ used <= db /\ disk.len # 0
    /\ running => At("idle") /\ db # 0 /\ disk.len = db

(* A creation or restore works on a file of the final size, unrecorded.    *)
Built ==
    /\ job.pc \in Building => job.kind # "update"
    /\ job.kind # "update" => job.pc \in Building \cup {"ok", "failed"}
    /\ job.pc \in Building => disk.len = job.size /\ job.size \in Sizes /\ db = 0 /\ 0 < used
    /\ At("fill") => used = ImageSize /\ disk.len >= ImageSize

(* An update resizes to a goal that the content fits in, and the stages of *)
(* a resize leave length and filesystem related to the goal.               *)
Resized ==
    /\ job.pc \in Updating => job.kind = "update" /\ db # 0 /\ job.size \in Sizes
    /\ At("check") => disk.len = db
    /\ job.pc \in Resizing =>
         /\ job.goal \in Sizes /\ used <= job.goal
         /\ job.goal = IF job.call = "resize" THEN job.size ELSE db
    /\ At("probe") /\ job.call = "resize" => disk.len # job.goal
    /\ At("extend") => job.goal > disk.len
    /\ At("grow") => disk.len = job.goal
    /\ At("shrink") => job.goal < disk.len
    /\ job.pc \in {"cut", "converge"} => disk.fs = Floor(job.goal)
    /\ At("begin") => job.goal = 0
    /\ At("check") => job.call # "resize" \/ job.goal = 0
    /\ At("record") => /\ disk.len = job.size
                       /\ job.call = "resize" /\ job.goal = job.size => disk.fs = Floor(job.size)

(* Why an update failed.  Only faults undo a resize or make one fail.      *)
Reasons ==
    /\ job.pc \in Updating /\ job.call = "rollback" =>
         ~job.clean /\ job.reason \in {"resize", "record"}
    /\ job.pc \in {"begin", "check", "record"} => job.call # "rollback"

DiskInv ==
    /\ WholeDisk(disk, used) /\ Types /\ Budget /\ JobTypes /\ Archived /\ Machine
    /\ Built /\ Resized /\ Reasons /\ UpdateIsAllOrNothing /\ CleanUpdateSucceeds

(* The job after a step, but for what is left to edit.                     *)
JobBecomes(pc, kind, size, goal, call, reason, clean) ==
    /\ DOMAIN job' = JobFields
    /\ job'.pc = pc /\ job'.kind = kind /\ job'.size = size /\ job'.goal = goal
    /\ job'.call = call /\ job'.reason = reason /\ job'.clean = clean

JobMoves(pc) ==
    JobBecomes(pc, job.kind, job.size, job.goal, job.call, job.reason, job.clean)

-----------------------------------------------------------------------------
(* Quotient and remainder.                                                 *)
LEMMA Division ==
    ASSUME NEW b \in Nat \ {0}, NEW s \in Nat
    PROVE  s \div b \in Nat /\ s = b * (s \div b) + (s % b)
<1>1. s \div b \in Nat
  OBVIOUS
<1>2. s = b * (s \div b) + (s % b)
  OBVIOUS
<1> QED BY <1>1, <1>2

(* A size cut to whole blocks, and what whole blocks still fit in it.      *)
LEMMA FloorFits ==
    ASSUME NEW s \in Nat
    PROVE  /\ Floor(s) \in Nat /\ Floor(s) <= s /\ Floor(s) % Block = 0
           /\ \A u \in Nat : u % Block = 0 /\ u <= s => u <= Floor(s)
<1>b. Block \in Nat \ {0}
  BY RootDiskAssumption
<1>1. s % Block \in 0..(Block - 1) /\ s \div Block \in Nat
  BY <1>b
<1>2. s = Block * (s \div Block) + (s % Block)
  BY <1>b, Division
<1>3. Floor(s) = Block * (s \div Block)
  BY <1>1, <1>2, <1>b DEF Floor
<1>4. Floor(s) \in Nat /\ Floor(s) <= s
  BY <1>1, <1>2, <1>b DEF Floor
<1>5. Floor(s) % Block = 0
  <2>1. ASSUME NEW k \in Nat PROVE (Block * k) % Block = 0
    BY <1>b
  <2> QED BY <1>1, <1>3, <2>1
<1>6. ASSUME NEW u \in Nat, u % Block = 0, u <= s PROVE u <= Floor(s)
  <2>1. u \div Block \in Nat /\ u = Block * (u \div Block) + (u % Block)
    BY <1>b, Division
  <2> DEFINE k == u \div Block
             q == s \div Block
             r == s % Block
  <2>2. Block * k <= Block * q + r
    BY <1>b, <1>1, <1>2, <1>6, <2>1
  <2>3. k \in Nat /\ q \in Nat /\ r \in 0..(Block - 1)
    BY <1>1, <2>1
  <2> HIDE DEF k, q, r
  <2>4. k <= q
    BY <1>b, <2>2, <2>3
  <2>5. Block * k <= Block * q
    BY <1>b, <2>3, <2>4
  <2>6. u = Block * k /\ Floor(s) = Block * q
    BY <1>3, <1>6, <1>b, <2>1 DEF k, q
  <2> QED BY <2>5, <2>6
<1> QED BY <1>4, <1>5, <1>6

(* Goto changes nothing but the place.                                     *)
LEMMA GotoMoves ==
    ASSUME JobTypes, NEW pc, Goto(pc) PROVE JobMoves(pc)
  BY DEF JobTypes, JobFields, Goto, JobMoves, JobBecomes

(* Without a call.                                                         *)
LEMMA IdleJobBecomes ==
    ASSUME job' = IdleJob PROVE JobBecomes("idle", "update", 0, 0, "resize", "none", TRUE)
  BY DEF IdleJob, JobBecomes, JobFields

(* Every length is a number, and the image fills whole blocks.             *)
LEMMA LengthsAreNat ==
    /\ Lengths \subseteq Nat /\ Spans \subseteq Nat /\ Spans \subseteq Lengths
    /\ Sizes \subseteq Nat \ {0} /\ ImageSize \in Nat /\ Floor(ImageSize) = ImageSize
<1>1. \A s \in Sizes : Floor(s) \in Nat
  BY FloorFits, RootDiskAssumption
<1>2. Floor(ImageSize) = ImageSize
  BY RootDiskAssumption DEF Floor
<1>3. Sizes \subseteq Nat \ {0} /\ ImageSize \in Nat
  BY RootDiskAssumption
<1>4. Lengths \subseteq Nat /\ Spans \subseteq Nat
  <2>1. 0..ImageSize \subseteq Nat
    BY <1>3
  <2>2. {Floor(s) : s \in Sizes} \subseteq Nat
    BY <1>1
  <2>3. Spans \subseteq Nat
    BY <1>3, <2>2 DEF Spans
  <2>4. Lengths \subseteq Nat
    <3> DEFINE floors == {Floor(s) : s \in Sizes}
               short == 0..ImageSize
    <3>1. floors \subseteq Nat /\ short \subseteq Nat /\ Sizes \subseteq Nat
      BY <1>3, <2>1, <2>2
    <3>2. Lengths = Sizes \cup {0} \cup short \cup floors
      BY DEF Lengths
    <3> HIDE DEF floors, short
    <3> QED BY <3>1, <3>2
  <2> QED BY <2>3, <2>4
<1>5. Spans \subseteq Lengths
  BY <1>3 DEF Lengths, Spans
<1> QED BY <1>2, <1>3, <1>4, <1>5

(* One block more is a whole number of blocks.                             *)
LEMMA BlockMore ==
    ASSUME NEW u \in Nat, u % Block = 0 PROVE (u + Block) % Block = 0
<1>b. Block \in Nat \ {0}
  BY RootDiskAssumption
<1>1. u \div Block \in Nat /\ u = Block * (u \div Block) + (u % Block)
  BY <1>b, Division
<1> DEFINE k == u \div Block
<1>2. k \in Nat /\ u = Block * k
  BY <1>b, <1>1
<1> HIDE DEF k
<1>3. u + Block = Block * (k + 1)
  BY <1>b, <1>2
<1>4. ASSUME NEW n \in Nat PROVE (Block * n) % Block = 0
  BY <1>b
<1> QED BY <1>2, <1>3, <1>4

(* The bounds count calls ...                                              *)
LEMMA CallKeepsBudget ==
    ASSUME Budget, NEW start, Call(start) PROVE Budget'
  BY BudgetAssumption DEF Budget, Call

(* ... and faults ...                                                      *)
LEMMA FaultKeepsBudget ==
    ASSUME Budget, Fault PROVE Budget'
  BY BudgetAssumption DEF Budget, Fault

(* ... and nothing else.                                                   *)
LEMMA BudgetStays ==
    ASSUME Budget, UNCHANGED spent PROVE Budget'
  BY DEF Budget

(* The image is copied to a file of the size asked for.                    *)
LEMMA InvokeCreateKeeps ==
    ASSUME DiskInv, NEW size \in Sizes, NEW image \in Images, InvokeCreate(size, image)
    PROVE  DiskInv'
<1>1. JobBecomes("fill", "create", size, 0, "resize", "none", TRUE) /\ At("idle")
  BY DEF InvokeCreate, Call, IdleJob, JobBecomes, JobFields
<1>2. /\ disk' = [len |-> size, fs |-> ImageSize] /\ used' = ImageSize
      /\ db = 0 /\ size >= ImageSize /\ guest' = image /\ DOMAIN image = Paths
      /\ UNCHANGED <<db, archive, running>>
  BY LengthsAreNat, TreeAssumption DEF InvokeCreate
<1>3. ImageSize % Block = 0 /\ 0 < ImageSize /\ ~running
  BY <1>2, RootDiskAssumption DEF DiskInv, Machine, Types
<1>4. WholeDisk(disk, used)'
  BY <1>1, <1>2, <1>3, LengthsAreNat DEF DiskInv, WholeDisk, Lengths, Spans
<1>5. Types'
  BY <1>1, <1>2, <1>3 DEF DiskInv, Types
<1>6. Budget'
  BY CallKeepsBudget DEF DiskInv, InvokeCreate
<1>7. JobTypes'
  BY <1>1, <1>2, <1>3 DEF DiskInv, JobTypes, Updating, Resizing, Building, JobMoves, JobBecomes
<1>8. Archived'
  BY <1>1, <1>2, <1>3 DEF DiskInv, Archived
<1>9. Machine'
  BY <1>1, <1>2, <1>3, LengthsAreNat DEF DiskInv, Machine, At, JobMoves, JobBecomes
<1>10. Built'
  BY <1>1, <1>2, <1>3, LengthsAreNat DEF DiskInv, Built, Building, Updating, Resizing, At,
     JobMoves, JobBecomes
<1>11. Resized'
  BY <1>1, <1>2, <1>3, LengthsAreNat DEF DiskInv, Resized, Updating, Resizing, At, JobMoves,
     JobBecomes
<1>12. Reasons'
  BY <1>1, <1>2, <1>3 DEF DiskInv, Reasons, Updating, Resizing, At, JobMoves, JobBecomes
<1>13. UpdateIsAllOrNothing'
  BY <1>1, <1>2, <1>3 DEF DiskInv, UpdateIsAllOrNothing, At, JobMoves, JobBecomes
<1>14. CleanUpdateSucceeds'
  BY <1>1, <1>2, <1>3 DEF DiskInv, CleanUpdateSucceeds, At, JobMoves, JobBecomes
<1> QED BY <1>4, <1>5, <1>6, <1>7, <1>8, <1>9, <1>10, <1>11, <1>12, <1>13, <1>14 DEF DiskInv

(* The guest is stopped, so the content stays.                             *)
LEMMA InvokeUpdateKeeps ==
    ASSUME DiskInv, NEW size \in Sizes, InvokeUpdate(size)
    PROVE  DiskInv'
<1>1. JobBecomes("begin", "update", size, 0, "resize", "none", TRUE) /\ At("idle")
  BY DEF InvokeUpdate, Call, IdleJob, JobBecomes, JobFields
<1>2. db # 0 /\ running = FALSE /\ UNCHANGED <<disk, used, db, guest, archive, running>>
  BY DEF InvokeUpdate, DiskInv, Types
<1>3. WholeDisk(disk, used)'
  BY <1>1, <1>2, LengthsAreNat DEF DiskInv, WholeDisk, Lengths, Spans
<1>4. Types'
  BY <1>1, <1>2 DEF DiskInv, Types
<1>5. Budget'
  BY CallKeepsBudget DEF DiskInv, InvokeUpdate
<1>6. JobTypes'
  BY <1>1, <1>2 DEF DiskInv, JobTypes, Updating, Resizing, Building, JobMoves, JobBecomes
<1>7. Archived'
  BY <1>1, <1>2 DEF DiskInv, Archived
<1>8. Machine'
  BY <1>1, <1>2, LengthsAreNat DEF DiskInv, Machine, At, JobMoves, JobBecomes
<1>9. Built'
  BY <1>1, <1>2, LengthsAreNat DEF DiskInv, Built, Building, Updating, Resizing, At, JobMoves,
     JobBecomes
<1>10. Resized'
  BY <1>1, <1>2, LengthsAreNat DEF DiskInv, Resized, Updating, Resizing, At, JobMoves, JobBecomes
<1>11. Reasons'
  BY <1>1, <1>2 DEF DiskInv, Reasons, Updating, Resizing, At, JobMoves, JobBecomes
<1>12. UpdateIsAllOrNothing'
  BY <1>1, <1>2 DEF DiskInv, UpdateIsAllOrNothing, At, JobMoves, JobBecomes
<1>13. CleanUpdateSucceeds'
  BY <1>1, <1>2 DEF DiskInv, CleanUpdateSucceeds, At, JobMoves, JobBecomes
<1> QED BY <1>3, <1>4, <1>5, <1>6, <1>7, <1>8, <1>9, <1>10, <1>11, <1>12, <1>13 DEF DiskInv

(* The disk of the snapshot is put back.                                   *)
LEMMA InvokeRestoreKeeps ==
    ASSUME DiskInv, InvokeRestore
    PROVE  DiskInv'
<1>1. JobBecomes("edit", "restore", archive.disk.len, 0, "resize", "none", TRUE) /\ At("idle")
  BY DEF InvokeRestore, Call, IdleJob, JobBecomes, JobFields
<1>2. /\ db = 0 /\ archive.disk.len # 0
      /\ disk' = archive.disk /\ used' = archive.used /\ guest' = archive.guest
      /\ UNCHANGED <<db, archive, running>>
  BY DEF InvokeRestore
<1>3. /\ ~running /\ WholeDisk(archive.disk, archive.used)
      /\ archive.disk.len \in Sizes /\ 0 < archive.used
  BY <1>2 DEF DiskInv, Machine, Types, Archived
<1>4. WholeDisk(disk, used)'
  BY <1>1, <1>2, <1>3, LengthsAreNat DEF DiskInv, WholeDisk, Lengths, Spans
<1>5. Types'
  BY <1>2 DEF DiskInv, Types, Archived
<1>6. Budget'
  BY CallKeepsBudget DEF DiskInv, InvokeRestore
<1>7. JobTypes'
  BY <1>1, <1>2, <1>3 DEF DiskInv, JobTypes, Updating, Resizing, Building, JobMoves, JobBecomes
<1>8. Archived'
  BY <1>1, <1>2, <1>3 DEF DiskInv, Archived
<1>9. Machine'
  BY <1>1, <1>2, <1>3, LengthsAreNat DEF DiskInv, Machine, At, JobMoves, JobBecomes
<1>10. Built'
  BY <1>1, <1>2, <1>3, LengthsAreNat DEF DiskInv, Built, Building, Updating, Resizing, At,
     JobMoves, JobBecomes
<1>11. Resized'
  BY <1>1, <1>2, <1>3, LengthsAreNat DEF DiskInv, Resized, Updating, Resizing, At, JobMoves,
     JobBecomes
<1>12. Reasons'
  BY <1>1, <1>2, <1>3 DEF DiskInv, Reasons, Updating, Resizing, At, JobMoves, JobBecomes
<1>13. UpdateIsAllOrNothing'
  BY <1>1, <1>2, <1>3 DEF DiskInv, UpdateIsAllOrNothing, At, JobMoves, JobBecomes
<1>14. CleanUpdateSucceeds'
  BY <1>1, <1>2, <1>3 DEF DiskInv, CleanUpdateSucceeds, At, JobMoves, JobBecomes
<1> QED BY <1>4, <1>5, <1>6, <1>7, <1>8, <1>9, <1>10, <1>11, <1>12, <1>13, <1>14 DEF DiskInv

(* Nothing is left.                                                        *)
LEMMA InvokeDeleteKeeps ==
    ASSUME DiskInv, InvokeDelete
    PROVE  DiskInv'
<1>1. JobBecomes("idle", "update", 0, 0, "resize", "none", TRUE)
  BY IdleJobBecomes DEF InvokeDelete, Call
<1>2. /\ UNCHANGED <<archive, running>>
      /\ disk' = [len |-> 0, fs |-> 0] /\ used' = 0 /\ db' = 0 /\ DOMAIN guest' = Paths
  BY DEF InvokeDelete, Discard, NoDisk, NoTree
<1>3. running = FALSE /\ 0 % Block = 0
  BY RootDiskAssumption DEF InvokeDelete, DiskInv, Types
<1>4. WholeDisk(disk, used)'
  BY <1>1, <1>2, <1>3, LengthsAreNat DEF DiskInv, WholeDisk, Lengths, Spans
<1>5. Types'
  BY <1>1, <1>2, <1>3 DEF DiskInv, Types
<1>6. Budget'
  BY CallKeepsBudget DEF DiskInv, InvokeDelete
<1>7. JobTypes'
  BY <1>1, <1>2, <1>3 DEF DiskInv, JobTypes, Updating, Resizing, Building, JobMoves, JobBecomes
<1>8. Archived'
  BY <1>1, <1>2, <1>3 DEF DiskInv, Archived
<1>9. Machine'
  BY <1>1, <1>2, <1>3, LengthsAreNat DEF DiskInv, Machine, At, JobMoves, JobBecomes
<1>10. Built'
  BY <1>1, <1>2, <1>3, LengthsAreNat DEF DiskInv, Built, Building, Updating, Resizing, At,
     JobMoves, JobBecomes
<1>11. Resized'
  BY <1>1, <1>2, <1>3, LengthsAreNat DEF DiskInv, Resized, Updating, Resizing, At, JobMoves,
     JobBecomes
<1>12. Reasons'
  BY <1>1, <1>2, <1>3 DEF DiskInv, Reasons, Updating, Resizing, At, JobMoves, JobBecomes
<1>13. UpdateIsAllOrNothing'
  BY <1>1, <1>2, <1>3 DEF DiskInv, UpdateIsAllOrNothing, At, JobMoves, JobBecomes
<1>14. CleanUpdateSucceeds'
  BY <1>1, <1>2, <1>3 DEF DiskInv, CleanUpdateSucceeds, At, JobMoves, JobBecomes
<1> QED BY <1>4, <1>5, <1>6, <1>7, <1>8, <1>9, <1>10, <1>11, <1>12, <1>13, <1>14 DEF DiskInv

(* A snapshot is taken only of a file of the recorded length.              *)
LEMMA SanitizeKeeps ==
    ASSUME DiskInv, Sanitize
    PROVE  DiskInv'
<1>1. JobBecomes("idle", "update", 0, 0, "resize", "none", TRUE) /\ At("idle")
  BY IdleJobBecomes DEF Sanitize, Call
<1>2. db # 0 /\ UNCHANGED <<disk, used, db, guest, running>>
  BY DEF Sanitize
<1>3. \/ archive' = archive
      \/ /\ disk.len = db /\ archive'.disk = disk /\ archive'.used = used
         /\ DOMAIN archive'.guest = Paths
  BY DEF Sanitize, DiskInv, Types
<1>4. WholeDisk(disk, used)'
  BY <1>1, <1>2, LengthsAreNat DEF DiskInv, WholeDisk, Lengths, Spans
<1>5. Types'
  BY <1>1, <1>2 DEF DiskInv, Types
<1>6. Budget'
  BY CallKeepsBudget DEF DiskInv, Sanitize
<1>7. JobTypes'
  BY <1>1, <1>2 DEF DiskInv, JobTypes, Updating, Resizing, Building, JobMoves, JobBecomes
<1>8. Archived'
  BY <1>2, <1>3 DEF DiskInv, Archived, Types, Machine
<1>9. Machine'
  BY <1>1, <1>2, LengthsAreNat DEF DiskInv, Machine, At, JobMoves, JobBecomes
<1>10. Built'
  BY <1>1, <1>2, LengthsAreNat DEF DiskInv, Built, Building, Updating, Resizing, At, JobMoves,
     JobBecomes
<1>11. Resized'
  BY <1>1, <1>2, LengthsAreNat DEF DiskInv, Resized, Updating, Resizing, At, JobMoves, JobBecomes
<1>12. Reasons'
  BY <1>1, <1>2 DEF DiskInv, Reasons, Updating, Resizing, At, JobMoves, JobBecomes
<1>13. UpdateIsAllOrNothing'
  BY <1>1, <1>2 DEF DiskInv, UpdateIsAllOrNothing, At, JobMoves, JobBecomes
<1>14. CleanUpdateSucceeds'
  BY <1>1, <1>2 DEF DiskInv, CleanUpdateSucceeds, At, JobMoves, JobBecomes
<1> QED BY <1>4, <1>5, <1>6, <1>7, <1>8, <1>9, <1>10, <1>11, <1>12, <1>13, <1>14 DEF DiskInv

(* The filesystem grows into the file.                                     *)
LEMMA FillImageKeeps ==
    ASSUME DiskInv, FillImage
    PROVE  DiskInv'
<1>1. JobMoves("edit") /\ At("fill")
  BY DEF FillImage, DiskInv, JobTypes, JobMoves, JobBecomes, JobFields
<1>2. UNCHANGED <<used, db, guest, archive, running, spent>>
  BY DEF FillImage
<1>3. disk.len \in Sizes /\ used = ImageSize /\ disk.len = job.size /\ db = 0 /\ 0 < used
  BY <1>1 DEF DiskInv, Built, Building, At
<1>4. /\ Floor(disk.len) \in Nat /\ Floor(disk.len) <= disk.len
      /\ ImageSize <= disk.len => ImageSize <= Floor(disk.len)
  BY <1>3, FloorFits, RootDiskAssumption
<1>5. disk' = disk \/ (disk' = [len |-> disk.len, fs |-> Floor(disk.len)] /\ disk.len > ImageSize)
  BY DEF FillImage, DiskInv, WholeDisk
<1>6. disk'.len = disk.len
  BY <1>5
<1>7. WholeDisk(disk, used)'
  <2>1. CASE disk' = disk
    BY <1>2, <2>1 DEF DiskInv, WholeDisk
  <2>2. CASE disk' = [len |-> disk.len, fs |-> Floor(disk.len)] /\ disk.len > ImageSize
    BY <1>2, <1>3, <1>4, <2>2, LengthsAreNat DEF DiskInv, WholeDisk, Spans
  <2> QED BY <1>5, <2>1, <2>2
<1>8. Types'
  BY <1>1, <1>2, <1>3, <1>6 DEF DiskInv, Types
<1>9. Budget'
  BY <1>1, <1>2, <1>3, <1>6, BudgetStays DEF DiskInv
<1>10. JobTypes'
  BY <1>1, <1>2, <1>3, <1>6 DEF DiskInv, JobTypes, Updating, Resizing, Building, JobMoves,
     JobBecomes
<1>11. Archived'
  BY <1>1, <1>2, <1>3, <1>6 DEF DiskInv, Archived
<1>12. Machine'
  BY <1>1, <1>2, <1>3, <1>6, LengthsAreNat DEF DiskInv, Machine, At, JobMoves, JobBecomes
<1>13. Built'
  BY <1>1, <1>2, <1>3, <1>6, LengthsAreNat DEF DiskInv, Built, Building, Updating, Resizing,
     At, JobMoves, JobBecomes
<1>14. Resized'
  BY <1>1, <1>2, <1>3, <1>6, LengthsAreNat DEF DiskInv, Resized, Updating, Resizing, At,
     JobMoves, JobBecomes
<1>15. Reasons'
  BY <1>1, <1>2, <1>3, <1>6 DEF DiskInv, Reasons, Updating, Resizing, At, JobMoves, JobBecomes
<1>16. UpdateIsAllOrNothing'
  BY <1>1, <1>2, <1>3, <1>6 DEF DiskInv, UpdateIsAllOrNothing, At, JobMoves, JobBecomes
<1>17. CleanUpdateSucceeds'
  BY <1>1, <1>2, <1>3, <1>6 DEF DiskInv, CleanUpdateSucceeds, At, JobMoves, JobBecomes
<1> QED BY <1>7, <1>8, <1>9, <1>10, <1>11, <1>12, <1>13, <1>14, <1>15, <1>16, <1>17 DEF DiskInv

(* Whatever is edited, and however that ends, disk and record stay as they are. *)
LEMMA EditEffect ==
    ASSUME DiskInv, EditStep
    PROVE  /\ At("edit") /\ (JobMoves("edit") \/ JobMoves("failed"))
           /\ DOMAIN guest' = DOMAIN guest
           /\ UNCHANGED <<disk, used, db, archive, running, spent>>
<1> USE DEF DiskInv, JobTypes, JobMoves, JobBecomes, JobFields, Doing, At, Done, Refuse, Goto,
        SetNode, Write, MakeDirectory
<1>1. CASE EnsureDirectory
  BY <1>1 DEF EnsureDirectory
<1>2. CASE Chmod
  BY <1>2 DEF Chmod
<1>3. CASE EditFile
  BY <1>3 DEF EditFile
<1>4. CASE WriteReplacement
  BY <1>4 DEF WriteReplacement
<1>5. CASE GenerateHostKey
  BY <1>5 DEF GenerateHostKey
<1>6. CASE WritePublicKey
  BY <1>6 DEF WritePublicKey
<1>7. CASE PrivateMode
  BY <1>7 DEF PrivateMode
<1> QED BY <1>1, <1>2, <1>3, <1>4, <1>5, <1>6, <1>7 DEF EditStep

(* Editing goes on, ends or fails.                                         *)
LEMMA EditStepKeeps ==
    ASSUME DiskInv, EditStep
    PROVE  DiskInv'
<1>1. At("edit") /\ (JobMoves("edit") \/ JobMoves("failed"))
  BY EditEffect
<1>2. DOMAIN guest' = DOMAIN guest /\ UNCHANGED <<disk, used, db, archive, running, spent>>
  BY EditEffect
<1>3. job.kind # "update"
  BY <1>1 DEF DiskInv, Built, Building, At
<1>4. WholeDisk(disk, used)'
  BY <1>1, <1>2, <1>3, LengthsAreNat DEF DiskInv, WholeDisk, Lengths, Spans
<1>5. Types'
  BY <1>1, <1>2, <1>3 DEF DiskInv, Types
<1>6. Budget'
  BY <1>1, <1>2, <1>3, BudgetStays DEF DiskInv
<1>7. JobTypes'
  BY <1>1, <1>2, <1>3 DEF DiskInv, JobTypes, Updating, Resizing, Building, JobMoves, JobBecomes
<1>8. Archived'
  BY <1>1, <1>2, <1>3 DEF DiskInv, Archived
<1>9. Machine'
  BY <1>1, <1>2, <1>3, LengthsAreNat DEF DiskInv, Machine, At, JobMoves, JobBecomes
<1>10. Built'
  BY <1>1, <1>2, <1>3, LengthsAreNat DEF DiskInv, Built, Building, Updating, Resizing, At,
     JobMoves, JobBecomes
<1>11. Resized'
  BY <1>1, <1>2, <1>3, LengthsAreNat DEF DiskInv, Resized, Updating, Resizing, At, JobMoves,
     JobBecomes
<1>12. Reasons'
  BY <1>1, <1>2, <1>3 DEF DiskInv, Reasons, Updating, Resizing, At, JobMoves, JobBecomes
<1>13. UpdateIsAllOrNothing'
  BY <1>1, <1>2, <1>3 DEF DiskInv, UpdateIsAllOrNothing, At, JobMoves, JobBecomes
<1>14. CleanUpdateSucceeds'
  BY <1>1, <1>2, <1>3 DEF DiskInv, CleanUpdateSucceeds, At, JobMoves, JobBecomes
<1> QED BY <1>4, <1>5, <1>6, <1>7, <1>8, <1>9, <1>10, <1>11, <1>12, <1>13, <1>14 DEF DiskInv

(* The file has the size that is recorded.                                 *)
LEMMA RecordMachineKeeps ==
    ASSUME DiskInv, RecordMachine
    PROVE  DiskInv'
<1>1. JobMoves("ok") /\ At("edit") /\ job.kind # "update"
  BY GotoMoves DEF RecordMachine, DiskInv, Built, Building, At
<1>2. db' = job.size /\ UNCHANGED <<disk, used, guest, archive, running, spent>>
  BY DEF RecordMachine
<1>3. disk.len = job.size /\ job.size \in Sizes /\ 0 < used
  BY <1>1 DEF DiskInv, Built, Building, At
<1>4. WholeDisk(disk, used)'
  BY <1>1, <1>2, <1>3, LengthsAreNat DEF DiskInv, WholeDisk, Lengths, Spans
<1>5. Types'
  BY <1>1, <1>2, <1>3 DEF DiskInv, Types
<1>6. Budget'
  BY <1>1, <1>2, <1>3, BudgetStays DEF DiskInv
<1>7. JobTypes'
  BY <1>1, <1>2, <1>3 DEF DiskInv, JobTypes, Updating, Resizing, Building, JobMoves, JobBecomes
<1>8. Archived'
  BY <1>1, <1>2, <1>3 DEF DiskInv, Archived
<1>9. Machine'
  <2>1. used <= disk.len
    BY LengthsAreNat DEF DiskInv, WholeDisk
  <2> QED BY <1>1, <1>2, <1>3, <2>1, LengthsAreNat DEF DiskInv, Machine, Types, At
<1>10. Built'
  BY <1>1, <1>2, <1>3, LengthsAreNat DEF DiskInv, Built, Building, Updating, Resizing, At,
     JobMoves, JobBecomes
<1>11. Resized'
  BY <1>1, <1>2, <1>3, LengthsAreNat DEF DiskInv, Resized, Updating, Resizing, At, JobMoves,
     JobBecomes
<1>12. Reasons'
  BY <1>1, <1>2, <1>3 DEF DiskInv, Reasons, Updating, Resizing, At, JobMoves, JobBecomes
<1>13. UpdateIsAllOrNothing'
  BY <1>1, <1>2, <1>3 DEF DiskInv, UpdateIsAllOrNothing, At, JobMoves, JobBecomes
<1>14. CleanUpdateSucceeds'
  BY <1>1, <1>2, <1>3 DEF DiskInv, CleanUpdateSucceeds, At, JobMoves, JobBecomes
<1> QED BY <1>4, <1>5, <1>6, <1>7, <1>8, <1>9, <1>10, <1>11, <1>12, <1>13, <1>14 DEF DiskInv

(* The rollback of a creation leaves nothing.                              *)
LEMMA DiscardVolumeKeeps ==
    ASSUME DiskInv, DiscardVolume
    PROVE  DiskInv'
<1>1. JobBecomes("idle", "update", 0, 0, "resize", "none", TRUE)
  BY IdleJobBecomes DEF DiscardVolume
<1>2. /\ UNCHANGED <<archive, running, spent>>
      /\ disk' = [len |-> 0, fs |-> 0] /\ used' = 0 /\ db' = 0 /\ DOMAIN guest' = Paths
  BY DEF DiscardVolume, Discard, NoDisk, NoTree
<1>3. running = FALSE /\ 0 % Block = 0
  BY RootDiskAssumption DEF DiscardVolume, DiskInv, Types, Machine, At
<1>4. WholeDisk(disk, used)'
  BY <1>1, <1>2, <1>3, LengthsAreNat DEF DiskInv, WholeDisk, Lengths, Spans
<1>5. Types'
  BY <1>1, <1>2, <1>3 DEF DiskInv, Types
<1>6. Budget'
  BY <1>1, <1>2, <1>3, BudgetStays DEF DiskInv
<1>7. JobTypes'
  BY <1>1, <1>2, <1>3 DEF DiskInv, JobTypes, Updating, Resizing, Building, JobMoves, JobBecomes
<1>8. Archived'
  BY <1>1, <1>2, <1>3 DEF DiskInv, Archived
<1>9. Machine'
  BY <1>1, <1>2, <1>3, LengthsAreNat DEF DiskInv, Machine, At, JobMoves, JobBecomes
<1>10. Built'
  BY <1>1, <1>2, <1>3, LengthsAreNat DEF DiskInv, Built, Building, Updating, Resizing, At,
     JobMoves, JobBecomes
<1>11. Resized'
  BY <1>1, <1>2, <1>3, LengthsAreNat DEF DiskInv, Resized, Updating, Resizing, At, JobMoves,
     JobBecomes
<1>12. Reasons'
  BY <1>1, <1>2, <1>3 DEF DiskInv, Reasons, Updating, Resizing, At, JobMoves, JobBecomes
<1>13. UpdateIsAllOrNothing'
  BY <1>1, <1>2, <1>3 DEF DiskInv, UpdateIsAllOrNothing, At, JobMoves, JobBecomes
<1>14. CleanUpdateSucceeds'
  BY <1>1, <1>2, <1>3 DEF DiskInv, CleanUpdateSucceeds, At, JobMoves, JobBecomes
<1> QED BY <1>4, <1>5, <1>6, <1>7, <1>8, <1>9, <1>10, <1>11, <1>12, <1>13, <1>14 DEF DiskInv

(* The file grows before its filesystem.                                   *)
LEMMA ExtendKeeps ==
    ASSUME DiskInv, Extend
    PROVE  DiskInv'
<1>1. JobMoves("grow") /\ At("extend")
  BY GotoMoves DEF DiskInv, Extend
<1>2. /\ disk' = [len |-> job.goal, fs |-> disk.fs]
      /\ UNCHANGED <<used, db, guest, archive, running, spent>>
  BY DEF DiskInv, WholeDisk, Extend
<1>3. job.goal \in Sizes /\ job.goal > disk.len /\ used <= job.goal
  BY <1>1 DEF DiskInv, Resized, At, Resizing
<1>4. WholeDisk(disk, used)'
  BY <1>1, <1>2, <1>3, LengthsAreNat DEF DiskInv, WholeDisk, Lengths, Spans
<1>5. Types'
  BY <1>1, <1>2, <1>3 DEF DiskInv, Types
<1>6. Budget'
  BY <1>1, <1>2, <1>3, BudgetStays DEF DiskInv
<1>7. JobTypes'
  BY <1>1, <1>2, <1>3 DEF DiskInv, JobTypes, Updating, Resizing, Building, JobMoves, JobBecomes
<1>8. Archived'
  BY <1>1, <1>2, <1>3 DEF DiskInv, Archived
<1>9. Machine'
  BY <1>1, <1>2, <1>3, LengthsAreNat DEF DiskInv, Machine, At, JobMoves, JobBecomes
<1>10. Built'
  BY <1>1, <1>2, <1>3, LengthsAreNat DEF DiskInv, Built, Building, Updating, Resizing, At,
     JobMoves, JobBecomes
<1>11. Resized'
  BY <1>1, <1>2, <1>3, LengthsAreNat DEF DiskInv, Resized, Updating, Resizing, At, JobMoves,
     JobBecomes
<1>12. Reasons'
  BY <1>1, <1>2, <1>3 DEF DiskInv, Reasons, Updating, Resizing, At, JobMoves, JobBecomes
<1>13. UpdateIsAllOrNothing'
  BY <1>1, <1>2, <1>3 DEF DiskInv, UpdateIsAllOrNothing, At, JobMoves, JobBecomes
<1>14. CleanUpdateSucceeds'
  BY <1>1, <1>2, <1>3 DEF DiskInv, CleanUpdateSucceeds, At, JobMoves, JobBecomes
<1> QED BY <1>4, <1>5, <1>6, <1>7, <1>8, <1>9, <1>10, <1>11, <1>12, <1>13, <1>14 DEF DiskInv

(* The filesystem follows.                                                 *)
LEMMA GrowKeeps ==
    ASSUME DiskInv, Grow
    PROVE  DiskInv'
<1>1. JobMoves("converge") /\ At("grow")
  BY GotoMoves DEF DiskInv, Grow
<1>2. /\ disk' = [len |-> disk.len, fs |-> Floor(disk.len)]
      /\ UNCHANGED <<used, db, guest, archive, running, spent>>
  BY DEF DiskInv, WholeDisk, Grow
<1>3. job.goal \in Sizes /\ disk.len = job.goal /\ used <= job.goal
  BY <1>1 DEF DiskInv, Resized, At, Resizing
<1>4. Floor(disk.len) \in Nat /\ Floor(disk.len) <= disk.len /\ used <= Floor(disk.len)
  BY <1>3, FloorFits, LengthsAreNat DEF DiskInv, WholeDisk
<1>5. WholeDisk(disk, used)'
  BY <1>1, <1>2, <1>3, <1>4, LengthsAreNat DEF DiskInv, WholeDisk, Lengths, Spans
<1>6. Types'
  BY <1>1, <1>2, <1>3, <1>4 DEF DiskInv, Types
<1>7. Budget'
  BY <1>1, <1>2, <1>3, <1>4, BudgetStays DEF DiskInv
<1>8. JobTypes'
  BY <1>1, <1>2, <1>3, <1>4 DEF DiskInv, JobTypes, Updating, Resizing, Building, JobMoves,
     JobBecomes
<1>9. Archived'
  BY <1>1, <1>2, <1>3, <1>4 DEF DiskInv, Archived
<1>10. Machine'
  BY <1>1, <1>2, <1>3, <1>4, LengthsAreNat DEF DiskInv, Machine, At, JobMoves, JobBecomes
<1>11. Built'
  BY <1>1, <1>2, <1>3, <1>4, LengthsAreNat DEF DiskInv, Built, Building, Updating, Resizing,
     At, JobMoves, JobBecomes
<1>12. Resized'
  BY <1>1, <1>2, <1>3, <1>4, LengthsAreNat DEF DiskInv, Resized, Updating, Resizing, At,
     JobMoves, JobBecomes
<1>13. Reasons'
  BY <1>1, <1>2, <1>3, <1>4 DEF DiskInv, Reasons, Updating, Resizing, At, JobMoves, JobBecomes
<1>14. UpdateIsAllOrNothing'
  BY <1>1, <1>2, <1>3, <1>4 DEF DiskInv, UpdateIsAllOrNothing, At, JobMoves, JobBecomes
<1>15. CleanUpdateSucceeds'
  BY <1>1, <1>2, <1>3, <1>4 DEF DiskInv, CleanUpdateSucceeds, At, JobMoves, JobBecomes
<1> QED BY <1>5, <1>6, <1>7, <1>8, <1>9, <1>10, <1>11, <1>12, <1>13, <1>14, <1>15 DEF DiskInv

(* The file is cut behind the filesystem.                                  *)
LEMMA CutKeeps ==
    ASSUME DiskInv, Cut
    PROVE  DiskInv'
<1>1. JobMoves("converge") /\ At("cut")
  BY GotoMoves DEF DiskInv, Cut
<1>2. /\ disk' = [len |-> disk.fs, fs |-> disk.fs]
      /\ UNCHANGED <<used, db, guest, archive, running, spent>>
  BY DEF DiskInv, WholeDisk, Cut
<1>3. job.goal \in Sizes /\ disk.fs = Floor(job.goal) /\ used <= job.goal
  BY <1>1 DEF DiskInv, Resized, At, Resizing
<1>4. disk.fs \in Nat /\ disk.fs \in Lengths /\ (db # 0 => disk.fs # 0)
  BY <1>3, LengthsAreNat DEF DiskInv, WholeDisk, Machine
<1>5. WholeDisk(disk, used)'
  BY <1>1, <1>2, <1>3, <1>4, LengthsAreNat DEF DiskInv, WholeDisk, Lengths, Spans
<1>6. Types'
  BY <1>1, <1>2, <1>3, <1>4 DEF DiskInv, Types
<1>7. Budget'
  BY <1>1, <1>2, <1>3, <1>4, BudgetStays DEF DiskInv
<1>8. JobTypes'
  BY <1>1, <1>2, <1>3, <1>4 DEF DiskInv, JobTypes, Updating, Resizing, Building, JobMoves,
     JobBecomes
<1>9. Archived'
  BY <1>1, <1>2, <1>3, <1>4 DEF DiskInv, Archived
<1>10. Machine'
  BY <1>1, <1>2, <1>3, <1>4, LengthsAreNat DEF DiskInv, Machine, At, JobMoves, JobBecomes
<1>11. Built'
  BY <1>1, <1>2, <1>3, <1>4, LengthsAreNat DEF DiskInv, Built, Building, Updating, Resizing,
     At, JobMoves, JobBecomes
<1>12. Resized'
  BY <1>1, <1>2, <1>3, <1>4, LengthsAreNat DEF DiskInv, Resized, Updating, Resizing, At,
     JobMoves, JobBecomes
<1>13. Reasons'
  BY <1>1, <1>2, <1>3, <1>4 DEF DiskInv, Reasons, Updating, Resizing, At, JobMoves, JobBecomes
<1>14. UpdateIsAllOrNothing'
  BY <1>1, <1>2, <1>3, <1>4 DEF DiskInv, UpdateIsAllOrNothing, At, JobMoves, JobBecomes
<1>15. CleanUpdateSucceeds'
  BY <1>1, <1>2, <1>3, <1>4 DEF DiskInv, CleanUpdateSucceeds, At, JobMoves, JobBecomes
<1> QED BY <1>5, <1>6, <1>7, <1>8, <1>9, <1>10, <1>11, <1>12, <1>13, <1>14, <1>15 DEF DiskInv

(* A resize that succeeds, where each of the three leads.                  *)
LEMMA ResizeOkKeeps ==
    ASSUME DiskInv, job.pc \in {"probe", "converge"}, ResizeOk,
           disk' = [len |-> job.goal, fs |-> disk.fs],
           At("probe") => disk.len = job.goal,
           UNCHANGED <<used, db, guest, archive, running, spent>>
    PROVE  DiskInv'
<1>1. /\ job.goal \in Sizes /\ used <= job.goal /\ job.kind = "update" /\ db # 0
      /\ job.goal = IF job.call = "resize" THEN job.size ELSE db
      /\ job.call = "resize" => At("converge")
      /\ disk.fs <= job.goal /\ job.size \in Sizes
  <2>1. At("converge") => disk.fs = Floor(job.goal)
    BY DEF DiskInv, Resized, At
  <2>2. job.goal \in Sizes
    BY DEF DiskInv, Resized, Resizing
  <2>3. disk.fs <= job.goal
    BY <2>1, <2>2, FloorFits, LengthsAreNat DEF DiskInv, WholeDisk, At
  <2> QED BY <2>3 DEF DiskInv, Resized, Updating, Resizing, At
<1>2. At("converge") => disk.fs = Floor(job.goal)
  BY DEF DiskInv, Resized, At
<1>3. \/ JobMoves("check") /\ job.call = "converge"
      \/ JobMoves("record") /\ job.call = "resize"
      \/ JobMoves("failed") /\ job.call = "rollback"
  BY DEF ResizeOk, DiskInv, JobTypes, JobMoves, JobBecomes, JobFields
<1>4. job.call = "rollback" => ~job.clean /\ job.reason \in {"resize", "record"}
  BY DEF DiskInv, Reasons, Updating, Resizing
<1>5. running = FALSE /\ db \in Sizes
  BY <1>1 DEF DiskInv, Machine, Types, At
<1>6. WholeDisk(disk, used)'
  BY <1>1, <1>2, <1>3, <1>4, <1>5, LengthsAreNat DEF DiskInv, WholeDisk, Lengths, Spans
<1>7. Types'
  BY <1>1, <1>2, <1>3, <1>4, <1>5 DEF DiskInv, Types
<1>8. Budget'
  BY <1>1, <1>2, <1>3, <1>4, <1>5, BudgetStays DEF DiskInv
<1>9. JobTypes'
  BY <1>1, <1>2, <1>3, <1>4, <1>5 DEF DiskInv, JobTypes, Updating, Resizing, Building,
     JobMoves, JobBecomes
<1>10. Archived'
  BY <1>1, <1>2, <1>3, <1>4, <1>5 DEF DiskInv, Archived
<1>11. Machine'
  BY <1>1, <1>2, <1>3, <1>4, <1>5, LengthsAreNat DEF DiskInv, Machine, At, JobMoves, JobBecomes
<1>12. Built'
  BY <1>1, <1>2, <1>3, <1>4, <1>5, LengthsAreNat DEF DiskInv, Built, Building, Updating,
     Resizing, At, JobMoves, JobBecomes
<1>13. Resized'
  BY <1>1, <1>2, <1>3, <1>4, <1>5, LengthsAreNat DEF DiskInv, Resized, Updating, Resizing, At,
     JobMoves, JobBecomes
<1>14. Reasons'
  BY <1>1, <1>2, <1>3, <1>4, <1>5 DEF DiskInv, Reasons, Updating, Resizing, At, JobMoves,
     JobBecomes
<1>15. UpdateIsAllOrNothing'
  BY <1>1, <1>2, <1>3, <1>4, <1>5 DEF DiskInv, UpdateIsAllOrNothing, At, JobMoves, JobBecomes
<1>16. CleanUpdateSucceeds'
  BY <1>1, <1>2, <1>3, <1>4, <1>5 DEF DiskInv, CleanUpdateSucceeds, At, JobMoves, JobBecomes
<1> QED BY <1>6, <1>7, <1>8, <1>9, <1>10, <1>11, <1>12, <1>13, <1>14, <1>15, <1>16 DEF DiskInv

(* A resize that a fault ends, where each of the three leads.              *)
LEMMA ResizeFailsKeeps ==
    ASSUME DiskInv, job.pc \in Resizing, ResizeFails(TRUE),
           UNCHANGED <<disk, used, db, guest, archive, running>>, Budget'
    PROVE  DiskInv'
<1>1. /\ job.kind = "update" /\ db \in Sizes /\ job.size \in Sizes
      /\ used <= db /\ job.pc # "idle" /\ running = FALSE
  BY DEF DiskInv, Resized, Updating, Resizing, Machine, Types, At
<1>2. \/ /\ job.call = "resize"
         /\ JobBecomes("probe", job.kind, job.size, db, "rollback", "resize", FALSE)
      \/ /\ job.call # "resize"
         /\ \/ JobBecomes("failed", job.kind, job.size, job.goal, job.call, "cleanup", FALSE)
            \/ JobBecomes("failed", job.kind, job.size, job.goal, job.call, "converge", FALSE)
  BY DEF ResizeFails, DiskInv, JobTypes, JobBecomes, JobFields
<1>3. WholeDisk(disk, used)'
  BY <1>1, <1>2, LengthsAreNat DEF DiskInv, WholeDisk, Lengths, Spans
<1>4. Types'
  BY <1>1, <1>2 DEF DiskInv, Types
<1>5. Budget'
  OBVIOUS
<1>6. JobTypes'
  BY <1>1, <1>2 DEF DiskInv, JobTypes, Updating, Resizing, Building, JobMoves, JobBecomes
<1>7. Archived'
  BY <1>1, <1>2 DEF DiskInv, Archived
<1>8. Machine'
  BY <1>1, <1>2, LengthsAreNat DEF DiskInv, Machine, At, JobMoves, JobBecomes
<1>9. Built'
  BY <1>1, <1>2, LengthsAreNat DEF DiskInv, Built, Building, Updating, Resizing, At, JobMoves,
     JobBecomes
<1>10. Resized'
  BY <1>1, <1>2, LengthsAreNat DEF DiskInv, Resized, Updating, Resizing, At, JobMoves, JobBecomes
<1>11. Reasons'
  BY <1>1, <1>2 DEF DiskInv, Reasons, Updating, Resizing, At, JobMoves, JobBecomes
<1>12. UpdateIsAllOrNothing'
  BY <1>1, <1>2 DEF DiskInv, UpdateIsAllOrNothing, At, JobMoves, JobBecomes
<1>13. CleanUpdateSucceeds'
  BY <1>1, <1>2 DEF DiskInv, CleanUpdateSucceeds, At, JobMoves, JobBecomes
<1> QED BY <1>3, <1>4, <1>5, <1>6, <1>7, <1>8, <1>9, <1>10, <1>11, <1>12, <1>13 DEF DiskInv

(* The content fits in the recorded size, so converging can succeed.       *)
LEMMA BeginUpdateKeeps ==
    ASSUME DiskInv, BeginUpdate
    PROVE  DiskInv'
<1>1. /\ At("begin") /\ job.kind = "update" /\ db \in Sizes /\ job.size \in Sizes
      /\ used <= db /\ running = FALSE /\ job.call # "rollback" /\ job.goal = 0
  BY DEF BeginUpdate, DiskInv, Resized, Reasons, Updating, Resizing, Machine, Types, At
<1>2. UNCHANGED <<disk, used, db, guest, archive, running, spent>>
  BY DEF BeginUpdate
<1>3. \/ /\ disk.len # db
         /\ JobBecomes("probe", job.kind, job.size, db, "converge", job.reason, job.clean)
      \/ disk.len = db /\ JobMoves("check")
  BY GotoMoves DEF BeginUpdate, Resize, DiskInv, JobTypes, JobMoves, JobBecomes, JobFields
<1>4. WholeDisk(disk, used)'
  BY <1>1, <1>2, <1>3, LengthsAreNat DEF DiskInv, WholeDisk, Lengths, Spans
<1>5. Types'
  BY <1>1, <1>2, <1>3 DEF DiskInv, Types
<1>6. Budget'
  BY <1>1, <1>2, <1>3, BudgetStays DEF DiskInv
<1>7. JobTypes'
  BY <1>1, <1>2, <1>3 DEF DiskInv, JobTypes, Updating, Resizing, Building, JobMoves, JobBecomes
<1>8. Archived'
  BY <1>1, <1>2, <1>3 DEF DiskInv, Archived
<1>9. Machine'
  BY <1>1, <1>2, <1>3, LengthsAreNat DEF DiskInv, Machine, At, JobMoves, JobBecomes
<1>10. Built'
  BY <1>1, <1>2, <1>3, LengthsAreNat DEF DiskInv, Built, Building, Updating, Resizing, At,
     JobMoves, JobBecomes
<1>11. Resized'
  BY <1>1, <1>2, <1>3, LengthsAreNat DEF DiskInv, Resized, Updating, Resizing, At, JobMoves,
     JobBecomes
<1>12. Reasons'
  BY <1>1, <1>2, <1>3 DEF DiskInv, Reasons, Updating, Resizing, At, JobMoves, JobBecomes
<1>13. UpdateIsAllOrNothing'
  BY <1>1, <1>2, <1>3 DEF DiskInv, UpdateIsAllOrNothing, At, JobMoves, JobBecomes
<1>14. CleanUpdateSucceeds'
  BY <1>1, <1>2, <1>3 DEF DiskInv, CleanUpdateSucceeds, At, JobMoves, JobBecomes
<1> QED BY <1>4, <1>5, <1>6, <1>7, <1>8, <1>9, <1>10, <1>11, <1>12, <1>13, <1>14 DEF DiskInv

(* Only a size that the content fits in is resized to.                     *)
LEMMA CheckUsedKeeps ==
    ASSUME DiskInv, CheckUsed
    PROVE  DiskInv'
<1>1. /\ At("check") /\ job.kind = "update" /\ db \in Sizes /\ job.size \in Sizes
      /\ used <= db /\ running = FALSE /\ disk.len = db /\ job.call # "rollback"
      /\ (job.call # "resize" \/ job.goal = 0)
  BY DEF CheckUsed, DiskInv, Resized, Reasons, Updating, Resizing, Machine, Types, At
<1>2. UNCHANGED <<disk, used, db, guest, archive, running, spent>>
  BY DEF CheckUsed
<1>3. \/ job.size = db /\ JobMoves("record")
      \/ /\ job.size # db /\ job.size < used
         /\ JobBecomes("failed", job.kind, job.size, job.goal, job.call, "used", job.clean)
      \/ /\ job.size # db /\ ~(job.size < used)
         /\ JobBecomes("probe", job.kind, job.size, job.size, "resize", job.reason, job.clean)
  BY GotoMoves DEF CheckUsed, Resize, DiskInv, JobTypes, JobMoves, JobBecomes, JobFields
<1>4. job.size < used \/ used <= job.size
  BY <1>1, LengthsAreNat DEF DiskInv, WholeDisk
<1>5. WholeDisk(disk, used)'
  BY <1>1, <1>2, <1>3, <1>4, LengthsAreNat DEF DiskInv, WholeDisk, Lengths, Spans
<1>6. Types'
  BY <1>1, <1>2, <1>3, <1>4 DEF DiskInv, Types
<1>7. Budget'
  BY <1>1, <1>2, <1>3, <1>4, BudgetStays DEF DiskInv
<1>8. JobTypes'
  BY <1>1, <1>2, <1>3, <1>4 DEF DiskInv, JobTypes, Updating, Resizing, Building, JobMoves,
     JobBecomes
<1>9. Archived'
  BY <1>1, <1>2, <1>3, <1>4 DEF DiskInv, Archived
<1>10. Machine'
  BY <1>1, <1>2, <1>3, <1>4, LengthsAreNat DEF DiskInv, Machine, At, JobMoves, JobBecomes
<1>11. Built'
  BY <1>1, <1>2, <1>3, <1>4, LengthsAreNat DEF DiskInv, Built, Building, Updating, Resizing,
     At, JobMoves, JobBecomes
<1>12. Resized'
  BY <1>1, <1>2, <1>3, <1>4, LengthsAreNat DEF DiskInv, Resized, Updating, Resizing, At,
     JobMoves, JobBecomes
<1>13. Reasons'
  BY <1>1, <1>2, <1>3, <1>4 DEF DiskInv, Reasons, Updating, Resizing, At, JobMoves, JobBecomes
<1>14. UpdateIsAllOrNothing'
  BY <1>1, <1>2, <1>3, <1>4 DEF DiskInv, UpdateIsAllOrNothing, At, JobMoves, JobBecomes
<1>15. CleanUpdateSucceeds'
  BY <1>1, <1>2, <1>3, <1>4 DEF DiskInv, CleanUpdateSucceeds, At, JobMoves, JobBecomes
<1> QED BY <1>5, <1>6, <1>7, <1>8, <1>9, <1>10, <1>11, <1>12, <1>13, <1>14, <1>15 DEF DiskInv

(* The way a resize takes depends on the length.                           *)
LEMMA ProbeMovesKeep ==
    ASSUME DiskInv, At("probe"), UNCHANGED <<disk, used, db, guest, archive, running, spent>>,
           \/ JobMoves("extend") /\ job.goal > disk.len
           \/ JobMoves("shrink") /\ job.goal < disk.len
    PROVE  DiskInv'
<1>1. /\ job.kind = "update" /\ db # 0 /\ job.size \in Sizes
      /\ job.goal \in Sizes /\ used <= job.goal
      /\ job.goal = IF job.call = "resize" THEN job.size ELSE db
  BY DEF DiskInv, Resized, Updating, Resizing, At
<1>2. WholeDisk(disk, used)'
  BY <1>1, LengthsAreNat DEF DiskInv, WholeDisk, Lengths, Spans
<1>3. Types'
  BY <1>1 DEF DiskInv, Types
<1>4. Budget'
  BY <1>1, BudgetStays DEF DiskInv
<1>5. JobTypes'
  BY <1>1 DEF DiskInv, JobTypes, Updating, Resizing, Building, JobMoves, JobBecomes
<1>6. Archived'
  BY <1>1 DEF DiskInv, Archived
<1>7. Machine'
  BY <1>1, LengthsAreNat DEF DiskInv, Machine, At, JobMoves, JobBecomes
<1>8. Built'
  BY <1>1, LengthsAreNat DEF DiskInv, Built, Building, Updating, Resizing, At, JobMoves,
     JobBecomes
<1>9. Resized'
  BY <1>1, LengthsAreNat DEF DiskInv, Resized, Updating, Resizing, At, JobMoves, JobBecomes
<1>10. Reasons'
  BY <1>1 DEF DiskInv, Reasons, Updating, Resizing, At, JobMoves, JobBecomes
<1>11. UpdateIsAllOrNothing'
  BY <1>1 DEF DiskInv, UpdateIsAllOrNothing, At, JobMoves, JobBecomes
<1>12. CleanUpdateSucceeds'
  BY <1>1 DEF DiskInv, CleanUpdateSucceeds, At, JobMoves, JobBecomes
<1> QED BY <1>2, <1>3, <1>4, <1>5, <1>6, <1>7, <1>8, <1>9, <1>10, <1>11, <1>12 DEF DiskInv

(* Nothing to do, or a resize in one direction.                            *)
LEMMA ProbeLengthKeeps == ASSUME DiskInv, ProbeLength PROVE DiskInv'
<1>1. At("probe") /\ UNCHANGED <<disk, used, db, guest, archive, running, spent>>
  BY DEF ProbeLength
<1>2. job.goal \in Nat /\ disk.len \in Nat
  BY <1>1, LengthsAreNat DEF DiskInv, Resized, Resizing, WholeDisk, At
<1>3. CASE disk.len = job.goal
  <2>1. disk' = [len |-> job.goal, fs |-> disk.fs]
    BY <1>1, <1>3 DEF DiskInv, WholeDisk
  <2> QED BY <1>1, <1>3, <2>1, ResizeOkKeeps DEF ProbeLength, At
<1>4. CASE disk.len # job.goal /\ job.goal > disk.len
  <2>1. JobMoves("extend")
    BY <1>4, GotoMoves DEF ProbeLength, DiskInv
  <2> QED BY <1>1, <1>4, <2>1, ProbeMovesKeep
<1>5. CASE job.goal < disk.len
  <2>1. JobMoves("shrink")
    BY <1>2, <1>5, GotoMoves DEF ProbeLength, DiskInv
  <2> QED BY <1>1, <1>5, <2>1, ProbeMovesKeep
<1> QED BY <1>2, <1>3, <1>4, <1>5

(* A filesystem that shrinks still holds the content.                      *)
LEMMA ShrinkMovesKeep ==
    ASSUME DiskInv, At("shrink"), UNCHANGED <<used, db, guest, archive, running, spent>>,
           \/ JobMoves("converge") /\ disk.fs = Floor(job.goal) /\ disk' = disk
           \/ JobMoves("cut") /\ disk' = [len |-> disk.len, fs |-> Floor(job.goal)]
    PROVE  DiskInv'
<1>1. /\ job.kind = "update" /\ db # 0 /\ job.size \in Sizes
      /\ job.goal \in Sizes /\ used <= job.goal /\ job.goal < disk.len
      /\ job.goal = IF job.call = "resize" THEN job.size ELSE db
  BY DEF DiskInv, Resized, Updating, Resizing, At
<1>2. /\ Floor(job.goal) \in Spans /\ Floor(job.goal) <= job.goal /\ Floor(job.goal) \in Nat
      /\ used <= Floor(job.goal)
  BY <1>1, FloorFits, LengthsAreNat DEF DiskInv, WholeDisk, Spans
<1>3. disk'.len = disk.len /\ disk'.fs = Floor(job.goal)
  OBVIOUS
<1>4. WholeDisk(disk, used)'
  BY <1>1, <1>2, <1>3, LengthsAreNat DEF DiskInv, WholeDisk, Lengths, Spans
<1>5. Types'
  BY <1>1, <1>2, <1>3 DEF DiskInv, Types
<1>6. Budget'
  BY <1>1, <1>2, <1>3, BudgetStays DEF DiskInv
<1>7. JobTypes'
  BY <1>1, <1>2, <1>3 DEF DiskInv, JobTypes, Updating, Resizing, Building, JobMoves, JobBecomes
<1>8. Archived'
  BY <1>1, <1>2, <1>3 DEF DiskInv, Archived
<1>9. Machine'
  BY <1>1, <1>2, <1>3, LengthsAreNat DEF DiskInv, Machine, At, JobMoves, JobBecomes
<1>10. Built'
  BY <1>1, <1>2, <1>3, LengthsAreNat DEF DiskInv, Built, Building, Updating, Resizing, At,
     JobMoves, JobBecomes
<1>11. Resized'
  BY <1>1, <1>2, <1>3, LengthsAreNat DEF DiskInv, Resized, Updating, Resizing, At, JobMoves,
     JobBecomes
<1>12. Reasons'
  BY <1>1, <1>2, <1>3 DEF DiskInv, Reasons, Updating, Resizing, At, JobMoves, JobBecomes
<1>13. UpdateIsAllOrNothing'
  BY <1>1, <1>2, <1>3 DEF DiskInv, UpdateIsAllOrNothing, At, JobMoves, JobBecomes
<1>14. CleanUpdateSucceeds'
  BY <1>1, <1>2, <1>3 DEF DiskInv, CleanUpdateSucceeds, At, JobMoves, JobBecomes
<1> QED BY <1>4, <1>5, <1>6, <1>7, <1>8, <1>9, <1>10, <1>11, <1>12, <1>13, <1>14 DEF DiskInv

(* resize2fs does not refuse: the goal was checked in whole blocks.        *)
LEMMA ShrinkKeeps == ASSUME DiskInv, Shrink PROVE DiskInv'
<1>1. At("shrink") /\ UNCHANGED <<used, db, guest, archive, running, spent>>
  BY DEF Shrink
<1>2. ~(Floor(job.goal) < used)
  <2>1. job.goal \in Sizes /\ used <= job.goal
    BY <1>1 DEF DiskInv, Resized, Resizing, At
  <2>2. Floor(job.goal) \in Nat /\ used <= Floor(job.goal) /\ used \in Nat
    BY <2>1, FloorFits, LengthsAreNat DEF DiskInv, WholeDisk
  <2> QED BY <2>2
<1>3. \/ Goto("converge") /\ disk.fs = Floor(job.goal) /\ disk' = disk
      \/ Goto("cut") /\ disk' = [disk EXCEPT !.fs = Floor(job.goal)]
  BY <1>2 DEF Shrink
<1>4. [disk EXCEPT !.fs = Floor(job.goal)] = [len |-> disk.len, fs |-> Floor(job.goal)]
  BY DEF DiskInv, WholeDisk
<1>5. \/ JobMoves("converge") /\ disk.fs = Floor(job.goal) /\ disk' = disk
      \/ JobMoves("cut") /\ disk' = [len |-> disk.len, fs |-> Floor(job.goal)]
  BY <1>3, <1>4, GotoMoves DEF DiskInv
<1> QED BY <1>1, <1>5, ShrinkMovesKeep

(* The filesystem fits in the goal: the file is set to it exactly.         *)
LEMMA ConvergeKeeps == ASSUME DiskInv, Converge PROVE DiskInv'
<1>1. At("converge") /\ UNCHANGED <<used, db, guest, archive, running, spent>>
  BY DEF Converge
<1>2. disk.fs = Floor(job.goal) /\ job.goal \in Sizes
  BY <1>1 DEF DiskInv, Resized, Resizing, At
<1>3. ~(disk.fs > job.goal)
  <2>1. job.goal \in Nat
    BY <1>2, LengthsAreNat
  <2>2. Floor(job.goal) \in Nat /\ Floor(job.goal) <= job.goal
    BY <2>1, FloorFits
  <2> QED BY <1>2, <2>1, <2>2
<1>4. ResizeOk /\ disk' = [disk EXCEPT !.len = job.goal]
  BY <1>3 DEF Converge
<1>5. disk' = [len |-> job.goal, fs |-> disk.fs]
  BY <1>4 DEF DiskInv, WholeDisk
<1> QED BY <1>1, <1>4, <1>5, ResizeOkKeeps DEF At

(* The record follows the disk.                                            *)
LEMMA RecordUpdateKeeps ==
    ASSUME DiskInv, RecordUpdate
    PROVE  DiskInv'
<1>1. JobMoves("ok") /\ At("record")
  BY GotoMoves DEF RecordUpdate, DiskInv
<1>2. db' = job.size /\ UNCHANGED <<disk, used, guest, archive, running, spent>>
  BY DEF RecordUpdate
<1>3. /\ job.kind = "update" /\ job.size \in Sizes /\ disk.len = job.size
      /\ job.call = "resize" /\ job.goal = job.size => disk.fs = Floor(job.size)
  BY <1>1 DEF DiskInv, Resized, Updating, At
<1>4. 0 < used /\ used <= disk.len /\ running = FALSE
  BY <1>1, LengthsAreNat DEF DiskInv, WholeDisk, Machine, Types, Resized, Updating, At
<1>5. WholeDisk(disk, used)'
  BY <1>1, <1>2, <1>3, <1>4, LengthsAreNat DEF DiskInv, WholeDisk, Lengths, Spans
<1>6. Types'
  BY <1>1, <1>2, <1>3, <1>4 DEF DiskInv, Types
<1>7. Budget'
  BY <1>1, <1>2, <1>3, <1>4, BudgetStays DEF DiskInv
<1>8. JobTypes'
  BY <1>1, <1>2, <1>3, <1>4 DEF DiskInv, JobTypes, Updating, Resizing, Building, JobMoves,
     JobBecomes
<1>9. Archived'
  BY <1>1, <1>2, <1>3, <1>4 DEF DiskInv, Archived
<1>10. Machine'
  BY <1>1, <1>2, <1>3, <1>4, LengthsAreNat DEF DiskInv, Machine, At, JobMoves, JobBecomes
<1>11. Built'
  BY <1>1, <1>2, <1>3, <1>4, LengthsAreNat DEF DiskInv, Built, Building, Updating, Resizing,
     At, JobMoves, JobBecomes
<1>12. Resized'
  BY <1>1, <1>2, <1>3, <1>4, LengthsAreNat DEF DiskInv, Resized, Updating, Resizing, At,
     JobMoves, JobBecomes
<1>13. Reasons'
  BY <1>1, <1>2, <1>3, <1>4 DEF DiskInv, Reasons, Updating, Resizing, At, JobMoves, JobBecomes
<1>14. UpdateIsAllOrNothing'
  BY <1>1, <1>2, <1>3, <1>4 DEF DiskInv, UpdateIsAllOrNothing, At, JobMoves, JobBecomes
<1>15. CleanUpdateSucceeds'
  BY <1>1, <1>2, <1>3, <1>4 DEF DiskInv, CleanUpdateSucceeds, At, JobMoves, JobBecomes
<1> QED BY <1>5, <1>6, <1>7, <1>8, <1>9, <1>10, <1>11, <1>12, <1>13, <1>14, <1>15 DEF DiskInv

(* The call returns.                                                       *)
LEMMA ReturnKeeps ==
    ASSUME DiskInv, Return
    PROVE  DiskInv'
<1>1. JobBecomes("idle", "update", 0, 0, "resize", "none", TRUE) /\ ~At("idle")
  BY IdleJobBecomes DEF Return, At
<1>2. UNCHANGED <<disk, used, db, guest, archive, running, spent>>
  BY DEF Return
<1>3. WholeDisk(disk, used)'
  BY <1>1, <1>2, LengthsAreNat DEF DiskInv, WholeDisk, Lengths, Spans
<1>4. Types'
  BY <1>1, <1>2 DEF DiskInv, Types
<1>5. Budget'
  BY <1>1, <1>2, BudgetStays DEF DiskInv
<1>6. JobTypes'
  BY <1>1, <1>2 DEF DiskInv, JobTypes, Updating, Resizing, Building, JobMoves, JobBecomes
<1>7. Archived'
  BY <1>1, <1>2 DEF DiskInv, Archived
<1>8. Machine'
  BY <1>1, <1>2, LengthsAreNat DEF DiskInv, Machine, At, JobMoves, JobBecomes
<1>9. Built'
  BY <1>1, <1>2, LengthsAreNat DEF DiskInv, Built, Building, Updating, Resizing, At, JobMoves,
     JobBecomes
<1>10. Resized'
  BY <1>1, <1>2, LengthsAreNat DEF DiskInv, Resized, Updating, Resizing, At, JobMoves, JobBecomes
<1>11. Reasons'
  BY <1>1, <1>2 DEF DiskInv, Reasons, Updating, Resizing, At, JobMoves, JobBecomes
<1>12. UpdateIsAllOrNothing'
  BY <1>1, <1>2 DEF DiskInv, UpdateIsAllOrNothing, At, JobMoves, JobBecomes
<1>13. CleanUpdateSucceeds'
  BY <1>1, <1>2 DEF DiskInv, CleanUpdateSucceeds, At, JobMoves, JobBecomes
<1> QED BY <1>3, <1>4, <1>5, <1>6, <1>7, <1>8, <1>9, <1>10, <1>11, <1>12, <1>13 DEF DiskInv

(* A command fails before anything changed.                                *)
LEMMA HostFails ==
    ASSUME DiskInv, job.pc \in {"begin", "check", "fill", "edit"},
           JobBecomes("failed", job.kind, job.size, job.goal, job.call, "host", FALSE),
           UNCHANGED <<disk, used, db, guest, archive, running>>, Budget'
    PROVE  DiskInv'
<1>1. job.pc # "idle"
  OBVIOUS
<1>2. WholeDisk(disk, used)'
  BY <1>1, LengthsAreNat DEF DiskInv, WholeDisk, Lengths, Spans
<1>3. Types'
  BY <1>1 DEF DiskInv, Types
<1>4. Budget'
  OBVIOUS
<1>5. JobTypes'
  BY <1>1 DEF DiskInv, JobTypes, Updating, Resizing, Building, JobMoves, JobBecomes
<1>6. Archived'
  BY <1>1 DEF DiskInv, Archived
<1>7. Machine'
  BY <1>1, LengthsAreNat DEF DiskInv, Machine, At, JobMoves, JobBecomes
<1>8. Built'
  BY <1>1, LengthsAreNat DEF DiskInv, Built, Building, Updating, Resizing, At, JobMoves,
     JobBecomes
<1>9. Resized'
  BY <1>1, LengthsAreNat DEF DiskInv, Resized, Updating, Resizing, At, JobMoves, JobBecomes
<1>10. Reasons'
  BY <1>1 DEF DiskInv, Reasons, Updating, Resizing, At, JobMoves, JobBecomes
<1>11. UpdateIsAllOrNothing'
  BY <1>1 DEF DiskInv, UpdateIsAllOrNothing, At, JobMoves, JobBecomes
<1>12. CleanUpdateSucceeds'
  BY <1>1 DEF DiskInv, CleanUpdateSucceeds, At, JobMoves, JobBecomes
<1> QED BY <1>2, <1>3, <1>4, <1>5, <1>6, <1>7, <1>8, <1>9, <1>10, <1>11, <1>12 DEF DiskInv

(* A resize that cannot be recorded is rolled back.                        *)
LEMMA RecordFailsKeeps ==
    ASSUME DiskInv, At("record"), RecordFails,
           UNCHANGED <<disk, used, db, guest, archive, running>>, Budget'
    PROVE  DiskInv'
<1>1. /\ job.kind = "update" /\ db \in Sizes /\ job.size \in Sizes /\ disk.len = job.size
      /\ used <= db /\ running = FALSE
  BY DEF DiskInv, Resized, Updating, Machine, Types, At
<1>2. \/ JobBecomes("probe", job.kind, job.size, db, "rollback", "record", FALSE)
      \/ /\ job.size = db
         /\ JobBecomes("failed", job.kind, job.size, job.goal, job.call, "record", FALSE)
  BY DEF RecordFails, DiskInv, JobTypes, JobBecomes, JobFields
<1>3. WholeDisk(disk, used)'
  BY <1>1, <1>2, LengthsAreNat DEF DiskInv, WholeDisk, Lengths, Spans
<1>4. Types'
  BY <1>1, <1>2 DEF DiskInv, Types
<1>5. Budget'
  OBVIOUS
<1>6. JobTypes'
  BY <1>1, <1>2 DEF DiskInv, JobTypes, Updating, Resizing, Building, JobMoves, JobBecomes
<1>7. Archived'
  BY <1>1, <1>2 DEF DiskInv, Archived
<1>8. Machine'
  BY <1>1, <1>2, LengthsAreNat DEF DiskInv, Machine, At, JobMoves, JobBecomes
<1>9. Built'
  BY <1>1, <1>2, LengthsAreNat DEF DiskInv, Built, Building, Updating, Resizing, At, JobMoves,
     JobBecomes
<1>10. Resized'
  BY <1>1, <1>2, LengthsAreNat DEF DiskInv, Resized, Updating, Resizing, At, JobMoves, JobBecomes
<1>11. Reasons'
  BY <1>1, <1>2 DEF DiskInv, Reasons, Updating, Resizing, At, JobMoves, JobBecomes
<1>12. UpdateIsAllOrNothing'
  BY <1>1, <1>2 DEF DiskInv, UpdateIsAllOrNothing, At, JobMoves, JobBecomes
<1>13. CleanUpdateSucceeds'
  BY <1>1, <1>2 DEF DiskInv, CleanUpdateSucceeds, At, JobMoves, JobBecomes
<1> QED BY <1>3, <1>4, <1>5, <1>6, <1>7, <1>8, <1>9, <1>10, <1>11, <1>12, <1>13 DEF DiskInv

(* Any command may fail.                                                   *)
LEMMA CommandFailsKeeps == ASSUME DiskInv, CommandFails PROVE DiskInv'
<1>1. Budget' /\ UNCHANGED <<disk, used, db, guest, archive, running>>
  BY FaultKeepsBudget DEF CommandFails, DiskInv
<1>2. CASE job.pc \in Resizing
  <2>1. ResizeFails(TRUE)
    BY <1>2 DEF CommandFails, Resizing, At
  <2> QED BY <1>1, <1>2, <2>1, ResizeFailsKeeps
<1>3. CASE At("record")
  BY <1>1, <1>3, RecordFailsKeeps DEF CommandFails, At
<1>4. CASE job.pc \in {"begin", "check", "fill", "edit"}
  <2>1. job' = [job EXCEPT !.clean = FALSE, !.pc = "failed", !.reason = "host"]
    BY <1>4 DEF CommandFails, At
  <2>2. JobBecomes("failed", job.kind, job.size, job.goal, job.call, "host", FALSE)
    BY <2>1 DEF DiskInv, JobTypes, JobBecomes, JobFields
  <2> QED BY <1>1, <1>4, <2>2, HostFails
<1> QED BY <1>2, <1>3, <1>4 DEF CommandFails, Resizing

(* A creation that dies is removed.                                        *)
LEMMA DiscardKeeps ==
    ASSUME DiskInv, job' = IdleJob, Discard, ~At("idle"), UNCHANGED <<archive, running>>, Budget'
    PROVE  DiskInv'
<1>1. JobBecomes("idle", "update", 0, 0, "resize", "none", TRUE)
  BY IdleJobBecomes
<1>2. /\ UNCHANGED <<archive, running>>
      /\ disk' = [len |-> 0, fs |-> 0] /\ used' = 0 /\ db' = 0 /\ DOMAIN guest' = Paths
  BY DEF Discard, NoDisk, NoTree
<1>3. running = FALSE /\ 0 % Block = 0
  BY RootDiskAssumption DEF DiskInv, Types, Machine
<1>4. WholeDisk(disk, used)'
  BY <1>1, <1>2, <1>3, LengthsAreNat DEF DiskInv, WholeDisk, Lengths, Spans
<1>5. Types'
  BY <1>1, <1>2, <1>3 DEF DiskInv, Types
<1>6. Budget'
  OBVIOUS
<1>7. JobTypes'
  BY <1>1, <1>2, <1>3 DEF DiskInv, JobTypes, Updating, Resizing, Building, JobMoves, JobBecomes
<1>8. Archived'
  BY <1>1, <1>2, <1>3 DEF DiskInv, Archived
<1>9. Machine'
  BY <1>1, <1>2, <1>3, LengthsAreNat DEF DiskInv, Machine, At, JobMoves, JobBecomes
<1>10. Built'
  BY <1>1, <1>2, <1>3, LengthsAreNat DEF DiskInv, Built, Building, Updating, Resizing, At,
     JobMoves, JobBecomes
<1>11. Resized'
  BY <1>1, <1>2, <1>3, LengthsAreNat DEF DiskInv, Resized, Updating, Resizing, At, JobMoves,
     JobBecomes
<1>12. Reasons'
  BY <1>1, <1>2, <1>3 DEF DiskInv, Reasons, Updating, Resizing, At, JobMoves, JobBecomes
<1>13. UpdateIsAllOrNothing'
  BY <1>1, <1>2, <1>3 DEF DiskInv, UpdateIsAllOrNothing, At, JobMoves, JobBecomes
<1>14. CleanUpdateSucceeds'
  BY <1>1, <1>2, <1>3 DEF DiskInv, CleanUpdateSucceeds, At, JobMoves, JobBecomes
<1> QED BY <1>4, <1>5, <1>6, <1>7, <1>8, <1>9, <1>10, <1>11, <1>12, <1>13, <1>14 DEF DiskInv

(* An update that dies leaves the disk as it is.                           *)
LEMMA DiesInPlace ==
    ASSUME DiskInv, job' = IdleJob, ~At("idle"),
           UNCHANGED <<disk, used, db, guest, archive, running>>, Budget'
    PROVE  DiskInv'
<1>1. JobBecomes("idle", "update", 0, 0, "resize", "none", TRUE)
  BY IdleJobBecomes
<1>2. running = FALSE
  BY DEF DiskInv, Types, Machine
<1>3. WholeDisk(disk, used)'
  BY <1>1, <1>2, LengthsAreNat DEF DiskInv, WholeDisk, Lengths, Spans
<1>4. Types'
  BY <1>1, <1>2 DEF DiskInv, Types
<1>5. Budget'
  OBVIOUS
<1>6. JobTypes'
  BY <1>1, <1>2 DEF DiskInv, JobTypes, Updating, Resizing, Building, JobMoves, JobBecomes
<1>7. Archived'
  BY <1>1, <1>2 DEF DiskInv, Archived
<1>8. Machine'
  BY <1>1, <1>2, LengthsAreNat DEF DiskInv, Machine, At, JobMoves, JobBecomes
<1>9. Built'
  BY <1>1, <1>2, LengthsAreNat DEF DiskInv, Built, Building, Updating, Resizing, At, JobMoves,
     JobBecomes
<1>10. Resized'
  BY <1>1, <1>2, LengthsAreNat DEF DiskInv, Resized, Updating, Resizing, At, JobMoves, JobBecomes
<1>11. Reasons'
  BY <1>1, <1>2 DEF DiskInv, Reasons, Updating, Resizing, At, JobMoves, JobBecomes
<1>12. UpdateIsAllOrNothing'
  BY <1>1, <1>2 DEF DiskInv, UpdateIsAllOrNothing, At, JobMoves, JobBecomes
<1>13. CleanUpdateSucceeds'
  BY <1>1, <1>2 DEF DiskInv, CleanUpdateSucceeds, At, JobMoves, JobBecomes
<1> QED BY <1>3, <1>4, <1>5, <1>6, <1>7, <1>8, <1>9, <1>10, <1>11, <1>12, <1>13 DEF DiskInv

(* The process dies.                                                       *)
LEMMA CrashKeeps == ASSUME DiskInv, Crash PROVE DiskInv'
<1>1. Budget' /\ job' = IdleJob /\ ~At("idle") /\ UNCHANGED <<archive, running>>
  BY FaultKeepsBudget DEF Crash, DiskInv
<1>2. Discard \/ UNCHANGED <<disk, used, db, guest>>
  BY DEF Crash
<1> QED BY <1>1, <1>2, DiscardKeeps, DiesInPlace

(* Only a file of the recorded length is started from.                     *)
LEMMA StartKeeps ==
    ASSUME DiskInv, Start
    PROVE  DiskInv'
<1>1. JobMoves(job.pc)
  BY DEF Start, DiskInv, JobTypes, JobMoves, JobBecomes
<1>2. /\ At("idle") /\ db # 0 /\ disk.len = db /\ running' = TRUE
      /\ UNCHANGED <<disk, used, db, guest, archive, spent>>
  BY DEF Start
<1>3. WholeDisk(disk, used)'
  BY <1>1, <1>2, LengthsAreNat DEF DiskInv, WholeDisk, Lengths, Spans
<1>4. Types'
  BY <1>1, <1>2 DEF DiskInv, Types
<1>5. Budget'
  BY <1>1, <1>2, BudgetStays DEF DiskInv
<1>6. JobTypes'
  BY <1>1, <1>2 DEF DiskInv, JobTypes, Updating, Resizing, Building, JobMoves, JobBecomes
<1>7. Archived'
  BY <1>1, <1>2 DEF DiskInv, Archived
<1>8. Machine'
  BY <1>1, <1>2, LengthsAreNat DEF DiskInv, Machine, At, JobMoves, JobBecomes
<1>9. Built'
  BY <1>1, <1>2, LengthsAreNat DEF DiskInv, Built, Building, Updating, Resizing, At, JobMoves,
     JobBecomes
<1>10. Resized'
  BY <1>1, <1>2, LengthsAreNat DEF DiskInv, Resized, Updating, Resizing, At, JobMoves, JobBecomes
<1>11. Reasons'
  BY <1>1, <1>2 DEF DiskInv, Reasons, Updating, Resizing, At, JobMoves, JobBecomes
<1>12. UpdateIsAllOrNothing'
  BY <1>1, <1>2 DEF DiskInv, UpdateIsAllOrNothing, At, JobMoves, JobBecomes
<1>13. CleanUpdateSucceeds'
  BY <1>1, <1>2 DEF DiskInv, CleanUpdateSucceeds, At, JobMoves, JobBecomes
<1> QED BY <1>3, <1>4, <1>5, <1>6, <1>7, <1>8, <1>9, <1>10, <1>11, <1>12, <1>13 DEF DiskInv

(* The guest stops.                                                        *)
LEMMA StopKeeps ==
    ASSUME DiskInv, Stop
    PROVE  DiskInv'
<1>1. JobMoves(job.pc)
  BY DEF Stop, DiskInv, JobTypes, JobMoves, JobBecomes
<1>2. running' = FALSE /\ UNCHANGED <<disk, used, db, guest, archive, spent>>
  BY DEF Stop
<1>3. WholeDisk(disk, used)'
  BY <1>1, <1>2, LengthsAreNat DEF DiskInv, WholeDisk, Lengths, Spans
<1>4. Types'
  BY <1>1, <1>2 DEF DiskInv, Types
<1>5. Budget'
  BY <1>1, <1>2, BudgetStays DEF DiskInv
<1>6. JobTypes'
  BY <1>1, <1>2 DEF DiskInv, JobTypes, Updating, Resizing, Building, JobMoves, JobBecomes
<1>7. Archived'
  BY <1>1, <1>2 DEF DiskInv, Archived
<1>8. Machine'
  BY <1>1, <1>2, LengthsAreNat DEF DiskInv, Machine, At, JobMoves, JobBecomes
<1>9. Built'
  BY <1>1, <1>2, LengthsAreNat DEF DiskInv, Built, Building, Updating, Resizing, At, JobMoves,
     JobBecomes
<1>10. Resized'
  BY <1>1, <1>2, LengthsAreNat DEF DiskInv, Resized, Updating, Resizing, At, JobMoves, JobBecomes
<1>11. Reasons'
  BY <1>1, <1>2 DEF DiskInv, Reasons, Updating, Resizing, At, JobMoves, JobBecomes
<1>12. UpdateIsAllOrNothing'
  BY <1>1, <1>2 DEF DiskInv, UpdateIsAllOrNothing, At, JobMoves, JobBecomes
<1>13. CleanUpdateSucceeds'
  BY <1>1, <1>2 DEF DiskInv, CleanUpdateSucceeds, At, JobMoves, JobBecomes
<1> QED BY <1>3, <1>4, <1>5, <1>6, <1>7, <1>8, <1>9, <1>10, <1>11, <1>12, <1>13 DEF DiskInv

(* The guest fills blocks of its filesystem.                               *)
LEMMA GuestWritesKeeps ==
    ASSUME DiskInv, GuestWrites
    PROVE  DiskInv'
<1>1. JobMoves(job.pc)
  BY DEF GuestWrites, DiskInv, JobTypes, JobMoves, JobBecomes
<1>2. /\ used' = used + Block /\ used + Block <= disk.fs
      /\ UNCHANGED <<disk, db, guest, archive, running, spent>>
  BY DEF GuestWrites
<1>3. At("idle") /\ db # 0 /\ disk.len = db
  BY DEF GuestWrites, DiskInv, Machine
<1>4. used + Block \in Nat /\ (used + Block) % Block = 0 /\ 0 < used + Block
  BY BlockMore, RootDiskAssumption DEF DiskInv, WholeDisk
<1>5. used + Block <= db
  BY <1>2, <1>3, <1>4, LengthsAreNat DEF DiskInv, WholeDisk
<1>6. WholeDisk(disk, used)'
  BY <1>1, <1>2, <1>3, <1>4, <1>5, LengthsAreNat DEF DiskInv, WholeDisk, Lengths, Spans
<1>7. Types'
  BY <1>1, <1>2, <1>3, <1>4, <1>5 DEF DiskInv, Types
<1>8. Budget'
  BY <1>1, <1>2, <1>3, <1>4, <1>5, BudgetStays DEF DiskInv
<1>9. JobTypes'
  BY <1>1, <1>2, <1>3, <1>4, <1>5 DEF DiskInv, JobTypes, Updating, Resizing, Building,
     JobMoves, JobBecomes
<1>10. Archived'
  BY <1>1, <1>2, <1>3, <1>4, <1>5 DEF DiskInv, Archived
<1>11. Machine'
  BY <1>1, <1>2, <1>3, <1>4, <1>5, LengthsAreNat DEF DiskInv, Machine, At, JobMoves, JobBecomes
<1>12. Built'
  BY <1>1, <1>2, <1>3, <1>4, <1>5, LengthsAreNat DEF DiskInv, Built, Building, Updating,
     Resizing, At, JobMoves, JobBecomes
<1>13. Resized'
  BY <1>1, <1>2, <1>3, <1>4, <1>5, LengthsAreNat DEF DiskInv, Resized, Updating, Resizing, At,
     JobMoves, JobBecomes
<1>14. Reasons'
  BY <1>1, <1>2, <1>3, <1>4, <1>5 DEF DiskInv, Reasons, Updating, Resizing, At, JobMoves,
     JobBecomes
<1>15. UpdateIsAllOrNothing'
  BY <1>1, <1>2, <1>3, <1>4, <1>5 DEF DiskInv, UpdateIsAllOrNothing, At, JobMoves, JobBecomes
<1>16. CleanUpdateSucceeds'
  BY <1>1, <1>2, <1>3, <1>4, <1>5 DEF DiskInv, CleanUpdateSucceeds, At, JobMoves, JobBecomes
<1> QED BY <1>6, <1>7, <1>8, <1>9, <1>10, <1>11, <1>12, <1>13, <1>14, <1>15, <1>16 DEF DiskInv

(* The guest changes a file.                                               *)
LEMMA GuestEditsFileKeeps ==
    ASSUME DiskInv, NEW e \in GuestEdits, GuestEditsFile(e)
    PROVE  DiskInv'
<1>1. JobMoves(job.pc)
  BY DEF GuestEditsFile, DiskInv, JobTypes, JobMoves, JobBecomes
<1>2. DOMAIN guest' = DOMAIN guest /\ UNCHANGED <<disk, used, db, archive, running, spent>>
  BY DEF GuestEditsFile, SetNode
<1>3. WholeDisk(disk, used)'
  BY <1>1, <1>2, LengthsAreNat DEF DiskInv, WholeDisk, Lengths, Spans
<1>4. Types'
  BY <1>1, <1>2 DEF DiskInv, Types
<1>5. Budget'
  BY <1>1, <1>2, BudgetStays DEF DiskInv
<1>6. JobTypes'
  BY <1>1, <1>2 DEF DiskInv, JobTypes, Updating, Resizing, Building, JobMoves, JobBecomes
<1>7. Archived'
  BY <1>1, <1>2 DEF DiskInv, Archived
<1>8. Machine'
  BY <1>1, <1>2, LengthsAreNat DEF DiskInv, Machine, At, JobMoves, JobBecomes
<1>9. Built'
  BY <1>1, <1>2, LengthsAreNat DEF DiskInv, Built, Building, Updating, Resizing, At, JobMoves,
     JobBecomes
<1>10. Resized'
  BY <1>1, <1>2, LengthsAreNat DEF DiskInv, Resized, Updating, Resizing, At, JobMoves, JobBecomes
<1>11. Reasons'
  BY <1>1, <1>2 DEF DiskInv, Reasons, Updating, Resizing, At, JobMoves, JobBecomes
<1>12. UpdateIsAllOrNothing'
  BY <1>1, <1>2 DEF DiskInv, UpdateIsAllOrNothing, At, JobMoves, JobBecomes
<1>13. CleanUpdateSucceeds'
  BY <1>1, <1>2 DEF DiskInv, CleanUpdateSucceeds, At, JobMoves, JobBecomes
<1> QED BY <1>3, <1>4, <1>5, <1>6, <1>7, <1>8, <1>9, <1>10, <1>11, <1>12, <1>13 DEF DiskInv

(* Nothing happens.                                                        *)
LEMMA StutterKeeps ==
    ASSUME DiskInv, UNCHANGED vars
    PROVE  DiskInv'
<1>1. JobMoves(job.pc) /\ UNCHANGED <<disk, used, db, guest, archive, running, spent>>
  BY DEF vars, DiskInv, JobTypes, JobMoves, JobBecomes
<1>2. WholeDisk(disk, used)'
  BY <1>1, LengthsAreNat DEF DiskInv, WholeDisk, Lengths, Spans
<1>3. Types'
  BY <1>1 DEF DiskInv, Types
<1>4. Budget'
  BY <1>1, BudgetStays DEF DiskInv
<1>5. JobTypes'
  BY <1>1 DEF DiskInv, JobTypes, Updating, Resizing, Building, JobMoves, JobBecomes
<1>6. Archived'
  BY <1>1 DEF DiskInv, Archived
<1>7. Machine'
  BY <1>1, LengthsAreNat DEF DiskInv, Machine, At, JobMoves, JobBecomes
<1>8. Built'
  BY <1>1, LengthsAreNat DEF DiskInv, Built, Building, Updating, Resizing, At, JobMoves,
     JobBecomes
<1>9. Resized'
  BY <1>1, LengthsAreNat DEF DiskInv, Resized, Updating, Resizing, At, JobMoves, JobBecomes
<1>10. Reasons'
  BY <1>1 DEF DiskInv, Reasons, Updating, Resizing, At, JobMoves, JobBecomes
<1>11. UpdateIsAllOrNothing'
  BY <1>1 DEF DiskInv, UpdateIsAllOrNothing, At, JobMoves, JobBecomes
<1>12. CleanUpdateSucceeds'
  BY <1>1 DEF DiskInv, CleanUpdateSucceeds, At, JobMoves, JobBecomes
<1> QED BY <1>2, <1>3, <1>4, <1>5, <1>6, <1>7, <1>8, <1>9, <1>10, <1>11, <1>12 DEF DiskInv

(* No machine yet.                                                         *)
LEMMA InitDisk == ASSUME Init PROVE DiskInv
<1>1. /\ job.pc = "idle" /\ job.kind = "update" /\ job.call = "resize" /\ job.clean = TRUE
      /\ DOMAIN job = JobFields
  BY DEF Init, IdleJob, JobFields
<1>2. WholeDisk([len |-> 0, fs |-> 0], 0)
  BY RootDiskAssumption DEF WholeDisk, Lengths, Spans
<1>3. WholeDisk(disk, used) /\ Types /\ Archived /\ Machine
  BY <1>2 DEF Init, NoDisk, NoTree, NoArchive, Types, Archived, Machine
<1>4. Budget
  BY BudgetAssumption DEF Init, Budget
<1>5. JobTypes /\ Built /\ Resized /\ Reasons /\ UpdateIsAllOrNothing /\ CleanUpdateSucceeds
  BY <1>1 DEF JobTypes, Built, Resized, Reasons, UpdateIsAllOrNothing, CleanUpdateSucceeds,
     Updating, Resizing, Building, At
<1> QED BY <1>3, <1>4, <1>5 DEF DiskInv

(* Every step keeps the invariant.                                         *)
LEMMA NextDisk == ASSUME DiskInv, [Next]_vars PROVE DiskInv'
<1>1. CASE UpdateStep
  BY <1>1, BeginUpdateKeeps, CheckUsedKeeps, ProbeLengthKeeps, ExtendKeeps, GrowKeeps,
     ShrinkKeeps, CutKeeps, ConvergeKeeps, RecordUpdateKeeps DEF UpdateStep
<1>2. CASE \/ InvokeRestore \/ InvokeDelete \/ Sanitize \/ FillImage \/ EditStep
           \/ RecordMachine \/ DiscardVolume
  BY <1>2, InvokeRestoreKeeps, InvokeDeleteKeeps, SanitizeKeeps, FillImageKeeps, EditStepKeeps,
     RecordMachineKeeps, DiscardVolumeKeeps
<1>3. CASE Return \/ CommandFails \/ Crash \/ Start \/ Stop \/ GuestWrites
  BY <1>3, ReturnKeeps, CommandFailsKeeps, CrashKeeps, StartKeeps, StopKeeps, GuestWritesKeeps
<1> QED BY <1>1, <1>2, <1>3, InvokeCreateKeeps, InvokeUpdateKeeps, GuestEditsFileKeeps,
           StutterKeeps DEF Next

(* Which therefore holds throughout.                                       *)
LEMMA DiskInvariant == Spec => []DiskInv
  BY InitDisk, NextDisk, PTL DEF Spec

(* NothingTruncated, for every block size, every set of disk sizes and any *)
(* number of failing commands and crashes: the file is never shorter than  *)
(* the filesystem in it, nor that smaller than what it holds.              *)
THEOREM DiskIsNeverTruncated == Spec => []NothingTruncated
<1>1. DiskInv => NothingTruncated
  <2> SUFFICES ASSUME DiskInv PROVE NothingTruncated
    OBVIOUS
  <2>1. disk \in [len : Lengths, fs : Spans]
    BY DEF DiskInv, WholeDisk
  <2>2. RootDiskTypeOK
    BY <2>1 DEF DiskInv, Types, Budget, WholeDisk, Archived, Machine, RootDiskTypeOK, Lengths,
       Spans
  <2> QED BY <2>2 DEF DiskInv, WholeDisk, NothingTruncated
<1> QED BY <1>1, DiskInvariant, PTL

(* UpdateIsAllOrNothing, for all the same: an update that reports success  *)
(* resized file, filesystem and record; one that rolled back restored the  *)
(* recorded length.                                                        *)
THEOREM UpdatesAreAllOrNothing == Spec => []UpdateIsAllOrNothing
<1>1. DiskInv => UpdateIsAllOrNothing
  BY DEF DiskInv
<1> QED BY <1>1, DiskInvariant, PTL

(* CleanUpdateSucceeds, for all the same: an update in which no command    *)
(* fails is refused only when the content does not fit, whatever earlier   *)
(* updates left behind.                                                    *)
THEOREM CleanUpdatesSucceed == Spec => []CleanUpdateSucceeds
<1>1. DiskInv => CleanUpdateSucceeds
  BY DEF DiskInv
<1> QED BY <1>1, DiskInvariant, PTL

-----------------------------------------------------------------------------
(***************************************************************************)
(* The guest's files.  What is true of a prepared guest holds already or   *)
(* is still among the edits to come: the invariant says so of each part,   *)
(* and a lemma ...Stays that an edit keeps that part as long as the edit   *)
(* is Harmless to it.                                                      *)
(***************************************************************************)

(* The fields of a guest file.                                             *)
NodeFields == {"kind", "mode", "data"}
Nodes == \A p \in Paths : DOMAIN guest[p] = NodeFields /\ DOMAIN archive.guest[p] = NodeFields

Keys == "authorized_keys"
Unit == "10-taumaru.network"
Resolver == "resolv.conf"

(* What the SDK writes into a file, line by line.                          *)
ShippedLines == UNION {Range(image[Keys].data) : image \in Images}
Lines == ShippedLines \cup {"new key", "address", "static"}

(* The shipped keys and the new one, each once.                            *)
GoodKeys(data) ==
    /\ data \in Seq(Lines) /\ IsInjective(data)
    /\ \E image \in Images : Range(data) = Range(image[Keys].data) \cup {"new key"}

Ops == {"directory", "chmod", "keys", "unit", "resolver", "write",
        "host key", "private mode", "public key"}
Steps == [op : Ops, path : Paths] \cup [op : Ops, path : Paths, data : Seq(Lines)]

(* The edits there are.                                                    *)
Fits(kind, s) ==
    \/ s.op = "directory" /\ s.path \in Directories
    \/ /\ s.op = "chmod"
       /\ s.path \in {"root/.ssh", Keys, Unit, Resolver} \cup {Public(t) : t \in KeyTypes}
    \/ s.op = "keys" /\ s.path = Keys /\ kind = "create"
    \/ s.op = "unit" /\ s.path = Unit
    \/ s.op = "resolver" /\ s.path = Resolver
    \/ s.op = "write" /\ \/ s.path = Keys /\ GoodKeys(s.data)
                         \/ s.path = Unit /\ s.data = <<"address">>
                         \/ s.path = Resolver /\ s.data = <<"static">>
    \/ s.op \in {"host key", "private mode"} /\ s.path \in {Private(t) : t \in KeyTypes}
    \/ s.op = "public key" /\ s.path \in {Public(t) : t \in KeyTypes}

Listed(kind, s) ==
    /\ s \in Seq(Steps)
    /\ \A i \in 1..Len(s) : Fits(kind, s[i])
    /\ \A i \in 2..Len(s) : s[i].op # "write"

(* What is still to come.                                                  *)
Ahead(s, op, path) == \E i \in 1..Len(s) : s[i].op = op /\ s[i].path = path
Rewritten(s, path) == s # << >> /\ s[1].op = "write" /\ s[1].path = path
ModeAhead(s, path) ==
    \E i \in 1..Len(s) :
        /\ s[i].op = "chmod" /\ s[i].path = path
        /\ \A j \in 1..Len(s) : s[j].path = path /\ s[j].op # "chmod" => j < i

(* What holds or will.                                                     *)
Own(g, s, path, op, data) ==
    \/ g[path].kind = "regular" /\ g[path].data = data
    \/ Ahead(s, op, path)
    \/ Rewritten(s, path)
NetworkComes(g, s) ==
    Own(g, s, Unit, "unit", <<"address">>) /\ Own(g, s, Resolver, "resolver", <<"static">>)

DirectoriesCome(g, s) ==
    \A d \in Directories : g[d].kind = "directory" \/ Ahead(s, "directory", d)

HomeModeComes(g, s) ==
    \/ g["root/.ssh"].kind = "directory" /\ g["root/.ssh"].mode = "0700"
    \/ ModeAhead(s, "root/.ssh")

KeysCome(g, s) ==
    \/ g[Keys].kind = "regular" /\ GoodKeys(g[Keys].data)
    \/ Rewritten(s, Keys)
    \/ /\ Ahead(s, "keys", Keys)
       /\ \E image \in Images : g[Keys].kind = image[Keys].kind /\ g[Keys].data = image[Keys].data
KeysModeComes(g, s) ==
    \/ g[Keys].mode = "0600" /\ \A i \in 1..Len(s) : s[i].path = Keys => s[i].op = "chmod"
    \/ ModeAhead(s, Keys)

HostKeysCome(g, s) ==
    \A t \in KeyTypes :
        /\ g[Private(t)].kind = "regular" \/ Ahead(s, "host key", Private(t))
        /\ g[Private(t)].kind = "regular" /\ g[Private(t)].data = <<"generated">> =>
             /\ g[Public(t)].data = <<"generated">> \/ Ahead(s, "public key", Public(t))
             /\ g[Private(t)].mode = "0600" \/ Ahead(s, "private mode", Private(t))

GuestComes(g, s) ==
    /\ DirectoriesCome(g, s) /\ HomeModeComes(g, s) /\ KeysCome(g, s) /\ KeysModeComes(g, s)
    /\ HostKeysCome(g, s)

Edited ==
    /\ At("fill") => job.kind = "create" /\ guest \in Images
    /\ At("edit") => /\ Listed(job.kind, job.todo)
                     /\ NetworkComes(guest, job.todo)
                     /\ job.kind = "create" => GuestComes(guest, job.todo)

GuestInv == Nodes /\ Edited

-----------------------------------------------------------------------------
(* u is what is left of s when its first step is replaced by k + 1 others. *)
Follows(u, s, k) ==
    /\ s \in Seq(Steps) /\ s # << >> /\ k \in {-1, 0, 2}
    /\ u \in Seq(Steps) /\ Len(u) = Len(s) + k
    /\ \A i \in 2..Len(s) : u[i + k] = s[i]

(* A step that is to come still is, unless it was the one done.            *)
LEMMA AheadStays ==
    ASSUME NEW s, NEW u, NEW k, Follows(u, s, k), NEW op, NEW path,
           Ahead(s, op, path), s[1].op # op \/ s[1].path # path
    PROVE  Ahead(u, op, path)
<1>1. Len(s) \in Nat /\ Len(u) \in Nat /\ k \in {-1, 0, 2} /\ Len(u) = Len(s) + k
  BY DEF Follows
<1>2. PICK i \in 1..Len(s) : s[i].op = op /\ s[i].path = path
  BY DEF Ahead
<1>3. i \in 2..Len(s) /\ i + k \in 1..Len(u)
  BY <1>1, <1>2
<1>4. u[i + k] = s[i]
  BY <1>3 DEF Follows
<1> QED BY <1>2, <1>3, <1>4 DEF Ahead

(* So is a mode that is set after all else that is done to its file.       *)
LEMMA ModeAheadStays ==
    ASSUME NEW s, NEW u, NEW k, Follows(u, s, k), NEW path,
           ModeAhead(s, path), s[1].op # "chmod" \/ s[1].path # path
    PROVE  ModeAhead(u, path)
<1>1. Len(s) \in Nat /\ Len(u) \in Nat /\ k \in {-1, 0, 2} /\ Len(u) = Len(s) + k
  BY DEF Follows
<1>2. PICK i \in 1..Len(s) :
        /\ s[i].op = "chmod" /\ s[i].path = path
        /\ \A j \in 1..Len(s) : s[j].path = path /\ s[j].op # "chmod" => j < i
  BY DEF ModeAhead
<1>3. i \in 2..Len(s) /\ i + k \in 1..Len(u)
  BY <1>1, <1>2
<1>4. u[i + k] = s[i]
  BY <1>3 DEF Follows
<1>5. ASSUME NEW j \in 1..Len(u), u[j].path = path, u[j].op # "chmod", ~(j < i + k)
      PROVE  FALSE
  <2>1. j - k \in 2..Len(s) /\ (j - k) + k = j
    BY <1>1, <1>3, <1>5
  <2>2. u[j] = s[j - k]
    BY <2>1 DEF Follows
  <2> QED BY <1>2, <1>1, <1>3, <1>5, <2>1, <2>2
<1> QED BY <1>2, <1>3, <1>4, <1>5 DEF ModeAhead

(* A step that is done leaves the others.                                  *)
LEMMA DoneFollows ==
    ASSUME NEW s \in Seq(Steps), s # << >>
    PROVE  Follows(Tail(s), s, -1)
<1>1. Len(s) \in Nat \ {0} /\ Tail(s) \in Seq(Steps) /\ Len(Tail(s)) = Len(s) - 1
  BY HeadTailProperties, EmptySeq
<1>2. \A i \in 1..(Len(s) - 1) : Tail(s)[i] = s[i + 1]
  BY <1>1, HeadTailProperties
<1>3. ASSUME NEW i \in 2..Len(s) PROVE Tail(s)[i + (-1)] = s[i]
  BY <1>1, <1>2, i + (-1) \in 1..(Len(s) - 1), (i + (-1)) + 1 = i
<1> QED BY <1>1, <1>3 DEF Follows

(* A removal leaves the writing in its place.                              *)
LEMMA ReplacedFollows ==
    ASSUME NEW s \in Seq(Steps), s # << >>, NEW w \in Steps
    PROVE  Follows(<<w>> \o Tail(s), s, 0) /\ (<<w>> \o Tail(s))[1] = w
<1>1. Len(s) \in Nat \ {0} /\ Tail(s) \in Seq(Steps) /\ Len(Tail(s)) = Len(s) - 1
  BY HeadTailProperties, EmptySeq
<1>2. \A i \in 1..(Len(s) - 1) : Tail(s)[i] = s[i + 1]
  BY <1>1, HeadTailProperties
<1>w. <<w>> \in Seq(Steps) /\ Len(<<w>>) = 1 /\ <<w>>[1] = w
  OBVIOUS
<1> DEFINE u == <<w>> \o Tail(s)
<1>3. /\ u \in Seq(Steps) /\ Len(u) = 1 + (Len(s) - 1)
      /\ \A i \in 1..(1 + (Len(s) - 1)) : u[i] = IF i <= 1 THEN <<w>>[i] ELSE Tail(s)[i - 1]
  BY <1>1, <1>w, ConcatProperties
<1>4. u[1] = w
  BY <1>1, <1>3, <1>w
<1> HIDE DEF u
<1>5. ASSUME NEW i \in 2..Len(s) PROVE u[i + 0] = s[i]
  BY <1>1, <1>2, <1>3, i - 1 \in 1..(Len(s) - 1), (i - 1) + 1 = i, i + 0 = i
<1>6. Follows(u, s, 0)
  BY <1>1, <1>3, <1>5 DEF Follows
<1> QED BY <1>4, <1>6 DEF u

(* A new key leaves three steps in its place.                              *)
LEMMA ExpandedFollows ==
    ASSUME NEW s \in Seq(Steps), s # << >>, NEW v \in Seq(Steps), Len(v) = 3
    PROVE  Follows(v \o Tail(s), s, 2) /\ \A i \in 1..3 : (v \o Tail(s))[i] = v[i]
<1>1. Len(s) \in Nat \ {0} /\ Tail(s) \in Seq(Steps) /\ Len(Tail(s)) = Len(s) - 1
  BY HeadTailProperties, EmptySeq
<1>2. \A i \in 1..(Len(s) - 1) : Tail(s)[i] = s[i + 1]
  BY <1>1, HeadTailProperties
<1> DEFINE u == v \o Tail(s)
<1>v. /\ u \in Seq(Steps) /\ Len(u) = Len(v) + Len(Tail(s))
      /\ \A i \in 1..(Len(v) + Len(Tail(s))) :
           u[i] = IF i <= Len(v) THEN v[i] ELSE Tail(s)[i - Len(v)]
  BY <1>1, ConcatProperties
<1> HIDE DEF u
<1>3. /\ u \in Seq(Steps) /\ Len(u) = 3 + (Len(s) - 1)
      /\ \A i \in 1..(3 + (Len(s) - 1)) : u[i] = IF i <= 3 THEN v[i] ELSE Tail(s)[i - 3]
  BY <1>1, <1>v
<1>4. \A i \in 1..3 : u[i] = v[i]
  BY <1>1, <1>3
<1>5. ASSUME NEW i \in 2..Len(s) PROVE u[i + 2] = s[i]
  <2>1. i + 2 \in 1..(3 + (Len(s) - 1)) /\ ~(i + 2 <= 3) /\ (i + 2) - 3 = i - 1
    BY <1>1
  <2>2. i - 1 \in 1..(Len(s) - 1) /\ (i - 1) + 1 = i
    BY <1>1
  <2> QED BY <1>2, <1>3, <2>1, <2>2
<1>6. Follows(u, s, 2)
  BY <1>1, <1>3, <1>5 DEF Follows
<1> QED BY <1>4, <1>6 DEF u

-----------------------------------------------------------------------------
(* What a step does to one of the goals.  h is the step, n what it leaves  *)
(* at its path, and u what is left to do.                                  *)
Changes(g, g2, s, u, k, n) ==
    /\ Follows(u, s, k)
    /\ s[1].path \in Paths
    /\ \A p \in Paths : g2[p] = IF s[1].path = p THEN n ELSE g[p]

(* A network file is the SDK's own or will be written.                     *)
LEMMA OwnStays ==
    ASSUME NEW g, NEW g2, NEW s, NEW u, NEW k, NEW n, Changes(g, g2, s, u, k, n),
           NEW path \in Paths, NEW op, NEW data, op # "chmod", Own(g, s, path, op, data),
           s[1].path = path =>
               \/ n.kind = "regular" /\ n.data = data
               \/ Rewritten(u, path)
               \/ s[1].op = "chmod" /\ n.kind = g[path].kind /\ n.data = g[path].data
    PROVE  Own(g2, u, path, op, data)
<1>1. g2[path] = IF s[1].path = path THEN n ELSE g[path]
  BY DEF Changes
<1>2. Ahead(s, op, path) /\ (s[1].op # op \/ s[1].path # path) => Ahead(u, op, path)
  BY AheadStays DEF Changes
<1> QED BY <1>1, <1>2 DEF Own, Rewritten

(* A directory is there or will be made.                                   *)
LEMMA DirectoriesStay ==
    ASSUME NEW g, NEW g2, NEW s, NEW u, NEW k, NEW n, Changes(g, g2, s, u, k, n),
           DirectoriesCome(g, s),
           s[1].path \in Directories =>
               \/ n.kind = "directory"
               \/ s[1].op # "directory" /\ n.kind = g[s[1].path].kind
    PROVE  DirectoriesCome(g2, u)
<1> SUFFICES ASSUME NEW d \in Directories
             PROVE  g2[d].kind = "directory" \/ Ahead(u, "directory", d)
  BY DEF DirectoriesCome
<1>1. d \in Paths
  BY DEF Paths
<1>2. g2[d] = IF s[1].path = d THEN n ELSE g[d]
  BY <1>1 DEF Changes
<1>3. Ahead(s, "directory", d) /\ (s[1].op # "directory" \/ s[1].path # d)
        => Ahead(u, "directory", d)
  BY AheadStays DEF Changes
<1> QED BY <1>2, <1>3 DEF DirectoriesCome

(* root/.ssh has its mode, or gets it once the directory is there.         *)
LEMMA HomeModeStays ==
    ASSUME NEW g, NEW g2, NEW s, NEW u, NEW k, NEW n, Changes(g, g2, s, u, k, n),
           DirectoriesCome(g, s), HomeModeComes(g, s),
           s[1].path = "root/.ssh" =>
               \/ s[1].op = "chmod" /\ n.kind = g["root/.ssh"].kind /\ n.mode = "0700"
               \/ s[1].op # "chmod" /\ (n = g["root/.ssh"] \/ g["root/.ssh"].kind = "absent")
    PROVE  HomeModeComes(g2, u)
<1> DEFINE d == "root/.ssh"
<1>1. d \in Paths /\ d \in Directories
  BY DEF Paths, Directories
<1>2. g2[d] = IF s[1].path = d THEN n ELSE g[d]
  BY <1>1 DEF Changes
<1>3. ModeAhead(s, d) /\ (s[1].op # "chmod" \/ s[1].path # d) => ModeAhead(u, d)
  BY ModeAheadStays DEF Changes
<1>4. CASE s[1].path = d /\ s[1].op = "chmod"
  <2>1. CASE g[d].kind = "directory"
    BY <1>2, <1>4, <2>1 DEF HomeModeComes
  <2>2. CASE g[d].kind # "directory"
    <3>1. ModeAhead(s, d) /\ Ahead(s, "directory", d)
      BY <1>1, <2>2 DEF HomeModeComes, DirectoriesCome
    <3>2. PICK i \in 1..Len(s) :
            /\ s[i].op = "chmod" /\ s[i].path = d
            /\ \A j \in 1..Len(s) : s[j].path = d /\ s[j].op # "chmod" => j < i
      BY <3>1 DEF ModeAhead
    <3>3. PICK l \in 1..Len(s) : s[l].op = "directory" /\ s[l].path = d
      BY <3>1 DEF Ahead
    <3>4. l < i /\ l # 1 /\ Len(s) \in Nat
      BY <3>2, <3>3, <1>4 DEF Changes, Follows
    <3>5. /\ i \in 2..Len(s) /\ Len(u) \in Nat /\ k \in {-1, 0, 2} /\ Len(u) = Len(s) + k
          /\ i + k \in 1..Len(u)
      BY <3>4, <3>2 DEF Changes, Follows
    <3>6. u[i + k] = s[i]
      BY <3>5 DEF Changes, Follows
    <3>7. ASSUME NEW j \in 1..Len(u), u[j].path = d, u[j].op # "chmod", ~(j < i + k)
          PROVE  FALSE
      <4>1. j - k \in 2..Len(s) /\ (j - k) + k = j
        BY <3>4, <3>5, <3>7
      <4>2. u[j] = s[j - k]
        BY <4>1 DEF Changes, Follows
      <4> QED BY <3>2, <3>4, <3>5, <3>7, <4>1, <4>2
    <3> QED BY <3>2, <3>5, <3>6, <3>7 DEF HomeModeComes, ModeAhead
  <2> QED BY <2>1, <2>2
<1>5. CASE ~(s[1].path = d /\ s[1].op = "chmod")
  BY <1>2, <1>3, <1>5 DEF HomeModeComes
<1> QED BY <1>4, <1>5

(* The keys are there, will be written back, or are yet as shipped.        *)
LEMMA KeysStay ==
    ASSUME NEW g, NEW g2, NEW s, NEW u, NEW k, NEW n, Changes(g, g2, s, u, k, n),
           KeysCome(g, s),
           s[1].path = Keys =>
               \/ n.kind = "regular" /\ GoodKeys(n.data)
               \/ Rewritten(u, Keys)
               \/ s[1].op = "chmod" /\ n.kind = g[Keys].kind /\ n.data = g[Keys].data
    PROVE  KeysCome(g2, u)
<1>1. g2[Keys] = IF s[1].path = Keys THEN n ELSE g[Keys]
  BY DEF Changes, Paths, Keys
<1>2. Ahead(s, "keys", Keys) /\ (s[1].op # "keys" \/ s[1].path # Keys) => Ahead(u, "keys", Keys)
  BY AheadStays DEF Changes
<1> QED BY <1>1, <1>2 DEF KeysCome, Rewritten

(* Their file has its mode and is written no more, or gets it afterwards.  *)
LEMMA KeysModeStays ==
    ASSUME NEW g, NEW g2, NEW s, NEW u, NEW k, NEW n, Changes(g, g2, s, u, k, n),
           KeysModeComes(g, s),
           s[1].path = Keys /\ s[1].op = "chmod" => n.mode = "0600",
           \A i \in 1..(k + 1) : u[i].path = Keys => s[1].path = Keys /\ s[1].op # "chmod"
    PROVE  KeysModeComes(g2, u)
<1>1. g2[Keys] = IF s[1].path = Keys THEN n ELSE g[Keys]
  BY DEF Changes, Paths, Keys
<1>2. /\ Len(s) \in Nat \ {0} /\ Len(u) \in Nat /\ k \in {-1, 0, 2} /\ Len(u) = Len(s) + k
  BY EmptySeq DEF Changes, Follows
<1>3. ModeAhead(s, Keys) /\ (s[1].op # "chmod" \/ s[1].path # Keys) => ModeAhead(u, Keys)
  BY ModeAheadStays DEF Changes
<1>4. ASSUME NEW j \in 1..Len(u), u[j].path = Keys, s[1].path # Keys \/ s[1].op = "chmod"
      PROVE  j - k \in 2..Len(s) /\ u[j] = s[j - k]
  <2>1. ~(j \in 1..(k + 1))
    BY <1>4
  <2>2. j - k \in 2..Len(s) /\ (j - k) + k = j
    BY <1>2, <2>1
  <2> QED BY <2>2 DEF Changes, Follows
<1>5. CASE s[1].path = Keys /\ s[1].op = "chmod"
  <2>1. CASE \A i \in 1..Len(s) : s[i].path = Keys => s[i].op = "chmod"
    <3>1. \A j \in 1..Len(u) : u[j].path = Keys => u[j].op = "chmod"
      BY <1>2, <1>4, <1>5, <2>1
    <3> QED BY <1>1, <1>5, <3>1 DEF KeysModeComes
  <2>2. CASE ~(\A i \in 1..Len(s) : s[i].path = Keys => s[i].op = "chmod")
    <3>1. PICK l \in 1..Len(s) : s[l].path = Keys /\ s[l].op # "chmod"
      BY <2>2
    <3>2. PICK i \in 1..Len(s) :
            /\ s[i].op = "chmod" /\ s[i].path = Keys
            /\ \A j \in 1..Len(s) : s[j].path = Keys /\ s[j].op # "chmod" => j < i
      BY <2>2 DEF KeysModeComes, ModeAhead
    <3>3. i \in 2..Len(s) /\ i + k \in 1..Len(u)
      BY <1>2, <3>1, <3>2
    <3>4. u[i + k] = s[i]
      BY <3>3 DEF Changes, Follows
    <3>5. ASSUME NEW j \in 1..Len(u), u[j].path = Keys, u[j].op # "chmod" PROVE j < i + k
      BY <1>2, <1>4, <1>5, <3>2, <3>3, <3>5
    <3> QED BY <3>2, <3>3, <3>4, <3>5 DEF KeysModeComes, ModeAhead
  <2> QED BY <2>1, <2>2
<1>6. CASE s[1].path # Keys
  <2>1. CASE ModeAhead(s, Keys)
    BY <1>3, <1>6, <2>1 DEF KeysModeComes
  <2>2. CASE g[Keys].mode = "0600" /\ \A i \in 1..Len(s) : s[i].path = Keys => s[i].op = "chmod"
    <3>1. \A j \in 1..Len(u) : u[j].path = Keys => u[j].op = "chmod"
      BY <1>2, <1>4, <1>6, <2>2
    <3> QED BY <1>1, <1>6, <2>2, <3>1 DEF KeysModeComes
  <2> QED BY <2>1, <2>2 DEF KeysModeComes
<1>7. CASE s[1].path = Keys /\ s[1].op # "chmod"
  BY <1>2, <1>3, <1>7 DEF KeysModeComes
<1> QED BY <1>5, <1>6, <1>7

PairsHarmless(g, h, u, n) ==
    \A t \in KeyTypes :
        /\ h.path = Private(t) =>
             \/ /\ h.op = "host key" /\ n.kind = "regular"
                /\ Ahead(u, "public key", Public(t)) /\ Ahead(u, "private mode", Private(t))
             \/ h.op = "host key" /\ n = g[Private(t)] /\ n.kind = "regular"
             \/ /\ h.op = "private mode" /\ n.mode = "0600"
                /\ n.kind = g[Private(t)].kind /\ n.data = g[Private(t)].data
        /\ h.path = Public(t) =>
             \/ n.data = <<"generated">>
             \/ h.op = "chmod" /\ n.data = g[Public(t)].data

(* A private key is there or will be made; the rest of its pair follows.   *)
LEMMA HostKeysStay ==
    ASSUME NEW g, NEW g2, NEW s, NEW u, NEW k, NEW n, Changes(g, g2, s, u, k, n),
           HostKeysCome(g, s),
           PairsHarmless(g, s[1], u, n)
    PROVE  HostKeysCome(g2, u)
<1> SUFFICES ASSUME NEW t \in KeyTypes
             PROVE
               /\ g2[Private(t)].kind = "regular" \/ Ahead(u, "host key", Private(t))
               /\ g2[Private(t)].kind = "regular" /\ g2[Private(t)].data = <<"generated">> =>
                  /\ g2[Public(t)].data = <<"generated">> \/ Ahead(u, "public key", Public(t))
                  /\ g2[Private(t)].mode = "0600" \/ Ahead(u, "private mode", Private(t))
  BY DEF HostKeysCome
<1>1. Private(t) \in Paths /\ Public(t) \in Paths /\ Private(t) # Public(t)
  BY KeyTypesAssumption DEF Paths, HostKeyFiles
<1>2. /\ g2[Private(t)] = IF s[1].path = Private(t) THEN n ELSE g[Private(t)]
      /\ g2[Public(t)] = IF s[1].path = Public(t) THEN n ELSE g[Public(t)]
  BY <1>1 DEF Changes
<1>3. \A op, path : Ahead(s, op, path) /\ (s[1].op # op \/ s[1].path # path) => Ahead(u, op, path)
  BY AheadStays DEF Changes
<1>4. /\ g[Private(t)].kind = "regular" \/ Ahead(s, "host key", Private(t))
      /\ g[Private(t)].kind = "regular" /\ g[Private(t)].data = <<"generated">> =>
           /\ g[Public(t)].data = <<"generated">> \/ Ahead(s, "public key", Public(t))
           /\ g[Private(t)].mode = "0600" \/ Ahead(s, "private mode", Private(t))
  BY DEF HostKeysCome
<1>5. CASE s[1].path = Private(t)
  BY <1>1, <1>2, <1>3, <1>4, <1>5 DEF PairsHarmless
<1>6. CASE s[1].path = Public(t)
  BY <1>1, <1>2, <1>3, <1>4, <1>6 DEF PairsHarmless
<1>7. CASE s[1].path # Private(t) /\ s[1].path # Public(t)
  BY <1>1, <1>2, <1>3, <1>4, <1>7
<1> QED BY <1>5, <1>6, <1>7

(* What is left to do remains a list of the edits there are.               *)
LEMMA ListedStays ==
    ASSUME NEW kind, NEW s, NEW u, NEW k, Follows(u, s, k), Listed(kind, s),
           \A i \in 1..(k + 1) : Fits(kind, u[i]) /\ (i > 1 => u[i].op # "write")
    PROVE  Listed(kind, u)
<1>1. /\ Len(s) \in Nat \ {0} /\ Len(u) \in Nat /\ k \in {-1, 0, 2} /\ Len(u) = Len(s) + k
  BY EmptySeq DEF Follows
<1>2. ASSUME NEW i \in 1..Len(u), ~(i \in 1..(k + 1))
      PROVE  Fits(kind, u[i]) /\ u[i].op # "write"
  <2>1. i - k \in 2..Len(s) /\ (i - k) + k = i /\ i - k \in 1..Len(s)
    BY <1>1, <1>2
  <2>2. u[i] = s[i - k]
    BY <2>1 DEF Follows
  <2> QED BY <2>1, <2>2 DEF Listed
<1>3. ASSUME NEW i \in 1..Len(u) PROVE Fits(kind, u[i])
  BY <1>2
<1>4. ASSUME NEW i \in 2..Len(u) PROVE u[i].op # "write"
  <2>1. i \in 1..Len(u) /\ i > 1
    BY <1>1
  <2> QED BY <1>2, <2>1
<1> QED BY <1>3, <1>4 DEF Listed, Follows

(* A step that disturbs none of the goals.                                 *)
Harmless(g, h, u, n) ==
    /\ h.path = Unit =>
         \/ n.kind = "regular" /\ n.data = <<"address">>
         \/ Rewritten(u, Unit)
         \/ h.op = "chmod" /\ n.kind = g[Unit].kind /\ n.data = g[Unit].data
    /\ h.path = Resolver =>
         \/ n.kind = "regular" /\ n.data = <<"static">>
         \/ Rewritten(u, Resolver)
         \/ h.op = "chmod" /\ n.kind = g[Resolver].kind /\ n.data = g[Resolver].data
    /\ h.path \in Directories =>
         \/ n.kind = "directory"
         \/ h.op # "directory" /\ n.kind = g[h.path].kind
    /\ h.path = "root/.ssh" =>
         \/ h.op = "chmod" /\ n.kind = g["root/.ssh"].kind /\ n.mode = "0700"
         \/ h.op # "chmod" /\ (n = g["root/.ssh"] \/ g["root/.ssh"].kind = "absent")
    /\ h.path = Keys =>
         \/ n.kind = "regular" /\ GoodKeys(n.data)
         \/ Rewritten(u, Keys)
         \/ h.op = "chmod" /\ n.kind = g[Keys].kind /\ n.data = g[Keys].data
    /\ h.path = Keys /\ h.op = "chmod" => n.mode = "0600"
    /\ PairsHarmless(g, h, u, n)

(* What is known when an edit begins.                                      *)
LEMMA EditBegins ==
    ASSUME DiskInv, GuestInv, At("edit"), job.todo # << >>
    PROVE  /\ job.todo \in Seq(Steps) /\ Now = job.todo[1] /\ Now \in Steps
           /\ Now.path \in Paths /\ Fits(job.kind, Now)
           /\ DOMAIN Here = NodeFields
           /\ DOMAIN guest = Paths /\ DOMAIN job = JobFields
           /\ Listed(job.kind, job.todo) /\ NetworkComes(guest, job.todo)
           /\ job.kind = "create" => GuestComes(guest, job.todo)
<1>1. /\ Listed(job.kind, job.todo) /\ NetworkComes(guest, job.todo)
      /\ job.kind = "create" => GuestComes(guest, job.todo)
  BY DEF GuestInv, Edited
<1>2. job.todo \in Seq(Steps) /\ Len(job.todo) \in Nat \ {0}
  BY <1>1, EmptySeq DEF Listed
<1>3. Now = job.todo[1] /\ Now \in Steps
  BY <1>2, HeadTailProperties DEF Now
<1>4. Now.path \in Paths
  BY <1>3 DEF Steps
<1>5. Fits(job.kind, Now)
  BY <1>1, <1>2, <1>3 DEF Listed
<1>6. DOMAIN Here = NodeFields
  BY <1>4 DEF GuestInv, Nodes, Here
<1> QED BY <1>1, <1>2, <1>3, <1>4, <1>5, <1>6 DEF DiskInv, Types, JobTypes

(* An edit that disturbs no goal keeps the invariant ...                   *)
LEMMA EditKeeps ==
    ASSUME DiskInv, GuestInv, At("edit"), job.todo # << >>,
           NEW k, NEW n, Changes(guest, guest', job.todo, job'.todo, k, n),
           DOMAIN n = NodeFields, archive' = archive,
           job'.pc = "edit", job'.kind = job.kind,
           \A i \in 1..(k + 1) :
               /\ Fits(job.kind, job'.todo[i])
               /\ i > 1 => job'.todo[i].op # "write"
               /\ job'.todo[i].path = Keys => Now.path = Keys /\ Now.op # "chmod",
           Harmless(guest, Now, job'.todo, n)
    PROVE  GuestInv'
<1> DEFINE s == job.todo
           u == job'.todo
<1>0. Now = s[1] /\ Harmless(guest, s[1], u, n)
  BY EditBegins
<1>1. /\ Listed(job.kind, s) /\ NetworkComes(guest, s)
      /\ job.kind = "create" => GuestComes(guest, s)
  BY EditBegins
<1>2. Listed(job'.kind, u)
  BY <1>1, ListedStays DEF Changes
<1>3. Unit \in Paths /\ Resolver \in Paths
  BY DEF Paths, Unit, Resolver
<1>4. NetworkComes(guest', u)
  <2>1. Own(guest', u, Unit, "unit", <<"address">>)
    <3>1. s[1].path = Unit =>
            \/ n.kind = "regular" /\ n.data = <<"address">>
            \/ Rewritten(u, Unit)
            \/ s[1].op = "chmod" /\ n.kind = guest[Unit].kind /\ n.data = guest[Unit].data
      BY <1>0 DEF Harmless
    <3>2. Own(guest, s, Unit, "unit", <<"address">>)
      BY <1>1 DEF NetworkComes
    <3> QED BY <1>3, <3>1, <3>2, OwnStays
  <2>2. Own(guest', u, Resolver, "resolver", <<"static">>)
    <3>1. s[1].path = Resolver =>
            \/ n.kind = "regular" /\ n.data = <<"static">>
            \/ Rewritten(u, Resolver)
            \/ s[1].op = "chmod" /\ n.kind = guest[Resolver].kind /\ n.data = guest[Resolver].data
      BY <1>0 DEF Harmless
    <3>2. Own(guest, s, Resolver, "resolver", <<"static">>)
      BY <1>1 DEF NetworkComes
    <3> QED BY <1>3, <3>1, <3>2, OwnStays
  <2> QED BY <2>1, <2>2 DEF NetworkComes
<1>5. ASSUME job'.kind = "create" PROVE GuestComes(guest', u)
  <2>1. GuestComes(guest, s)
    BY <1>1, <1>5
  <2>2. DirectoriesCome(guest', u)
    BY <1>0, <2>1, DirectoriesStay DEF GuestComes, Harmless
  <2>3. HomeModeComes(guest', u)
    BY <1>0, <2>1, HomeModeStays DEF GuestComes, Harmless
  <2>4. KeysCome(guest', u)
    BY <1>0, <2>1, KeysStay DEF GuestComes, Harmless
  <2>5. KeysModeComes(guest', u)
    <3>1. /\ KeysModeComes(guest, s)
          /\ s[1].path = Keys /\ s[1].op = "chmod" => n.mode = "0600"
      BY <1>0, <2>1 DEF GuestComes, Harmless
    <3>2. \A i \in 1..(k + 1) : u[i].path = Keys => s[1].path = Keys /\ s[1].op # "chmod"
      BY <1>0
    <3> QED BY <3>1, <3>2, KeysModeStays
  <2>6. HostKeysCome(guest', u)
    <3>1. HostKeysCome(guest, s) /\ PairsHarmless(guest, s[1], u, n)
      BY <1>0, <2>1 DEF GuestComes, Harmless
    <3> QED BY <3>1, HostKeysStay
  <2> QED BY <2>2, <2>3, <2>4, <2>5, <2>6 DEF GuestComes
<1>6. Nodes'
  BY DEF GuestInv, Nodes, Changes
<1>7. Edited'
  BY <1>2, <1>4, <1>5 DEF Edited, At
<1> QED BY <1>6, <1>7 DEF GuestInv

(* A refused edit ends the call.                                           *)
LEMMA RefusedKeeps ==
    ASSUME DiskInv, GuestInv, archive' = archive, job'.pc = "failed",
           \A p \in Paths : guest'[p] = guest[p] \/ guest'[p] = Absent
    PROVE  GuestInv'
<1>1. DOMAIN Absent = NodeFields
  BY DEF Absent, Node, NodeFields
<1>2. Nodes'
  BY <1>1 DEF GuestInv, Nodes
<1> QED BY <1>2 DEF GuestInv, Edited, At

-----------------------------------------------------------------------------
(* The edits one by one.                                                   *)
LEMMA PathsDiffer ==
    /\ Keys \notin Directories /\ Unit \notin Directories /\ Resolver \notin Directories
    /\ Keys # Unit /\ Keys # Resolver /\ Unit # Resolver
    /\ \A t \in KeyTypes :
         /\ Private(t) \notin Directories /\ Private(t) \notin {Keys, Unit, Resolver}
         /\ Public(t) \notin Directories /\ Public(t) \notin {Keys, Unit, Resolver}
         /\ \A v \in KeyTypes :
              /\ Private(t) # Public(v)
              /\ Private(t) = Private(v) => t = v
              /\ Public(t) = Public(v) => t = v
<1>1. /\ Keys \notin Directories /\ Unit \notin Directories /\ Resolver \notin Directories
      /\ Keys # Unit /\ Keys # Resolver /\ Unit # Resolver
  BY DEF Keys, Unit, Resolver, Directories
<1> QED BY <1>1, KeyTypesAssumption DEF Keys, Unit, Resolver

(* ... in particular one that is done.                                     *)
LEMMA DoneKeeps ==
    ASSUME DiskInv, GuestInv, At("edit"), job.todo # << >>, Done, archive' = archive,
           NEW n, DOMAIN n = NodeFields,
           \A p \in Paths : guest'[p] = IF Now.path = p THEN n ELSE guest[p],
           Harmless(guest, Now, Tail(job.todo), n)
    PROVE  GuestInv'
<1>1. /\ job.todo \in Seq(Steps) /\ Now = job.todo[1] /\ Now.path \in Paths
      /\ DOMAIN job = JobFields
  BY EditBegins
<1>2. job'.todo = Tail(job.todo) /\ job'.pc = "edit" /\ job'.kind = job.kind
  BY <1>1 DEF Done, JobFields, At
<1>3. Changes(guest, guest', job.todo, job'.todo, -1, n)
  BY <1>1, <1>2, DoneFollows DEF Changes
<1>4. \A i \in 1..(-1 + 1) :
        /\ Fits(job.kind, job'.todo[i])
        /\ i > 1 => job'.todo[i].op # "write"
        /\ job'.todo[i].path = Keys => Now.path = Keys /\ Now.op # "chmod"
  OBVIOUS
<1>5. Harmless(guest, Now, job'.todo, n)
  BY <1>2
<1> QED BY <1>2, <1>3, <1>4, <1>5, EditKeeps

(* A node has its fields.                                                  *)
LEMMA NodeDomain == \A kind, mode, data : DOMAIN Node(kind, mode, data) = NodeFields
  BY DEF Node, NodeFields

(* A directory that is made keeps every goal but its own, which it meets.  *)
LEMMA EnsureDirectoryPrepares ==
    ASSUME DiskInv, GuestInv, EnsureDirectory
    PROVE  GuestInv'
<1>1. /\ At("edit") /\ job.todo # << >> /\ Now.op = "directory"
      /\ UNCHANGED <<disk, used, db, archive, running, spent>>
  BY DEF EnsureDirectory, Doing
<1>2. /\ job.todo \in Seq(Steps) /\ Now = job.todo[1] /\ Now.path \in Paths
      /\ Fits(job.kind, Now) /\ DOMAIN Here = NodeFields
      /\ DOMAIN guest = Paths /\ DOMAIN job = JobFields
  BY <1>1, EditBegins
<1>3. Now.path \in Directories
  BY <1>1, <1>2 DEF Fits
<1>4. /\ Now.path \notin {Keys, Unit, Resolver}
      /\ \A t \in KeyTypes : Now.path # Private(t) /\ Now.path # Public(t)
  BY <1>3, PathsDiffer
<1>5. CASE Here.kind = "absent"
  <2> DEFINE n == Node("directory", "default", << >>)
  <2>1. Done /\ guest' = [guest EXCEPT ![Now.path] = n]
    BY <1>5 DEF EnsureDirectory, MakeDirectory, SetNode
  <2>2. n.kind = "directory" /\ DOMAIN n = NodeFields
    BY NodeDomain DEF Node
  <2> HIDE DEF n
  <2>3. \A p \in Paths : guest'[p] = IF Now.path = p THEN n ELSE guest[p]
    BY <1>2, <2>1
  <2>4. Harmless(guest, Now, Tail(job.todo), n)
    BY <1>1, <1>2, <1>4, <1>5, <2>2 DEF Harmless, PairsHarmless, Here
  <2> QED BY <1>1, <2>1, <2>2, <2>3, <2>4, DoneKeeps
<1>6. CASE Here.kind = "directory"
  <2>1. Done /\ guest' = guest
    BY <1>6 DEF EnsureDirectory
  <2>3. \A p \in Paths : guest'[p] = IF Now.path = p THEN Here ELSE guest[p]
    BY <2>1 DEF Here
  <2>4. Harmless(guest, Now, Tail(job.todo), Here)
    BY <1>1, <1>2, <1>4, <1>6 DEF Harmless, PairsHarmless, Here
  <2> QED BY <1>1, <1>2, <2>1, <2>3, <2>4, DoneKeeps
<1>7. CASE Here.kind # "absent" /\ Here.kind # "directory"
  <2>1. job'.pc = "failed" /\ guest' = guest
    BY <1>2, <1>7 DEF EnsureDirectory, Refuse, Goto, JobFields
  <2> QED BY <1>1, <2>1, RefusedKeeps
<1> QED BY <1>5, <1>6, <1>7

(* A mode is set and the content stays.                                    *)
LEMMA ChmodPrepares ==
    ASSUME DiskInv, GuestInv, Chmod
    PROVE  GuestInv'
<1>1. /\ At("edit") /\ job.todo # << >> /\ Now.op = "chmod"
      /\ UNCHANGED <<disk, used, db, archive, running, spent>>
  BY DEF Chmod, Doing
<1>2. /\ job.todo \in Seq(Steps) /\ Now = job.todo[1] /\ Now.path \in Paths
      /\ Fits(job.kind, Now) /\ DOMAIN Here = NodeFields
      /\ DOMAIN guest = Paths /\ DOMAIN job = JobFields
  BY <1>1, EditBegins
<1>3. Now.path \in {"root/.ssh", Keys, Unit, Resolver} \cup {Public(t) : t \in KeyTypes}
  BY <1>1, <1>2 DEF Fits
<1>4. \A t \in KeyTypes : Now.path # Private(t)
  BY <1>3, PathsDiffer DEF Directories
<1> DEFINE n == [Here EXCEPT !.mode = Mode(Now.path)]
<1>5. Done /\ guest' = [guest EXCEPT ![Now.path] = n]
  BY DEF Chmod, SetNode
<1>6. n.kind = Here.kind /\ n.data = Here.data /\ n.mode = Mode(Now.path) /\ DOMAIN n = NodeFields
  BY <1>2 DEF NodeFields
<1> HIDE DEF n
<1>7. Mode("root/.ssh") = "0700" /\ Mode(Keys) = "0600"
  BY DEF Mode, Keys
<1>8. \A p \in Paths : guest'[p] = IF Now.path = p THEN n ELSE guest[p]
  BY <1>2, <1>5
<1>9. Harmless(guest, Now, Tail(job.todo), n)
  BY <1>1, <1>2, <1>3, <1>4, <1>6, <1>7, PathsDiffer DEF Harmless, PairsHarmless, Here, Directories
<1> QED BY <1>1, <1>5, <1>6, <1>8, <1>9, DoneKeeps

(* The mode of a private key is set and the content stays.                 *)
LEMMA PrivateModePrepares ==
    ASSUME DiskInv, GuestInv, PrivateMode
    PROVE  GuestInv'
<1>1. /\ At("edit") /\ job.todo # << >> /\ Now.op = "private mode"
      /\ UNCHANGED <<disk, used, db, archive, running, spent>>
  BY DEF PrivateMode, Doing
<1>2. /\ job.todo \in Seq(Steps) /\ Now = job.todo[1] /\ Now.path \in Paths
      /\ Fits(job.kind, Now) /\ DOMAIN Here = NodeFields
      /\ DOMAIN guest = Paths /\ DOMAIN job = JobFields
  BY <1>1, EditBegins
<1>3. Now.path \in {Private(t) : t \in KeyTypes}
  BY <1>1, <1>2 DEF Fits
<1>4. /\ Now.path \notin Directories \cup {Keys, Unit, Resolver}
      /\ \A t \in KeyTypes : Now.path # Public(t)
  BY <1>3, PathsDiffer
<1> DEFINE n == [Here EXCEPT !.mode = "0600"]
<1>5. Done /\ guest' = [guest EXCEPT ![Now.path] = n]
  BY DEF PrivateMode, SetNode
<1>6. n.kind = Here.kind /\ n.data = Here.data /\ n.mode = "0600" /\ DOMAIN n = NodeFields
  BY <1>2 DEF NodeFields
<1> HIDE DEF n
<1>8. \A p \in Paths : guest'[p] = IF Now.path = p THEN n ELSE guest[p]
  BY <1>2, <1>5
<1>9. Harmless(guest, Now, Tail(job.todo), n)
  BY <1>1, <1>2, <1>4, <1>6 DEF Harmless, PairsHarmless, Here, Directories
<1> QED BY <1>1, <1>5, <1>6, <1>8, <1>9, DoneKeeps

(* The public half is written, or the private one goes and the call ends.  *)
LEMMA WritePublicKeyPrepares ==
    ASSUME DiskInv, GuestInv, WritePublicKey
    PROVE  GuestInv'
<1>1. /\ At("edit") /\ job.todo # << >> /\ Now.op = "public key"
      /\ UNCHANGED <<disk, used, db, archive, running, spent>>
  BY DEF WritePublicKey, Doing
<1>2. /\ job.todo \in Seq(Steps) /\ Now = job.todo[1] /\ Now.path \in Paths
      /\ Fits(job.kind, Now) /\ DOMAIN Here = NodeFields
      /\ DOMAIN guest = Paths /\ DOMAIN job = JobFields
  BY <1>1, EditBegins
<1>3. Now.path \in {Public(t) : t \in KeyTypes}
  BY <1>1, <1>2 DEF Fits
<1>4. /\ Now.path \notin Directories \cup {Keys, Unit, Resolver}
      /\ \A t \in KeyTypes : Now.path # Private(t)
  BY <1>3, PathsDiffer
<1>5. CASE Here.kind = "absent"
  <2> DEFINE n == Node("regular", "default", <<"generated">>)
  <2>1. Done /\ guest' = [guest EXCEPT ![Now.path] = n]
    BY <1>5 DEF WritePublicKey, Write, SetNode
  <2>2. n.data = <<"generated">> /\ DOMAIN n = NodeFields
    BY NodeDomain DEF Node
  <2> HIDE DEF n
  <2>3. \A p \in Paths : guest'[p] = IF Now.path = p THEN n ELSE guest[p]
    BY <1>2, <2>1
  <2>4. Harmless(guest, Now, Tail(job.todo), n)
    BY <1>1, <1>2, <1>4, <2>2 DEF Harmless, PairsHarmless, Here, Directories
  <2> QED BY <1>1, <2>1, <2>2, <2>3, <2>4, DoneKeeps
<1>6. CASE Here.kind # "absent"
  <2>1. job'.pc = "failed" /\ guest' = [guest EXCEPT ![PrivateOf(Now.path)] = Absent]
    BY <1>2, <1>6 DEF WritePublicKey, Refuse, Goto, SetNode, JobFields
  <2>2. \A p \in Paths : guest'[p] = guest[p] \/ guest'[p] = Absent
    BY <1>2, <2>1
  <2> QED BY <1>1, <2>1, <2>2, RefusedKeeps
<1> QED BY <1>5, <1>6

(* The removed file is written again.                                      *)
LEMMA WriteReplacementPrepares ==
    ASSUME DiskInv, GuestInv, WriteReplacement
    PROVE  GuestInv'
<1>1. /\ At("edit") /\ job.todo # << >> /\ Now.op = "write"
      /\ UNCHANGED <<disk, used, db, archive, running, spent>>
  BY DEF WriteReplacement, Doing
<1>2. /\ job.todo \in Seq(Steps) /\ Now = job.todo[1] /\ Now.path \in Paths
      /\ Fits(job.kind, Now) /\ DOMAIN Here = NodeFields
      /\ DOMAIN guest = Paths /\ DOMAIN job = JobFields
  BY <1>1, EditBegins
<1>3. \/ Now.path = Keys /\ GoodKeys(Now.data)
      \/ Now.path = Unit /\ Now.data = <<"address">>
      \/ Now.path = Resolver /\ Now.data = <<"static">>
  BY <1>1, <1>2 DEF Fits
<1>4. /\ Now.path \notin Directories
      /\ \A t \in KeyTypes : Now.path # Private(t) /\ Now.path # Public(t)
      /\ Keys # Unit /\ Keys # Resolver /\ Unit # Resolver
  BY <1>3, PathsDiffer
<1> DEFINE n == Node("regular", "default", Now.data)
<1>5. Done /\ guest' = [guest EXCEPT ![Now.path] = n]
  BY DEF WriteReplacement, Write, SetNode
<1>6. n.kind = "regular" /\ n.data = Now.data /\ DOMAIN n = NodeFields
  BY NodeDomain DEF Node
<1> HIDE DEF n
<1>8. \A p \in Paths : guest'[p] = IF Now.path = p THEN n ELSE guest[p]
  BY <1>2, <1>5
<1>9. Harmless(guest, Now, Tail(job.todo), n)
  BY <1>1, <1>2, <1>3, <1>4, <1>6 DEF Harmless, PairsHarmless, Here, Directories
<1> QED BY <1>1, <1>5, <1>6, <1>8, <1>9, DoneKeeps

(* Lines the SDK writes.                                                   *)
LEMMA LinesHave == "new key" \in Lines /\ "address" \in Lines /\ "static" \in Lines
  BY DEF Lines

(* Facts about sequences.                                                  *)
LEMMA ContainedInRange ==
    ASSUME NEW X, NEW s \in Seq(X), NEW e
    PROVE  Contains(s, e) <=> e \in Range(s)
<1>1. DOMAIN s = 1..Len(s)
  OBVIOUS
<1> QED BY <1>1 DEF Contains, Range

(* A sequence is one of whatever set its elements are in.                  *)
LEMMA SequenceOfRange ==
    ASSUME NEW X, NEW Y, NEW s \in Seq(X), Range(s) \subseteq Y
    PROVE  s \in Seq(Y)
<1>1. Len(s) \in Nat /\ DOMAIN s = 1..Len(s) /\ s \in [1..Len(s) -> X]
  BY LenProperties
<1>2. \A i \in 1..Len(s) : s[i] \in Y
  BY <1>1 DEF Range
<1>3. s \in [1..Len(s) -> Y]
  BY <1>1, <1>2
<1> QED BY <1>1, <1>3, SeqDef

(* A new element leaves a sequence without repetition one.                 *)
LEMMA AppendedOnce ==
    ASSUME NEW X, NEW s \in Seq(X), NEW e \in X, IsInjective(s), e \notin Range(s)
    PROVE  /\ Append(s, e) \in Seq(X) /\ IsInjective(Append(s, e))
           /\ Range(Append(s, e)) = Range(s) \cup {e}
<1> DEFINE longer == Append(s, e)
<1>1. Len(s) \in Nat /\ DOMAIN s = 1..Len(s)
  BY LenProperties
<1>2. /\ longer \in Seq(X) /\ Len(longer) = Len(s) + 1
      /\ \A i \in 1..Len(s) : longer[i] = s[i]
      /\ longer[Len(s) + 1] = e
  BY AppendProperties
<1> HIDE DEF longer
<1>3. DOMAIN longer = DOMAIN s \cup {Len(s) + 1} /\ Len(s) + 1 \notin DOMAIN s
  BY <1>1, <1>2, LenProperties
<1>4. \A i \in DOMAIN s : s[i] # e /\ longer[i] = s[i]
  BY <1>1, <1>2 DEF Range
<1>5. IsInjective(longer)
  BY <1>2, <1>3, <1>4 DEF IsInjective
<1>6. Range(longer) = Range(s) \cup {e}
  <2>1. ASSUME NEW x \in Range(longer) PROVE x \in Range(s) \cup {e}
    BY <1>2, <1>3, <1>4 DEF Range
  <2>2. ASSUME NEW x \in Range(s) PROVE x \in Range(longer)
    BY <1>3, <1>4 DEF Range
  <2>3. e \in Range(longer)
    BY <1>2, <1>3 DEF Range
  <2> QED BY <2>1, <2>2, <2>3
<1> QED BY <1>2, <1>5, <1>6 DEF longer

(* The keys an image ships.                                                *)
LEMMA ShippedKeys ==
    ASSUME NEW image \in Images
    PROVE  /\ image[Keys].data \in Seq(Lines) /\ IsInjective(image[Keys].data)
           /\ image[Keys].kind = "absent" => image[Keys].data = << >>
<1>1. /\ image[Keys].data \in Seq(STRING) /\ IsInjective(image[Keys].data)
      /\ image[Keys].kind = "absent" => image[Keys].data = << >>
  BY TreeAssumption DEF Keys
<1>2. Range(image[Keys].data) \subseteq Lines
  BY DEF Lines, ShippedLines
<1>3. image[Keys].data \in Seq(Lines)
  BY <1>1, <1>2, SequenceOfRange
<1> QED BY <1>1, <1>3

(* The keys that are written: the shipped ones and the new one, each once. *)
LEMMA ContentsOfKeys ==
    ASSUME DiskInv, GuestInv, Doing("keys"), Here.kind \in {"absent", "regular"}
    PROVE  /\ GoodKeys(Contents(Keys))
           /\ Here.kind = "regular" /\ Contains(Here.data, "new key") => Contents(Keys) = Here.data
<1>1. /\ At("edit") /\ job.todo # << >> /\ Now.op = "keys"
  BY DEF Doing
<1>2. /\ Now = job.todo[1] /\ Fits(job.kind, Now)
      /\ job.kind = "create" => GuestComes(guest, job.todo)
  BY <1>1, EditBegins
<1>3. Now.path = Keys /\ job.kind = "create"
  BY <1>1, <1>2 DEF Fits
<1>4. Here = guest[Keys]
  BY <1>3 DEF Here
<1>5. \/ Here.kind = "regular" /\ GoodKeys(Here.data)
      \/ \E image \in Images : Here.kind = image[Keys].kind /\ Here.data = image[Keys].data
  BY <1>1, <1>2, <1>3, <1>4 DEF GuestComes, KeysCome, Rewritten
<1> DEFINE existing == IF Here.kind = "regular" THEN Here.data ELSE << >>
<1>6. Contents(Keys) = IF Contains(existing, "new key") THEN existing ELSE Append(existing, "new key")
  BY DEF Contents, Keys
<1>7. CASE Here.kind = "regular" /\ GoodKeys(Here.data)
  <2>1. "new key" \in Range(existing) /\ existing \in Seq(Lines)
    BY <1>7 DEF GoodKeys
  <2>2. Contains(existing, "new key")
    BY <2>1, ContainedInRange
  <2> QED BY <1>6, <1>7, <2>2
<1>8. CASE \E image \in Images : Here.kind = image[Keys].kind /\ Here.data = image[Keys].data
  <2>1. PICK image \in Images : Here.kind = image[Keys].kind /\ Here.data = image[Keys].data
    BY <1>8
  <2>2. /\ existing = image[Keys].data
        /\ existing \in Seq(Lines) /\ IsInjective(existing)
    BY <2>1, ShippedKeys
  <2>3. PICK new \in Lines : new = "new key"
    BY LinesHave
  <2> HIDE DEF existing
  <2>4. CASE Contains(existing, "new key")
    <3>1. "new key" \in Range(existing)
      BY <2>2, <2>4, ContainedInRange
    <3>2. Range(existing) = Range(image[Keys].data) \cup {"new key"}
      BY <2>2, <3>1
    <3>3. GoodKeys(existing)
      BY <2>2, <3>2 DEF GoodKeys
    <3> QED BY <1>6, <2>4, <3>3 DEF existing
  <2>5. CASE ~Contains(existing, "new key")
    <3> DEFINE longer == Append(existing, "new key")
    <3>1. new \notin Range(existing)
      BY <2>2, <2>3, <2>5, ContainedInRange
    <3>2. /\ Append(existing, new) \in Seq(Lines) /\ IsInjective(Append(existing, new))
          /\ Range(Append(existing, new)) = Range(existing) \cup {new}
      BY <2>2, <3>1, AppendedOnce
    <3>l. longer = Append(existing, new)
      BY <2>3
    <3> HIDE DEF longer
    <3>3. Range(longer) = Range(image[Keys].data) \cup {"new key"}
      BY <2>2, <2>3, <3>2, <3>l
    <3>4. GoodKeys(longer)
      BY <3>2, <3>3, <3>l DEF GoodKeys
    <3>5. Contents(Keys) = longer
      BY <1>6, <2>5 DEF longer
    <3>6. ~(Here.kind = "regular" /\ Contains(Here.data, "new key"))
      BY <2>5 DEF existing
    <3> QED BY <3>4, <3>5, <3>6
  <2> QED BY <2>4, <2>5
<1> QED BY <1>5, <1>7, <1>8

(* A file is written at once, kept, or removed with its writing to come.   *)
LEMMA EditFilePrepares ==
    ASSUME DiskInv, GuestInv, EditFile
    PROVE  GuestInv'
<1>1. /\ At("edit") /\ job.todo # << >> /\ Now.op \in {"keys", "unit", "resolver"}
      /\ UNCHANGED <<disk, used, db, archive, running, spent>>
  BY DEF EditFile, Doing
<1>2. /\ job.todo \in Seq(Steps) /\ Now = job.todo[1] /\ Now.path \in Paths
      /\ Fits(job.kind, Now) /\ DOMAIN Here = NodeFields
      /\ DOMAIN guest = Paths /\ DOMAIN job = JobFields
  BY <1>1, EditBegins
<1>3. \/ Now.op = "keys" /\ Now.path = Keys
      \/ Now.op = "unit" /\ Now.path = Unit
      \/ Now.op = "resolver" /\ Now.path = Resolver
  BY <1>1, <1>2 DEF Fits
<1>4. /\ Now.path \notin Directories /\ "root/.ssh" \in Directories
      /\ \A t \in KeyTypes : Now.path # Private(t) /\ Now.path # Public(t)
      /\ Keys # Unit /\ Keys # Resolver /\ Unit # Resolver
  BY <1>3, PathsDiffer DEF Directories
<1> DEFINE data == Contents(Now.path)
           kept == Now.op = "keys" /\ Here.kind = "regular" /\ Contains(Here.data, "new key")
<1>5. ASSUME Here.kind \in {"absent", "regular"} \/ Now.op # "keys"
      PROVE  /\ Now.path = Keys => GoodKeys(data)
             /\ Now.path = Unit => data = <<"address">>
             /\ Now.path = Resolver => data = <<"static">>
             /\ data \in Seq(Lines)
  <2>1. Now.path = Keys => GoodKeys(data)
    <3> SUFFICES ASSUME Now.path = Keys PROVE GoodKeys(data)
      OBVIOUS
    <3>1. Now.op = "keys" /\ Doing("keys")
      BY <1>1, <1>3, <1>4 DEF Doing
    <3> QED BY <1>5, <3>1, ContentsOfKeys
  <2>2. Now.path = Unit => data = <<"address">>
    BY DEF Contents, Unit
  <2>3. Now.path = Resolver => data = <<"static">>
    BY DEF Contents, Resolver
  <2>4. <<"address">> \in Seq(Lines) /\ <<"static">> \in Seq(Lines)
    <3>1. "address" \in Lines /\ "static" \in Lines
      BY LinesHave
    <3>2. \A x \in Lines : <<x>> \in Seq(Lines)
      OBVIOUS
    <3> QED BY <3>1, <3>2
  <2> QED BY <1>3, <2>1, <2>2, <2>3, <2>4 DEF GoodKeys
<1> HIDE DEF data
<1>6. CASE Here.kind = "absent"
  <2> DEFINE n == Node("regular", "default", data)
  <2>1. Done /\ guest' = [guest EXCEPT ![Now.path] = n]
    BY <1>6 DEF EditFile, Write, SetNode, data
  <2>2. n.kind = "regular" /\ n.data = data /\ DOMAIN n = NodeFields
    BY NodeDomain DEF Node
  <2> HIDE DEF n
  <2>3. \A p \in Paths : guest'[p] = IF Now.path = p THEN n ELSE guest[p]
    BY <1>2, <2>1
  <2>4. Harmless(guest, Now, Tail(job.todo), n)
    BY <1>1, <1>3, <1>4, <1>5, <1>6, <2>2 DEF Harmless, PairsHarmless
  <2> QED BY <1>1, <2>1, <2>2, <2>3, <2>4, DoneKeeps
<1>7. CASE kept
  <2>1. Done /\ guest' = guest
    BY <1>7 DEF EditFile
  <2>2. GoodKeys(Here.data)
    BY <1>1, <1>7, ContentsOfKeys DEF Doing
  <2>3. \A p \in Paths : guest'[p] = IF Now.path = p THEN Here ELSE guest[p]
    BY <2>1 DEF Here
  <2>4. Harmless(guest, Now, Tail(job.todo), Here)
    BY <1>1, <1>3, <1>4, <1>7, <2>2 DEF Harmless, PairsHarmless
  <2> QED BY <1>1, <1>2, <2>1, <2>3, <2>4, DoneKeeps
<1>8. CASE ~kept /\ (Here.kind = "regular" \/ (Here.kind = "symlink" /\ Now.op = "resolver"))
  <2> DEFINE w == [op |-> "write", path |-> Now.path, data |-> data]
             u == <<w>> \o Tail(job.todo)
  <2>1. job' = [job EXCEPT !.todo = u] /\ guest' = [guest EXCEPT ![Now.path] = Absent]
    BY <1>8 DEF EditFile, SetNode, data
  <2>2. /\ Now.path = Keys => GoodKeys(data)
        /\ Now.path = Unit => data = <<"address">>
        /\ Now.path = Resolver => data = <<"static">>
        /\ data \in Seq(Lines)
    BY <1>5, <1>8
  <2>3. w \in Steps /\ w.op = "write" /\ w.path = Now.path /\ w.data = data
    BY <1>2, <2>2 DEF Steps, Ops
  <2> HIDE DEF w
  <2>4. Follows(u, job.todo, 0) /\ u[1] = w
    BY <1>1, <1>2, <2>3, ReplacedFollows
  <2> HIDE DEF u
  <2>5. job'.todo = u /\ job'.pc = "edit" /\ job'.kind = job.kind
    BY <1>1, <1>2, <2>1 DEF JobFields, At
  <2>6. u # << >> /\ Rewritten(u, Now.path)
    <3>1. Len(job.todo) \in Nat \ {0} /\ Len(u) = Len(job.todo) + 0 /\ u \in Seq(Steps)
      BY <1>1, <1>2, <2>4, EmptySeq DEF Follows
    <3>2. u # << >>
      BY <3>1
    <3> QED BY <2>3, <2>4, <3>2 DEF Rewritten
  <2>7. \A p \in Paths : guest'[p] = IF Now.path = p THEN Absent ELSE guest[p]
    BY <1>2, <2>1
  <2>8. Changes(guest, guest', job.todo, job'.todo, 0, Absent)
    BY <1>2, <2>4, <2>5, <2>7 DEF Changes
  <2>9. Fits(job.kind, w)
    BY <1>3, <2>2, <2>3 DEF Fits
  <2>10. \A i \in 1..(0 + 1) :
            /\ Fits(job.kind, job'.todo[i])
            /\ i > 1 => job'.todo[i].op # "write"
            /\ job'.todo[i].path = Keys => Now.path = Keys /\ Now.op # "chmod"
    <3>1. \A i \in 1..(0 + 1) : i = 1
      OBVIOUS
    <3> QED BY <1>1, <2>3, <2>4, <2>5, <2>9, <3>1
  <2>11. Harmless(guest, Now, job'.todo, Absent)
    BY <1>1, <1>3, <1>4, <2>5, <2>6 DEF Harmless, PairsHarmless
  <2>12. DOMAIN Absent = NodeFields
    BY NodeDomain DEF Absent
  <2> QED BY <1>1, <2>5, <2>8, <2>10, <2>11, <2>12, EditKeeps
<1>9. CASE ~(Here.kind = "absent") /\ ~kept
           /\ ~(Here.kind = "regular" \/ (Here.kind = "symlink" /\ Now.op = "resolver"))
  <2>1. job'.pc = "failed" /\ guest' = guest
    BY <1>2, <1>9 DEF EditFile, Refuse, Goto, JobFields
  <2> QED BY <1>1, <2>1, RefusedKeeps
<1> QED BY <1>6, <1>7, <1>8, <1>9

(* A private key is made with the rest of the pair to come, or kept.       *)
LEMMA GenerateHostKeyPrepares ==
    ASSUME DiskInv, GuestInv, GenerateHostKey
    PROVE  GuestInv'
<1>1. /\ At("edit") /\ job.todo # << >> /\ Now.op = "host key"
      /\ UNCHANGED <<disk, used, db, archive, running, spent>>
  BY DEF GenerateHostKey, Doing
<1>2. /\ job.todo \in Seq(Steps) /\ Now = job.todo[1] /\ Now.path \in Paths
      /\ Fits(job.kind, Now) /\ DOMAIN Here = NodeFields
      /\ DOMAIN guest = Paths /\ DOMAIN job = JobFields
  BY <1>1, EditBegins
<1>3. PICK t \in KeyTypes : Now.path = Private(t)
  BY <1>1, <1>2 DEF Fits
<1>4. /\ Now.path \notin Directories \cup {Keys, Unit, Resolver} /\ "root/.ssh" \in Directories
      /\ \A v \in KeyTypes : Now.path # Public(v)
      /\ \A v \in KeyTypes : Now.path = Private(v) => v = t
  BY <1>3, PathsDiffer DEF Directories
<1>5. CASE Here.kind = "absent"
  <2> DEFINE n == Node("regular", "default", <<"generated">>)
             a == Step("public key", Public(t))
             b == Step("private mode", Private(t))
             c == Step("chmod", Public(t))
             v == <<a, b, c>>
             u == v \o Tail(job.todo)
  <2>1. job' = [job EXCEPT !.todo = u] /\ guest' = [guest EXCEPT ![Now.path] = n]
    BY <1>3, <1>5 DEF GenerateHostKey, Write, SetNode, Public
  <2>2. n.kind = "regular" /\ DOMAIN n = NodeFields
    BY NodeDomain DEF Node
  <2> HIDE DEF n
  <2>3. Public(t) \in Paths /\ Private(t) \in Paths
    BY DEF Paths, HostKeyFiles
  <2>4. /\ a \in Steps /\ a.op = "public key" /\ a.path = Public(t)
        /\ b \in Steps /\ b.op = "private mode" /\ b.path = Private(t)
        /\ c \in Steps /\ c.op = "chmod" /\ c.path = Public(t)
    BY <2>3 DEF Step, Steps, Ops
  <2> HIDE DEF a, b, c
  <2>s. a \in Steps /\ b \in Steps /\ c \in Steps
    BY <2>4
  <2>v. v \in Seq(Steps) /\ Len(v) = 3 /\ v[1] = a /\ v[2] = b /\ v[3] = c
    BY <2>s
  <2> HIDE DEF v
  <2>u. Follows(u, job.todo, 2) /\ \A i \in 1..3 : u[i] = v[i]
    BY <1>1, <1>2, <2>v, ExpandedFollows
  <2> HIDE DEF u
  <2>5. Follows(u, job.todo, 2) /\ u[1] = a /\ u[2] = b /\ u[3] = c
    BY <2>v, <2>u
  <2>6. job'.todo = u /\ job'.pc = "edit" /\ job'.kind = job.kind
    BY <1>1, <1>2, <2>1 DEF JobFields, At
  <2>7. \A p \in Paths : guest'[p] = IF Now.path = p THEN n ELSE guest[p]
    BY <1>2, <2>1
  <2>8. Changes(guest, guest', job.todo, job'.todo, 2, n)
    BY <1>2, <2>5, <2>6, <2>7 DEF Changes
  <2>9. Fits(job.kind, a) /\ Fits(job.kind, b) /\ Fits(job.kind, c)
    BY <2>4 DEF Fits
  <2>10. Public(t) # Keys /\ Private(t) # Keys
    BY PathsDiffer
  <2>11. \A i \in 1..(2 + 1) :
            /\ Fits(job.kind, job'.todo[i])
            /\ i > 1 => job'.todo[i].op # "write"
            /\ job'.todo[i].path = Keys => Now.path = Keys /\ Now.op # "chmod"
    <3>1. \A i \in 1..(2 + 1) : i \in {1, 2, 3}
      OBVIOUS
    <3> QED BY <2>4, <2>5, <2>6, <2>9, <2>10, <3>1
  <2>12. Ahead(u, "public key", Public(t)) /\ Ahead(u, "private mode", Private(t))
    <3>1. Len(job.todo) \in Nat \ {0} /\ Len(u) = Len(job.todo) + 2
      BY <1>1, <1>2, <2>5, EmptySeq DEF Follows
    <3>2. 1 \in 1..Len(u) /\ 2 \in 1..Len(u)
      BY <3>1
    <3> QED BY <2>4, <2>5, <3>2 DEF Ahead
  <2>13. PairsHarmless(guest, Now, job'.todo, n)
    BY <1>1, <1>4, <2>2, <2>6, <2>12 DEF PairsHarmless
  <2>14. Harmless(guest, Now, job'.todo, n)
    BY <1>1, <1>4, <2>13 DEF Harmless
  <2> QED BY <1>1, <2>2, <2>6, <2>8, <2>11, <2>14, EditKeeps
<1>6. CASE Here.kind = "regular"
  <2>1. Done /\ guest' = guest
    BY <1>6 DEF GenerateHostKey
  <2>3. \A p \in Paths : guest'[p] = IF Now.path = p THEN Here ELSE guest[p]
    BY <2>1 DEF Here
  <2>4. Harmless(guest, Now, Tail(job.todo), Here)
    BY <1>1, <1>3, <1>4, <1>6 DEF Harmless, PairsHarmless, Here
  <2> QED BY <1>1, <1>2, <2>1, <2>3, <2>4, DoneKeeps
<1>7. CASE Here.kind # "absent" /\ Here.kind # "regular"
  <2>1. job'.pc = "failed" /\ guest' = guest
    BY <1>2, <1>7 DEF GenerateHostKey, Refuse, Goto, JobFields
  <2> QED BY <1>1, <2>1, RefusedKeeps
<1> QED BY <1>5, <1>6, <1>7

(* Every edit keeps the invariant.                                         *)
LEMMA EditStepPrepares ==
    ASSUME DiskInv, GuestInv, EditStep
    PROVE  GuestInv'
<1>1. CASE EnsureDirectory
  BY <1>1, EnsureDirectoryPrepares
<1>2. CASE Chmod
  BY <1>2, ChmodPrepares
<1>3. CASE EditFile
  BY <1>3, EditFilePrepares
<1>4. CASE WriteReplacement
  BY <1>4, WriteReplacementPrepares
<1>5. CASE GenerateHostKey
  BY <1>5, GenerateHostKeyPrepares
<1>6. CASE WritePublicKey
  BY <1>6, WritePublicKeyPrepares
<1>7. CASE PrivateMode
  BY <1>7, PrivateModePrepares
<1> QED BY <1>1, <1>2, <1>3, <1>4, <1>5, <1>6, <1>7 DEF EditStep

-----------------------------------------------------------------------------
(* The list of edits a creation and a restore begin with.                  *)
IsStep(s, op, path) == s.op = op /\ s.path = path

(* A step and its fields.                                                  *)
LEMMA StepIs ==
    ASSUME NEW op \in Ops, NEW path \in Paths
    PROVE  Step(op, path) \in Steps /\ IsStep(Step(op, path), op, path)
  BY DEF Step, Steps, IsStep

(* One step for each directory.                                            *)
LEMMA EnsureAllSteps ==
    ASSUME NEW paths \in Seq(Directories)
    PROVE  /\ EnsureAll(paths) \in Seq(Steps) /\ Len(EnsureAll(paths)) = Len(paths)
           /\ \A i \in 1..Len(paths) : IsStep(EnsureAll(paths)[i], "directory", paths[i])
<1>1. Len(paths) \in Nat /\ DOMAIN paths = 1..Len(paths)
      /\ \A i \in 1..Len(paths) : paths[i] \in Directories
  BY LenProperties
<1>2. \A d \in Directories : Step("directory", d) \in Steps /\ IsStep(Step("directory", d), "directory", d)
  BY StepIs DEF Ops, Paths
<1> DEFINE e == EnsureAll(paths)
<1>3. /\ DOMAIN e = 1..Len(paths)
      /\ e \in [1..Len(paths) -> Steps]
      /\ \A i \in 1..Len(paths) : e[i] = Step("directory", paths[i])
  BY <1>1, <1>2 DEF EnsureAll
<1> HIDE DEF e
<1>4. e \in Seq(Steps) /\ Len(e) = Len(paths)
  BY <1>1, <1>3, SeqDef, LenProperties
<1> QED BY <1>1, <1>2, <1>3, <1>4 DEF e

(* The edits of the network files, one by one.                             *)
LEMMA NetworkList ==
    /\ NetworkSteps \in Seq(Steps) /\ Len(NetworkSteps) = 7
    /\ IsStep(NetworkSteps[1], "directory", "etc")
    /\ IsStep(NetworkSteps[2], "directory", "etc/systemd")
    /\ IsStep(NetworkSteps[3], "directory", "etc/systemd/network")
    /\ IsStep(NetworkSteps[4], "unit", Unit) /\ IsStep(NetworkSteps[5], "chmod", Unit)
    /\ IsStep(NetworkSteps[6], "resolver", Resolver) /\ IsStep(NetworkSteps[7], "chmod", Resolver)
<1> DEFINE paths == <<"etc", "etc/systemd", "etc/systemd/network">>
           a == EnsureAll(paths)
           b == <<Step("unit", Unit), Step("chmod", Unit),
                  Step("resolver", Resolver), Step("chmod", Resolver)>>
<1>1. NetworkSteps = a \o b
  BY DEF NetworkSteps, Unit, Resolver
<1>2. /\ paths \in Seq(Directories) /\ Len(paths) = 3
      /\ paths[1] = "etc" /\ paths[2] = "etc/systemd" /\ paths[3] = "etc/systemd/network"
  BY DEF Directories
<1> HIDE DEF paths
<1>3. /\ a \in Seq(Steps) /\ Len(a) = 3
      /\ IsStep(a[1], "directory", "etc") /\ IsStep(a[2], "directory", "etc/systemd")
      /\ IsStep(a[3], "directory", "etc/systemd/network")
  BY <1>2, EnsureAllSteps
<1>4. /\ Step("unit", Unit) \in Steps /\ IsStep(Step("unit", Unit), "unit", Unit)
      /\ Step("chmod", Unit) \in Steps /\ IsStep(Step("chmod", Unit), "chmod", Unit)
      /\ Step("resolver", Resolver) \in Steps
      /\ IsStep(Step("resolver", Resolver), "resolver", Resolver)
      /\ Step("chmod", Resolver) \in Steps /\ IsStep(Step("chmod", Resolver), "chmod", Resolver)
  BY StepIs DEF Ops, Paths, Unit, Resolver
<1>5. /\ b \in Seq(Steps) /\ Len(b) = 4
      /\ b[1] = Step("unit", Unit) /\ b[2] = Step("chmod", Unit)
      /\ b[3] = Step("resolver", Resolver) /\ b[4] = Step("chmod", Resolver)
  BY <1>4
<1> HIDE DEF a, b
<1>6. /\ a \o b \in Seq(Steps) /\ Len(a \o b) = Len(a) + Len(b)
      /\ \A i \in 1..(Len(a) + Len(b)) : (a \o b)[i] = IF i <= Len(a) THEN a[i] ELSE b[i - Len(a)]
  BY <1>3, <1>5, ConcatProperties
<1>7. /\ Len(a \o b) = 7
      /\ \A i \in 1..3 : (a \o b)[i] = a[i]
      /\ \A i \in 4..7 : (a \o b)[i] = b[i - 3]
  BY <1>3, <1>5, <1>6
<1>8. /\ (a \o b)[1] = a[1] /\ (a \o b)[2] = a[2] /\ (a \o b)[3] = a[3]
      /\ (a \o b)[4] = b[1] /\ (a \o b)[5] = b[2] /\ (a \o b)[6] = b[3] /\ (a \o b)[7] = b[4]
  BY <1>7
<1> QED BY <1>1, <1>3, <1>4, <1>5, <1>6, <1>7, <1>8

(* Every host key type is in the list of them.                             *)
LEMMA KeyTypesListed ==
    /\ Cardinality(KeyTypes) \in Nat
    /\ \A i \in 1..Cardinality(KeyTypes) : SetToSeq(KeyTypes)[i] \in KeyTypes
    /\ \A t \in KeyTypes : \E i \in 1..Cardinality(KeyTypes) : SetToSeq(KeyTypes)[i] = t
<1> DEFINE n == Cardinality(KeyTypes)
           f == SetToSeq(KeyTypes)
<1>1. IsFiniteSet(KeyTypes) /\ n \in Nat /\ ExistsBijection(1..n, KeyTypes)
  BY KeyTypesAssumption, FS_CardinalityType
<1>2. \E g \in [1..n -> KeyTypes] : IsInjective(g)
  BY <1>1 DEF ExistsBijection, Bijection, Injection
<1>3. f \in [1..n -> KeyTypes] /\ IsInjective(f)
  BY <1>2 DEF SetToSeq
<1>4. f \in Injection(1..n, KeyTypes)
  BY <1>3 DEF Injection
<1>5. Cardinality(1..n) = n
  BY <1>1, FS_Interval
<1> HIDE DEF f, n
<1>6. f \in Surjection(1..n, KeyTypes)
  BY <1>1, <1>4, <1>5, FS_Injection DEF n
<1>7. \A t \in KeyTypes : \E i \in 1..n : f[i] = t
  BY <1>6 DEF Surjection
<1> QED BY <1>1, <1>3, <1>7 DEF f, n

(* The edits of the keys, one by one.                                      *)
LEMMA KeyList ==
    LET c == Cardinality(KeyTypes)
    IN  /\ KeySteps \in Seq(Steps) /\ Len(KeySteps) = 7 + c
        /\ IsStep(KeySteps[1], "directory", "root")
        /\ IsStep(KeySteps[2], "directory", "root/.ssh")
        /\ IsStep(KeySteps[3], "chmod", "root/.ssh")
        /\ IsStep(KeySteps[4], "keys", Keys) /\ IsStep(KeySteps[5], "chmod", Keys)
        /\ IsStep(KeySteps[6], "directory", "etc") /\ IsStep(KeySteps[7], "directory", "etc/ssh")
        /\ \A i \in 1..c : IsStep(KeySteps[7 + i], "host key", Private(SetToSeq(KeyTypes)[i]))
<1> DEFINE c == Cardinality(KeyTypes)
           paths == <<"root", "root/.ssh">>
           more == <<"etc", "etc/ssh">>
           p == EnsureAll(paths)
           q == <<Step("chmod", "root/.ssh"), Step("keys", Keys), Step("chmod", Keys)>>
           r == EnsureAll(more)
           h == [i \in 1..c |-> Step("host key", Private(SetToSeq(KeyTypes)[i]))]
<1>1. KeySteps = ((p \o q) \o r) \o h
  BY DEF KeySteps, Keys
<1>2. /\ paths \in Seq(Directories) /\ Len(paths) = 2 /\ paths[1] = "root" /\ paths[2] = "root/.ssh"
      /\ more \in Seq(Directories) /\ Len(more) = 2 /\ more[1] = "etc" /\ more[2] = "etc/ssh"
  BY DEF Directories
<1> HIDE DEF paths, more
<1>3. /\ p \in Seq(Steps) /\ Len(p) = 2
      /\ IsStep(p[1], "directory", "root") /\ IsStep(p[2], "directory", "root/.ssh")
      /\ r \in Seq(Steps) /\ Len(r) = 2
      /\ IsStep(r[1], "directory", "etc") /\ IsStep(r[2], "directory", "etc/ssh")
  BY <1>2, EnsureAllSteps
<1>4. /\ Step("chmod", "root/.ssh") \in Steps
      /\ IsStep(Step("chmod", "root/.ssh"), "chmod", "root/.ssh")
      /\ Step("keys", Keys) \in Steps /\ IsStep(Step("keys", Keys), "keys", Keys)
      /\ Step("chmod", Keys) \in Steps /\ IsStep(Step("chmod", Keys), "chmod", Keys)
  BY StepIs DEF Ops, Paths, Directories, Keys
<1>5. /\ q \in Seq(Steps) /\ Len(q) = 3 /\ q[1] = Step("chmod", "root/.ssh")
      /\ q[2] = Step("keys", Keys) /\ q[3] = Step("chmod", Keys)
  BY <1>4
<1>6. c \in Nat /\ \A i \in 1..c : SetToSeq(KeyTypes)[i] \in KeyTypes
  BY KeyTypesListed
<1>7. \A i \in 1..c : h[i] \in Steps /\ IsStep(h[i], "host key", Private(SetToSeq(KeyTypes)[i]))
  <2> SUFFICES ASSUME NEW i \in 1..c
               PROVE  h[i] \in Steps /\ IsStep(h[i], "host key", Private(SetToSeq(KeyTypes)[i]))
    OBVIOUS
  <2>1. Private(SetToSeq(KeyTypes)[i]) \in Paths
    BY <1>6 DEF Paths, HostKeyFiles
  <2>2. h[i] = Step("host key", Private(SetToSeq(KeyTypes)[i]))
    OBVIOUS
  <2> QED BY <2>1, <2>2, StepIs DEF Ops
<1>8. h \in Seq(Steps) /\ Len(h) = c
  <2>1. DOMAIN h = 1..c /\ h \in [1..c -> Steps]
    BY <1>7
  <2> HIDE DEF h, c
  <2> QED BY <1>6, <2>1, SeqDef, LenProperties
<1> HIDE DEF p, q, r, h, c
<1>9. /\ p \o q \in Seq(Steps) /\ Len(p \o q) = 5
      /\ (p \o q)[1] = p[1] /\ (p \o q)[2] = p[2]
      /\ (p \o q)[3] = q[1] /\ (p \o q)[4] = q[2] /\ (p \o q)[5] = q[3]
  <2>1. /\ p \o q \in Seq(Steps) /\ Len(p \o q) = Len(p) + Len(q)
        /\ \A i \in 1..(Len(p) + Len(q)) : (p \o q)[i] = IF i <= Len(p) THEN p[i] ELSE q[i - Len(p)]
    BY <1>3, <1>5, ConcatProperties
  <2>2. \A i \in 1..5 : (p \o q)[i] = IF i <= 2 THEN p[i] ELSE q[i - 2]
    BY <1>3, <1>5, <2>1
  <2> QED BY <1>3, <1>5, <2>1, <2>2
<1> DEFINE v == p \o q
<1> HIDE DEF v
<1>10. /\ v \o r \in Seq(Steps) /\ Len(v \o r) = 7
       /\ \A i \in 1..5 : (v \o r)[i] = v[i]
       /\ (v \o r)[6] = r[1] /\ (v \o r)[7] = r[2]
  <2>0. v \in Seq(Steps) /\ Len(v) = 5
    BY <1>9 DEF v
  <2>1. /\ v \o r \in Seq(Steps) /\ Len(v \o r) = Len(v) + Len(r)
        /\ \A i \in 1..(Len(v) + Len(r)) : (v \o r)[i] = IF i <= Len(v) THEN v[i] ELSE r[i - Len(v)]
    BY <1>3, <2>0, ConcatProperties
  <2>2. \A i \in 1..7 : (v \o r)[i] = IF i <= 5 THEN v[i] ELSE r[i - 5]
    BY <1>3, <2>0, <2>1
  <2> QED BY <1>3, <2>0, <2>1, <2>2
<1> DEFINE w == v \o r
<1> HIDE DEF w
<1>11. /\ w \o h \in Seq(Steps) /\ Len(w \o h) = 7 + c
       /\ \A i \in 1..7 : (w \o h)[i] = w[i]
       /\ \A i \in 1..c : (w \o h)[7 + i] = h[i]
  <2>0. w \in Seq(Steps) /\ Len(w) = 7
    BY <1>10 DEF w
  <2>1. /\ w \o h \in Seq(Steps) /\ Len(w \o h) = Len(w) + Len(h)
        /\ \A i \in 1..(Len(w) + Len(h)) : (w \o h)[i] = IF i <= Len(w) THEN w[i] ELSE h[i - Len(w)]
    BY <1>8, <2>0, ConcatProperties
  <2>2. \A i \in 1..(7 + c) : (w \o h)[i] = IF i <= 7 THEN w[i] ELSE h[i - 7]
    BY <1>8, <2>0, <2>1
  <2>3. ASSUME NEW i \in 1..c PROVE (w \o h)[7 + i] = h[i]
    BY <1>6, <2>2, 7 + i \in 1..(7 + c), ~(7 + i <= 7), (7 + i) - 7 = i
  <2> QED BY <1>6, <1>8, <2>0, <2>1, <2>2, <2>3
<1>12. KeySteps = w \o h
  BY <1>1 DEF v, w
<1>13. /\ w[1] = p[1] /\ w[2] = p[2] /\ w[3] = q[1] /\ w[4] = q[2] /\ w[5] = q[3]
       /\ w[6] = r[1] /\ w[7] = r[2]
  BY <1>9, <1>10 DEF v, w
<1>14. /\ KeySteps[1] = p[1] /\ KeySteps[2] = p[2] /\ KeySteps[3] = q[1]
       /\ KeySteps[4] = q[2] /\ KeySteps[5] = q[3]
       /\ KeySteps[6] = r[1] /\ KeySteps[7] = r[2]
  <2>1. \A i \in 1..7 : KeySteps[i] = w[i]
    BY <1>11, <1>12
  <2>2. /\ KeySteps[1] = w[1] /\ KeySteps[2] = w[2] /\ KeySteps[3] = w[3] /\ KeySteps[4] = w[4]
        /\ KeySteps[5] = w[5] /\ KeySteps[6] = w[6] /\ KeySteps[7] = w[7]
    BY <2>1
  <2> QED BY <1>13, <2>2
<1>15. \A i \in 1..c : IsStep(KeySteps[7 + i], "host key", Private(SetToSeq(KeyTypes)[i]))
  BY <1>7, <1>11, <1>12
<1> QED BY <1>3, <1>4, <1>5, <1>11, <1>12, <1>14, <1>15 DEF c

(* None of the network edits touches the keys.                             *)
LEMMA NetworkFits ==
    ASSUME NEW kind, NEW i \in 1..7
    PROVE  /\ Fits(kind, NetworkSteps[i]) /\ NetworkSteps[i].op # "write"
           /\ NetworkSteps[i].path \notin {"root/.ssh", Keys}
<1> DEFINE s == NetworkSteps[i]
<1>1. \/ IsStep(s, "directory", "etc") \/ IsStep(s, "directory", "etc/systemd")
      \/ IsStep(s, "directory", "etc/systemd/network") \/ IsStep(s, "unit", Unit)
      \/ IsStep(s, "chmod", Unit) \/ IsStep(s, "resolver", Resolver) \/ IsStep(s, "chmod", Resolver)
  <2>1. i = 1 \/ i = 2 \/ i = 3 \/ i = 4 \/ i = 5 \/ i = 6 \/ i = 7
    OBVIOUS
  <2> QED BY <2>1, NetworkList
<1> HIDE DEF s
<1>2. Fits(kind, s) /\ s.op # "write"
  BY <1>1 DEF IsStep, Fits, Directories
<1>3. s.path \notin {"root/.ssh", Keys}
  BY <1>1 DEF IsStep, Unit, Resolver, Keys
<1> QED BY <1>2, <1>3 DEF s

(* A restore begins with the network files.                                *)
LEMMA RestoreBegins ==
    ASSUME NEW kind, NEW g
    PROVE  Listed(kind, NetworkSteps) /\ NetworkComes(g, NetworkSteps)
<1>1. NetworkSteps \in Seq(Steps) /\ Len(NetworkSteps) = 7
  BY NetworkList
<1>2. Listed(kind, NetworkSteps)
  <2>1. \A i \in 1..Len(NetworkSteps) : Fits(kind, NetworkSteps[i])
    BY <1>1, NetworkFits
  <2>2. \A i \in 2..Len(NetworkSteps) : NetworkSteps[i].op # "write"
    BY <1>1, NetworkFits
  <2> QED BY <1>1, <2>1, <2>2 DEF Listed
<1>3. /\ IsStep(NetworkSteps[4], "unit", Unit) /\ 4 \in 1..Len(NetworkSteps)
      /\ IsStep(NetworkSteps[6], "resolver", Resolver) /\ 6 \in 1..Len(NetworkSteps)
  BY <1>1, NetworkList
<1>4. Ahead(NetworkSteps, "unit", Unit) /\ Ahead(NetworkSteps, "resolver", Resolver)
  BY <1>3 DEF Ahead, IsStep
<1> QED BY <1>2, <1>4 DEF NetworkComes, Own

(* A creation begins with the guest as shipped and all of the edits.       *)
LEMMA CreationBegins ==
    ASSUME NEW image \in Images, NEW s, s = KeySteps \o NetworkSteps
    PROVE  Listed("create", s) /\ NetworkComes(image, s) /\ GuestComes(image, s)
<1> DEFINE c == Cardinality(KeyTypes)
           a == KeySteps
           b == NetworkSteps
<1>1. c \in Nat
  BY KeyTypesListed
<1>2. /\ a \in Seq(Steps) /\ Len(a) = 7 + c
      /\ IsStep(a[1], "directory", "root") /\ IsStep(a[2], "directory", "root/.ssh")
      /\ IsStep(a[3], "chmod", "root/.ssh")
      /\ IsStep(a[4], "keys", Keys) /\ IsStep(a[5], "chmod", Keys)
      /\ IsStep(a[6], "directory", "etc") /\ IsStep(a[7], "directory", "etc/ssh")
      /\ \A i \in 1..c : IsStep(a[7 + i], "host key", Private(SetToSeq(KeyTypes)[i]))
  BY KeyList
<1>3. /\ b \in Seq(Steps) /\ Len(b) = 7
      /\ IsStep(b[2], "directory", "etc/systemd") /\ IsStep(b[3], "directory", "etc/systemd/network")
      /\ IsStep(b[4], "unit", Unit) /\ IsStep(b[6], "resolver", Resolver)
  BY NetworkList
<1>4. \A i \in 1..7 : Fits("create", b[i]) /\ b[i].op # "write" /\ b[i].path \notin {"root/.ssh", Keys}
  BY NetworkFits
<1>5. s = a \o b
  OBVIOUS
<1> HIDE DEF a, b, c
<1>6. /\ s \in Seq(Steps) /\ Len(s) = Len(a) + Len(b)
      /\ \A i \in 1..(Len(a) + Len(b)) : s[i] = IF i <= Len(a) THEN a[i] ELSE b[i - Len(a)]
  <2>1. a \in Seq(Steps) /\ b \in Seq(Steps)
    BY <1>2, <1>3
  <2> QED BY <1>5, <2>1, ConcatProperties
<1>l. Len(a) = 7 + c /\ Len(b) = 7
  BY <1>2, <1>3
<1>7. /\ Len(s) = 14 + c
      /\ \A i \in 1..(7 + c) : s[i] = a[i]
  BY <1>1, <1>l, <1>6
<1>8. ASSUME NEW i \in 1..7 PROVE s[7 + c + i] = b[i] /\ 7 + c + i \in 1..Len(s)
  <2>1. 7 + c + i \in 1..(14 + c) /\ ~(7 + c + i <= 7 + c) /\ (7 + c + i) - (7 + c) = i
    BY <1>1
  <2> QED BY <1>1, <1>l, <1>6, <1>7, <2>1
<1>9. \A i \in 1..7 : s[i] = a[i] /\ i \in 1..Len(s)
  BY <1>1, <1>7
<1>10. ASSUME NEW i \in 8..Len(s)
       PROVE  Fits("create", s[i]) /\ s[i].op # "write" /\ s[i].path \notin {"root/.ssh", Keys}
  <2>1. CASE i <= 7 + c
    <3>1. i - 7 \in 1..c /\ 7 + (i - 7) = i /\ i \in 1..(7 + c)
      BY <1>1, <2>1
    <3> DEFINE t == SetToSeq(KeyTypes)[i - 7]
    <3>2. t \in KeyTypes
      BY <3>1, KeyTypesListed DEF c
    <3>3. IsStep(s[i], "host key", Private(t))
      BY <1>2, <1>7, <3>1
    <3> HIDE DEF t
    <3>4. Private(t) \notin Directories /\ Private(t) # Keys /\ "root/.ssh" \in Directories
      BY <3>2, PathsDiffer DEF Directories
    <3> QED BY <3>2, <3>3, <3>4 DEF IsStep, Fits
  <2>2. CASE ~(i <= 7 + c)
    <3>1. i - (7 + c) \in 1..7 /\ 7 + c + (i - (7 + c)) = i
      BY <1>1, <1>7, <2>2
    <3>2. s[i] = b[i - (7 + c)]
      BY <1>8, <3>1
    <3> QED BY <1>4, <3>1, <3>2
  <2> QED BY <2>1, <2>2
<1>11. /\ IsStep(s[1], "directory", "root") /\ IsStep(s[2], "directory", "root/.ssh")
       /\ IsStep(s[3], "chmod", "root/.ssh")
       /\ IsStep(s[4], "keys", Keys) /\ IsStep(s[5], "chmod", Keys)
       /\ IsStep(s[6], "directory", "etc") /\ IsStep(s[7], "directory", "etc/ssh")
  <2>1. /\ s[1] = a[1] /\ s[2] = a[2] /\ s[3] = a[3] /\ s[4] = a[4] /\ s[5] = a[5]
        /\ s[6] = a[6] /\ s[7] = a[7]
    BY <1>9
  <2> QED BY <1>2, <2>1
<1>12. \A i \in 1..Len(s) : i \in 8..Len(s) \/ i = 1 \/ i = 2 \/ i = 3 \/ i = 4 \/ i = 5 \/ i = 6 \/ i = 7
  BY <1>1, <1>7
<1>13. ASSUME NEW i \in 1..Len(s) PROVE Fits("create", s[i]) /\ s[i].op # "write"
  <2>1. CASE i \in 8..Len(s)
    BY <1>10, <2>1
  <2>2. CASE i \notin 8..Len(s)
    <3>1. \/ IsStep(s[i], "directory", "root") \/ IsStep(s[i], "directory", "root/.ssh")
          \/ IsStep(s[i], "chmod", "root/.ssh") \/ IsStep(s[i], "keys", Keys)
          \/ IsStep(s[i], "chmod", Keys) \/ IsStep(s[i], "directory", "etc")
          \/ IsStep(s[i], "directory", "etc/ssh")
      BY <1>11, <1>12, <2>2
    <3> QED BY <3>1 DEF IsStep, Fits, Directories
  <2> QED BY <2>1, <2>2
<1>14. Listed("create", s)
  <2>1. \A i \in 2..Len(s) : i \in 1..Len(s)
    BY <1>1, <1>7
  <2> QED BY <1>6, <1>13, <2>1 DEF Listed
<1>15. /\ IsStep(s[7 + c + 2], "directory", "etc/systemd") /\ 7 + c + 2 \in 1..Len(s)
       /\ IsStep(s[7 + c + 3], "directory", "etc/systemd/network") /\ 7 + c + 3 \in 1..Len(s)
       /\ IsStep(s[7 + c + 4], "unit", Unit) /\ 7 + c + 4 \in 1..Len(s)
       /\ IsStep(s[7 + c + 6], "resolver", Resolver) /\ 7 + c + 6 \in 1..Len(s)
  <2>1. 2 \in 1..7 /\ 3 \in 1..7 /\ 4 \in 1..7 /\ 6 \in 1..7
    OBVIOUS
  <2> QED BY <1>3, <1>8, <2>1
<1>16. NetworkComes(image, s)
  <2>1. Ahead(s, "unit", Unit) /\ Ahead(s, "resolver", Resolver)
    BY <1>15 DEF Ahead, IsStep
  <2> QED BY <2>1 DEF NetworkComes, Own
<1>17. /\ 1 \in 1..Len(s) /\ 2 \in 1..Len(s) /\ 3 \in 1..Len(s) /\ 4 \in 1..Len(s)
       /\ 5 \in 1..Len(s) /\ 6 \in 1..Len(s) /\ 7 \in 1..Len(s)
  BY <1>1, <1>7
<1>18. DirectoriesCome(image, s)
  <2>1. /\ Ahead(s, "directory", "root") /\ Ahead(s, "directory", "root/.ssh")
        /\ Ahead(s, "directory", "etc") /\ Ahead(s, "directory", "etc/ssh")
    BY <1>11, <1>17 DEF Ahead, IsStep
  <2>2. Ahead(s, "directory", "etc/systemd") /\ Ahead(s, "directory", "etc/systemd/network")
    BY <1>15 DEF Ahead, IsStep
  <2> QED BY <2>1, <2>2 DEF DirectoriesCome, Directories
<1>19. HomeModeComes(image, s)
  <2>1. ASSUME NEW j \in 1..Len(s), s[j].path = "root/.ssh", s[j].op # "chmod" PROVE j < 3
    <3>1. j \notin 8..Len(s)
      BY <1>10, <2>1
    <3>2. j = 1 \/ j = 2 \/ j = 3 \/ j = 4 \/ j = 5 \/ j = 6 \/ j = 7
      BY <1>12, <3>1
    <3>3. j = 1 \/ j = 2 \/ j = 4
      BY <1>11, <2>1, <3>2 DEF IsStep, Keys
    <3>4. j # 4
      BY <1>11, <2>1 DEF IsStep, Keys
    <3> QED BY <3>3, <3>4
  <2> QED BY <1>11, <1>17, <2>1 DEF HomeModeComes, ModeAhead, IsStep
<1>20. KeysModeComes(image, s)
  <2>1. ASSUME NEW j \in 1..Len(s), s[j].path = Keys, s[j].op # "chmod" PROVE j < 5
    <3>1. j \notin 8..Len(s)
      BY <1>10, <2>1
    <3>2. j = 1 \/ j = 2 \/ j = 3 \/ j = 4 \/ j = 5 \/ j = 6 \/ j = 7
      BY <1>12, <3>1
    <3>3. j = 1 \/ j = 2 \/ j = 4
      BY <1>11, <2>1, <3>2 DEF IsStep, Keys
    <3> QED BY <3>3
  <2> QED BY <1>11, <1>17, <2>1 DEF KeysModeComes, ModeAhead, IsStep
<1>21. KeysCome(image, s)
  <2>1. Ahead(s, "keys", Keys)
    BY <1>11, <1>17 DEF Ahead, IsStep
  <2> QED BY <2>1 DEF KeysCome
<1>22. HostKeysCome(image, s)
  <2> SUFFICES ASSUME NEW t \in KeyTypes
               PROVE  image[Private(t)].data # <<"generated">> /\ Ahead(s, "host key", Private(t))
    BY DEF HostKeysCome
  <2>1. PICK i \in 1..c : SetToSeq(KeyTypes)[i] = t
    BY KeyTypesListed DEF c
  <2>2. 7 + i \in 1..(7 + c) /\ 7 + i \in 1..Len(s)
    BY <1>1, <1>7
  <2>3. IsStep(s[7 + i], "host key", Private(t))
    BY <1>2, <1>7, <2>1, <2>2
  <2>4. Ahead(s, "host key", Private(t))
    BY <2>2, <2>3 DEF Ahead, IsStep
  <2> QED BY <2>4, TreeAssumption
<1> QED BY <1>14, <1>16, <1>18, <1>19, <1>20, <1>21, <1>22 DEF GuestComes

-----------------------------------------------------------------------------
(* The other steps.                                                        *)
LEMMA FillImagePrepares ==
    ASSUME DiskInv, GuestInv, FillImage
    PROVE  GuestInv'
<1>1. job.kind = "create" /\ guest \in Images
  BY DEF FillImage, GuestInv, Edited
<1>2. /\ job'.pc = "edit" /\ job'.kind = "create" /\ job'.todo = KeySteps \o NetworkSteps
      /\ UNCHANGED <<guest, archive>>
  BY <1>1 DEF FillImage, DiskInv, JobTypes, JobFields
<1>3. Listed("create", job'.todo) /\ NetworkComes(guest, job'.todo) /\ GuestComes(guest, job'.todo)
  BY <1>1, <1>2, CreationBegins
<1>4. Edited'
  BY <1>2, <1>3 DEF Edited, At
<1>5. Nodes'
  BY <1>2 DEF GuestInv, Nodes
<1> QED BY <1>4, <1>5 DEF GuestInv

(* A creation begins with the guest an image ships ...                     *)
LEMMA InvokeCreatePrepares ==
    ASSUME DiskInv, GuestInv, NEW size \in Sizes, NEW image \in Images, InvokeCreate(size, image)
    PROVE  GuestInv'
<1>1. /\ job'.pc = "fill" /\ job'.kind = "create" /\ guest' = image /\ archive' = archive
  BY DEF InvokeCreate, Call, IdleJob
<1>2. \A p \in Paths : DOMAIN image[p] = NodeFields
  BY TreeAssumption DEF NodeFields
<1>3. Nodes'
  BY <1>1, <1>2 DEF GuestInv, Nodes
<1>4. Edited'
  BY <1>1 DEF Edited, At
<1> QED BY <1>3, <1>4 DEF GuestInv

(* ... and a restore with the guest of the snapshot.                       *)
LEMMA InvokeRestorePrepares ==
    ASSUME DiskInv, GuestInv, InvokeRestore
    PROVE  GuestInv'
<1>1. /\ job'.pc = "edit" /\ job'.kind = "restore" /\ job'.todo = NetworkSteps
      /\ guest' = archive.guest /\ archive' = archive
  BY DEF InvokeRestore, Call, IdleJob
<1>2. Nodes'
  BY <1>1 DEF GuestInv, Nodes
<1>3. Listed(job'.kind, job'.todo) /\ NetworkComes(guest', job'.todo)
  BY <1>1, RestoreBegins
<1>4. Edited'
  BY <1>1, <1>3 DEF Edited, At
<1> QED BY <1>2, <1>4 DEF GuestInv

(* A step that begins or continues no edit.                                *)
LEMMA ElsewherePrepares ==
    ASSUME GuestInv, job'.pc \notin {"fill", "edit"},
           \A p \in Paths : guest'[p] = guest[p] \/ DOMAIN guest'[p] = NodeFields,
           \A p \in Paths : archive'.guest[p] = archive.guest[p] \/ DOMAIN archive'.guest[p] = NodeFields
    PROVE  GuestInv'
<1>1. Nodes'
  BY DEF GuestInv, Nodes
<1> QED BY <1>1 DEF GuestInv, Edited, At

(* Without a disk there is no file.                                        *)
LEMMA EmptyTree == \A p \in Paths : DOMAIN NoTree[p] = NodeFields
  BY NodeDomain DEF NoTree, Absent

(* An update edits nothing.                                                *)
LEMMA UpdateStepPrepares ==
    ASSUME DiskInv, GuestInv, UpdateStep
    PROVE  GuestInv'
<1>1. DOMAIN job = JobFields /\ "pc" \in JobFields
  BY DEF DiskInv, JobTypes, JobFields
<1>2. \A pc : Goto(pc) => job'.pc = pc
  BY <1>1 DEF Goto
<1>3. \A call, goal : Resize(call, goal) => job'.pc = "probe"
  BY <1>1 DEF Resize, JobFields
<1>4. ResizeOk => job'.pc \in {"check", "record", "failed"}
  BY <1>1 DEF ResizeOk
<1>5. \A faulty : ResizeFails(faulty) => job'.pc \in {"probe", "failed"}
  BY <1>1 DEF ResizeFails, JobFields
<1>6. job'.pc \notin {"fill", "edit"} /\ UNCHANGED <<guest, archive>>
  <2>1. CASE BeginUpdate
    BY <1>2, <1>3, <2>1 DEF BeginUpdate
  <2>2. CASE CheckUsed
    <3>1. \/ Goto("record") \/ Resize("resize", job.size)
          \/ job' = [job EXCEPT !.pc = "failed", !.reason = "used"]
      BY <2>2 DEF CheckUsed
    <3>2. UNCHANGED <<guest, archive>>
      BY <2>2 DEF CheckUsed
    <3> QED BY <1>1, <1>2, <1>3, <3>1, <3>2 DEF JobFields
  <2>3. CASE ProbeLength
    BY <1>2, <1>4, <2>3 DEF ProbeLength
  <2>4. CASE Extend \/ Grow \/ Cut
    BY <1>2, <2>4 DEF Extend, Grow, Cut
  <2>5. CASE Shrink
    <3>1. Goto("converge") \/ ResizeFails(FALSE) \/ Goto("cut")
      BY <2>5 DEF Shrink
    <3>2. UNCHANGED <<guest, archive>>
      BY <2>5 DEF Shrink
    <3> QED BY <1>2, <1>5, <3>1, <3>2
  <2>6. CASE Converge
    BY <1>4, <1>5, <2>6 DEF Converge
  <2>7. CASE RecordUpdate
    BY <1>2, <2>7 DEF RecordUpdate
  <2> QED BY <2>1, <2>2, <2>3, <2>4, <2>5, <2>6, <2>7 DEF UpdateStep
<1> QED BY <1>6, ElsewherePrepares

(* A failing command ends the edits.                                       *)
LEMMA CommandFailsPrepares ==
    ASSUME DiskInv, GuestInv, CommandFails
    PROVE  GuestInv'
<1>1. DOMAIN job = JobFields
  BY DEF DiskInv, JobTypes
<1>2. UNCHANGED <<guest, archive>>
  BY DEF CommandFails
<1>3. \/ ResizeFails(TRUE) \/ RecordFails
      \/ job' = [job EXCEPT !.clean = FALSE, !.pc = "failed", !.reason = "host"]
  BY DEF CommandFails
<1>4. job'.pc \in {"probe", "failed"}
  BY <1>1, <1>3 DEF ResizeFails, RecordFails, JobFields
<1> QED BY <1>2, <1>4, ElsewherePrepares

(* Calls that end or are refused, and the end of the process.              *)
LEMMA CallsPrepare ==
    ASSUME DiskInv, GuestInv,
           \/ InvokeDelete \/ Sanitize \/ RecordMachine \/ DiscardVolume \/ Return \/ Crash
           \/ \E size \in Sizes : InvokeUpdate(size)
    PROVE  GuestInv'
<1>1. DOMAIN job = JobFields /\ DOMAIN guest = Paths
  BY DEF DiskInv, JobTypes, Types
<1>2. CASE InvokeDelete \/ DiscardVolume
  <2>1. job'.pc = "idle" /\ guest' = NoTree /\ archive' = archive
    BY <1>2 DEF InvokeDelete, DiscardVolume, Call, Discard, IdleJob
  <2> QED BY <2>1, EmptyTree, ElsewherePrepares
<1>3. CASE Crash
  <2>1. job'.pc = "idle" /\ (guest' = NoTree \/ guest' = guest) /\ archive' = archive
    BY <1>3 DEF Crash, Discard, IdleJob
  <2> QED BY <2>1, EmptyTree, ElsewherePrepares
<1>4. CASE Return \/ RecordMachine
  <2>1. job'.pc \in {"idle", "ok"} /\ guest' = guest /\ archive' = archive
    BY <1>1, <1>4 DEF Return, RecordMachine, Goto, IdleJob, JobFields
  <2> QED BY <2>1, ElsewherePrepares
<1>5. CASE \E size \in Sizes : InvokeUpdate(size)
  <2>1. job'.pc = "begin" /\ guest' = guest /\ archive' = archive
    BY <1>5 DEF InvokeUpdate, Call, IdleJob
  <2> QED BY <2>1, ElsewherePrepares
<1>6. CASE Sanitize
  <2>1. job'.pc = "idle" /\ guest' = guest
    BY <1>6 DEF Sanitize, Call, IdleJob
  <2>2. \/ archive' = archive
        \/ archive'.guest = [guest EXCEPT !["10-taumaru.network"] = Absent]
    BY <1>6 DEF Sanitize
  <2>3. DOMAIN Absent = NodeFields
    BY NodeDomain DEF Absent
  <2>4. \A p \in Paths : archive'.guest[p] = archive.guest[p] \/ DOMAIN archive'.guest[p] = NodeFields
    BY <1>1, <2>2, <2>3 DEF GuestInv, Nodes
  <2> QED BY <2>1, <2>4, ElsewherePrepares
<1> QED BY <1>2, <1>3, <1>4, <1>5, <1>6

(* The guest at work, which no call is meanwhile.                          *)
LEMMA GuestWorks ==
    ASSUME DiskInv, GuestInv,
           \/ Start \/ Stop \/ GuestWrites \/ UNCHANGED vars
           \/ \E e \in GuestEdits : GuestEditsFile(e)
    PROVE  GuestInv'
<1>1. CASE Start \/ Stop \/ GuestWrites \/ UNCHANGED vars
  <2>1. UNCHANGED <<guest, archive, job>>
    BY <1>1 DEF Start, Stop, GuestWrites, vars
  <2> QED BY <2>1 DEF GuestInv, Nodes, Edited, At
<1>2. CASE \E e \in GuestEdits : GuestEditsFile(e)
  <2>1. PICK e \in GuestEdits : GuestEditsFile(e)
    BY <1>2
  <2>2. /\ running /\ guest' = [guest EXCEPT ![e.path] = e.node]
        /\ UNCHANGED <<archive, job>>
    BY <2>1 DEF GuestEditsFile, SetNode
  <2>3. DOMAIN e.node = NodeFields
    BY GuestEditsAssumption DEF NodeFields
  <2>4. job'.pc = "idle" /\ DOMAIN guest = Paths
    BY <2>2 DEF DiskInv, Machine, Types, At
  <2>5. \A p \in Paths : guest'[p] = guest[p] \/ DOMAIN guest'[p] = NodeFields
    BY <2>2, <2>3, <2>4
  <2> QED BY <2>2, <2>4, <2>5, ElsewherePrepares
<1> QED BY <1>1, <1>2

(* No machine yet.                                                         *)
LEMMA InitGuest == ASSUME Init PROVE GuestInv
<1>1. guest = NoTree /\ archive.guest = NoTree /\ job.pc = "idle"
  BY DEF Init, NoArchive, IdleJob
<1> QED BY <1>1, EmptyTree DEF GuestInv, Nodes, Edited, At

(* Every step keeps the invariant.                                         *)
LEMMA NextGuest == ASSUME DiskInv, GuestInv, [Next]_vars PROVE GuestInv'
<1>1. CASE \E size \in Sizes, image \in Images : InvokeCreate(size, image)
  BY <1>1, InvokeCreatePrepares
<1>2. CASE InvokeRestore
  BY <1>2, InvokeRestorePrepares
<1>3. CASE FillImage
  BY <1>3, FillImagePrepares
<1>4. CASE EditStep
  BY <1>4, EditStepPrepares
<1>5. CASE UpdateStep
  BY <1>5, UpdateStepPrepares
<1>6. CASE CommandFails
  BY <1>6, CommandFailsPrepares
<1>7. CASE \/ InvokeDelete \/ Sanitize \/ RecordMachine \/ DiscardVolume \/ Return \/ Crash
           \/ \E size \in Sizes : InvokeUpdate(size)
  BY <1>7, CallsPrepare
<1>8. CASE \/ Start \/ Stop \/ GuestWrites \/ UNCHANGED vars
           \/ \E e \in GuestEdits : GuestEditsFile(e)
  BY <1>8, GuestWorks
<1> QED BY <1>1, <1>2, <1>3, <1>4, <1>5, <1>6, <1>7, <1>8 DEF Next

(* Which therefore holds throughout.                                       *)
LEMMA GuestInvariant == Spec => [](DiskInv /\ GuestInv)
<1>1. Init => DiskInv /\ GuestInv
  BY InitDisk, InitGuest
<1>2. DiskInv /\ GuestInv /\ [Next]_vars => (DiskInv /\ GuestInv)'
  BY NextDisk, NextGuest
<1> QED BY <1>1, <1>2, PTL DEF Spec

(* With nothing left to edit, what was to come is there.                   *)
LEMMA NothingAhead ==
    /\ \A op, path : ~Ahead(<< >>, op, path)
    /\ \A path : ~Rewritten(<< >>, path) /\ ~ModeAhead(<< >>, path)
<1>1. Len(<< >>) = 0 /\ 1..0 = {}
  OBVIOUS
<1> QED BY <1>1 DEF Ahead, Rewritten, ModeAhead

(* A guest with nothing left to edit is prepared.                          *)
LEMMA EditedGuest ==
    ASSUME DiskInv, GuestInv, At("edit"), job.todo = << >>
    PROVE  NetworkIsOwn /\ (job.kind = "create" => PreparedGuest)
<1>1. NetworkComes(guest, << >>) /\ (job.kind = "create" => GuestComes(guest, << >>))
  BY DEF GuestInv, Edited
<1>2. NetworkIsOwn
  BY <1>1, NothingAhead DEF NetworkComes, Own, NetworkIsOwn, Unit, Resolver
<1>3. ASSUME job.kind = "create" PROVE PreparedGuest
  <2>1. /\ DirectoriesCome(guest, << >>) /\ HomeModeComes(guest, << >>) /\ KeysCome(guest, << >>)
        /\ KeysModeComes(guest, << >>) /\ HostKeysCome(guest, << >>)
    BY <1>1, <1>3 DEF GuestComes
  <2>2. \A p \in Directories : guest[p].kind = "directory"
    BY <2>1, NothingAhead DEF DirectoriesCome
  <2>3. guest["root/.ssh"].mode = "0700"
    BY <2>1, NothingAhead DEF HomeModeComes
  <2>4. guest["authorized_keys"].kind = "regular" /\ GoodKeys(guest["authorized_keys"].data)
    BY <2>1, NothingAhead DEF KeysCome, Keys
  <2>5. guest["authorized_keys"].mode = "0600"
    BY <2>1, NothingAhead DEF KeysModeComes, Keys
  <2>6. /\ IsInjective(guest["authorized_keys"].data)
        /\ \E image \in Images :
             Range(guest["authorized_keys"].data)
               = Range(image["authorized_keys"].data) \cup {"new key"}
    BY <2>4 DEF GoodKeys, Keys
  <2>7. \A t \in KeyTypes :
          /\ guest[Private(t)].kind = "regular"
          /\ guest[Private(t)].data = <<"generated">> =>
                 guest[Public(t)].data = <<"generated">> /\ guest[Private(t)].mode = "0600"
    BY <2>1, NothingAhead DEF HostKeysCome
  <2> QED BY <2>2, <2>3, <2>4, <2>5, <2>6, <2>7 DEF PreparedGuest
<1> QED BY <1>2, <1>3

(* Only the row of a creation or restore appears.                          *)
LEMMA RowAppears ==
    ASSUME DiskInv, GuestInv, [Next]_vars, db = 0, db' # 0
    PROVE  At("edit") /\ job.todo = << >>
<1>1. CASE RecordMachine
  BY <1>1 DEF RecordMachine
<1>2. CASE UpdateStep
  <2>1. db' = db \/ RecordUpdate
    BY <1>2 DEF UpdateStep, BeginUpdate, CheckUsed, ProbeLength, Extend, Grow, Shrink, Cut, Converge
  <2>2. RecordUpdate => db # 0
    BY DEF RecordUpdate, DiskInv, Resized, Updating, At
  <2> QED BY <2>1, <2>2
<1>3. CASE EditStep
  BY <1>3 DEF EditStep, EnsureDirectory, Chmod, EditFile, WriteReplacement, GenerateHostKey,
     WritePublicKey, PrivateMode
<1>4. CASE \/ InvokeDelete \/ DiscardVolume \/ Crash
  BY <1>4 DEF InvokeDelete, DiscardVolume, Crash, Discard
<1>5. CASE \/ InvokeRestore \/ Sanitize \/ FillImage \/ Return \/ CommandFails
           \/ Start \/ Stop \/ GuestWrites \/ UNCHANGED vars
  BY <1>5 DEF InvokeRestore, Sanitize, FillImage, Return, CommandFails, Start, Stop, GuestWrites,
     vars
<1>6. CASE \/ \E size \in Sizes, image \in Images : InvokeCreate(size, image)
           \/ \E size \in Sizes : InvokeUpdate(size)
           \/ \E e \in GuestEdits : GuestEditsFile(e)
  BY <1>6 DEF InvokeCreate, InvokeUpdate, GuestEditsFile
<1> QED BY <1>1, <1>2, <1>3, <1>4, <1>5, <1>6 DEF Next

(* RecordedGuestIsPrepared, for every set of images, host key types and    *)
(* guest edits and any number of failing commands and crashes: no machine  *)
(* is recorded before all of its guest's files are as the SDK wants them.  *)
THEOREM GuestsArePrepared == Spec => RecordedGuestIsPrepared
<1>1. DiskInv /\ GuestInv /\ [Next]_vars
        => [db = 0 /\ db' # 0 => NetworkIsOwn /\ (job.kind = "create" => PreparedGuest)]_vars
  BY RowAppears, EditedGuest
<1> QED BY <1>1, GuestInvariant, PTL DEF Spec, RecordedGuestIsPrepared
=============================================================================
