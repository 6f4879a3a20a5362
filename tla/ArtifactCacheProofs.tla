------------------------- MODULE ArtifactCacheProofs -------------------------
(***************************************************************************)
(* What holds of the artifact cache for any number of files, calls,        *)
(* processes and releases.  That only verified bytes are published needs   *)
(* no lock: it holds across processes.  That rows vouch for files needs    *)
(* the target locks, which exclude only calls of one process.              *)
(***************************************************************************)
EXTENDS ArtifactCache, SequenceTheorems, TLAPS

(* The calls, without the cache: what each variable of a call holds, and   *)
(* where the call then is.                                                 *)
CallTypes ==
    /\ registry \in Versions
    /\ target \in [Processes -> [Members -> Clients \cup {None}]]
    /\ pc \in [Clients -> Labels]
    /\ op \in [Clients -> CacheOps \cup {None}]
    /\ job \in [Clients -> Seq(Members)]
    /\ candidates \in [Clients -> SUBSET Members]
    /\ want \in [Clients -> Versions \cup {None}]
    /\ found \in [Clients -> Found]
    /\ part \in [Clients -> Contents]
    /\ cancelled \in [Clients -> BOOLEAN]
    /\ vm \in [Clients -> Vms \cup {None}]

(* A target lock is held exactly by the download that works on the target. *)
Locks ==
    \A q \in Processes, m \in Members, c \in Clients :
         target[q][m] = c <=> ProcessOf[c] = q /\ pc[c] \in Locked /\ Head(job[c]) = m

(* A download or a resolving creation has a member at hand, a download     *)
(* knows what it wants, and only a verified part is published.             *)
Flow ==
    \A c \in Clients :
        /\ pc[c] \in Locked \cup {"lock", "resolve", "verify"} => job[c] # <<>>
        /\ pc[c] \in Locked \cup {"lock"} => want[c] \in Versions
        /\ pc[c] = "publish" => part[c] = want[c]
        /\ pc[c] \in {"resolve", "verify", "claim", "copy", "unclaim", "remove"} => vm[c] \in Vms

Calls == CallTypes /\ Locks /\ Flow

StoreTypes ==
    /\ file \in [Members -> Contents]
    /\ row \in [Members -> Versions \cup {None}]
    /\ vms \in SUBSET Vms
    /\ rootfs \in [Vms -> Contents]

(* What the lock protects, in one process.  From the removal of the row to *)
(* the publication the row stays away; a published or adopted file stays;  *)
(* and what inspect_member and the hash found of the file stays true.      *)
GuardedBy(c) ==
    /\ pc[c] \in {"unlink", "connect", "stream", "publish"} => row[Member(c)] = None
    /\ pc[c] = "persist" => file[Member(c)] = want[c]
    /\ pc[c] \in {"hash", "decide"} /\ found[c].row # None =>
         file[Member(c)] \in {found[c].row, None}
    /\ pc[c] = "decide" /\ found[c].bytes # None => file[Member(c)] = found[c].bytes

Guarded == \A c \in Clients : GuardedBy(c)

OneProcess == \A c, d \in Clients : ProcessOf[c] = ProcessOf[d]

(* A step of c leaves the other calls alone.                               *)
OthersStay(c) ==
    \A d \in Clients \ {c} :
        /\ pc'[d] = pc[d] /\ job'[d] = job[d] /\ want'[d] = want[d]
        /\ found'[d] = found[d]

(* A member is reported only over the bytes its call wants.                *)
Reports ==
    \A c \in Clients :
        ~At(c, "done") /\ pc'[c] = "done" => file'[Member(c)] = want[c]

Vouched == Calls /\ StoreTypes /\ Guarded /\ RecordedIsIntactOrAbsent

-----------------------------------------------------------------------------
(* The rest of a sequence with more than one member.                       *)
LEMMA TailIsLeft ==
    ASSUME NEW S, NEW s \in Seq(S), s # <<>>, Len(s) > 1 PROVE Tail(s) # <<>>
<1>1. Tail(s) \in Seq(S) /\ Len(Tail(s)) = Len(s) - 1
  BY HeadTailProperties
<1>2. Tail(s) = <<>> => Len(Tail(s)) = 0
  BY <1>1, EmptySeq
<1>3. Len(s) \in Nat
  OBVIOUS
<1> QED BY <1>1, <1>2, <1>3

(* Whatever the call was doing, returning leaves it without a lock.        *)
LEMMA ReturnKeeps ==
    ASSUME Calls, NEW c \in Clients, Return(c) PROVE Calls'
<1> USE DEF Calls
<1>1. CallTypes'
  BY CacheProcessAssumption, EmptySeq
  DEF CallTypes, Return, Goto, Labels, Found, NotFound, Contents
<1>2. Locks'
  BY CacheProcessAssumption, NoneAssumption DEF CallTypes, Return, Goto, Locks, Locked
<1>3. Flow'
  BY DEF CallTypes, Return, Goto, Flow, Locked
<1> QED BY <1>1, <1>2, <1>3

(* A download starts without a lock.                                       *)
LEMMA InvokeDownloadKeeps ==
    ASSUME Calls, NEW c \in Clients, InvokeDownload(c) PROVE Calls'
<1> USE DEF Calls
<1>r. PICK r \in Requests[c] : job' = [job EXCEPT ![c] = r]
  BY DEF InvokeDownload
<1>s. r # <<>>
  BY <1>r, RequestAssumption
<1>1. CallTypes'
  BY RequestAssumption DEF CallTypes, InvokeDownload, At, Goto, Labels, CacheOps
<1>2. Locks'
  BY CacheProcessAssumption DEF CallTypes, InvokeDownload, At, Goto, Locks, Locked, Labels
<1>3. Flow'
  BY <1>r, <1>s DEF CallTypes, InvokeDownload, At, Goto, Flow, Locked
<1> QED BY <1>1, <1>2, <1>3

(* The token is no part of what Calls says.                                *)
LEMMA CancelKeeps ==
    ASSUME Calls, NEW c \in Clients, Cancel(c) PROVE Calls'
<1> USE DEF Calls
<1>1. CallTypes'
  BY DEF CallTypes, Cancel, At, Goto, Labels
<1>2. Locks'
  BY CacheProcessAssumption DEF CallTypes, Cancel, At, Goto, Locks, Locked, Labels
<1>3. Flow'
  BY DEF CallTypes, Cancel, At, Goto, Flow, Locked
<1> QED BY <1>1, <1>2, <1>3

(* The lock was free, so it is now held by this call alone.                *)
LEMMA LockTargetKeeps ==
    ASSUME Calls, NEW c \in Clients, LockTarget(c) PROVE Calls'
<1> USE DEF Calls
<1>1. CallTypes'
  BY CacheProcessAssumption
  DEF CallTypes, LockTarget, Member, locals, At, Goto, Labels, Flow, Locked
<1>2. Locks'
  BY CacheProcessAssumption, NoneAssumption
  DEF CallTypes, LockTarget, Member, locals, At, Goto, Locks, Locked, Labels, Flow
<1>3. Flow'
  BY DEF CallTypes, LockTarget, Member, locals, At, Goto, Flow, Locked
<1> QED BY <1>1, <1>2, <1>3

(* A cancelled download returns.                                           *)
LEMMA NoticeCancelKeeps ==
    ASSUME Calls, NEW c \in Clients, NoticeCancel(c) PROVE Calls'
  BY ReturnKeeps DEF NoticeCancel

(* The row is read.                                                        *)
LEMMA InspectMemberKeeps ==
    ASSUME Calls, StoreTypes, NEW c \in Clients, InspectMember(c) PROVE Calls'
<1> USE DEF Calls
<1>0. CASE Return(c)
  BY <1>0, ReturnKeeps
<1>m. /\ row[Member(c)] \in Versions \cup {None}
      /\ [NotFound EXCEPT !.row = row[Member(c)]] \in Found
  BY DEF CallTypes, Flow, Locked, InspectMember, At, Member, StoreTypes, Found, NotFound, Contents
<1>1. ASSUME ~Return(c) PROVE CallTypes'
  BY <1>1, <1>m DEF CallTypes, InspectMember, Goto, Labels
<1>2. ASSUME ~Return(c) PROVE Locks'
  BY <1>2, CacheProcessAssumption DEF CallTypes, InspectMember, At, Goto, Locks, Locked, Labels
<1>3. ASSUME ~Return(c) PROVE Flow'
  BY <1>3 DEF CallTypes, InspectMember, At, Goto, Flow, Locked
<1> QED BY <1>0, <1>1, <1>2, <1>3

(* The file is read.                                                       *)
LEMMA HashMemberKeeps ==
    ASSUME Calls, StoreTypes, NEW c \in Clients, HashMember(c) PROVE Calls'
<1> USE DEF Calls
<1>0. CASE Return(c)
  BY <1>0, ReturnKeeps
<1>m. file[Member(c)] \in Contents
  BY DEF CallTypes, Flow, Locked, HashMember, At, Member, StoreTypes
<1> SUFFICES ASSUME ~Return(c) PROVE Calls'
  BY <1>0
<1>b. PICK b \in Contents : found' = [found EXCEPT ![c].bytes = b]
  BY <1>m DEF HashMember, Contents
<1>f. [found[c] EXCEPT !.bytes = b] \in Found
  BY DEF CallTypes, Found
<1>1. CallTypes'
  <2>1. found' \in [Clients -> Found]
    BY <1>b, <1>f DEF CallTypes
  <2> QED BY <2>1 DEF CallTypes, HashMember, Goto, Labels
<1>2. Locks'
  BY CacheProcessAssumption DEF CallTypes, HashMember, At, Goto, Locks, Locked, Labels
<1>3. Flow'
  BY DEF CallTypes, HashMember, At, Goto, Flow, Locked
<1> QED BY <1>1, <1>2, <1>3

(* The member is to be adopted or replaced.                                *)
LEMMA DecideKeeps ==
    ASSUME Calls, NEW c \in Clients, Decide(c) PROVE Calls'
<1> USE DEF Calls
<1>1. CallTypes'
  BY DEF CallTypes, Decide, Decided, At, Goto, Labels, Found, NotFound, Contents
<1>2. Locks'
  BY CacheProcessAssumption DEF CallTypes, Decide, Decided, At, Goto, Locks, Locked, Labels
<1>3. Flow'
  BY DEF CallTypes, Decide, Decided, At, Goto, Flow, Locked
<1> QED BY <1>1, <1>2, <1>3

(* The member is kept, or not.                                             *)
LEMMA SkipKeeps ==
    ASSUME Calls, NEW c \in Clients, Skip(c) PROVE Calls'
<1> USE DEF Calls
<1>0. CASE Return(c)
  BY <1>0, ReturnKeeps
<1>f. NotFound \in Found
  BY DEF NotFound, Found, Contents
<1>1. ASSUME ~Return(c) PROVE CallTypes'
  BY <1>1, <1>f DEF CallTypes, Skip, Decided, Goto, Labels
<1>2. ASSUME ~Return(c) PROVE Locks'
  BY <1>2, CacheProcessAssumption DEF CallTypes, Skip, Decided, At, Goto, Locks, Locked, Labels
<1>3. ASSUME ~Return(c) PROVE Flow'
  BY <1>3 DEF CallTypes, Skip, Decided, At, Goto, Flow, Locked
<1> QED BY <1>0, <1>1, <1>2, <1>3

(* The row goes first.                                                     *)
LEMMA DropRowKeeps ==
    ASSUME Calls, NEW c \in Clients, DropRow(c) PROVE Calls'
<1> USE DEF Calls
<1>0. CASE Return(c)
  BY <1>0, ReturnKeeps
<1>1. ASSUME ~Return(c) PROVE CallTypes'
  BY <1>1 DEF CallTypes, DropRow, locals, At, Goto, Labels
<1>2. ASSUME ~Return(c) PROVE Locks'
  BY <1>2, CacheProcessAssumption DEF CallTypes, DropRow, locals, At, Goto, Locks, Locked, Labels
<1>3. ASSUME ~Return(c) PROVE Flow'
  BY <1>3 DEF CallTypes, DropRow, locals, At, Goto, Flow, Locked
<1> QED BY <1>0, <1>1, <1>2, <1>3

(* Then the file.                                                          *)
LEMMA UnlinkTargetKeeps ==
    ASSUME Calls, NEW c \in Clients, UnlinkTarget(c) PROVE Calls'
<1> USE DEF Calls
<1>0. CASE Return(c)
  BY <1>0, ReturnKeeps
<1>1. ASSUME ~Return(c) PROVE CallTypes'
  BY <1>1 DEF CallTypes, UnlinkTarget, locals, At, Goto, Labels
<1>2. ASSUME ~Return(c) PROVE Locks'
  BY <1>2, CacheProcessAssumption
  DEF CallTypes, UnlinkTarget, locals, At, Goto, Locks, Locked, Labels
<1>3. ASSUME ~Return(c) PROVE Flow'
  BY <1>3 DEF CallTypes, UnlinkTarget, locals, At, Goto, Flow, Locked
<1> QED BY <1>0, <1>1, <1>2, <1>3

(* The temporary file is there.                                            *)
LEMMA ConnectKeeps ==
    ASSUME Calls, NEW c \in Clients, Connect(c) PROVE Calls'
<1> USE DEF Calls
<1>0. CASE Return(c)
  BY <1>0, ReturnKeeps
<1>1. ASSUME ~Return(c) PROVE CallTypes'
  BY <1>1 DEF CallTypes, Connect, At, Goto, Labels, Contents
<1>2. ASSUME ~Return(c) PROVE Locks'
  BY <1>2, CacheProcessAssumption DEF CallTypes, Connect, At, Goto, Locks, Locked, Labels
<1>3. ASSUME ~Return(c) PROVE Flow'
  BY <1>3 DEF CallTypes, Connect, At, Goto, Flow, Locked
<1> QED BY <1>0, <1>1, <1>2, <1>3

(* Only a body with the digest of the manifest leads to the publication.   *)
LEMMA ReceiveKeeps ==
    ASSUME Calls, NEW c \in Clients, Receive(c) PROVE Calls'
<1> USE DEF Calls
<1>0. CASE Return(c)
  BY <1>0, ReturnKeeps
<1>1. ASSUME ~Return(c) PROVE CallTypes'
  <2>1. registry \in Contents
    BY DEF CallTypes, Contents
  <2> QED BY <1>1, <2>1 DEF CallTypes, Receive, Goto, Labels
<1>2. ASSUME ~Return(c) PROVE Locks'
  BY <1>2, CacheProcessAssumption DEF CallTypes, Receive, At, Goto, Locks, Locked, Labels
<1>3. ASSUME ~Return(c) PROVE Flow'
  BY <1>3 DEF CallTypes, Receive, At, Goto, Flow, Locked
<1> QED BY <1>0, <1>1, <1>2, <1>3

(* The rename.                                                             *)
LEMMA PublishKeeps ==
    ASSUME Calls, NEW c \in Clients, Publish(c) PROVE Calls'
<1> USE DEF Calls
<1>0. CASE Return(c)
  BY <1>0, ReturnKeeps
<1>1. ASSUME ~Return(c) PROVE CallTypes'
  BY <1>1 DEF CallTypes, Publish, At, Goto, Labels, Contents
<1>2. ASSUME ~Return(c) PROVE Locks'
  BY <1>2, CacheProcessAssumption DEF CallTypes, Publish, At, Goto, Locks, Locked, Labels
<1>3. ASSUME ~Return(c) PROVE Flow'
  BY <1>3 DEF CallTypes, Publish, At, Goto, Flow, Locked
<1> QED BY <1>0, <1>1, <1>2, <1>3

(* Both rows are written.                                                  *)
LEMMA PersistMemberKeeps ==
    ASSUME Calls, NEW c \in Clients, PersistMember(c) PROVE Calls'
<1> USE DEF Calls
<1>0. CASE Return(c)
  BY <1>0, ReturnKeeps
<1>1. ASSUME ~Return(c) PROVE CallTypes'
  BY <1>1 DEF CallTypes, PersistMember, locals, At, Goto, Labels
<1>2. ASSUME ~Return(c) PROVE Locks'
  BY <1>2, CacheProcessAssumption
  DEF CallTypes, PersistMember, locals, At, Goto, Locks, Locked, Labels
<1>3. ASSUME ~Return(c) PROVE Flow'
  BY <1>3 DEF CallTypes, PersistMember, locals, At, Goto, Flow, Locked
<1> QED BY <1>0, <1>1, <1>2, <1>3

(* The lock is released and the next member is at hand.                    *)
LEMMA NextMemberKeeps ==
    ASSUME Calls, NEW c \in Clients, NextMember(c) PROVE Calls'
<1> USE DEF Calls
<1>0. CASE Return(c)
  BY <1>0, ReturnKeeps
<1>m. /\ Head(job[c]) \in Members /\ Tail(job[c]) \in Seq(Members)
      /\ Len(job[c]) > 1 => Tail(job[c]) # <<>>
  <2>1. job[c] \in Seq(Members) /\ job[c] # <<>>
    BY DEF CallTypes, Flow, Locked, NextMember, At
  <2> QED BY <2>1, TailIsLeft, HeadTailProperties
<1>e. ASSUME ~Return(c)
      PROVE  /\ pc[c] = "done" /\ Len(job[c]) > 1
             /\ pc' = [pc EXCEPT ![c] = "lock"]
             /\ job' = [job EXCEPT ![c] = Tail(job[c])]
             /\ target' = [target EXCEPT ![ProcessOf[c]][Head(job[c])] = None]
             /\ UNCHANGED <<registry, op, candidates, want, found, part, cancelled, vm>>
  BY <1>e DEF NextMember, Goto, Member, At
<1>1. ASSUME ~Return(c) PROVE CallTypes'
  <2>1. target' \in [Processes -> [Members -> Clients \cup {None}]]
    <3>1. /\ target \in [Processes -> [Members -> Clients \cup {None}]]
          /\ ProcessOf[c] \in Processes
      BY CacheProcessAssumption DEF CallTypes
    <3>2. target' = [target EXCEPT ![ProcessOf[c]][Head(job[c])] = None]
      BY <1>1, <1>e
    <3> QED BY <3>1, <3>2, <1>m
  <2>2. job' \in [Clients -> Seq(Members)]
    BY <1>1, <1>e, <1>m DEF CallTypes
  <2> QED BY <1>1, <1>e, <2>1, <2>2 DEF CallTypes, Labels
<1>2. ASSUME ~Return(c) PROVE Locks'
  <2>1. /\ target \in [Processes -> [Members -> Clients \cup {None}]]
        /\ ProcessOf[c] \in Processes
    BY CacheProcessAssumption DEF CallTypes
  <2>2. /\ target' = [target EXCEPT ![ProcessOf[c]][Head(job[c])] = None]
        /\ \A d \in Clients \ {c} : pc'[d] = pc[d] /\ job'[d] = job[d]
        /\ pc[c] \in Locked /\ pc'[c] \notin Locked
    BY <1>2, <1>e DEF CallTypes, Locked
  <2>3. /\ target'[ProcessOf[c]][Head(job[c])] = None
        /\ \A q \in Processes, m \in Members :
              q # ProcessOf[c] \/ m # Head(job[c]) => target'[q][m] = target[q][m]
    BY <2>1, <2>2, <1>m
  <2>4. target[ProcessOf[c]][Head(job[c])] = c
    BY <2>1, <2>2, <1>m DEF Locks
  <2> QED BY <2>1, <2>2, <2>3, <2>4, <1>m, NoneAssumption DEF Locks
<1>3. ASSUME ~Return(c) PROVE Flow'
  BY <1>3, <1>e, <1>m DEF CallTypes, Flow, Locked
<1> QED BY <1>0, <1>1, <1>2, <1>3

(* A prune holds no lock at any time.                                      *)
LEMMA InvokePruneKeeps ==
    ASSUME Calls, NEW c \in Clients, InvokePrune(c) PROVE Calls'
<1> USE DEF Calls
<1>1. CallTypes'
  BY DEF CallTypes, InvokePrune, At, Goto, Labels, CacheOps
<1>2. Locks'
  BY CacheProcessAssumption DEF CallTypes, InvokePrune, At, Goto, Locks, Locked, Labels
<1>3. Flow'
  BY DEF CallTypes, InvokePrune, At, Goto, Flow, Locked
<1> QED BY <1>1, <1>2, <1>3

(* The two lists of candidates.                                            *)
LEMMA ListPrunableKeeps ==
    ASSUME Calls, NEW c \in Clients, ListPrunable(c) PROVE Calls'
<1> USE DEF Calls
<1>0. CASE Return(c)
  BY <1>0, ReturnKeeps
<1>k. PICK kind \in {"kernel", "image"} :
        \/ Candidates(c, candidates[c] \cup Recorded(kind))
             /\ (Goto(c, "images") \/ Goto(c, "references"))
        \/ Return(c)
  BY DEF ListPrunable
<1>1. ASSUME ~Return(c) PROVE CallTypes'
  <2>1. Recorded(kind) \subseteq Members
    BY PruneOrderAssumption DEF Recorded, Prunable
  <2> QED BY <1>1, <1>k, <2>1 DEF CallTypes, Candidates, Goto, Labels
<1>2. ASSUME ~Return(c) PROVE Locks'
  BY <1>2, CacheProcessAssumption
  DEF CallTypes, ListPrunable, Candidates, Recorded, At, Goto, Locks, Locked, Labels
<1>3. ASSUME ~Return(c) PROVE Flow'
  BY <1>3 DEF CallTypes, ListPrunable, Candidates, Recorded, At, Goto, Flow, Locked
<1> QED BY <1>0, <1>1, <1>2, <1>3

(* Referenced candidates are dropped.                                      *)
LEMMA ListReferencesKeeps ==
    ASSUME Calls, NEW c \in Clients, ListReferences(c) PROVE Calls'
<1> USE DEF Calls
<1>0. CASE Return(c)
  BY <1>0, ReturnKeeps
<1>1. ASSUME ~Return(c) PROVE CallTypes'
  <2>1. UNCHANGED <<registry, target, op, job, want, found, part, cancelled, vm>>
    BY <1>1 DEF ListReferences, Candidates
  <2>2. /\ pc' = [pc EXCEPT ![c] = "prunefile"]
        /\ candidates' = [candidates EXCEPT ![c] = {m \in candidates[c] : ~Referenced(m)}]
    BY <1>1 DEF ListReferences, Candidates, Goto
  <2>3. candidates' \in [Clients -> SUBSET Members]
    BY <2>2 DEF CallTypes
  <2>4. pc' \in [Clients -> Labels]
    BY <2>2 DEF CallTypes, Labels
  <2> QED BY <2>1, <2>3, <2>4 DEF CallTypes
<1>2. ASSUME ~Return(c) PROVE Locks'
  BY <1>2, CacheProcessAssumption
  DEF CallTypes, ListReferences, Candidates, At, Goto, Locks, Locked, Labels
<1>3. ASSUME ~Return(c) PROVE Flow'
  BY <1>3 DEF CallTypes, ListReferences, Candidates, At, Goto, Flow, Locked
<1> QED BY <1>0, <1>1, <1>2, <1>3

(* A candidate loses its file or is passed over.                           *)
LEMMA PruneFileKeeps ==
    ASSUME Calls, NEW c \in Clients, PruneFile(c) PROVE Calls'
<1> USE DEF Calls
<1>0. CASE Return(c)
  BY <1>0, ReturnKeeps
<1>1. ASSUME ~Return(c) PROVE CallTypes'
  <2>1. UNCHANGED <<registry, target, op, job, want, found, part, cancelled, vm>>
    BY <1>1 DEF PruneFile, Advance, Candidates, locals
  <2>2. \/ candidates' = candidates /\ pc' = [pc EXCEPT ![c] = "prunerow"]
        \/ \E m \in Members : /\ candidates' = [candidates EXCEPT ![c] = candidates[c] \ {m}]
                              /\ pc' = [pc EXCEPT ![c] = "prunefile"]
    BY <1>1 DEF PruneFile, Advance, Candidates, locals, Goto
  <2>3. candidates' \in [Clients -> SUBSET Members]
    <3>1. candidates \in [Clients -> SUBSET Members]
      BY DEF CallTypes
    <3>2. ASSUME NEW m \in Members, candidates' = [candidates EXCEPT ![c] = candidates[c] \ {m}]
          PROVE  candidates' \in [Clients -> SUBSET Members]
      <4>1. candidates[c] \ {m} \in SUBSET Members
        BY <3>1
      <4> QED BY <3>1, <3>2, <4>1
    <3> QED BY <2>2, <3>1, <3>2
  <2>4. pc' \in [Clients -> Labels]
    BY <2>2 DEF CallTypes, Labels
  <2> QED BY <2>1, <2>3, <2>4 DEF CallTypes
<1>2. ASSUME ~Return(c) PROVE Locks'
  BY <1>2, CacheProcessAssumption
  DEF CallTypes, PruneFile, Advance, Candidates, locals, At, Goto, Locks, Locked, Labels
<1>3. ASSUME ~Return(c) PROVE Flow'
  BY <1>3 DEF CallTypes, PruneFile, Advance, Candidates, locals, At, Goto, Flow, Locked
<1> QED BY <1>0, <1>1, <1>2, <1>3

(* A candidate loses its row or is passed over.                            *)
LEMMA PruneRowKeeps ==
    ASSUME Calls, NEW c \in Clients, PruneRow(c) PROVE Calls'
<1> USE DEF Calls
<1>1. CallTypes'
  BY DEF CallTypes, PruneRow, Advance, Candidates, At, Goto, Labels
<1>2. Locks'
  BY CacheProcessAssumption
  DEF CallTypes, PruneRow, Advance, Candidates, At, Goto, Locks, Locked, Labels
<1>3. Flow'
  BY DEF CallTypes, PruneRow, Advance, Candidates, At, Goto, Flow, Locked
<1> QED BY <1>1, <1>2, <1>3

(* A creation names a VM and what it needs.                                *)
LEMMA InvokeCreateKeeps ==
    ASSUME Calls, NEW c \in Clients, InvokeCreate(c) PROVE Calls'
<1> USE DEF Calls
<1>1. CallTypes'
  BY NeedsAssumption DEF CallTypes, InvokeCreate, At, Goto, Labels, CacheOps, StoreTypes
<1>2. Locks'
  BY CacheProcessAssumption DEF CallTypes, InvokeCreate, At, Goto, Locks, Locked, Labels
<1>3. Flow'
  BY NeedsAssumption DEF CallTypes, InvokeCreate, At, Goto, Flow, Locked, Needed
<1> QED BY <1>1, <1>2, <1>3

(* A row is read.                                                          *)
LEMMA ResolveMemberKeeps ==
    ASSUME Calls, StoreTypes, NEW c \in Clients, ResolveMember(c) PROVE Calls'
<1> USE DEF Calls
<1>0. CASE Return(c)
  BY <1>0, ReturnKeeps
<1>m. row[Member(c)] \in Versions \cup {None}
  BY DEF CallTypes, Flow, ResolveMember, At, Member, StoreTypes
<1>f. [found[c] EXCEPT !.row = row[Member(c)]] \in Found
  BY <1>m DEF CallTypes, Found
<1>1. ASSUME ~Return(c) PROVE CallTypes'
  <2>1. found' \in [Clients -> Found]
    BY <1>1, <1>f DEF CallTypes, ResolveMember
  <2> QED BY <1>1, <2>1 DEF CallTypes, ResolveMember, Goto, Labels
<1>2. ASSUME ~Return(c) PROVE Locks'
  BY <1>2, CacheProcessAssumption DEF CallTypes, ResolveMember, At, Goto, Locks, Locked, Labels
<1>3. ASSUME ~Return(c) PROVE Flow'
  BY <1>3 DEF CallTypes, ResolveMember, At, Goto, Flow, Locked
<1> QED BY <1>0, <1>1, <1>2, <1>3

(* The next member is at hand, or all are verified.                        *)
LEMMA VerifyMemberKeeps ==
    ASSUME Calls, NEW c \in Clients, VerifyMember(c) PROVE Calls'
<1> USE DEF Calls
<1>0. CASE Return(c)
  BY <1>0, ReturnKeeps
<1>m. /\ Tail(job[c]) \in Seq(Members)
      /\ Len(job[c]) > 1 => Tail(job[c]) # <<>>
  <2>1. job[c] \in Seq(Members) /\ job[c] # <<>>
    BY DEF CallTypes, Flow, VerifyMember, At
  <2> QED BY <2>1, TailIsLeft, HeadTailProperties
<1>f. NotFound \in Found
  BY DEF Found, NotFound, Contents
<1>e. ASSUME ~Return(c)
      PROVE  /\ \/ pc' = [pc EXCEPT ![c] = "resolve"] /\ Len(job[c]) > 1
                \/ pc' = [pc EXCEPT ![c] = "claim"]
             /\ job' = [job EXCEPT ![c] = Tail(job[c])]
             /\ found' = [found EXCEPT ![c] = NotFound]
             /\ UNCHANGED <<registry, target, op, candidates, want, part, cancelled, vm>>
  BY <1>e DEF VerifyMember, Goto
<1>1. ASSUME ~Return(c) PROVE CallTypes'
  BY <1>1, <1>e, <1>f, <1>m DEF CallTypes, Labels
<1>2. ASSUME ~Return(c) PROVE Locks'
  <2>1. pc[c] \notin Locked /\ pc'[c] \notin Locked
    BY <1>2, <1>e DEF CallTypes, VerifyMember, At, Locked
  <2>2. \A d \in Clients \ {c} : pc'[d] = pc[d] /\ job'[d] = job[d]
    BY <1>2, <1>e DEF CallTypes
  <2> QED BY <1>2, <1>e, <2>1, <2>2 DEF Locks
<1>3. ASSUME ~Return(c) PROVE Flow'
  BY <1>3, <1>e, <1>m DEF CallTypes, VerifyMember, At, Flow, Locked
<1> QED BY <1>0, <1>1, <1>2, <1>3

(* The row of the VM.                                                      *)
LEMMA ClaimRowKeeps ==
    ASSUME Calls, NEW c \in Clients, ClaimRow(c) PROVE Calls'
<1> USE DEF Calls
<1>0. CASE Return(c)
  BY <1>0, ReturnKeeps
<1>1. ASSUME ~Return(c) PROVE CallTypes'
  BY <1>1 DEF CallTypes, ClaimRow, locals, At, Goto, Labels
<1>2. ASSUME ~Return(c) PROVE Locks'
  BY <1>2, CacheProcessAssumption DEF CallTypes, ClaimRow, locals, At, Goto, Locks, Locked, Labels
<1>3. ASSUME ~Return(c) PROVE Flow'
  BY <1>3 DEF CallTypes, ClaimRow, locals, At, Goto, Flow, Locked
<1> QED BY <1>0, <1>1, <1>2, <1>3

(* The image is copied.                                                    *)
LEMMA CopyImageKeeps ==
    ASSUME Calls, NEW c \in Clients, CopyImage(c) PROVE Calls'
<1> USE DEF Calls
<1>0. CASE Return(c)
  BY <1>0, ReturnKeeps
<1>1. ASSUME ~Return(c) PROVE CallTypes'
  BY <1>1 DEF CallTypes, CopyImage, locals, At, Goto, Labels
<1>2. ASSUME ~Return(c) PROVE Locks'
  BY <1>2, CacheProcessAssumption
  DEF CallTypes, CopyImage, locals, At, Goto, Locks, Locked, Labels
<1>3. ASSUME ~Return(c) PROVE Flow'
  BY <1>3 DEF CallTypes, CopyImage, locals, At, Goto, Flow, Locked
<1> QED BY <1>0, <1>1, <1>2, <1>3

(* The rollback returns.                                                   *)
LEMMA UnclaimKeeps ==
    ASSUME Calls, NEW c \in Clients, Unclaim(c) PROVE Calls'
  BY ReturnKeeps DEF Unclaim

(* A deletion names a VM.                                                  *)
LEMMA InvokeDeleteKeeps ==
    ASSUME Calls, StoreTypes, NEW c \in Clients, InvokeDelete(c) PROVE Calls'
<1> USE DEF Calls
<1>1. CallTypes'
  BY DEF CallTypes, InvokeDelete, At, Goto, Labels, CacheOps, StoreTypes
<1>2. Locks'
  BY CacheProcessAssumption DEF CallTypes, InvokeDelete, At, Goto, Locks, Locked, Labels
<1>3. Flow'
  BY DEF CallTypes, InvokeDelete, At, Goto, Flow, Locked, StoreTypes
<1> QED BY <1>1, <1>2, <1>3

(* The deletion returns.                                                   *)
LEMMA RemoveVmKeeps ==
    ASSUME Calls, NEW c \in Clients, RemoveVm(c) PROVE Calls'
  BY ReturnKeeps DEF RemoveVm

(* Calls and locks of the process are gone together.                       *)
LEMMA CrashKeeps ==
    ASSUME Calls, NEW q \in Processes, Crash(q) PROVE Calls'
<1> USE DEF Calls
<1>1. CallTypes'
  BY EmptySeq DEF CallTypes, Crash, Labels, Found, NotFound, Contents
<1>2. Locks'
  BY CacheProcessAssumption, NoneAssumption DEF CallTypes, Crash, Locks, Locked
<1>3. Flow'
  BY DEF CallTypes, Crash, Flow, Locked
<1> QED BY <1>1, <1>2, <1>3

(* A new release.                                                          *)
LEMMA RepublishKeeps ==
    ASSUME Calls, Republish PROVE Calls'
<1> USE DEF Calls
<1>1. CallTypes'
  BY ReleasesAssumption DEF CallTypes, Republish, locals, Versions
<1>2. Locks'
  BY DEF Republish, Locks, locals
<1>3. Flow'
  BY DEF Republish, Flow, locals
<1> QED BY <1>1, <1>2, <1>3

(* Nobody is working.                                                      *)
LEMMA DamageKeeps ==
    ASSUME Calls, Damage PROVE Calls'
<1> USE DEF Calls
<1>1. CallTypes'
  BY DEF CallTypes, Damage, locals
<1>2. Locks'
  BY DEF Damage, Locks, locals
<1>3. Flow'
  BY DEF Damage, Flow, locals
<1> QED BY <1>1, <1>2, <1>3

(* In one process no two downloads work on one member.                     *)
LEMMA Exclusive ==
    ASSUME Calls, OneProcess, NEW c \in Clients, NEW d \in Clients, c # d,
           pc[c] \in Locked, pc[d] \in Locked
    PROVE  Member(c) # Member(d)
<1>1. Head(job[c]) \in Members
  BY DEF Calls, CallTypes, Flow
<1>2. target[ProcessOf[c]][Head(job[c])] = c
  BY <1>1, CacheProcessAssumption DEF Calls, Locks
<1>3. ASSUME Head(job[d]) = Head(job[c]) PROVE FALSE
  BY <1>1, <1>2, <1>3, CacheProcessAssumption DEF Calls, Locks, OneProcess
<1> QED BY <1>3 DEF Member

(* Nobody works on a target whose lock is free.                            *)
LEMMA Free ==
    ASSUME Calls, OneProcess, NEW c \in Clients, NEW d \in Clients, NEW m \in Members,
           target[ProcessOf[c]][m] = None, pc[d] \in Locked
    PROVE  Member(d) # m
  BY CacheProcessAssumption, NoneAssumption DEF Calls, Locks, OneProcess, Member

(* A step that changes one target, its own or a free one, disturbs nobody. *)
LEMMA OthersGuarded ==
    ASSUME Calls, Guarded, OneProcess, NEW c \in Clients, OthersStay(c),
           NEW m \in Members,
           (pc[c] \in Locked /\ m = Member(c)) \/ target[ProcessOf[c]][m] = None,
           \A x \in Members \ {m} : file'[x] = file[x] /\ row'[x] = row[x]
    PROVE  \A d \in Clients \ {c} : GuardedBy(d)'
<1> SUFFICES ASSUME NEW d \in Clients \ {c} PROVE GuardedBy(d)'
  OBVIOUS
<1>1. CASE pc[d] \notin Locked
  BY <1>1 DEF GuardedBy, OthersStay, Locked
<1>2. CASE pc[d] \in Locked
  <2>1. Member(d) # m
    BY <1>2, Exclusive, Free
  <2>2. Member(d) \in Members
    BY <1>2 DEF Calls, CallTypes, Flow, Member
  <2> QED BY <2>1, <2>2 DEF GuardedBy, Guarded, OthersStay, Member
<1> QED BY <1>1, <1>2

(* Nor does one that changes none.                                         *)
LEMMA OthersGuardedStill ==
    ASSUME Calls, Guarded, NEW c \in Clients, OthersStay(c), UNCHANGED <<file, row>>
    PROVE  \A d \in Clients \ {c} : GuardedBy(d)'
  BY DEF GuardedBy, Guarded, OthersStay, Member

(* A call that returns guards nothing.                                     *)
LEMMA ReturnLeavesOthers ==
    ASSUME Calls, NEW c \in Clients, Return(c) PROVE OthersStay(c) /\ GuardedBy(c)'
  BY DEF Calls, CallTypes, Return, Goto, OthersStay, GuardedBy

(* A step that leaves files and rows alone.                                *)
LEMMA LocalStep ==
    ASSUME Vouched, NEW c \in Clients, OthersStay(c), UNCHANGED <<file, row>>, GuardedBy(c)',
           pc[c] = "done" \/ pc'[c] # "done" \/ file[Member(c)] = want[c]
    PROVE  Guarded' /\ RecordedIsIntactOrAbsent' /\ Reports
<1>1. Guarded'
  BY OthersGuardedStill DEF Vouched, Guarded
<1>2. RecordedIsIntactOrAbsent'
  BY DEF Vouched, RecordedIsIntactOrAbsent
<1>3. Reports
  BY DEF Reports, OthersStay, At
<1> QED BY <1>1, <1>2, <1>3

(* A step that changes the file or row of one target.                      *)
LEMMA StoreStep ==
    ASSUME Vouched, OneProcess, NEW c \in Clients, OthersStay(c), GuardedBy(c)',
           NEW m \in Members,
           (pc[c] \in Locked /\ m = Member(c)) \/ target[ProcessOf[c]][m] = None,
           \A x \in Members \ {m} : file'[x] = file[x] /\ row'[x] = row[x],
           row'[m] # None => file'[m] \in {row'[m], None},
           pc[c] = "done" \/ pc'[c] # "done" \/ file'[Member(c)] = want[c]
    PROVE  Guarded' /\ RecordedIsIntactOrAbsent' /\ Reports
<1>1. Guarded'
  BY OthersGuarded DEF Vouched, Guarded
<1>2. RecordedIsIntactOrAbsent'
  BY DEF Vouched, RecordedIsIntactOrAbsent
<1>3. Reports
  BY DEF Reports, OthersStay, At
<1> QED BY <1>1, <1>2, <1>3

(* A call that returns.                                                    *)
LEMMA ReturnVouched ==
    ASSUME Vouched, NEW c \in Clients, Return(c), UNCHANGED <<file, row>>
    PROVE  Guarded' /\ RecordedIsIntactOrAbsent' /\ Reports
<1>1. OthersStay(c) /\ GuardedBy(c)'
  BY ReturnLeavesOthers DEF Vouched
<1>2. pc'[c] # "done"
  BY DEF Vouched, Calls, CallTypes, Return, Goto
<1> QED BY <1>1, <1>2, LocalStep

(* Nothing is known of the member yet.                                     *)
LEMMA InvokeDownloadVouched ==
    ASSUME Vouched, NEW c \in Clients, InvokeDownload(c)
    PROVE  Guarded' /\ RecordedIsIntactOrAbsent' /\ Reports
<1>f. UNCHANGED <<file, row>>
  BY DEF InvokeDownload, store
<1>1. OthersStay(c)
  BY DEF Vouched, Calls, CallTypes, InvokeDownload, OthersStay, Goto
<1>2. GuardedBy(c)'
  BY DEF Vouched, Calls, CallTypes, InvokeDownload, GuardedBy, At, Goto
<1>3. pc[c] = "done" \/ pc'[c] # "done"
  BY DEF Vouched, Calls, CallTypes, InvokeDownload, At, Goto
<1> QED BY <1>f, <1>1, <1>2, <1>3, LocalStep

(* The token changes nothing.                                              *)
LEMMA CancelVouched ==
    ASSUME Vouched, NEW c \in Clients, Cancel(c)
    PROVE  Guarded' /\ RecordedIsIntactOrAbsent' /\ Reports
<1>f. UNCHANGED <<file, row>>
  BY DEF Cancel, store
<1>1. OthersStay(c)
  BY DEF Vouched, Calls, CallTypes, Cancel, OthersStay, Goto
<1>2. GuardedBy(c)'
  BY <1>f DEF Vouched, Calls, CallTypes, Cancel, GuardedBy, At, Goto, Guarded, Member
<1>3. pc[c] = "done" \/ pc'[c] # "done"
  BY DEF Vouched, Calls, CallTypes, Cancel, At, Goto
<1> QED BY <1>f, <1>1, <1>2, <1>3, LocalStep

(* Nothing is read under the lock yet.                                     *)
LEMMA LockTargetVouched ==
    ASSUME Vouched, NEW c \in Clients, LockTarget(c)
    PROVE  Guarded' /\ RecordedIsIntactOrAbsent' /\ Reports
<1>f. UNCHANGED <<file, row>>
  BY DEF LockTarget, store
<1>1. OthersStay(c)
  BY DEF Vouched, Calls, CallTypes, LockTarget, OthersStay, Goto, locals
<1>2. GuardedBy(c)'
  BY DEF Vouched, Calls, CallTypes, LockTarget, GuardedBy, At, Goto, locals
<1>3. pc[c] = "done" \/ pc'[c] # "done"
  BY DEF Vouched, Calls, CallTypes, LockTarget, At, Goto, locals
<1> QED BY <1>f, <1>1, <1>2, <1>3, LocalStep

(* A cancelled download returns.                                           *)
LEMMA NoticeCancelVouched ==
    ASSUME Vouched, NEW c \in Clients, NoticeCancel(c)
    PROVE  Guarded' /\ RecordedIsIntactOrAbsent' /\ Reports
  BY ReturnVouched DEF NoticeCancel, store

(* The row read is one the file agrees with.                               *)
LEMMA InspectMemberVouched ==
    ASSUME Vouched, NEW c \in Clients, InspectMember(c)
    PROVE  Guarded' /\ RecordedIsIntactOrAbsent' /\ Reports
<1>f. UNCHANGED <<file, row>>
  BY DEF InspectMember, store
<1>0. CASE Return(c)
  BY <1>f, <1>0, ReturnVouched
<1>1. ASSUME ~Return(c) PROVE OthersStay(c)
  BY <1>1 DEF Vouched, Calls, CallTypes, InspectMember, OthersStay, Goto
<1>2. ASSUME ~Return(c) PROVE GuardedBy(c)'
  BY <1>2, <1>f
  DEF Vouched, Calls, CallTypes, InspectMember, GuardedBy, At, Goto, Member, NotFound,
      RecordedIsIntactOrAbsent, Flow, Locked
<1>3. ASSUME ~Return(c) PROVE pc[c] = "done" \/ pc'[c] # "done"
  BY <1>3 DEF Vouched, Calls, CallTypes, InspectMember, At, Goto
<1> QED BY <1>0, <1>f, <1>1, <1>2, <1>3, LocalStep

(* The hash is that of the file, which the lock keeps.                     *)
LEMMA HashMemberVouched ==
    ASSUME Vouched, NEW c \in Clients, HashMember(c)
    PROVE  Guarded' /\ RecordedIsIntactOrAbsent' /\ Reports
<1>f. UNCHANGED <<file, row>>
  BY DEF HashMember, store
<1>0. CASE Return(c)
  BY <1>f, <1>0, ReturnVouched
<1>1. ASSUME ~Return(c) PROVE OthersStay(c)
  BY <1>1 DEF Vouched, Calls, CallTypes, HashMember, OthersStay, Goto
<1>2. ASSUME ~Return(c) PROVE GuardedBy(c)'
  <2>1. /\ Member(c)' = Member(c) /\ pc[c] = "hash" /\ pc'[c] = "decide"
        /\ found'[c].row = found[c].row
        /\ found'[c].bytes # None => found'[c].bytes = file[Member(c)]
    BY <1>2 DEF Vouched, Calls, CallTypes, HashMember, At, Goto, Member, Found
  <2>2. found[c].row # None => file[Member(c)] \in {found[c].row, None}
    BY <2>1 DEF Vouched, Guarded, GuardedBy
  <2> QED BY <2>1, <2>2, <1>f DEF GuardedBy
<1>3. ASSUME ~Return(c) PROVE pc[c] = "done" \/ pc'[c] # "done"
  BY <1>3 DEF Vouched, Calls, CallTypes, HashMember, At, Goto
<1> QED BY <1>0, <1>f, <1>1, <1>2, <1>3, LocalStep

(* Adopted is what hashed to the digest wanted.                            *)
LEMMA DecideVouched ==
    ASSUME Vouched, NEW c \in Clients, Decide(c)
    PROVE  Guarded' /\ RecordedIsIntactOrAbsent' /\ Reports
<1>f. UNCHANGED <<file, row>>
  BY DEF Decide, store
<1>a. DecideCache(c) = "adopt" => file[Member(c)] = want[c]
  <2>1. want[c] # None
    BY NoneAssumption DEF Vouched, Calls, Flow, Locked, Decide, At
  <2>2. DecideCache(c) = "adopt" => found[c].bytes = want[c]
    BY DEF DecideCache
  <2> QED BY <2>1, <2>2 DEF Vouched, Guarded, GuardedBy, Decide, At
<1>1. OthersStay(c)
  BY DEF Vouched, Calls, CallTypes, Decide, OthersStay, Goto, Decided
<1>2. GuardedBy(c)'
  BY <1>f, <1>a
  DEF Vouched, Calls, CallTypes, Decide, GuardedBy, At, Goto, Decided, Member, NotFound
<1>3. pc[c] = "done" \/ pc'[c] # "done"
  BY DEF Vouched, Calls, CallTypes, Decide, At, Goto, Decided
<1> QED BY <1>f, <1>1, <1>2, <1>3, LocalStep

(* Skipped is a present file under a row that pins what is wanted.         *)
LEMMA SkipVouched ==
    ASSUME Vouched, NEW c \in Clients, Skip(c)
    PROVE  Guarded' /\ RecordedIsIntactOrAbsent' /\ Reports
<1>f. UNCHANGED <<file, row>>
  BY DEF Skip, store
<1>0. CASE Return(c)
  BY <1>f, <1>0, ReturnVouched
<1>1. ASSUME ~Return(c) PROVE OthersStay(c)
  BY <1>1 DEF Vouched, Calls, CallTypes, Skip, OthersStay, Goto, Decided
<1>2. ASSUME ~Return(c) PROVE GuardedBy(c)'
  BY <1>2 DEF Vouched, Calls, CallTypes, Skip, GuardedBy, At, Goto, Decided, Member, NotFound
<1>3. ASSUME ~Return(c) PROVE file[Member(c)] = want[c] \/ pc'[c] # "done"
  BY <1>3, NoneAssumption
  DEF Vouched, Calls, CallTypes, Skip, Decided, At, Goto, DecideCache, Complete, Flow,
      Locked, Guarded, GuardedBy, RightSize, Regular, Member
<1> QED BY <1>0, <1>f, <1>1, <1>2, <1>3, LocalStep

(* The row is still away.                                                  *)
LEMMA ConnectVouched ==
    ASSUME Vouched, NEW c \in Clients, Connect(c)
    PROVE  Guarded' /\ RecordedIsIntactOrAbsent' /\ Reports
<1>f. UNCHANGED <<file, row>>
  BY DEF Connect, store
<1>0. CASE Return(c)
  BY <1>f, <1>0, ReturnVouched
<1>1. ASSUME ~Return(c) PROVE OthersStay(c)
  BY <1>1 DEF Vouched, Calls, CallTypes, Connect, OthersStay, Goto
<1>2. ASSUME ~Return(c) PROVE GuardedBy(c)'
  BY <1>2, <1>f DEF Vouched, Calls, CallTypes, Connect, GuardedBy, At, Goto, Guarded, Member
<1>3. ASSUME ~Return(c) PROVE pc[c] = "done" \/ pc'[c] # "done"
  BY <1>3 DEF Vouched, Calls, CallTypes, Connect, At, Goto
<1> QED BY <1>0, <1>f, <1>1, <1>2, <1>3, LocalStep

(* The row is still away.                                                  *)
LEMMA ReceiveVouched ==
    ASSUME Vouched, NEW c \in Clients, Receive(c)
    PROVE  Guarded' /\ RecordedIsIntactOrAbsent' /\ Reports
<1>f. UNCHANGED <<file, row>>
  BY DEF Receive, store
<1>0. CASE Return(c)
  BY <1>f, <1>0, ReturnVouched
<1>1. ASSUME ~Return(c) PROVE OthersStay(c)
  BY <1>1 DEF Vouched, Calls, CallTypes, Receive, OthersStay, Goto
<1>2. ASSUME ~Return(c) PROVE GuardedBy(c)'
  BY <1>2, <1>f DEF Vouched, Calls, CallTypes, Receive, GuardedBy, At, Goto, Guarded, Member
<1>3. ASSUME ~Return(c) PROVE pc[c] = "done" \/ pc'[c] # "done"
  BY <1>3 DEF Vouched, Calls, CallTypes, Receive, At, Goto
<1> QED BY <1>0, <1>f, <1>1, <1>2, <1>3, LocalStep

(* The member is done with.                                                *)
LEMMA NextMemberVouched ==
    ASSUME Vouched, NEW c \in Clients, NextMember(c)
    PROVE  Guarded' /\ RecordedIsIntactOrAbsent' /\ Reports
<1>f. UNCHANGED <<file, row>>
  BY DEF NextMember, store
<1>0. CASE Return(c)
  BY <1>f, <1>0, ReturnVouched
<1>1. ASSUME ~Return(c) PROVE OthersStay(c)
  BY <1>1 DEF Vouched, Calls, CallTypes, NextMember, OthersStay, Goto
<1>2. ASSUME ~Return(c) PROVE GuardedBy(c)'
  BY <1>2 DEF Vouched, Calls, CallTypes, NextMember, GuardedBy, At, Goto
<1>3. ASSUME ~Return(c) PROVE pc[c] = "done" \/ pc'[c] # "done"
  BY <1>3 DEF Vouched, Calls, CallTypes, NextMember, At, Goto
<1> QED BY <1>0, <1>f, <1>1, <1>2, <1>3, LocalStep

(* Prune begins.                                                           *)
LEMMA InvokePruneVouched ==
    ASSUME Vouched, NEW c \in Clients, InvokePrune(c)
    PROVE  Guarded' /\ RecordedIsIntactOrAbsent' /\ Reports
<1>f. UNCHANGED <<file, row>>
  BY DEF InvokePrune, store
<1>1. OthersStay(c)
  BY DEF Vouched, Calls, CallTypes, InvokePrune, OthersStay, Goto
<1>2. GuardedBy(c)'
  BY DEF Vouched, Calls, CallTypes, InvokePrune, GuardedBy, At, Goto
<1>3. pc[c] = "done" \/ pc'[c] # "done"
  BY DEF Vouched, Calls, CallTypes, InvokePrune, At, Goto
<1> QED BY <1>f, <1>1, <1>2, <1>3, LocalStep

(* Prune reads.                                                            *)
LEMMA ListPrunableVouched ==
    ASSUME Vouched, NEW c \in Clients, ListPrunable(c)
    PROVE  Guarded' /\ RecordedIsIntactOrAbsent' /\ Reports
<1>f. UNCHANGED <<file, row>>
  BY DEF ListPrunable, store
<1>0. CASE Return(c)
  BY <1>f, <1>0, ReturnVouched
<1>1. ASSUME ~Return(c) PROVE OthersStay(c)
  BY <1>1 DEF Vouched, Calls, CallTypes, ListPrunable, OthersStay, Goto, Candidates
<1>2. ASSUME ~Return(c) PROVE GuardedBy(c)'
  BY <1>2 DEF Vouched, Calls, CallTypes, ListPrunable, GuardedBy, At, Goto, Candidates
<1>3. ASSUME ~Return(c) PROVE pc[c] = "done" \/ pc'[c] # "done"
  BY <1>3 DEF Vouched, Calls, CallTypes, ListPrunable, At, Goto, Candidates
<1> QED BY <1>0, <1>f, <1>1, <1>2, <1>3, LocalStep

(* Prune reads.                                                            *)
LEMMA ListReferencesVouched ==
    ASSUME Vouched, NEW c \in Clients, ListReferences(c)
    PROVE  Guarded' /\ RecordedIsIntactOrAbsent' /\ Reports
<1>f. UNCHANGED <<file, row>>
  BY DEF ListReferences, store
<1>0. CASE Return(c)
  BY <1>f, <1>0, ReturnVouched
<1>1. ASSUME ~Return(c) PROVE OthersStay(c)
  BY <1>1 DEF Vouched, Calls, CallTypes, ListReferences, OthersStay, Goto, Candidates
<1>2. ASSUME ~Return(c) PROVE GuardedBy(c)'
  BY <1>2 DEF Vouched, Calls, CallTypes, ListReferences, GuardedBy, At, Goto, Candidates
<1>3. ASSUME ~Return(c) PROVE pc[c] = "done" \/ pc'[c] # "done"
  BY <1>3 DEF Vouched, Calls, CallTypes, ListReferences, At, Goto, Candidates
<1> QED BY <1>0, <1>f, <1>1, <1>2, <1>3, LocalStep

(* A creation begins.                                                      *)
LEMMA InvokeCreateVouched ==
    ASSUME Vouched, NEW c \in Clients, InvokeCreate(c)
    PROVE  Guarded' /\ RecordedIsIntactOrAbsent' /\ Reports
<1>f. UNCHANGED <<file, row>>
  BY DEF InvokeCreate, store
<1>1. OthersStay(c)
  BY DEF Vouched, Calls, CallTypes, InvokeCreate, OthersStay, Goto
<1>2. GuardedBy(c)'
  BY DEF Vouched, Calls, CallTypes, InvokeCreate, GuardedBy, At, Goto
<1>3. pc[c] = "done" \/ pc'[c] # "done"
  BY DEF Vouched, Calls, CallTypes, InvokeCreate, At, Goto
<1> QED BY <1>f, <1>1, <1>2, <1>3, LocalStep

(* A creation reads.                                                       *)
LEMMA ResolveMemberVouched ==
    ASSUME Vouched, NEW c \in Clients, ResolveMember(c)
    PROVE  Guarded' /\ RecordedIsIntactOrAbsent' /\ Reports
<1>f. UNCHANGED <<file, row>>
  BY DEF ResolveMember, store
<1>0. CASE Return(c)
  BY <1>f, <1>0, ReturnVouched
<1>1. ASSUME ~Return(c) PROVE OthersStay(c)
  BY <1>1 DEF Vouched, Calls, CallTypes, ResolveMember, OthersStay, Goto
<1>2. ASSUME ~Return(c) PROVE GuardedBy(c)'
  BY <1>2 DEF Vouched, Calls, CallTypes, ResolveMember, GuardedBy, At, Goto
<1>3. ASSUME ~Return(c) PROVE pc[c] = "done" \/ pc'[c] # "done"
  BY <1>3 DEF Vouched, Calls, CallTypes, ResolveMember, At, Goto
<1> QED BY <1>0, <1>f, <1>1, <1>2, <1>3, LocalStep

(* A creation reads.                                                       *)
LEMMA VerifyMemberVouched ==
    ASSUME Vouched, NEW c \in Clients, VerifyMember(c)
    PROVE  Guarded' /\ RecordedIsIntactOrAbsent' /\ Reports
<1>f. UNCHANGED <<file, row>>
  BY DEF VerifyMember, store
<1>0. CASE Return(c)
  BY <1>f, <1>0, ReturnVouched
<1>1. ASSUME ~Return(c) PROVE OthersStay(c)
  BY <1>1 DEF Vouched, Calls, CallTypes, VerifyMember, OthersStay, Goto
<1>2. ASSUME ~Return(c) PROVE GuardedBy(c)'
  BY <1>2 DEF Vouched, Calls, CallTypes, VerifyMember, GuardedBy, At, Goto
<1>3. ASSUME ~Return(c) PROVE pc[c] = "done" \/ pc'[c] # "done"
  BY <1>3 DEF Vouched, Calls, CallTypes, VerifyMember, At, Goto
<1> QED BY <1>0, <1>f, <1>1, <1>2, <1>3, LocalStep

(* A creation writes its own row.                                          *)
LEMMA ClaimRowVouched ==
    ASSUME Vouched, NEW c \in Clients, ClaimRow(c)
    PROVE  Guarded' /\ RecordedIsIntactOrAbsent' /\ Reports
<1>f. UNCHANGED <<file, row>>
  BY DEF ClaimRow, store
<1>0. CASE Return(c)
  BY <1>f, <1>0, ReturnVouched
<1>1. ASSUME ~Return(c) PROVE OthersStay(c)
  BY <1>1 DEF Vouched, Calls, CallTypes, ClaimRow, OthersStay, Goto, locals
<1>2. ASSUME ~Return(c) PROVE GuardedBy(c)'
  BY <1>2 DEF Vouched, Calls, CallTypes, ClaimRow, GuardedBy, At, Goto, locals
<1>3. ASSUME ~Return(c) PROVE pc[c] = "done" \/ pc'[c] # "done"
  BY <1>3 DEF Vouched, Calls, CallTypes, ClaimRow, At, Goto, locals
<1> QED BY <1>0, <1>f, <1>1, <1>2, <1>3, LocalStep

(* A creation copies.                                                      *)
LEMMA CopyImageVouched ==
    ASSUME Vouched, NEW c \in Clients, CopyImage(c)
    PROVE  Guarded' /\ RecordedIsIntactOrAbsent' /\ Reports
<1>f. UNCHANGED <<file, row>>
  BY DEF CopyImage, store
<1>0. CASE Return(c)
  BY <1>f, <1>0, ReturnVouched
<1>1. ASSUME ~Return(c) PROVE OthersStay(c)
  BY <1>1 DEF Vouched, Calls, CallTypes, CopyImage, OthersStay, Goto, locals
<1>2. ASSUME ~Return(c) PROVE GuardedBy(c)'
  BY <1>2 DEF Vouched, Calls, CallTypes, CopyImage, GuardedBy, At, Goto, locals
<1>3. ASSUME ~Return(c) PROVE pc[c] = "done" \/ pc'[c] # "done"
  BY <1>3 DEF Vouched, Calls, CallTypes, CopyImage, At, Goto, locals
<1> QED BY <1>0, <1>f, <1>1, <1>2, <1>3, LocalStep

(* A creation returns.                                                     *)
LEMMA UnclaimVouched ==
    ASSUME Vouched, NEW c \in Clients, Unclaim(c)
    PROVE  Guarded' /\ RecordedIsIntactOrAbsent' /\ Reports
  BY ReturnVouched DEF Unclaim

(* A deletion returns.                                                     *)
LEMMA RemoveVmVouched ==
    ASSUME Vouched, NEW c \in Clients, RemoveVm(c)
    PROVE  Guarded' /\ RecordedIsIntactOrAbsent' /\ Reports
  BY ReturnVouched DEF RemoveVm

(* A deletion begins.                                                      *)
LEMMA InvokeDeleteVouched ==
    ASSUME Vouched, NEW c \in Clients, InvokeDelete(c)
    PROVE  Guarded' /\ RecordedIsIntactOrAbsent' /\ Reports
<1>f. UNCHANGED <<file, row>>
  BY DEF InvokeDelete, store
<1>1. OthersStay(c)
  BY DEF Vouched, Calls, CallTypes, InvokeDelete, OthersStay, Goto
<1>2. GuardedBy(c)'
  BY DEF Vouched, Calls, CallTypes, InvokeDelete, GuardedBy, At, Goto
<1>3. pc[c] = "done" \/ pc'[c] # "done"
  BY DEF Vouched, Calls, CallTypes, InvokeDelete, At, Goto
<1> QED BY <1>f, <1>1, <1>2, <1>3, LocalStep

(* From here on the row is away.                                           *)
LEMMA DropRowVouched ==
    ASSUME Vouched, OneProcess, NEW c \in Clients, DropRow(c)
    PROVE  Guarded' /\ RecordedIsIntactOrAbsent' /\ Reports
<1>0. CASE Return(c) /\ UNCHANGED <<file, row>>
  BY <1>0, ReturnVouched
<1> SUFFICES ASSUME ~(Return(c) /\ UNCHANGED <<file, row>>)
         PROVE  Guarded' /\ RecordedIsIntactOrAbsent' /\ Reports
  BY <1>0
<1>m. Member(c) \in Members /\ pc[c] \in Locked
  BY DEF Vouched, Calls, CallTypes, Flow, Locked, DropRow, At, Member
<1>e. /\ row' = [row EXCEPT ![Member(c)] = None] /\ file' = file
      /\ pc' = [pc EXCEPT ![c] = "unlink"] /\ UNCHANGED <<job, want, found>>
  BY DEF DropRow, SetRow, Goto, locals
<1>1. OthersStay(c)
  BY <1>e DEF OthersStay, Vouched, Calls, CallTypes
<1>2. GuardedBy(c)'
  BY <1>e, <1>m DEF GuardedBy, Member, Vouched, Calls, CallTypes, StoreTypes
<1>3. \A x \in Members \ {Member(c)} : file'[x] = file[x] /\ row'[x] = row[x]
  BY <1>e DEF Vouched, StoreTypes
<1>4. row'[Member(c)] = None /\ pc'[c] # "done"
  BY <1>e, <1>m DEF Vouched, Calls, CallTypes, StoreTypes
<1> QED BY <1>m, <1>1, <1>2, <1>3, <1>4, StoreStep

(* Without a row any file may go.                                          *)
LEMMA UnlinkTargetVouched ==
    ASSUME Vouched, OneProcess, NEW c \in Clients, UnlinkTarget(c)
    PROVE  Guarded' /\ RecordedIsIntactOrAbsent' /\ Reports
<1>0. CASE Return(c) /\ UNCHANGED <<file, row>>
  BY <1>0, ReturnVouched
<1> SUFFICES ASSUME ~(Return(c) /\ UNCHANGED <<file, row>>)
         PROVE  Guarded' /\ RecordedIsIntactOrAbsent' /\ Reports
  BY <1>0
<1>m. Member(c) \in Members /\ pc[c] \in Locked /\ pc[c] = "unlink"
  BY DEF Vouched, Calls, CallTypes, Flow, Locked, UnlinkTarget, At, Member
<1>e. /\ file' = [file EXCEPT ![Member(c)] = None] /\ row' = row
      /\ pc' = [pc EXCEPT ![c] = "connect"] /\ UNCHANGED <<job, want, found>>
  BY DEF UnlinkTarget, SetFile, Goto, locals
<1>1. OthersStay(c)
  BY <1>e DEF OthersStay, Vouched, Calls, CallTypes
<1>2. GuardedBy(c)'
  BY <1>e, <1>m DEF Guarded, GuardedBy, Member, Vouched, Calls, CallTypes
<1>3. \A x \in Members \ {Member(c)} : file'[x] = file[x] /\ row'[x] = row[x]
  BY <1>e DEF Vouched, StoreTypes
<1>4. file'[Member(c)] = None /\ pc'[c] # "done"
  BY <1>e, <1>m DEF Vouched, Calls, CallTypes, StoreTypes
<1> QED BY <1>m, <1>1, <1>2, <1>3, <1>4, StoreStep

(* Without a row any file may come, and it is what is wanted.              *)
LEMMA PublishVouched ==
    ASSUME Vouched, OneProcess, NEW c \in Clients, Publish(c)
    PROVE  Guarded' /\ RecordedIsIntactOrAbsent' /\ Reports
<1>0. CASE Return(c) /\ UNCHANGED <<file, row>>
  BY <1>0, ReturnVouched
<1> SUFFICES ASSUME ~(Return(c) /\ UNCHANGED <<file, row>>)
         PROVE  Guarded' /\ RecordedIsIntactOrAbsent' /\ Reports
  BY <1>0
<1>m. /\ Member(c) \in Members /\ pc[c] \in Locked
      /\ part[c] = want[c] /\ row[Member(c)] = None
  BY DEF Vouched, Calls, CallTypes, Flow, Locked, Guarded, GuardedBy, Publish, At, Member
<1>e. /\ file' = [file EXCEPT ![Member(c)] = part[c]] /\ row' = row
      /\ pc' = [pc EXCEPT ![c] = "persist"] /\ UNCHANGED <<job, want, found>>
  BY DEF Publish, SetFile, Goto
<1>1. OthersStay(c)
  BY <1>e DEF OthersStay, Vouched, Calls, CallTypes
<1>2. GuardedBy(c)'
  BY <1>e, <1>m DEF GuardedBy, Member, Vouched, Calls, CallTypes, StoreTypes
<1>3. \A x \in Members \ {Member(c)} : file'[x] = file[x] /\ row'[x] = row[x]
  BY <1>e DEF Vouched, StoreTypes
<1>4. row'[Member(c)] = None /\ pc'[c] # "done"
  BY <1>e, <1>m DEF Vouched, Calls, CallTypes, StoreTypes
<1> QED BY <1>m, <1>1, <1>2, <1>3, <1>4, StoreStep

(* The row is written over the file it pins.                               *)
LEMMA PersistMemberVouched ==
    ASSUME Vouched, OneProcess, NEW c \in Clients, PersistMember(c)
    PROVE  Guarded' /\ RecordedIsIntactOrAbsent' /\ Reports
<1>0. CASE Return(c) /\ UNCHANGED <<file, row>>
  BY <1>0, ReturnVouched
<1> SUFFICES ASSUME ~(Return(c) /\ UNCHANGED <<file, row>>)
         PROVE  Guarded' /\ RecordedIsIntactOrAbsent' /\ Reports
  BY <1>0
<1>m. /\ Member(c) \in Members /\ pc[c] \in Locked
      /\ file[Member(c)] = want[c]
  BY DEF Vouched, Calls, CallTypes, Flow, Locked, Guarded, GuardedBy, PersistMember, At, Member
<1>e. /\ row' = [row EXCEPT ![Member(c)] = want[c]] /\ file' = file
      /\ pc' = [pc EXCEPT ![c] = "done"] /\ UNCHANGED <<job, want, found>>
  BY DEF PersistMember, SetRow, Goto, locals
<1>1. OthersStay(c)
  BY <1>e DEF OthersStay, Vouched, Calls, CallTypes
<1>2. GuardedBy(c)'
  BY <1>e, <1>m DEF GuardedBy, Member, Vouched, Calls, CallTypes
<1>3. \A x \in Members \ {Member(c)} : file'[x] = file[x] /\ row'[x] = row[x]
  BY <1>e DEF Vouched, StoreTypes
<1>4. row'[Member(c)] = want[c] /\ file'[Member(c)] = want[c]
  BY <1>e, <1>m DEF Vouched, StoreTypes
<1> QED BY <1>m, <1>1, <1>2, <1>3, <1>4, StoreStep

(* An absent file agrees with every row; a busy target is left alone.      *)
LEMMA PruneFileVouched ==
    ASSUME Vouched, OneProcess, NEW c \in Clients, PruneFile(c)
    PROVE  Guarded' /\ RecordedIsIntactOrAbsent' /\ Reports
<1>0. CASE Return(c) /\ UNCHANGED <<file, row>>
  BY <1>0, ReturnVouched
<1> SUFFICES ASSUME ~(Return(c) /\ UNCHANGED <<file, row>>)
         PROVE  Guarded' /\ RecordedIsIntactOrAbsent' /\ Reports
  BY <1>0
<1>e. PICK m \in Members :
        /\ row' = row
        /\ \/ file' = file /\ pc' = [pc EXCEPT ![c] = "prunefile"]
           \/ /\ target[ProcessOf[c]][m] = None /\ file' = [file EXCEPT ![m] = None]
              /\ pc' = [pc EXCEPT ![c] = "prunerow"]
        /\ UNCHANGED <<job, want, found>>
  BY DEF PruneFile, SetFile, Goto, Advance, Candidates, locals
<1>1. OthersStay(c)
  BY <1>e DEF OthersStay, Vouched, Calls, CallTypes
<1>2. GuardedBy(c)' /\ pc'[c] # "done"
  BY <1>e DEF GuardedBy, Vouched, Calls, CallTypes
<1>3. CASE file' = file
  BY <1>e, <1>1, <1>2, <1>3, LocalStep
<1>4. CASE target[ProcessOf[c]][m] = None /\ file' = [file EXCEPT ![m] = None]
  <2>1. \A x \in Members \ {m} : file'[x] = file[x] /\ row'[x] = row[x]
    BY <1>e, <1>4 DEF Vouched, StoreTypes
  <2>2. file'[m] = None
    BY <1>4 DEF Vouched, StoreTypes
  <2> QED BY <1>1, <1>2, <1>4, <2>1, <2>2, StoreStep
<1> QED BY <1>e, <1>3, <1>4

(* A row that goes agrees with every file, also under a lock.              *)
LEMMA PruneRowVouched ==
    ASSUME Vouched, NEW c \in Clients, PruneRow(c)
    PROVE  Guarded' /\ RecordedIsIntactOrAbsent' /\ Reports
<1>e. PICK m \in Members :
        /\ file' = file
        /\ row' = row \/ row' = [row EXCEPT ![m] = None]
        /\ pc' = [pc EXCEPT ![c] = "prunefile"]
        /\ UNCHANGED <<job, want, found>>
  BY DEF PruneRow, SetRow, Goto, Advance, Candidates
<1>1. OthersStay(c)
  BY <1>e DEF OthersStay, Vouched, Calls, CallTypes
<1>2. GuardedBy(c)' /\ pc'[c] # "done"
  BY <1>e DEF GuardedBy, Vouched, Calls, CallTypes
<1>3. \A x \in Members : row'[x] = row[x] \/ row'[x] = None
  BY <1>e DEF Vouched, StoreTypes
<1>4. ASSUME NEW d \in Clients \ {c} PROVE GuardedBy(d)'
  <2>1. pc[d] \in Locked => Member(d) \in Members
    BY DEF Vouched, Calls, CallTypes, Flow, Member
  <2> QED BY <1>e, <1>1, <1>3, <2>1
        DEF GuardedBy, Vouched, Guarded, OthersStay, Member, Locked
<1>5. RecordedIsIntactOrAbsent'
  BY <1>e, <1>3 DEF Vouched, RecordedIsIntactOrAbsent
<1>6. Reports
  BY <1>1, <1>2 DEF Reports, OthersStay, At
<1> QED BY <1>2, <1>4, <1>5, <1>6 DEF Guarded

(* Files and rows stay as they are.                                        *)
LEMMA CrashVouched ==
    ASSUME Vouched, NEW q \in Processes, Crash(q)
    PROVE  Guarded' /\ RecordedIsIntactOrAbsent' /\ Reports
<1>1. Guarded'
  BY DEF Vouched, Crash, Guarded, GuardedBy, Member, store
<1>2. RecordedIsIntactOrAbsent'
  BY DEF Vouched, Crash, RecordedIsIntactOrAbsent, store
<1>3. Reports
  BY DEF Crash, Reports, At
<1> QED BY <1>1, <1>2, <1>3

(* A file can only go.                                                     *)
LEMMA DamageVouched ==
    ASSUME Vouched, Damages \subseteq {None}, Damage
    PROVE  Guarded' /\ RecordedIsIntactOrAbsent' /\ Reports
<1>1. Guarded' /\ Reports
  BY DEF Damage, Guarded, GuardedBy, Reports, At, locals
<1>2. RecordedIsIntactOrAbsent'
  BY DEF Vouched, StoreTypes, Damage, RecordedIsIntactOrAbsent, SetFile
<1> QED BY <1>1, <1>2

(* The registry is no part of it.                                          *)
LEMMA RepublishVouched ==
    ASSUME Vouched, Republish
    PROVE  Guarded' /\ RecordedIsIntactOrAbsent' /\ Reports
  BY DEF Vouched, Republish, Guarded, GuardedBy, Member, RecordedIsIntactOrAbsent, Reports, At,
         store, locals

(* What a step does to the store: at most one file, one row, one machine.  *)
LEMMA StoreKeeps ==
    ASSUME Calls, StoreTypes, [Next]_vars PROVE StoreTypes'
<1>1. CASE UNCHANGED store
  BY <1>1 DEF StoreTypes, store
<1>2. ASSUME NEW c \in Clients, DropRow(c) PROVE StoreTypes'
  BY <1>2 DEF StoreTypes, DropRow, SetRow
<1>3. ASSUME NEW c \in Clients, UnlinkTarget(c) PROVE StoreTypes'
  BY <1>3 DEF StoreTypes, UnlinkTarget, SetFile, Contents
<1>4. ASSUME NEW c \in Clients, Publish(c) PROVE StoreTypes'
  BY <1>4 DEF StoreTypes, Publish, SetFile, Calls, CallTypes
<1>5. ASSUME NEW c \in Clients, PersistMember(c) PROVE StoreTypes'
  BY <1>5 DEF StoreTypes, PersistMember, SetRow, Calls, CallTypes
<1>6. ASSUME NEW c \in Clients, PruneFile(c) PROVE StoreTypes'
  BY <1>6 DEF StoreTypes, PruneFile, SetFile, Contents
<1>7. ASSUME NEW c \in Clients, PruneRow(c) PROVE StoreTypes'
  BY <1>7 DEF StoreTypes, PruneRow, SetRow
<1>8. ASSUME NEW c \in Clients, ClaimRow(c) PROVE StoreTypes'
  BY <1>8 DEF StoreTypes, ClaimRow, Calls, Flow, At
<1>9. ASSUME NEW c \in Clients, CopyImage(c) PROVE StoreTypes'
  <2>1. Image \in Members
    BY NeedsAssumption DEF Image, Needed
  <2>2. file[Image] \in Contents
    BY <2>1 DEF StoreTypes
  <2> QED BY <1>9, <2>2 DEF StoreTypes, CopyImage
<1>10. ASSUME NEW c \in Clients, Unclaim(c) PROVE StoreTypes'
  BY <1>10 DEF StoreTypes, Unclaim
<1>11. ASSUME NEW c \in Clients, RemoveVm(c) PROVE StoreTypes'
  BY <1>11 DEF StoreTypes, RemoveVm, Contents
<1>12. CASE Damage
  BY <1>12, DamagesAssumption DEF StoreTypes, Damage, SetFile, Contents
<1>13. ASSUME NEW c \in Clients,
              \/ InvokeDownload(c) \/ Receive(c) \/ Cancel(c) \/ LockTarget(c)
              \/ NoticeCancel(c) \/ InspectMember(c) \/ HashMember(c) \/ Decide(c)
              \/ Skip(c) \/ Connect(c) \/ NextMember(c)
       PROVE  UNCHANGED store
  BY <1>13 DEF InvokeDownload, Receive, Cancel, LockTarget, NoticeCancel, InspectMember,
        HashMember, Decide, Skip, Connect, NextMember
<1>14. ASSUME NEW c \in Clients,
              \/ InvokePrune(c) \/ ListPrunable(c) \/ ListReferences(c)
              \/ InvokeCreate(c) \/ InvokeDelete(c) \/ ResolveMember(c) \/ VerifyMember(c)
       PROVE  UNCHANGED store
  BY <1>14 DEF InvokePrune, ListPrunable, ListReferences, InvokeCreate, InvokeDelete,
        ResolveMember, VerifyMember
<1>15. ASSUME NEW q \in Processes, Crash(q) PROVE UNCHANGED store
  BY <1>15 DEF Crash
<1>16. CASE Republish
  BY <1>1, <1>16 DEF Republish
<1>17. CASE UNCHANGED vars
  BY <1>1, <1>17 DEF vars
<1> QED
  BY <1>1, <1>2, <1>3, <1>4, <1>5, <1>6, <1>7, <1>8, <1>9, <1>10, <1>11, <1>12, <1>13, <1>14,
     <1>15, <1>16, <1>17 DEF Next, Download, Transfer, Prune, CreateDelete

(* Every step keeps Calls.                                                 *)
LEMMA CallsKeep ==
    ASSUME Calls, StoreTypes, [Next]_vars PROVE Calls'
<1>1. ASSUME NEW c \in Clients, InvokeDownload(c) \/ Transfer(c) \/ Cancel(c) PROVE Calls'
  BY <1>1, InvokeDownloadKeeps, ConnectKeeps, ReceiveKeeps, CancelKeeps DEF Transfer
<1>2. ASSUME NEW c \in Clients, Download(c) PROVE Calls'
  BY <1>2, LockTargetKeeps, NoticeCancelKeeps, InspectMemberKeeps, HashMemberKeeps, DecideKeeps,
     SkipKeeps, DropRowKeeps, UnlinkTargetKeeps, PublishKeeps, PersistMemberKeeps,
     NextMemberKeeps DEF Download
<1>3. ASSUME NEW c \in Clients, InvokePrune(c) \/ Prune(c) PROVE Calls'
  BY <1>3, InvokePruneKeeps, ListPrunableKeeps, ListReferencesKeeps, PruneFileKeeps,
     PruneRowKeeps DEF Prune
<1>4. ASSUME NEW c \in Clients, InvokeCreate(c) \/ InvokeDelete(c) \/ CreateDelete(c)
      PROVE Calls'
  BY <1>4, InvokeCreateKeeps, InvokeDeleteKeeps, ResolveMemberKeeps, VerifyMemberKeeps,
     ClaimRowKeeps, CopyImageKeeps, UnclaimKeeps, RemoveVmKeeps DEF CreateDelete
<1>5. CASE UNCHANGED vars
  BY <1>5 DEF vars, locals, Calls, CallTypes, Locks, Flow
<1> QED
  BY <1>1, <1>2, <1>3, <1>4, <1>5, CrashKeeps, RepublishKeeps, DamageKeeps DEF Next

(* The first state.                                                        *)
LEMMA InitCalls == Init => Calls /\ StoreTypes
<1> SUFFICES ASSUME Init PROVE Calls /\ StoreTypes
  OBVIOUS
<1>1. CallTypes
  BY ReleasesAssumption, EmptySeq
  DEF Init, CallTypes, Versions, Labels, Found, NotFound, Contents
<1>2. Locks
  BY NoneAssumption DEF Init, Locks, Locked
<1>3. Flow
  BY DEF Init, Flow, Locked
<1>4. StoreTypes
  BY DEF Init, StoreTypes, Contents
<1> QED BY <1>1, <1>2, <1>3, <1>4 DEF Calls

(* Calls and types hold throughout.                                        *)
LEMMA CallsInvariant == Spec => [](Calls /\ StoreTypes)
<1>1. (Calls /\ StoreTypes) /\ [Next]_vars => (Calls /\ StoreTypes)'
  BY CallsKeep, StoreKeeps
<1> QED BY <1>1, InitCalls, PTL DEF Spec

(* They are what the type invariant says.                                  *)
LEMMA CallsAreTyped == Calls /\ StoreTypes => CacheTypeOK
  BY DEF Calls, StoreTypes, CallTypes, Locks, CacheTypeOK

(* Only a publication puts bytes at a target.                              *)
LEMMA VerifiedKeeps ==
    ASSUME Damages \subseteq {None}, Calls, StoreTypes, [Next]_vars,
           \A m \in Members : file[m] \in Versions \cup {None}
    PROVE  (\A m \in Members : file[m] \in Versions \cup {None})'
<1> DEFINE Clean == \A m \in Members : file[m] \in Versions \cup {None}
<1>1. CASE UNCHANGED file
  BY <1>1
<1>2. ASSUME NEW c \in Clients, UnlinkTarget(c) PROVE Clean'
  BY <1>2 DEF StoreTypes, UnlinkTarget, SetFile
<1>3. ASSUME NEW c \in Clients, Publish(c) PROVE Clean'
  <2>1. part[c] \in Versions
    BY <1>3 DEF Publish, At, Calls, Flow, Locked
  <2> QED BY <1>3, <2>1 DEF StoreTypes, Publish, SetFile
<1>4. ASSUME NEW c \in Clients, PruneFile(c) PROVE Clean'
  BY <1>4 DEF StoreTypes, PruneFile, SetFile
<1>5. CASE Damage
  BY <1>5 DEF StoreTypes, Damage, SetFile
<1>6. ASSUME NEW c \in Clients,
              \/ InvokeDownload(c) \/ Receive(c) \/ Cancel(c) \/ LockTarget(c)
              \/ NoticeCancel(c) \/ InspectMember(c) \/ HashMember(c) \/ Decide(c)
              \/ Skip(c) \/ Connect(c) \/ NextMember(c) \/ DropRow(c) \/ PersistMember(c)
      PROVE  UNCHANGED file
  BY <1>6 DEF InvokeDownload, Receive, Cancel, LockTarget, NoticeCancel, InspectMember,
        HashMember, Decide, Skip, Connect, NextMember, DropRow, PersistMember, store
<1>7. ASSUME NEW c \in Clients,
              \/ InvokePrune(c) \/ ListPrunable(c) \/ ListReferences(c) \/ PruneRow(c)
              \/ InvokeCreate(c) \/ InvokeDelete(c) \/ CreateDelete(c)
      PROVE  UNCHANGED file
  BY <1>7 DEF InvokePrune, ListPrunable, ListReferences, PruneRow, InvokeCreate, InvokeDelete,
        CreateDelete, ResolveMember, VerifyMember, ClaimRow, CopyImage, Unclaim, RemoveVm, store
<1>8. ASSUME NEW q \in Processes, Crash(q) PROVE UNCHANGED file
  BY <1>8 DEF Crash, store
<1>9. CASE Republish
  BY <1>1, <1>9 DEF Republish, store
<1>10. CASE UNCHANGED vars
  BY <1>1, <1>10 DEF vars, store
<1> QED
  BY <1>1, <1>2, <1>3, <1>4, <1>5, <1>6, <1>7, <1>8, <1>9, <1>10 DEF Next, Download, Transfer, Prune

(* PublishedIsVerified, for any number of processes, clients and files:    *)
(* as long as nothing but the SDK writes into the cache, a target path has *)
(* a whole version of its artifact or nothing.                             *)
THEOREM OnlyVerifiedBytes ==
    ASSUME Damages \subseteq {None}
    PROVE  Spec => []PublishedIsVerified
<1> DEFINE Clean == \A m \in Members : file[m] \in Versions \cup {None}
           Inv == Calls /\ StoreTypes /\ Clean
<1>1. Init => Inv
  <2>1. ASSUME Init PROVE Clean
    BY <2>1 DEF Init
  <2> QED BY <2>1, InitCalls
<1>2. Inv /\ [Next]_vars => Inv'
  BY CallsKeep, StoreKeeps, VerifiedKeeps
<1>3. Inv => PublishedIsVerified
  BY CallsAreTyped DEF PublishedIsVerified
<1> HIDE DEF Inv
<1> QED BY <1>1, <1>2, <1>3, PTL DEF Spec

(* Every step keeps the agreement of rows, files and findings.             *)
LEMMA VouchedStep ==
    ASSUME Damages \subseteq {None}, OneProcess, Vouched, Next
    PROVE  Vouched' /\ Reports
<1> DEFINE Goal == Guarded' /\ RecordedIsIntactOrAbsent' /\ Reports
<1>1. ASSUME NEW c \in Clients, InvokeDownload(c) \/ Transfer(c) \/ Cancel(c) PROVE Goal
  BY <1>1, InvokeDownloadVouched, ConnectVouched, ReceiveVouched, CancelVouched DEF Transfer
<1>2. ASSUME NEW c \in Clients, Download(c) PROVE Goal
  BY <1>2, LockTargetVouched, NoticeCancelVouched, InspectMemberVouched, HashMemberVouched,
     DecideVouched, SkipVouched, DropRowVouched, UnlinkTargetVouched,
     PublishVouched, PersistMemberVouched, NextMemberVouched DEF Download
<1>3. ASSUME NEW c \in Clients, InvokePrune(c) \/ Prune(c) PROVE Goal
  BY <1>3, InvokePruneVouched, ListPrunableVouched, ListReferencesVouched, PruneFileVouched,
     PruneRowVouched DEF Prune
<1>4. ASSUME NEW c \in Clients, InvokeCreate(c) \/ InvokeDelete(c) \/ CreateDelete(c)
      PROVE Goal
  BY <1>4, InvokeCreateVouched, InvokeDeleteVouched, ResolveMemberVouched, VerifyMemberVouched,
     ClaimRowVouched, CopyImageVouched, UnclaimVouched, RemoveVmVouched DEF CreateDelete
<1>5. Goal
  BY <1>1, <1>2, <1>3, <1>4, CrashVouched, RepublishVouched, DamageVouched DEF Next
<1>6. Calls' /\ StoreTypes'
  BY CallsKeep, StoreKeeps DEF Vouched
<1> QED BY <1>5, <1>6 DEF Vouched

(* Which therefore holds throughout.                                       *)
LEMMA VouchedInvariant ==
    ASSUME Damages \subseteq {None}, OneProcess
    PROVE  Spec => []Vouched
<1>1. Init => Vouched
  <2>1. Init => Guarded /\ RecordedIsIntactOrAbsent
    BY DEF Init, Guarded, GuardedBy, RecordedIsIntactOrAbsent
  <2> QED BY <2>1, InitCalls DEF Vouched
<1>2. Vouched /\ [Next]_vars => Vouched'
  <2>1. ASSUME Vouched, UNCHANGED vars PROVE Vouched'
    BY <2>1 DEF vars, store, locals, Vouched, Calls, CallTypes, Locks, Flow, StoreTypes, Guarded,
       GuardedBy, Member, RecordedIsIntactOrAbsent
  <2> QED BY <2>1, VouchedStep
<1> QED BY <1>1, <1>2, PTL DEF Spec

(* RecordedIsIntactOrAbsent, for any number of calls of one SDK process:   *)
(* the target locks make the row, the file and what a download found of    *)
(* both agree, so that decide_cache may trust a row.                       *)
THEOREM RowsVouchForFiles ==
    ASSUME Damages \subseteq {None}, OneProcess
    PROVE  Spec => []RecordedIsIntactOrAbsent
<1>1. Vouched => RecordedIsIntactOrAbsent
  BY DEF Vouched
<1> QED BY <1>1, VouchedInvariant, PTL

(* ReportedIsVerified, under the same conditions: what download_member     *)
(* reports, downloaded, adopted or skipped, is what the manifest promised. *)
THEOREM ReportsAreTrue ==
    ASSUME Damages \subseteq {None}, OneProcess
    PROVE  Spec => ReportedIsVerified
<1>1. Vouched /\ [Next]_vars =>
        [\A c \in Clients :
           ~At(c, "done") /\ pc'[c] = "done" => file'[Member(c)] = want[c]]_vars
  BY VouchedStep DEF Reports
<1> QED BY <1>1, VouchedInvariant, PTL DEF Spec, ReportedIsVerified
=============================================================================
