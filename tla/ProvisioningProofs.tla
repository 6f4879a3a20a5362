------------------------- MODULE ProvisioningProofs -------------------------
(***************************************************************************)
(* What holds of creations, restores and deletions for any number of names *)
(* and kernels and any failures.                                           *)
(*                                                                         *)
(* Own(n) is what a call knows about its own name.  The name lock keeps    *)
(* other calls away from that, so it holds whoever else is at work.  The   *)
(* kernels are shared: KernelsKnown says that a kernel file without a row  *)
(* is in some journal; KernelsKept says more, for restores that do not     *)
(* need the same absent kernel.                                            *)
(***************************************************************************)
EXTENDS Provisioning, TLAPS

CallFields == {"op", "owns", "made", "job", "install", "failed", "result"}

Creating == {"resolve", "claim", "volume", "keys", "inject", "network", "guest",
             "save_network", "save_credential", "runtime", "rollback"}
Saving == {"guest", "save_network", "save_credential", "runtime"}
Entering == {"stage", "reconcile", "validate"}
Filling == {"copy", "copy_keys", "log_kernel", "open_kernel", "fill_kernel", "configure", "commit"}
Restoring == {"attach", "log_network", "mkdir", "log_volume", "abort"} \cup Filling
Deleting == {"release", "remove_volume", "remove_row"}

Stores ==
    /\ row \in [Names -> SUBSET Rows] /\ files \in [Names -> SUBSET VolumeFiles]
    /\ tap \subseteq Names /\ staging \subseteq Names /\ registered \subseteq Kernels
    /\ kernel \in [Kernels -> {"partial", "good", None}]
    /\ journal \in [Names -> Journals \cup {None}]
    /\ pc \in [Names -> ProvLabels] /\ faults \in 0..ProvBudget
    /\ DOMAIN call = Names

(* Which operation a call runs, and what it can come to own.               *)
Flow(n) ==
    /\ DOMAIN call[n] = CallFields
    /\ call[n].install \in BOOLEAN /\ call[n].failed \in BOOLEAN
    /\ pc[n] = "idle" => call[n].op = None
    /\ pc[n] \in Creating => call[n].op = "create"
    /\ pc[n] \in Entering \cup Restoring => call[n].op = "restore"
    /\ pc[n] \in Deleting => call[n].op = "delete"
    /\ call[n].op # None => call[n].op \in ProvOps[n]
    /\ pc[n] \in Creating => call[n].owns \cup call[n].job \subseteq DOMAIN RollbackOrder
    /\ pc[n] \notin Creating => call[n].owns \cup call[n].job \subseteq DOMAIN AbortOrder
    /\ pc[n] \notin Creating \cup Restoring => call[n].owns = {}
    /\ pc[n] \in {"resolve", "claim"} => call[n].owns = {}

(* The rows of a name.                                                     *)
RowsKnown(n) ==
    /\ row[n] # {} => "vm" \in row[n]
    /\ pc[n] = "claim" => row[n] = {}
    /\ pc[n] \in {"volume", "keys", "inject", "network", "guest", "save_network"} => row[n] = {"vm"}
    /\ pc[n] = "save_credential" => row[n] = {"vm", "network"}
    /\ pc[n] = "runtime" => row[n] = {"vm", "network", "credential"}
    /\ pc[n] = "rollback" => "runtime" \notin row[n]
    /\ pc[n] \in Restoring => row[n] = {}

(* Its volume and its network.                                             *)
VolumeKnown(n) ==
    /\ pc[n] \in {"claim", "volume"} => files[n] \subseteq {"dir"}
    /\ pc[n] = "keys" => files[n] = {"dir", "rootfs"}
    /\ pc[n] \in {"inject", "network"} \cup Saving => files[n] = VolumeFiles
    /\ pc[n] \in {"attach", "log_network", "mkdir"} => files[n] = {}
    /\ pc[n] \in {"log_volume", "copy"} => files[n] = {"dir"}
    /\ pc[n] = "copy_keys" => files[n] = {"dir", "rootfs"}
    /\ pc[n] \in Filling \ {"copy", "copy_keys"} => files[n] = VolumeFiles
    /\ pc[n] = "remove_row" => files[n] = {}
    /\ pc[n] \in Saving \cup {"log_network", "mkdir", "log_volume"} \cup Filling => n \in tap

(* What the row of restore_journals says, and what of it is left to undo:  *)
(* the journal goes last.                                                  *)
JournalKnown(n) ==
    /\ "restore" \notin ProvOps[n] => journal[n] = None
    /\ "create" \notin ProvOps[n] /\ row[n] # {} => journal[n] = None
    /\ pc[n] = "reconcile" =>
         IF journal[n] = None THEN call[n].job = {} ELSE "journal" \in call[n].job
    /\ pc[n] = "validate" => journal[n] = None
    /\ pc[n] \in Restoring \ {"abort"} => journal[n] # None
    /\ pc[n] \in Restoring => {"staging", "journal"} \subseteq call[n].owns
    /\ pc[n] = "abort" /\ call[n].job # {} => "journal" \in call[n].job
    /\ pc[n] \in Filling => journal[n].volume
    /\ pc[n] \in {"open_kernel", "fill_kernel"} => journal[n].kernel
    /\ pc[n] \in Restoring /\ journal[n] # None =>
         /\ journal[n].volume => "dir" \in call[n].owns
         /\ journal[n].kernel => "kernel" \in call[n].owns

(* r is still going to be removed, or kept with the journal.               *)
Pending(n, r) ==
    /\ pc[n] = "reconcile" => r \in call[n].job
    /\ pc[n] = "abort" => r \in call[n].job \/ call[n].failed

LeftoverKnown(n) ==
    row[n] = {} /\ "create" \notin ProvOps[n] /\ files[n] \ {"dir"} # {}
        => journal[n] # None /\ journal[n].volume /\ Pending(n, "dir")

(* What a call made and still has to remove.                               *)
Made(n) ==
    /\ pc[n] \in Creating => call[n].made \subseteq call[n].owns \cup {"tap"}
    /\ pc[n] \notin Creating => call[n].made \subseteq call[n].owns
    /\ pc[n] = "rollback" /\ ~call[n].failed =>
         (call[n].made \ {"tap"}) \cap There(n) \subseteq call[n].job
    /\ pc[n] = "abort" /\ ~call[n].failed =>
         (call[n].made \ {"kernel"}) \cap There(n) \subseteq call[n].job

Own(n) ==
    /\ Flow(n) /\ RowsKnown(n) /\ VolumeKnown(n) /\ JournalKnown(n) /\ LeftoverKnown(n) /\ Made(n)

(* A kernel file without a row is in some journal, and stays in it until   *)
(* the file is removed.                                                    *)
Vouches(n) == journal[n] # None /\ journal[n].kernel /\ Pending(n, "kernel")
KernelsKnown ==
    \A k \in Kernels :
        kernel[k] # None /\ k \notin registered => \E n \in Names : KernelOf[n] = k /\ Vouches(n)

ProvInv == Stores /\ (\A n \in Names : Own(n)) /\ KernelsKnown

(* No two restores need the same absent kernel: theirs are different, or   *)
(* it was downloaded before.                                               *)
RestoresApart ==
    \A m, n \in Names :
        m # n /\ "restore" \in ProvOps[m] \cap ProvOps[n] /\ KernelOf[m] = KernelOf[n]
            => \A set \in Installed : KernelOf[n] \in set

(* A registered kernel is whole, and no restore is about to touch it.      *)
KernelKept(n) ==
    /\ Complete(n) \/ pc[n] \in Creating \ {"resolve", "rollback"} => KernelOf[n] \in registered
    /\ journal[n] # None /\ journal[n].kernel => KernelOf[n] \notin registered
    /\ pc[n] \in Restoring /\ "kernel" \in call[n].owns => KernelOf[n] \notin registered
    /\ pc[n] \in {"reconcile", "abort"} /\ "kernel" \in call[n].job => KernelOf[n] \notin registered
    /\ pc[n] \in Restoring => (call[n].install <=> KernelOf[n] \notin registered)
    /\ pc[n] \in {"log_kernel", "open_kernel", "fill_kernel"} => call[n].install
    /\ pc[n] \in {"configure", "commit"} => kernel[KernelOf[n]] = "good"
    /\ pc[n] = "abort" /\ ~call[n].failed /\ "kernel" \in call[n].made /\ kernel[KernelOf[n]] # None
         => "kernel" \in call[n].job
KernelsKept ==
    /\ \A k \in registered : kernel[k] = "good"
    /\ \A k \in Kernels : (\A set \in Installed : k \in set) => k \in registered
    /\ \A n \in Names : KernelKept(n)

ApartInv == ProvInv /\ KernelsKept

-----------------------------------------------------------------------------
(* What a step of n's call does to the call, and to nobody else's.         *)
Becomes(n, l, o, owns, made, job, install, failed) ==
    /\ pc' \in [Names -> ProvLabels] /\ DOMAIN call' = Names
    /\ pc'[n] = l /\ DOMAIN call'[n] = CallFields
    /\ call'[n].op = o /\ call'[n].owns = owns /\ call'[n].made = made /\ call'[n].job = job
    /\ call'[n].install = install /\ call'[n].failed = failed
    /\ \A m \in Names \ {n} : pc'[m] = pc[m] /\ call'[m] = call[m]

(* Everything that belongs to another name stays.                          *)
Others(n) ==
    \A m \in Names \ {n} :
        /\ row'[m] = row[m] /\ files'[m] = files[m] /\ journal'[m] = journal[m]
        /\ (m \in tap' <=> m \in tap) /\ (m \in staging' <=> m \in staging)
        /\ pc'[m] = pc[m] /\ call'[m] = call[m]

(* What a step of n's call keeps: the invariants, what belongs to other    *)
(* names, and the kernels but for its own.                                 *)
Keeps(n) ==
    /\ ProvInv' /\ (RestoresApart /\ KernelsKept => KernelsKept')
    /\ Others(n) /\ \A k \in Kernels \ {KernelOf[n]} : kernel'[k] = kernel[k]
    /\ RestoresApart /\ KernelsKept => UNCHANGED kernel \/ KernelOf[n] \notin registered

(* The call takes a new record of locals.                                  *)
LEMMA SetBecomes ==
    ASSUME ProvInv, NEW n \in Names, NEW l \in ProvLabels, NEW d, DOMAIN d = CallFields,
           Goto(n, l) \/ (pc' = pc /\ pc[n] = l), Set(n, d)
    PROVE  Becomes(n, l, d.op, d.owns, d.made, d.job, d.install, d.failed)
<1>1. pc \in [Names -> ProvLabels] /\ DOMAIN call = Names
  BY DEF ProvInv, Stores
<1>2. DOMAIN call' = Names /\ call'[n] = d /\ \A m \in Names \ {n} : call'[m] = call[m]
  BY <1>1 DEF Set
<1>3. pc' \in [Names -> ProvLabels] /\ pc'[n] = l /\ \A m \in Names \ {n} : pc'[m] = pc[m]
  BY <1>1 DEF Goto
<1> QED BY <1>2, <1>3 DEF Becomes

(* The ways a call goes on.                                                *)
LEMMA StepBecomes ==
    ASSUME ProvInv, NEW n \in Names, NEW l \in ProvLabels, NEW owned, Step(n, l, owned)
    PROVE  Becomes(n, l, call[n].op, call[n].owns \cup owned, call[n].made \cup owned, call[n].job,
                   call[n].install, call[n].failed)
<1> DEFINE d == [call[n] EXCEPT !.owns = @ \cup owned, !.made = @ \cup owned]
<1>1. DOMAIN call[n] = CallFields
  BY DEF ProvInv, Own, Flow
<1>2. /\ DOMAIN d = CallFields /\ d.op = call[n].op /\ d.owns = call[n].owns \cup owned
      /\ d.made = call[n].made \cup owned /\ d.job = call[n].job /\ d.install = call[n].install
      /\ d.failed = call[n].failed
  BY <1>1 DEF CallFields
<1>3. Goto(n, l) /\ Set(n, d)
  BY DEF Step
<1> HIDE DEF d
<1>4. Becomes(n, l, d.op, d.owns, d.made, d.job, d.install, d.failed)
  BY <1>2, <1>3, SetBecomes
<1> QED BY <1>2, <1>4

LEMMA UnnotedBecomes ==
    ASSUME ProvInv, NEW n \in Names, NEW l \in ProvLabels, NEW made, Unnoted(n, l, made)
    PROVE  Becomes(n, l, call[n].op, call[n].owns, call[n].made \cup made, call[n].job,
                   call[n].install, call[n].failed)
<1> DEFINE d == [call[n] EXCEPT !.made = @ \cup made]
<1>1. DOMAIN call[n] = CallFields
  BY DEF ProvInv, Own, Flow
<1>2. /\ DOMAIN d = CallFields /\ d.op = call[n].op /\ d.owns = call[n].owns
      /\ d.made = call[n].made \cup made /\ d.job = call[n].job /\ d.install = call[n].install
      /\ d.failed = call[n].failed
  BY <1>1 DEF CallFields
<1>3. Goto(n, l) /\ Set(n, d)
  BY DEF Unnoted
<1> HIDE DEF d
<1>4. Becomes(n, l, d.op, d.owns, d.made, d.job, d.install, d.failed)
  BY <1>2, <1>3, SetBecomes
<1> QED BY <1>2, <1>4

LEMMA EnterBecomes ==
    ASSUME ProvInv, NEW n \in Names, NEW l \in ProvLabels, NEW o, Goto(n, l),
           Set(n, [Idle EXCEPT !.op = o])
    PROVE  Becomes(n, l, o, {}, {}, {}, FALSE, FALSE)
<1> DEFINE d == [Idle EXCEPT !.op = o]
<1>1. /\ DOMAIN d = CallFields /\ d.op = o /\ d.owns = {} /\ d.made = {} /\ d.job = {}
      /\ d.install = FALSE /\ d.failed = FALSE
  BY DEF Idle, CallFields
<1>2. Goto(n, l) /\ Set(n, d)
  OBVIOUS
<1> HIDE DEF d
<1>3. Becomes(n, l, d.op, d.owns, d.made, d.job, d.install, d.failed)
  BY <1>1, <1>2, SetBecomes
<1> QED BY <1>1, <1>3

LEMMA ReturnBecomes ==
    ASSUME ProvInv, NEW n \in Names, NEW result, Return(n, result)
    PROVE  Becomes(n, "idle", None, {}, {}, {}, FALSE, FALSE)
<1> DEFINE d == [Idle EXCEPT !.result = result]
<1>1. /\ DOMAIN d = CallFields /\ d.op = None /\ d.owns = {} /\ d.made = {} /\ d.job = {}
      /\ d.install = FALSE /\ d.failed = FALSE
  BY DEF Idle, CallFields
<1>2. Goto(n, "idle") /\ Set(n, d) /\ "idle" \in ProvLabels
  BY DEF Return, ProvLabels
<1> HIDE DEF d
<1>3. Becomes(n, "idle", d.op, d.owns, d.made, d.job, d.install, d.failed)
  BY <1>1, <1>2, SetBecomes
<1> QED BY <1>1, <1>3

(* The job of a call changes, and perhaps whether it failed.               *)
LEMMA JobBecomes ==
    ASSUME ProvInv, NEW n \in Names, NEW l \in ProvLabels, NEW job, NEW failed,
           Goto(n, l) \/ (pc' = pc /\ pc[n] = l),
           \/ Set(n, [call[n] EXCEPT !.job = job]) /\ failed = call[n].failed
           \/ Set(n, [[call[n] EXCEPT !.job = job] EXCEPT !.failed = failed])
    PROVE  Becomes(n, l, call[n].op, call[n].owns, call[n].made, job, call[n].install, failed)
<1>1. DOMAIN call[n] = CallFields
  BY DEF ProvInv, Own, Flow
<1> DEFINE d == [call[n] EXCEPT !.job = job]
           e == [d EXCEPT !.failed = failed]
<1>2. /\ DOMAIN d = CallFields /\ d.op = call[n].op /\ d.owns = call[n].owns
      /\ d.made = call[n].made /\ d.job = job /\ d.install = call[n].install
      /\ d.failed = call[n].failed
  BY <1>1 DEF CallFields
<1> HIDE DEF d
<1>3. /\ DOMAIN e = CallFields /\ e.op = call[n].op /\ e.owns = call[n].owns
      /\ e.made = call[n].made /\ e.job = job /\ e.install = call[n].install
      /\ e.failed = failed
  BY <1>2 DEF CallFields
<1> HIDE DEF e
<1>4. (Set(n, d) /\ failed = call[n].failed) \/ Set(n, e)
  BY DEF d, e
<1>5. CASE Set(n, d) /\ failed = call[n].failed
  <2>1. Becomes(n, l, d.op, d.owns, d.made, d.job, d.install, d.failed)
    BY <1>2, <1>5, SetBecomes
  <2> QED BY <1>2, <1>5, <2>1
<1>6. CASE Set(n, e)
  <2>1. Becomes(n, l, e.op, e.owns, e.made, e.job, e.install, e.failed)
    BY <1>3, <1>6, SetBecomes
  <2> QED BY <1>3, <2>1
<1> QED BY <1>4, <1>5, <1>6

(* The count of faults stays within its bound.                             *)
LEMMA FaultBound ==
    ASSUME faults \in 0..ProvBudget, faults' = faults \/ (faults < ProvBudget /\ faults' = faults + 1)
    PROVE  faults' \in 0..ProvBudget
BY ProvFaultsAssumption

(* What a call knows of its own name is its own.                           *)
LEMMA OthersOwn ==
    ASSUME ProvInv, NEW n \in Names, Others(n), NEW m \in Names \ {n}
    PROVE  Own(m)'
<1>1. Own(m)
  BY DEF ProvInv
<1>2. /\ row'[m] = row[m] /\ files'[m] = files[m] /\ journal'[m] = journal[m]
      /\ (m \in tap' <=> m \in tap) /\ (m \in staging' <=> m \in staging)
      /\ pc'[m] = pc[m] /\ call'[m] = call[m]
  BY DEF Others
<1>3. Flow(m)'
  BY <1>1, <1>2 DEF Own, Flow
<1>4. RowsKnown(m)' /\ VolumeKnown(m)'
  BY <1>1, <1>2 DEF Own, RowsKnown, VolumeKnown
<1>5. JournalKnown(m)'
  BY <1>1, <1>2 DEF Own, JournalKnown
<1>6. LeftoverKnown(m)'
  BY <1>1, <1>2 DEF Own, LeftoverKnown, Pending
<1>7. There(m)' \subseteq There(m) \cup {"kernel"}
  BY <1>2 DEF There
<1>8. pc[m] = "rollback" => "kernel" \notin call[m].made
  BY <1>1 DEF Own, Made, Flow, Creating, RollbackOrder
<1>9. Made(m)'
  BY <1>1, <1>2, <1>7, <1>8 DEF Own, Made
<1> QED BY <1>3, <1>4, <1>5, <1>6, <1>9 DEF Own

(* The journals of the others vouch for what they vouched for.             *)
LEMMA OthersVouch ==
    ASSUME NEW n \in Names, Others(n), NEW m \in Names \ {n}, Vouches(m)
    PROVE  Vouches(m)'
BY DEF Others, Vouches, Pending

(* A kernel that a restore touches is none of the others'.                 *)
LEMMA OthersKept ==
    ASSUME ProvInv, KernelsKept, RestoresApart, NEW n \in Names, Others(n), NEW m \in Names \ {n},
           registered \subseteq registered',
           \/ kernel' = kernel /\ registered' = registered
           \/ /\ "restore" \in ProvOps[n] /\ KernelOf[n] \notin registered
              /\ registered' \subseteq registered \cup {KernelOf[n]}
              /\ \A k \in Kernels \ {KernelOf[n]} : kernel'[k] = kernel[k]
    PROVE  KernelKept(m)'
<1>1. KernelKept(m) /\ Own(m)
  BY DEF ProvInv, KernelsKept
<1>2. /\ row'[m] = row[m] /\ journal'[m] = journal[m] /\ pc'[m] = pc[m] /\ call'[m] = call[m]
  BY DEF Others
<1>3. KernelOf[m] \in Kernels
  BY KernelOfAssumption
<1>4. CASE /\ kernel'[KernelOf[m]] = kernel[KernelOf[m]]
           /\ KernelOf[m] \in registered' <=> KernelOf[m] \in registered
  BY <1>1, <1>2, <1>4 DEF KernelKept, Complete
<1>5. CASE "restore" \notin ProvOps[m]
  <2>1. journal[m] = None
    BY <1>1, <1>5 DEF Own, JournalKnown
  <2>2. pc[m] \notin Entering \cup Restoring
    BY <1>1, <1>5, NoneAssumption DEF Own, Flow
  <2>3. pc[m] \notin {"reconcile", "abort", "log_kernel", "open_kernel", "fill_kernel", "configure", "commit"}
    BY <2>2 DEF Entering, Restoring, Filling
  <2> QED BY <1>1, <1>2, <2>1, <2>2, <2>3 DEF KernelKept, Complete
<1>6. CASE "restore" \in ProvOps[m] /\ "restore" \in ProvOps[n] /\ KernelOf[m] = KernelOf[n]
  <2>1. \A set \in Installed : KernelOf[n] \in set
    BY <1>6 DEF RestoresApart
  <2>2. KernelOf[n] \in registered
    BY <1>3, <1>6, <2>1 DEF KernelsKept
  <2> QED BY <1>4, <2>2
<1> QED BY <1>3, <1>4, <1>5, <1>6

(* What is left to show of a step that leaves the kernels alone.           *)
LEMMA QuietKeeps ==
    ASSUME ProvInv, NEW n \in Names, Others(n), Stores', Own(n)',
           kernel' = kernel, registered' = registered,
           Vouches(n) => Vouches(n)',
           RestoresApart /\ KernelsKept => KernelKept(n)'
    PROVE  Keeps(n)
<1>1. \A m \in Names : Own(m)'
  BY OthersOwn
<1>2. \A m \in Names : Vouches(m) => Vouches(m)'
  BY OthersVouch
<1>3. KernelsKnown'
  BY <1>2 DEF ProvInv, KernelsKnown
<1>4. ASSUME RestoresApart, KernelsKept PROVE KernelsKept'
  <2>1. \A m \in Names : KernelKept(m)'
    BY <1>4, OthersKept
  <2> QED BY <1>4, <2>1 DEF KernelsKept
<1> QED BY <1>1, <1>3, <1>4 DEF ProvInv, Keeps

(* The same of a step of a restore on its kernel.                          *)
LEMMA KernelKeeps ==
    ASSUME ProvInv, NEW n \in Names, Others(n), Stores', Own(n)', "restore" \in ProvOps[n],
           registered \subseteq registered', registered' \subseteq registered \cup {KernelOf[n]},
           \A k \in Kernels \ {KernelOf[n]} : kernel'[k] = kernel[k],
           kernel'[KernelOf[n]] # None /\ KernelOf[n] \notin registered' => Vouches(n)',
           RestoresApart /\ KernelsKept =>
              /\ KernelOf[n] \notin registered \/ UNCHANGED <<kernel, registered>>
              /\ KernelKept(n)' /\ (KernelOf[n] \in registered' => kernel'[KernelOf[n]] = "good")
    PROVE  Keeps(n)
<1>1. \A m \in Names : Own(m)'
  BY OthersOwn
<1>2. \A m \in Names \ {n} : Vouches(m) => Vouches(m)'
  BY OthersVouch
<1>3. KernelsKnown'
  BY <1>2 DEF ProvInv, KernelsKnown
<1>4. ASSUME RestoresApart, KernelsKept PROVE KernelsKept'
  <2>1. \A m \in Names : KernelKept(m)'
    BY <1>4, OthersKept
  <2>2. \A k \in registered' : kernel'[k] = "good"
    BY <1>4 DEF KernelsKept, ProvInv, Stores
  <2> QED BY <1>4, <2>1, <2>2 DEF KernelsKept
<1> QED BY <1>1, <1>3, <1>4 DEF ProvInv, Keeps

-----------------------------------------------------------------------------
(* Where calls end, and where they start to undo.                          *)

(* A call ends with at most a part of its volume removed.                  *)
LEMMA ReturnKeeps ==
    ASSUME ProvInv, NEW n \in Names, NEW result, Return(n, result), faults' \in 0..ProvBudget,
           files' \in [Names -> SUBSET VolumeFiles], files'[n] \subseteq files[n],
           \A m \in Names \ {n} : files'[m] = files[m],
           UNCHANGED <<inventory, tap, kernel, staging>>
    PROVE  Keeps(n)
<1>1. Becomes(n, "idle", None, {}, {}, {}, FALSE, FALSE)
  BY ReturnBecomes
<1>2. Own(n)
  BY DEF ProvInv
<1>3. Others(n) /\ Stores'
  BY <1>1 DEF Others, Becomes, ProvInv, Stores, inventory
<1>4. Flow(n)' /\ RowsKnown(n)' /\ VolumeKnown(n)'
  BY <1>1, <1>2 DEF Becomes, Own, Flow, RowsKnown, VolumeKnown, Creating, Restoring, Entering, Deleting,
     Saving, Filling, inventory
<1>5. JournalKnown(n)'
  BY <1>1, <1>2 DEF Becomes, Own, JournalKnown, Restoring, Filling, inventory
<1>6. LeftoverKnown(n)'
  BY <1>1, <1>2 DEF Becomes, Own, LeftoverKnown, Pending, inventory
<1>7. Made(n)'
  BY <1>1 DEF Becomes, Made, Creating
<1>8. Vouches(n) => Vouches(n)'
  BY <1>1 DEF Becomes, Vouches, Pending, inventory
<1>9. KernelsKept => KernelKept(n)'
  BY <1>1 DEF Becomes, KernelsKept, KernelKept, Complete, inventory, Creating, Restoring, Filling
<1> QED BY <1>3, <1>4, <1>5, <1>6, <1>7, <1>8, <1>9, QuietKeeps DEF Own, inventory

(* A creation starts to undo what it owns, having claimed its name.        *)
LEMMA RollbackKeeps ==
    ASSUME ProvInv, NEW n \in Names, NEW extra \in SUBSET DOMAIN RollbackOrder,
           pc[n] \in Creating \ {"resolve", "claim", "rollback"}, faults' \in 0..ProvBudget,
           Becomes(n, "rollback", call[n].op, call[n].owns, call[n].made, call[n].owns \cup extra,
                   call[n].install, call[n].failed),
           files' \in [Names -> SUBSET VolumeFiles], \A m \in Names \ {n} : files'[m] = files[m],
           UNCHANGED <<inventory, tap, kernel, staging>>
    PROVE  Keeps(n)
<1>1. Own(n)
  BY DEF ProvInv
<1>2. Others(n) /\ Stores'
  BY DEF Others, Becomes, ProvInv, Stores, inventory
<1>3. Flow(n)'
  BY <1>1 DEF Becomes, Own, Flow, Creating, Entering, Restoring, Deleting, Filling
<1>4. RowsKnown(n)'
  BY <1>1 DEF Becomes, Own, RowsKnown, Creating, Restoring, Filling, inventory
<1>5. VolumeKnown(n)'
  BY DEF Becomes, VolumeKnown, Saving, Filling
<1>6. JournalKnown(n)'
  BY <1>1 DEF Becomes, Own, JournalKnown, Restoring, Filling, inventory
<1>7. "create" \in ProvOps[n]
  BY <1>1, NoneAssumption DEF Own, Flow
<1>8. LeftoverKnown(n)'
  BY <1>7 DEF LeftoverKnown
<1>9. Made(n)'
  BY <1>1 DEF Becomes, Own, Made, Creating
<1>10. Vouches(n) => Vouches(n)'
  BY DEF Becomes, Vouches, Pending, inventory
<1>11. KernelsKept => KernelKept(n)'
  BY DEF Becomes, KernelsKept, KernelKept, Complete, inventory, Creating, Restoring, Filling
<1> QED BY <1>2, <1>3, <1>4, <1>5, <1>6, <1>8, <1>9, <1>10, <1>11, QuietKeeps DEF Own, inventory

(* A restore starts to undo what it owns.  While it fills its volume, the  *)
(* journal has it.                                                         *)
LEMMA AbortKeeps ==
    ASSUME ProvInv, NEW n \in Names, NEW extra \in SUBSET {"dir", "tap", "kernel"},
           "kernel" \in extra => pc[n] = "log_kernel",
           pc[n] \in Restoring \ {"abort"}, faults' \in 0..ProvBudget,
           Becomes(n, "abort", call[n].op, call[n].owns \cup extra, call[n].made,
                   call[n].owns \cup extra, call[n].install, call[n].failed),
           files' \in [Names -> SUBSET VolumeFiles], \A m \in Names \ {n} : files'[m] = files[m],
           files'[n] = files[n] \/ pc[n] \in Filling,
           kernel' \in [Kernels -> {"partial", "good", None}],
           \A k \in Kernels \ {KernelOf[n]} : kernel'[k] = kernel[k],
           kernel' = kernel \/ pc[n] = "fill_kernel", UNCHANGED <<inventory, tap, staging>>
    PROVE  Keeps(n)
<1>1. Own(n)
  BY DEF ProvInv
<1>2. Others(n) /\ Stores'
  BY DEF Others, Becomes, ProvInv, Stores, inventory
<1>3. Flow(n)'
  BY <1>1 DEF Becomes, Own, Flow, Creating, Entering, Restoring, Deleting, Filling, AbortOrder
<1>4. RowsKnown(n)'
  BY <1>1 DEF Becomes, Own, RowsKnown, Restoring, Filling, inventory
<1>5. VolumeKnown(n)'
  BY DEF Becomes, VolumeKnown, Saving, Filling
<1>6. JournalKnown(n)'
  BY <1>1 DEF Becomes, Own, JournalKnown, Restoring, Filling, inventory
<1>7. LeftoverKnown(n)'
  BY <1>1 DEF Becomes, Own, LeftoverKnown, JournalKnown, Pending, Restoring, Filling, inventory
<1>8. Made(n)'
  BY <1>1 DEF Becomes, Own, Made, Creating, Restoring, Filling
<1>9. Vouches(n) => Vouches(n)'
  BY <1>1 DEF Becomes, Own, JournalKnown, Vouches, Pending, inventory
<1>10. CASE kernel' = kernel
  <2>1. KernelsKept => KernelKept(n)'
    BY <1>1, <1>10 DEF Becomes, KernelsKept, KernelKept, Complete, inventory, Creating, Restoring, Filling, Own, Made
  <2> QED BY <1>2, <1>3, <1>4, <1>5, <1>6, <1>7, <1>8, <1>9, <1>10, <2>1, QuietKeeps DEF Own, inventory
<1>11. CASE pc[n] = "fill_kernel"
  <2>1. "restore" \in ProvOps[n] /\ journal[n] # None /\ journal[n].kernel /\ "kernel" \in call[n].owns
    BY <1>1, <1>11, NoneAssumption DEF Own, Flow, JournalKnown, Restoring, Filling
  <2>2. Vouches(n)'
    BY <2>1 DEF Becomes, Vouches, Pending, inventory
  <2>3. KernelsKept => KernelKept(n)' /\ KernelOf[n] \notin registered
    BY <1>1, <1>11, <2>1 DEF Becomes, KernelsKept, KernelKept, Complete, inventory, Creating, Restoring, Filling
  <2>4. registered' = registered
    BY DEF inventory
  <2> QED BY <1>2, <1>3, <1>4, <1>5, <1>6, <1>7, <1>8, <2>1, <2>2, <2>3, <2>4, KernelKeeps DEF Own
<1> QED BY <1>10, <1>11

-----------------------------------------------------------------------------
(* create_microvm.                                                         *)

(* A failure, or none.                                                     *)
LEMMA CountedFaults ==
    ASSUME ProvInv, (\E kinds : FaultOf(kinds)) \/ (\E kind : ProvFault(kind)) \/ UNCHANGED faults
    PROVE  faults' \in 0..ProvBudget
<1>1. faults \in 0..ProvBudget
  BY DEF ProvInv, Stores
<1>2. faults' = faults \/ (faults < ProvBudget /\ faults' = faults + 1)
  BY DEF FaultOf, ProvFault
<1> QED BY <1>1, <1>2, FaultBound

(* A step that fails, whatever it changed in the volume.                   *)
LEMMA RollbackStep ==
    ASSUME ProvInv, NEW n \in Names, pc[n] \in Creating \ {"resolve", "claim", "rollback"},
           faults' \in 0..ProvBudget, Rollback(n), UNCHANGED <<inventory, disk, tap>>
    PROVE  Keeps(n)
<1> DEFINE job == call[n].owns \cap DOMAIN RollbackOrder
<1>1. job = call[n].owns \cup {}
  BY DEF ProvInv, Own, Flow
<1>2. Goto(n, "rollback") /\ Set(n, [call[n] EXCEPT !.job = job]) /\ "rollback" \in ProvLabels
  BY DEF Rollback, ProvLabels
<1> HIDE DEF job
<1>3. Becomes(n, "rollback", call[n].op, call[n].owns, call[n].made, job, call[n].install, call[n].failed)
  BY <1>2, JobBecomes
<1>4. files' \in [Names -> SUBSET VolumeFiles] /\ UNCHANGED <<files, kernel, staging>>
  BY DEF ProvInv, Stores, disk
<1>5. {} \in SUBSET DOMAIN RollbackOrder
  OBVIOUS
<1>6. Becomes(n, "rollback", call[n].op, call[n].owns, call[n].made, call[n].owns \cup {}, call[n].install,
              call[n].failed)
  BY <1>1, <1>3
<1> QED BY <1>4, <1>5, <1>6, RollbackKeeps

(* A step that succeeds.                                                   *)
LEMMA CreationKeeps ==
    ASSUME ProvInv, NEW n \in Names, NEW l \in Creating \ {"rollback"}, NEW owns, NEW made,
           pc[n] \in Creating \ {"rollback"}, faults' \in 0..ProvBudget,
           owns \subseteq DOMAIN RollbackOrder, made \subseteq owns \cup {"tap"},
           l \in {"resolve", "claim"} => owns = {},
           pc[n] = "resolve" => KernelOf[n] \in registered,
           Becomes(n, l, call[n].op, owns, made, call[n].job, call[n].install, call[n].failed),
           row' \in [Names -> SUBSET Rows], \A m \in Names \ {n} : row'[m] = row[m],
           files' \in [Names -> SUBSET VolumeFiles], \A m \in Names \ {n} : files'[m] = files[m],
           tap' \subseteq Names, \A m \in Names \ {n} : m \in tap' <=> m \in tap,
           RowsKnown(n)', VolumeKnown(n)', UNCHANGED <<registered, journal, kernel, staging>>
    PROVE  Keeps(n)
<1>1. Own(n)
  BY DEF ProvInv
<1>2. Others(n) /\ Stores'
  BY DEF Others, Becomes, ProvInv, Stores
<1>3. Flow(n)'
  BY <1>1 DEF Becomes, Own, Flow, Creating, Entering, Restoring, Deleting, Filling
<1>4. "create" \in ProvOps[n]
  BY <1>1, NoneAssumption DEF Own, Flow
<1>5. JournalKnown(n)' /\ LeftoverKnown(n)'
  BY <1>1, <1>4 DEF Becomes, Own, JournalKnown, LeftoverKnown, Restoring, Filling, Creating
<1>6. Made(n)'
  BY <1>1 DEF Becomes, Own, Made, Creating
<1>7. Vouches(n) => Vouches(n)'
  BY DEF Becomes, Vouches, Pending, Creating
<1>8. KernelsKept => KernelKept(n)'
  BY DEF Becomes, KernelsKept, KernelKept, Creating, Restoring, Filling
<1> QED BY <1>2, <1>3, <1>5, <1>6, <1>7, <1>8, QuietKeeps DEF Own

LEMMA QuietReturn ==
    ASSUME ProvInv, NEW n \in Names, NEW result, Return(n, result), faults' \in 0..ProvBudget,
           UNCHANGED <<inventory, disk, tap>>
    PROVE  Keeps(n)
<1>1. files' = files /\ kernel' = kernel /\ staging' = staging /\ files \in [Names -> SUBSET VolumeFiles]
  BY DEF disk, ProvInv, Stores
<1> QED BY <1>1, ReturnKeeps

LEMMA InvokeCreateKeeps ==
    ASSUME ProvInv, NEW n \in Names, InvokeCreate(n)
    PROVE  Keeps(n)
<1>1. pc[n] = "idle" /\ "create" \in ProvOps[n] /\ UNCHANGED <<inventory, disk, tap, faults>>
  BY DEF InvokeCreate, At
<1>2. Becomes(n, "resolve", "create", {}, {}, {}, FALSE, FALSE)
  BY EnterBecomes DEF InvokeCreate, ProvLabels
<1>3. Own(n)
  BY DEF ProvInv
<1>4. Others(n) /\ Stores'
  BY <1>1, <1>2 DEF Others, Becomes, ProvInv, Stores, inventory, disk
<1>5. Flow(n)'
  BY <1>1, <1>2 DEF Becomes, Flow, Creating, Entering, Restoring, Deleting, Filling
<1>6. RowsKnown(n)' /\ VolumeKnown(n)'
  BY <1>1, <1>2, <1>3 DEF Becomes, Own, RowsKnown, VolumeKnown, Restoring, Filling, Saving, inventory
<1>7. JournalKnown(n)' /\ LeftoverKnown(n)'
  BY <1>1, <1>2, <1>3 DEF Becomes, Own, JournalKnown, LeftoverKnown, Restoring, Filling, inventory
<1>8. Made(n)'
  BY <1>2 DEF Becomes, Made
<1>9. Vouches(n) => Vouches(n)'
  BY <1>1, <1>2 DEF Becomes, Vouches, Pending, inventory
<1>10. KernelsKept => KernelKept(n)'
  BY <1>1, <1>2 DEF Becomes, KernelsKept, KernelKept, Complete, Restoring, Filling, inventory
<1> QED BY <1>1, <1>4, <1>5, <1>6, <1>7, <1>8, <1>9, <1>10, QuietKeeps DEF Own, inventory, disk

LEMMA ResolveCreationKeeps ==
    ASSUME ProvInv, NEW n \in Names, ResolveCreation(n)
    PROVE  Keeps(n)
<1>1. pc[n] = "resolve" /\ UNCHANGED <<inventory, disk, tap>>
  BY DEF ResolveCreation, At
<1>2. faults' \in 0..ProvBudget
  BY CountedFaults DEF ResolveCreation, Forced
<1>3. CASE \E result : Return(n, result)
  BY <1>1, <1>2, <1>3, QuietReturn
<1>4. CASE /\ row[n] = {} /\ KernelOf[n] \in registered /\ files[n] \subseteq {"dir"}
           /\ Step(n, "claim", {})
  <2> DEFINE owns == call[n].owns \cup {}
             made == call[n].made \cup {}
  <2>1. Becomes(n, "claim", call[n].op, owns, made, call[n].job, call[n].install, call[n].failed)
    BY <1>4, StepBecomes DEF ProvLabels
  <2>2. RowsKnown(n)' /\ VolumeKnown(n)'
    BY <1>1, <1>4, <2>1 DEF Becomes, RowsKnown, VolumeKnown, Restoring, Filling, Saving, inventory, disk
  <2>3. row \in [Names -> SUBSET Rows] /\ files \in [Names -> SUBSET VolumeFiles] /\ tap \subseteq Names
    BY DEF ProvInv, Stores
  <2>4. /\ "claim" \in Creating \ {"rollback"} /\ pc[n] \in Creating \ {"rollback"}
        /\ owns = {} /\ made \subseteq owns \cup {"tap"} /\ owns \subseteq DOMAIN RollbackOrder
    BY <1>1 DEF ProvInv, Own, Flow, Made, Creating
  <2> HIDE DEF owns, made
  <2> QED BY <1>1, <1>2, <1>4, <2>1, <2>2, <2>3, <2>4, CreationKeeps DEF inventory, disk
<1> QED BY <1>3, <1>4 DEF ResolveCreation

LEMMA ClaimNameKeeps ==
    ASSUME ProvInv, NEW n \in Names, ClaimName(n)
    PROVE  Keeps(n)
<1>1. pc[n] = "claim" /\ UNCHANGED <<registered, journal, disk, tap>>
  BY DEF ClaimName, At
<1>2. faults' \in 0..ProvBudget
  BY CountedFaults DEF ClaimName
<1>3. CASE UNCHANGED row /\ Return(n, "failed")
  BY <1>1, <1>2, <1>3, QuietReturn DEF inventory
<1>4. CASE row' = [row EXCEPT ![n] = {"vm"}] /\ Step(n, "volume", {"row"})
  <2> DEFINE owns == call[n].owns \cup {"row"}
             made == call[n].made \cup {"row"}
  <2>1. Becomes(n, "volume", call[n].op, owns, made, call[n].job, call[n].install, call[n].failed)
    BY <1>4, StepBecomes DEF ProvLabels
  <2>2. /\ row' \in [Names -> SUBSET Rows] /\ row'[n] = {"vm"} /\ \A m \in Names \ {n} : row'[m] = row[m]
        /\ files \in [Names -> SUBSET VolumeFiles] /\ tap \subseteq Names
    BY <1>4 DEF ProvInv, Stores, Rows
  <2>3. RowsKnown(n)' /\ VolumeKnown(n)'
    BY <1>1, <2>1, <2>2 DEF Becomes, ProvInv, Own, RowsKnown, VolumeKnown, Restoring, Filling, Saving, disk
  <2>4. /\ "volume" \in Creating \ {"rollback", "resolve", "claim"} /\ pc[n] \in Creating \ {"rollback", "resolve"}
        /\ owns \subseteq DOMAIN RollbackOrder
        /\ made \subseteq owns \cup {"tap"}
    BY <1>1 DEF ProvInv, Own, Flow, Made, Creating, RollbackOrder
  <2>5. /\ row' \in [Names -> SUBSET Rows] /\ \A m \in Names \ {n} : row'[m] = row[m]
        /\ files' \in [Names -> SUBSET VolumeFiles] /\ \A m \in Names \ {n} : files'[m] = files[m]
        /\ tap' \subseteq Names /\ \A m \in Names \ {n} : m \in tap' <=> m \in tap
        /\ UNCHANGED <<registered, journal, kernel, staging>>
    BY <1>1, <2>2 DEF disk
  <2> HIDE DEF owns, made
  <2> QED BY <1>2, <2>1, <2>3, <2>4, <2>5, CreationKeeps
<1> QED BY <1>3, <1>4 DEF ClaimName

LEMMA PrepareVolumeKeeps ==
    ASSUME ProvInv, NEW n \in Names, PrepareVolume(n)
    PROVE  Keeps(n)
<1>1. pc[n] = "volume" /\ UNCHANGED <<inventory, kernel, staging, tap>>
  BY DEF PrepareVolume, At
<1>2. faults' \in 0..ProvBudget
  BY CountedFaults DEF PrepareVolume
<1>3. CASE UNCHANGED files /\ Rollback(n)
  BY <1>1, <1>2, <1>3, RollbackStep DEF disk, Creating
<1>4. CASE /\ files' = [files EXCEPT ![n] = {"dir", "rootfs"}]
           /\ Step(n, "keys", {"rootfs"} \cup ({"dir"} \ files[n]))
  <2> DEFINE owned == {"rootfs"} \cup ({"dir"} \ files[n])
  <2>0. owned \subseteq DOMAIN RollbackOrder
    BY DEF RollbackOrder
  <2> HIDE DEF owned
  <2> DEFINE owns == call[n].owns \cup owned
             made == call[n].made \cup owned
  <2>1. Becomes(n, "keys", call[n].op, owns, made, call[n].job, call[n].install, call[n].failed)
    BY <1>4, StepBecomes DEF ProvLabels, owned
  <2>2. /\ row \in [Names -> SUBSET Rows] /\ tap \subseteq Names /\ files'[n] = {"dir", "rootfs"}
        /\ files' \in [Names -> SUBSET VolumeFiles] /\ \A m \in Names \ {n} : files'[m] = files[m]
    BY <1>4 DEF ProvInv, Stores, VolumeFiles
  <2>3. RowsKnown(n)' /\ VolumeKnown(n)'
    BY <1>1, <2>1, <2>2 DEF Becomes, ProvInv, Own, RowsKnown, VolumeKnown, Restoring, Filling, Saving, inventory
  <2>4. /\ "keys" \in Creating \ {"rollback", "resolve", "claim"} /\ pc[n] \in Creating \ {"rollback", "resolve"}
        /\ owns \subseteq DOMAIN RollbackOrder
        /\ made \subseteq owns \cup {"tap"}
    BY <1>1, <2>0 DEF ProvInv, Own, Flow, Made, Creating, RollbackOrder
  <2>5. /\ row' \in [Names -> SUBSET Rows] /\ \A m \in Names \ {n} : row'[m] = row[m]
        /\ files' \in [Names -> SUBSET VolumeFiles] /\ \A m \in Names \ {n} : files'[m] = files[m]
        /\ tap' \subseteq Names /\ \A m \in Names \ {n} : m \in tap' <=> m \in tap
        /\ UNCHANGED <<registered, journal, kernel, staging>>
    BY <1>1, <2>2 DEF inventory
  <2> HIDE DEF owns, made
  <2> QED BY <1>2, <2>1, <2>3, <2>4, <2>5, CreationKeeps
<1> QED BY <1>3, <1>4 DEF PrepareVolume

LEMMA GenerateKeysKeeps ==
    ASSUME ProvInv, NEW n \in Names, GenerateKeys(n)
    PROVE  Keeps(n)
<1>1. pc[n] = "keys" /\ UNCHANGED <<inventory, kernel, staging, tap>>
  BY DEF GenerateKeys, At
<1>2. faults' \in 0..ProvBudget
  BY CountedFaults DEF GenerateKeys
<1>3. ASSUME NEW made \in {{}, {"ssh"}}, files' = [files EXCEPT ![n] = @ \cup made], Goto(n, "rollback"),
             Set(n, [call[n] EXCEPT !.job = (call[n].owns \cup {"ssh"}) \cap DOMAIN RollbackOrder])
      PROVE  Keeps(n)
  <2> DEFINE job == (call[n].owns \cup {"ssh"}) \cap DOMAIN RollbackOrder
  <2>1. job = call[n].owns \cup {"ssh"} /\ {"ssh"} \in SUBSET DOMAIN RollbackOrder
    BY <1>1 DEF ProvInv, Own, Flow, Creating, RollbackOrder
  <2>2. Set(n, [call[n] EXCEPT !.job = job]) /\ "rollback" \in ProvLabels
    BY <1>3 DEF ProvLabels
  <2> HIDE DEF job
  <2>3. Becomes(n, "rollback", call[n].op, call[n].owns, call[n].made, job, call[n].install, call[n].failed)
    BY <1>3, <2>2, JobBecomes
  <2>4. files' \in [Names -> SUBSET VolumeFiles] /\ \A m \in Names \ {n} : files'[m] = files[m]
    BY <1>3 DEF ProvInv, Stores, VolumeFiles
  <2> QED BY <1>1, <1>2, <2>1, <2>3, <2>4, RollbackKeeps DEF Creating
<1>4. CASE files' = [files EXCEPT ![n] = @ \cup {"ssh", "keys"}] /\ Step(n, "inject", {"ssh", "keys"})
  <2> DEFINE owns == call[n].owns \cup {"ssh", "keys"}
             made == call[n].made \cup {"ssh", "keys"}
  <2>1. Becomes(n, "inject", call[n].op, owns, made, call[n].job, call[n].install, call[n].failed)
    BY <1>4, StepBecomes DEF ProvLabels
  <2>2. /\ row \in [Names -> SUBSET Rows] /\ tap \subseteq Names /\ files'[n] = VolumeFiles
        /\ files' \in [Names -> SUBSET VolumeFiles] /\ \A m \in Names \ {n} : files'[m] = files[m]
    BY <1>1, <1>4 DEF ProvInv, Stores, VolumeFiles, Own, VolumeKnown
  <2>3. RowsKnown(n)' /\ VolumeKnown(n)'
    BY <1>1, <2>1, <2>2 DEF Becomes, ProvInv, Own, RowsKnown, VolumeKnown, Restoring, Filling, Saving, inventory
  <2>4. /\ "inject" \in Creating \ {"rollback", "resolve", "claim"} /\ pc[n] \in Creating \ {"rollback", "resolve"}
        /\ owns \subseteq DOMAIN RollbackOrder
        /\ made \subseteq owns \cup {"tap"}
    BY <1>1 DEF ProvInv, Own, Flow, Made, Creating, RollbackOrder
  <2>5. /\ row' \in [Names -> SUBSET Rows] /\ \A m \in Names \ {n} : row'[m] = row[m]
        /\ files' \in [Names -> SUBSET VolumeFiles] /\ \A m \in Names \ {n} : files'[m] = files[m]
        /\ tap' \subseteq Names /\ \A m \in Names \ {n} : m \in tap' <=> m \in tap
        /\ UNCHANGED <<registered, journal, kernel, staging>>
    BY <1>1, <2>2 DEF inventory
  <2> HIDE DEF owns, made
  <2> QED BY <1>2, <2>1, <2>3, <2>4, <2>5, CreationKeeps
<1> QED BY <1>3, <1>4 DEF GenerateKeys

LEMMA InjectKeyKeeps ==
    ASSUME ProvInv, NEW n \in Names, InjectKey(n)
    PROVE  Keeps(n)
<1>1. pc[n] = "inject" /\ UNCHANGED <<inventory, disk, tap>>
  BY DEF InjectKey, At
<1>2. faults' \in 0..ProvBudget
  BY CountedFaults DEF InjectKey
<1>3. CASE Rollback(n)
  BY <1>1, <1>2, <1>3, RollbackStep DEF Creating
<1>4. CASE Step(n, "network", {})
  <2> DEFINE owns == call[n].owns \cup {}
             made == call[n].made \cup {}
  <2>1. Becomes(n, "network", call[n].op, owns, made, call[n].job, call[n].install, call[n].failed)
    BY <1>4, StepBecomes DEF ProvLabels
  <2>2. row \in [Names -> SUBSET Rows] /\ files \in [Names -> SUBSET VolumeFiles] /\ tap \subseteq Names
    BY DEF ProvInv, Stores
  <2>3. RowsKnown(n)' /\ VolumeKnown(n)'
    BY <1>1, <2>1 DEF Becomes, ProvInv, Own, RowsKnown, VolumeKnown, Restoring, Filling, Saving, inventory, disk
  <2>4. /\ "network" \in Creating \ {"rollback", "resolve", "claim"} /\ pc[n] \in Creating \ {"rollback", "resolve"}
        /\ owns \subseteq DOMAIN RollbackOrder
        /\ made \subseteq owns \cup {"tap"}
    BY <1>1 DEF ProvInv, Own, Flow, Made, Creating, RollbackOrder
  <2>5. /\ row' \in [Names -> SUBSET Rows] /\ \A m \in Names \ {n} : row'[m] = row[m]
        /\ files' \in [Names -> SUBSET VolumeFiles] /\ \A m \in Names \ {n} : files'[m] = files[m]
        /\ tap' \subseteq Names /\ \A m \in Names \ {n} : m \in tap' <=> m \in tap
        /\ UNCHANGED <<registered, journal, kernel, staging>>
    BY <1>1, <2>2 DEF inventory, disk
  <2> HIDE DEF owns, made
  <2> QED BY <1>2, <2>1, <2>3, <2>4, <2>5, CreationKeeps
<1> QED BY <1>3, <1>4 DEF InjectKey

LEMMA ConfigureNetworkKeeps ==
    ASSUME ProvInv, NEW n \in Names, ConfigureNetwork(n)
    PROVE  Keeps(n)
<1>1. pc[n] = "network" /\ UNCHANGED <<inventory, disk>>
  BY DEF ConfigureNetwork, At
<1>2. faults' \in 0..ProvBudget
  BY CountedFaults DEF ConfigureNetwork, Forced
<1>3. CASE UNCHANGED tap /\ Rollback(n)
  BY <1>1, <1>2, <1>3, RollbackStep DEF Creating
<1>4. CASE tap' = tap \cup {n} /\ Unnoted(n, "guest", {"tap"})
  <2> DEFINE owns == call[n].owns \cup {}
             made == call[n].made \cup {"tap"}
  <2>1. Becomes(n, "guest", call[n].op, owns, made, call[n].job, call[n].install, call[n].failed)
    BY <1>4, UnnotedBecomes DEF ProvLabels
  <2>2. /\ row \in [Names -> SUBSET Rows] /\ files \in [Names -> SUBSET VolumeFiles]
        /\ tap' \subseteq Names /\ n \in tap' /\ \A m \in Names \ {n} : m \in tap' <=> m \in tap
    BY <1>4 DEF ProvInv, Stores
  <2>3. RowsKnown(n)' /\ VolumeKnown(n)'
    BY <1>1, <2>1, <2>2 DEF Becomes, ProvInv, Own, RowsKnown, VolumeKnown, Restoring, Filling, Saving,
       inventory, disk
  <2>4. /\ "guest" \in Creating \ {"rollback", "resolve", "claim"} /\ pc[n] \in Creating \ {"rollback", "resolve"}
        /\ owns \subseteq DOMAIN RollbackOrder
        /\ made \subseteq owns \cup {"tap"}
    BY <1>1 DEF ProvInv, Own, Flow, Made, Creating, RollbackOrder
  <2>5. /\ row' \in [Names -> SUBSET Rows] /\ \A m \in Names \ {n} : row'[m] = row[m]
        /\ files' \in [Names -> SUBSET VolumeFiles] /\ \A m \in Names \ {n} : files'[m] = files[m]
        /\ tap' \subseteq Names /\ \A m \in Names \ {n} : m \in tap' <=> m \in tap
        /\ UNCHANGED <<registered, journal, kernel, staging>>
    BY <1>1, <2>2 DEF inventory, disk
  <2> HIDE DEF owns, made
  <2> QED BY <1>2, <2>1, <2>3, <2>4, <2>5, CreationKeeps
<1> QED BY <1>3, <1>4 DEF ConfigureNetwork

LEMMA ConfigureGuestKeeps ==
    ASSUME ProvInv, NEW n \in Names, ConfigureGuest(n)
    PROVE  Keeps(n)
<1>1. pc[n] = "guest" /\ UNCHANGED <<inventory, disk, tap>>
  BY DEF ConfigureGuest, At
<1>2. faults' \in 0..ProvBudget
  BY CountedFaults DEF ConfigureGuest
<1>3. CASE Rollback(n)
  BY <1>1, <1>2, <1>3, RollbackStep DEF Creating
<1>4. CASE Step(n, "save_network", {"tap"})
  <2> DEFINE owns == call[n].owns \cup {"tap"}
             made == call[n].made \cup {"tap"}
  <2>1. Becomes(n, "save_network", call[n].op, owns, made, call[n].job, call[n].install, call[n].failed)
    BY <1>4, StepBecomes DEF ProvLabels
  <2>2. row \in [Names -> SUBSET Rows] /\ files \in [Names -> SUBSET VolumeFiles] /\ tap \subseteq Names
    BY DEF ProvInv, Stores
  <2>3. RowsKnown(n)' /\ VolumeKnown(n)'
    BY <1>1, <2>1 DEF Becomes, ProvInv, Own, RowsKnown, VolumeKnown, Restoring, Filling, Saving, inventory, disk
  <2>4. /\ "save_network" \in Creating \ {"rollback", "resolve", "claim"} /\ pc[n] \in Creating \ {"rollback", "resolve"}
        /\ owns \subseteq DOMAIN RollbackOrder
        /\ made \subseteq owns \cup {"tap"}
    BY <1>1 DEF ProvInv, Own, Flow, Made, Creating, RollbackOrder
  <2>5. /\ row' \in [Names -> SUBSET Rows] /\ \A m \in Names \ {n} : row'[m] = row[m]
        /\ files' \in [Names -> SUBSET VolumeFiles] /\ \A m \in Names \ {n} : files'[m] = files[m]
        /\ tap' \subseteq Names /\ \A m \in Names \ {n} : m \in tap' <=> m \in tap
        /\ UNCHANGED <<registered, journal, kernel, staging>>
    BY <1>1, <2>2 DEF inventory, disk
  <2> HIDE DEF owns, made
  <2> QED BY <1>2, <2>1, <2>3, <2>4, <2>5, CreationKeeps
<1> QED BY <1>3, <1>4 DEF ConfigureGuest

LEMMA SaveRowKeeps ==
    ASSUME ProvInv, NEW n \in Names,
           \/ SaveRow(n, "save_network", "network", "save_credential")
           \/ SaveRow(n, "save_credential", "credential", "runtime")
    PROVE  Keeps(n)
<1>1. /\ UNCHANGED <<registered, journal, disk, tap>>
      /\ \/ UNCHANGED row /\ Rollback(n)
         \/ row' = [row EXCEPT ![n] = @ \cup {"network"}] /\ Step(n, "save_credential", {}) /\ pc[n] = "save_network"
         \/ row' = [row EXCEPT ![n] = @ \cup {"credential"}] /\ Step(n, "runtime", {}) /\ pc[n] = "save_credential"
  BY DEF SaveRow, At
<1>2. pc[n] \in {"save_network", "save_credential"}
  BY DEF SaveRow, At
<1>3. faults' \in 0..ProvBudget
  BY CountedFaults DEF SaveRow
<1>4. CASE UNCHANGED row /\ Rollback(n)
  BY <1>1, <1>2, <1>3, <1>4, RollbackStep DEF inventory, Creating
<1>5. ASSUME NEW l \in {"save_credential", "runtime"}, NEW part \in Rows,
             row' = [row EXCEPT ![n] = @ \cup {part}], Step(n, l, {}),
             \/ pc[n] = "save_network" /\ l = "save_credential" /\ part = "network"
             \/ pc[n] = "save_credential" /\ l = "runtime" /\ part = "credential"
      PROVE  Keeps(n)
  <2> DEFINE owns == call[n].owns \cup {}
             made == call[n].made \cup {}
  <2>1. Becomes(n, l, call[n].op, owns, made, call[n].job, call[n].install, call[n].failed)
    BY <1>5, StepBecomes DEF ProvLabels
  <2>2. /\ row' \in [Names -> SUBSET Rows] /\ row'[n] = row[n] \cup {part}
        /\ \A m \in Names \ {n} : row'[m] = row[m]
        /\ files \in [Names -> SUBSET VolumeFiles] /\ tap \subseteq Names
    BY <1>5 DEF ProvInv, Stores
  <2>3. RowsKnown(n)'
    BY <1>5, <2>1, <2>2 DEF Becomes, ProvInv, Own, RowsKnown, Restoring, Filling
  <2>4. VolumeKnown(n)'
    BY <1>1, <1>5, <2>1 DEF Becomes, ProvInv, Own, VolumeKnown, Filling, Saving, disk
  <2>5. /\ l \in Creating \ {"rollback", "resolve", "claim"} /\ pc[n] \in Creating \ {"rollback", "resolve"}
        /\ owns \subseteq DOMAIN RollbackOrder /\ made \subseteq owns \cup {"tap"}
    BY <1>2, <1>5 DEF ProvInv, Own, Flow, Made, Creating
  <2> HIDE DEF owns, made
  <2> QED BY <1>1, <1>3, <2>1, <2>2, <2>3, <2>4, <2>5, CreationKeeps DEF disk
<1> QED BY <1>1, <1>4, <1>5 DEF Rows

(* The runtime's row makes the machine complete.                           *)
LEMMA SaveRuntimeKeeps ==
    ASSUME ProvInv, NEW n \in Names, SaveRow(n, "runtime", "runtime", "idle")
    PROVE  Keeps(n)
<1>1. pc[n] = "runtime" /\ UNCHANGED <<registered, journal, disk, tap>>
  BY DEF SaveRow, At
<1>2. faults' \in 0..ProvBudget
  BY CountedFaults DEF SaveRow
<1>3. CASE UNCHANGED row /\ Rollback(n)
  BY <1>1, <1>2, <1>3, RollbackStep DEF inventory, Creating
<1>4. CASE row' = [row EXCEPT ![n] = @ \cup {"runtime"}] /\ Return(n, "done")
  <2>1. Becomes(n, "idle", None, {}, {}, {}, FALSE, FALSE)
    BY <1>4, ReturnBecomes
  <2>2. /\ row' \in [Names -> SUBSET Rows] /\ row'[n] = row[n] \cup {"runtime"}
        /\ \A m \in Names \ {n} : row'[m] = row[m]
    BY <1>4 DEF ProvInv, Stores, Rows
  <2>3. Own(n) /\ "create" \in ProvOps[n]
    BY <1>1, NoneAssumption DEF ProvInv, Own, Flow, Creating
  <2>4. Others(n) /\ Stores'
    BY <1>1, <1>2, <2>1, <2>2 DEF Others, Becomes, ProvInv, Stores, disk
  <2>5. Flow(n)'
    BY <2>1 DEF Becomes, Flow, Creating, Entering, Restoring, Deleting, Filling
  <2>6. RowsKnown(n)'
    BY <1>1, <2>1, <2>2, <2>3 DEF Becomes, Own, RowsKnown, Restoring, Filling
  <2>7. VolumeKnown(n)'
    BY <2>1 DEF Becomes, VolumeKnown, Saving, Filling
  <2>8. JournalKnown(n)' /\ LeftoverKnown(n)'
    BY <1>1, <2>1, <2>3 DEF Becomes, Own, JournalKnown, LeftoverKnown, Restoring, Filling
  <2>9. Made(n)'
    BY <2>1 DEF Becomes, Made
  <2>10. Vouches(n) => Vouches(n)'
    BY <1>1, <2>1 DEF Becomes, Vouches, Pending
  <2>11. KernelsKept => KernelKept(n)'
    BY <1>1, <2>1 DEF Becomes, KernelsKept, KernelKept, Creating, Restoring, Filling
  <2> QED BY <1>1, <2>4, <2>5, <2>6, <2>7, <2>8, <2>9, <2>10, <2>11, QuietKeeps DEF Own, disk
<1> QED BY <1>3, <1>4 DEF SaveRow

LEMMA DropCreationKeeps ==
    ASSUME ProvInv, NEW n \in Names, DropCreation(n)
    PROVE  Keeps(n)
<1>1. faults' \in 0..ProvBudget
  BY CountedFaults DEF DropCreation
<1> QED BY <1>1, QuietReturn DEF DropCreation

LEMMA UndoneKeeps ==
    ASSUME ProvInv, NEW n \in Names, NEW label, Undone(n, label)
    PROVE  Keeps(n)
<1>1. faults' \in 0..ProvBudget
  BY CountedFaults DEF Undone
<1> QED BY <1>1, QuietReturn DEF Undone

-----------------------------------------------------------------------------
(* Removing things.                                                        *)

(* What is removed is gone, and only that.                                 *)
Removed(n, r) ==
    /\ row' \in [Names -> SUBSET Rows] /\ row'[n] = (IF r = "row" THEN {} ELSE row[n])
    /\ files' \in [Names -> SUBSET VolumeFiles] /\ files'[n] \subseteq files[n]
    /\ r \notin VolumeFiles => files'[n] = files[n]
    /\ r = "dir" => files'[n] = {}
    /\ tap' \subseteq Names /\ (n \in tap' <=> n \in tap /\ r # "tap")
    /\ staging' \subseteq Names /\ (n \in staging' <=> n \in staging /\ r # "staging")
    /\ kernel' \in [Kernels -> {"partial", "good", None}]
    /\ r # "kernel" => kernel' = kernel
    /\ r = "kernel" => kernel'[KernelOf[n]] = None
    /\ \A k \in Kernels \ {KernelOf[n]} : kernel'[k] = kernel[k]
    /\ registered' = registered
    /\ journal' \in [Names -> Journals \cup {None}]
    /\ journal'[n] = (IF r = "journal" THEN None ELSE journal[n])
    /\ \A m \in Names \ {n} :
         /\ row'[m] = row[m] /\ files'[m] = files[m] /\ journal'[m] = journal[m]
         /\ (m \in tap' <=> m \in tap) /\ (m \in staging' <=> m \in staging)

LEMMA RemoveRemoves ==
    ASSUME ProvInv, NEW n \in Names, NEW r, Remove(n, r)
    PROVE  Removed(n, r) /\ There(n)' \subseteq There(n) \ {r}
<1>1. Stores /\ KernelOf[n] \in Kernels
  BY KernelOfAssumption DEF ProvInv
<1>2. CASE r \in VolumeFiles /\ RemoveFile(n, r)
  <2>1. /\ files' \in [Names -> SUBSET VolumeFiles] /\ files'[n] \subseteq files[n] \ {r}
        /\ (r = "dir" => files'[n] = {}) /\ \A m \in Names \ {n} : files'[m] = files[m]
    BY <1>1, <1>2 DEF Stores, RemoveFile
  <2>2. UNCHANGED <<row, tap, kernel, registered, journal, staging>>
    BY <1>2 DEF RemoveFile
  <2>3. r \notin {"row", "tap", "staging", "kernel", "journal"}
    BY <1>2 DEF VolumeFiles
  <2>4. Removed(n, r)
    BY <1>1, <1>2, <2>1, <2>2, <2>3 DEF Removed, Stores
  <2>5. There(n)' \subseteq There(n) \ {r}
    BY <2>1, <2>2, <2>3 DEF There
  <2> QED BY <2>4, <2>5
<1>3. CASE r \notin VolumeFiles
  <2>1. Removed(n, r)
    BY <1>1, <1>3 DEF Remove, Removed, Stores, inventory, disk
  <2>2. There(n)' \subseteq There(n) \ {r}
    BY <1>1, <1>3, <2>1 DEF Remove, Removed, There, Stores, inventory, disk, VolumeFiles
  <2> QED BY <2>1, <2>2
<1> QED BY <1>2, <1>3 DEF Remove, VolumeFiles

(* A removal that fails removes at most a part of a volume.                *)
LEMMA FailureKeepsRest ==
    ASSUME ProvInv, NEW n \in Names, NEW r, RemovalFails(n, r)
    PROVE  /\ files' \in [Names -> SUBSET VolumeFiles] /\ files'[n] \subseteq files[n]
           /\ \A m \in Names \ {n} : files'[m] = files[m]
           /\ UNCHANGED <<inventory, tap, kernel, staging>> /\ faults' \in 0..ProvBudget
<1>1. files \in [Names -> SUBSET VolumeFiles]
  BY DEF ProvInv, Stores
<1>2. faults' \in 0..ProvBudget
  BY CountedFaults DEF RemovalFails, Forced
<1>3. CASE UNCHANGED files
  BY <1>1, <1>2, <1>3 DEF RemovalFails
<1>4. CASE \E kept \in SUBSET files[n] : files' = [files EXCEPT ![n] = kept]
  BY <1>1, <1>2, <1>4 DEF RemovalFails
<1> QED BY <1>3, <1>4 DEF RemovalFails

(* One removal of a rollback.                                              *)
LEMMA RollbackUndoKeeps ==
    ASSUME ProvInv, NEW n \in Names, UndoNext(n, "rollback")
    PROVE  Keeps(n)
<1>1. pc[n] = "rollback" /\ Own(n)
  BY DEF UndoNext, At, ProvInv
<1>2. call[n].op = "create" /\ "create" \in ProvOps[n] /\ call[n].job \subseteq DOMAIN RollbackOrder
  BY <1>1, NoneAssumption DEF Own, Flow, Creating
<1>3. PICK r \in Ownable :
        /\ r \in call[n].job
        /\ \/ /\ Remove(n, r) /\ Set(n, [call[n] EXCEPT !.job = @ \ {r}]) /\ UNCHANGED <<pc, faults>>
           \/ /\ RemovalFails(n, r) /\ UNCHANGED pc
              /\ Set(n, [[call[n] EXCEPT !.job = @ \ {r}] EXCEPT !.failed = TRUE])
  <2>1. "journal" \notin call[n].job
    BY <1>2 DEF RollbackOrder
  <2> QED BY <2>1 DEF UndoNext, First
<1> DEFINE job == call[n].job \ {r}
<1>4. PICK failed \in BOOLEAN :
        /\ Becomes(n, "rollback", call[n].op, call[n].owns, call[n].made, job, call[n].install, failed)
        /\ \/ failed = call[n].failed /\ Remove(n, r) /\ UNCHANGED faults
           \/ failed = TRUE /\ RemovalFails(n, r)
  <2>1. call[n].failed \in BOOLEAN /\ pc[n] = "rollback" /\ "rollback" \in ProvLabels
    BY <1>1 DEF Own, Flow, ProvLabels
  <2>2. CASE Remove(n, r) /\ Set(n, [call[n] EXCEPT !.job = job]) /\ UNCHANGED <<pc, faults>>
    <3> HIDE DEF job
    <3> QED BY <2>1, <2>2, JobBecomes
  <2>3. CASE RemovalFails(n, r) /\ UNCHANGED pc /\ Set(n, [[call[n] EXCEPT !.job = job] EXCEPT !.failed = TRUE])
    <3> HIDE DEF job
    <3> QED BY <2>1, <2>3, JobBecomes
  <2> QED BY <1>3, <2>2, <2>3
<1>5. faults' \in 0..ProvBudget
  BY <1>4, CountedFaults, FailureKeepsRest
<1>6. r \in DOMAIN RollbackOrder /\ r \notin {"kernel", "journal", "staging"}
  BY <1>2, <1>3 DEF RollbackOrder
<1>7. /\ row' \in [Names -> SUBSET Rows] /\ row'[n] \in {row[n], {}}
      /\ files' \in [Names -> SUBSET VolumeFiles] /\ tap' \subseteq Names
      /\ \A m \in Names \ {n} : row'[m] = row[m] /\ files'[m] = files[m] /\ (m \in tap' <=> m \in tap)
      /\ UNCHANGED <<registered, journal, kernel>>
      /\ staging' \subseteq Names /\ \A m \in Names : m \in staging' <=> m \in staging
  <2>1. CASE Remove(n, r)
    <3>1. Removed(n, r)
      BY <2>1, RemoveRemoves
    <3>2. journal' = journal
      BY <1>6, <2>1 DEF Remove, RemoveFile, inventory, VolumeFiles
    <3> QED BY <1>6, <3>1, <3>2 DEF Removed
  <2>2. CASE RemovalFails(n, r)
    BY <2>2, FailureKeepsRest DEF inventory, ProvInv, Stores
  <2> QED BY <1>4, <2>1, <2>2
<1>8. failed \/ (~call[n].failed /\ There(n)' \subseteq There(n) \ {r})
  BY <1>1, <1>4, RemoveRemoves DEF Own, Flow
<1>9. Others(n) /\ Stores'
  BY <1>4, <1>5, <1>7 DEF Others, Becomes, ProvInv, Stores
<1>10. Flow(n)'
  BY <1>1, <1>4 DEF Becomes, Own, Flow, Creating, Entering, Restoring, Deleting, Filling
<1>11. RowsKnown(n)'
  BY <1>1, <1>4, <1>7 DEF Becomes, Own, RowsKnown, Restoring, Filling
<1>12. VolumeKnown(n)'
  BY <1>4 DEF Becomes, VolumeKnown, Saving, Filling
<1>13. JournalKnown(n)' /\ LeftoverKnown(n)'
  BY <1>1, <1>2, <1>4, <1>7 DEF Becomes, Own, JournalKnown, LeftoverKnown, Restoring, Filling
<1>14. Made(n)'
  BY <1>1, <1>4, <1>8 DEF Becomes, Own, Made, Creating
<1>15. Vouches(n) => Vouches(n)'
  BY <1>4, <1>7 DEF Becomes, Vouches, Pending
<1>16. ~Complete(n)'
  BY <1>1, <1>7 DEF Own, RowsKnown, Complete, Rows
<1>17. KernelsKept => KernelKept(n)'
  BY <1>4, <1>7, <1>16 DEF Becomes, KernelsKept, KernelKept, Restoring, Filling
<1> QED BY <1>7, <1>9, <1>10, <1>11, <1>12, <1>13, <1>14, <1>15, <1>17, QuietKeeps DEF Own

LEMMA CreateStepKeeps ==
    ASSUME ProvInv, NEW n \in Names, CreateStep(n)
    PROVE  Keeps(n)
BY ResolveCreationKeeps, ClaimNameKeeps, PrepareVolumeKeeps, GenerateKeysKeeps, InjectKeyKeeps,
   ConfigureNetworkKeeps, ConfigureGuestKeeps, SaveRowKeeps, SaveRuntimeKeeps, RollbackUndoKeeps, UndoneKeeps
   DEF CreateStep

-----------------------------------------------------------------------------
(* restore_snapshot.                                                       *)

LEMMA InvokeRestoreKeeps ==
    ASSUME ProvInv, NEW n \in Names, InvokeRestore(n)
    PROVE  Keeps(n)
<1>1. pc[n] = "idle" /\ "restore" \in ProvOps[n] /\ UNCHANGED <<inventory, disk, tap, faults>>
  BY DEF InvokeRestore, At
<1>2. Becomes(n, "stage", "restore", {}, {}, {}, FALSE, FALSE)
  BY EnterBecomes DEF InvokeRestore, ProvLabels
<1>3. Own(n)
  BY DEF ProvInv
<1>4. Others(n) /\ Stores'
  BY <1>1, <1>2 DEF Others, Becomes, ProvInv, Stores, inventory, disk
<1>5. Flow(n)'
  BY <1>1, <1>2 DEF Becomes, Flow, Creating, Entering, Restoring, Deleting, Filling
<1>6. RowsKnown(n)' /\ VolumeKnown(n)'
  BY <1>1, <1>2, <1>3 DEF Becomes, Own, RowsKnown, VolumeKnown, Restoring, Filling, Saving, inventory
<1>7. JournalKnown(n)'
  BY <1>1, <1>2, <1>3 DEF Becomes, Own, JournalKnown, Restoring, Filling, inventory
<1>8. LeftoverKnown(n)'
  BY <1>1, <1>2, <1>3 DEF Becomes, Own, LeftoverKnown, Pending, inventory, disk
<1>9. Made(n)'
  BY <1>2 DEF Becomes, Made
<1>10. Vouches(n) => Vouches(n)'
  BY <1>1, <1>2 DEF Becomes, Vouches, Pending, inventory
<1>11. KernelsKept => KernelKept(n)'
  BY <1>1, <1>2 DEF Becomes, KernelsKept, KernelKept, Complete, Creating, Restoring, Filling, inventory
<1> QED BY <1>1, <1>4, <1>5, <1>6, <1>7, <1>8, <1>9, <1>10, <1>11, QuietKeeps DEF Own, inventory, disk

(* A job is what the journal says.                                         *)
LEMMA ReconcileJobs ==
    ASSUME NEW j \in Journals \cup {None}
    PROVE  /\ ReconcileJob(j) \subseteq DOMAIN AbortOrder
           /\ IF j = None THEN ReconcileJob(j) = {} ELSE "journal" \in ReconcileJob(j)
           /\ j # None /\ j.volume => "dir" \in ReconcileJob(j)
           /\ "kernel" \in ReconcileJob(j) <=> j # None /\ j.kernel
<1>1. CASE j = None
  BY <1>1 DEF ReconcileJob
<1>2. CASE j # None
  BY <1>2 DEF ReconcileJob, Journalled, AbortOrder
<1> QED BY <1>1, <1>2

LEMMA StageArchiveKeeps ==
    ASSUME ProvInv, NEW n \in Names, StageArchive(n)
    PROVE  Keeps(n)
<1>1. pc[n] = "stage" /\ UNCHANGED <<inventory, disk, tap>> /\ journal[n] \in Journals \cup {None} /\ Own(n)
  BY DEF StageArchive, At, ProvInv, Stores
<1>2. faults' \in 0..ProvBudget
  BY CountedFaults DEF StageArchive
<1>3. CASE Return(n, "failed")
  BY <1>1, <1>2, <1>3, QuietReturn
<1>4. CASE Goto(n, "reconcile") /\ Set(n, [call[n] EXCEPT !.job = ReconcileJob(journal[n])])
  <2> DEFINE job == ReconcileJob(journal[n])
  <2>1. /\ job \subseteq DOMAIN AbortOrder
        /\ IF journal[n] = None THEN job = {} ELSE "journal" \in job
        /\ journal[n] # None /\ journal[n].volume => "dir" \in job
        /\ "kernel" \in job <=> journal[n] # None /\ journal[n].kernel
    BY <1>1, ReconcileJobs
  <2> HIDE DEF job
  <2>2. Becomes(n, "reconcile", call[n].op, call[n].owns, call[n].made, job, call[n].install, call[n].failed)
    BY <1>4, JobBecomes DEF ProvLabels, job
  <2>3. Others(n) /\ Stores'
    BY <1>1, <1>2, <2>2 DEF Others, Becomes, ProvInv, Stores, inventory, disk
  <2>4. Flow(n)'
    BY <1>1, <2>1, <2>2 DEF Becomes, Own, Flow, Creating, Entering, Restoring, Deleting, Filling
  <2>5. RowsKnown(n)' /\ VolumeKnown(n)'
    BY <1>1, <2>2 DEF Becomes, Own, RowsKnown, VolumeKnown, Restoring, Filling, Saving, inventory
  <2>6. JournalKnown(n)'
    BY <1>1, <2>1, <2>2 DEF Becomes, Own, JournalKnown, Restoring, Filling, inventory
  <2>7. LeftoverKnown(n)'
    BY <1>1, <2>1, <2>2 DEF Becomes, Own, LeftoverKnown, Pending, inventory, disk
  <2>8. Made(n)'
    BY <1>1, <2>2 DEF Becomes, Own, Made, Creating
  <2>9. Vouches(n) => Vouches(n)'
    BY <1>1, <2>1, <2>2 DEF Becomes, Vouches, Pending, inventory
  <2>10. KernelsKept => KernelKept(n)'
    BY <1>1, <2>1, <2>2 DEF Becomes, KernelsKept, KernelKept, Complete, Creating, Restoring, Filling, inventory
  <2> QED BY <1>1, <2>3, <2>4, <2>5, <2>6, <2>7, <2>8, <2>9, <2>10, QuietKeeps DEF Own, inventory, disk
<1> QED BY <1>3, <1>4 DEF StageArchive

(* The journal goes last: when its turn comes, nothing else is left.       *)
LEMMA JournalLast ==
    ASSUME NEW n \in Names, call[n].op # "create", call[n].job \subseteq DOMAIN AbortOrder, First(n, "journal")
    PROVE  call[n].job = {"journal"}
<1>1. /\ AbortOrder["tap"] = 1 /\ AbortOrder["dir"] = 2 /\ AbortOrder["kernel"] = 3
      /\ AbortOrder["staging"] = 4 /\ AbortOrder["journal"] = 5
      /\ DOMAIN AbortOrder = {"tap", "dir", "kernel", "staging", "journal"}
  BY DEF AbortOrder
<1>2. "journal" \in call[n].job /\ \A s \in call[n].job : AbortOrder["journal"] <= AbortOrder[s]
  BY DEF First, Earlier
<1>3. \A s \in call[n].job : s = "journal"
  BY <1>1, <1>2
<1> QED BY <1>2, <1>3

(* One removal, of a reconciliation or of an abort.                        *)
LEMMA RestoreRemovalKeeps ==
    ASSUME ProvInv, NEW n \in Names, pc[n] \in {"reconcile", "abort"}, NEW r, First(n, r), Remove(n, r),
           Set(n, [call[n] EXCEPT !.job = @ \ {r}]), UNCHANGED <<pc, faults>>,
           pc[n] = "abort" /\ r = "journal" => ~call[n].failed
    PROVE  Keeps(n)
<1> DEFINE job == call[n].job \ {r}
<1>1. Own(n) /\ faults' \in 0..ProvBudget /\ pc[n] \in ProvLabels
  BY DEF ProvInv, Stores
<1>2. call[n].op = "restore" /\ "restore" \in ProvOps[n] /\ call[n].job \subseteq DOMAIN AbortOrder
  BY <1>1, NoneAssumption DEF Own, Flow, Creating, Restoring, Entering
<1>3. r \in call[n].job /\ r # "row"
  BY <1>2 DEF First, AbortOrder
<1>4. r = "journal" => job = {} /\ "dir" \notin call[n].job /\ "kernel" \notin call[n].job
  BY <1>2, JournalLast
<1>5. Set(n, [call[n] EXCEPT !.job = job])
  OBVIOUS
<1>6. job \subseteq call[n].job /\ \A s \in call[n].job : s \in job \/ s = r
  OBVIOUS
<1> HIDE DEF job
<1>7. Becomes(n, pc[n], call[n].op, call[n].owns, call[n].made, job, call[n].install, call[n].failed)
  BY <1>1, <1>5, JobBecomes
<1>8. Removed(n, r) /\ There(n)' \subseteq There(n) \ {r}
  BY RemoveRemoves
<1>9. Others(n) /\ Stores'
  BY <1>1, <1>7, <1>8 DEF Others, Becomes, Removed, ProvInv, Stores
<1>10. Flow(n)'
  BY <1>1, <1>6, <1>7 DEF Becomes, Own, Flow, Creating, Entering, Restoring, Deleting, Filling
<1>11. RowsKnown(n)' /\ VolumeKnown(n)'
  BY <1>1, <1>3, <1>7, <1>8 DEF Becomes, Removed, Own, RowsKnown, VolumeKnown, Restoring, Filling, Saving
<1>12. JournalKnown(n)'
  BY <1>1, <1>3, <1>4, <1>6, <1>7, <1>8 DEF Becomes, Removed, Own, JournalKnown, Restoring, Filling
<1>13. LeftoverKnown(n)'
  BY <1>1, <1>3, <1>4, <1>6, <1>7, <1>8 DEF Becomes, Removed, Own, LeftoverKnown, Pending
<1>14. Made(n)'
  BY <1>1, <1>6, <1>7, <1>8 DEF Becomes, Own, Made, Creating
<1>15. r # "kernel" /\ Vouches(n) => Vouches(n)'
  BY <1>3, <1>4, <1>6, <1>7, <1>8 DEF Becomes, Removed, Vouches, Pending
<1>16. KernelsKept => KernelKept(n)'
  BY <1>1, <1>3, <1>6, <1>7, <1>8 DEF Becomes, Removed, KernelsKept, KernelKept, Complete, Creating, Restoring, Filling
<1>17. CASE r # "kernel"
  <2>1. kernel' = kernel /\ registered' = registered
    BY <1>8, <1>17 DEF Removed
  <2> QED BY <1>9, <1>10, <1>11, <1>12, <1>13, <1>14, <1>15, <1>16, <1>17, <2>1, QuietKeeps DEF Own
<1>18. CASE r = "kernel"
  <2>1. /\ registered' = registered /\ kernel'[KernelOf[n]] = None
        /\ \A k \in Kernels \ {KernelOf[n]} : kernel'[k] = kernel[k]
    BY <1>8, <1>18 DEF Removed
  <2>2. KernelsKept => KernelOf[n] \notin registered
    BY <1>3, <1>18 DEF KernelsKept, KernelKept
  <2> QED BY <1>2, <1>9, <1>10, <1>11, <1>12, <1>13, <1>14, <1>16, <2>1, <2>2, KernelKeeps DEF Own
<1> QED BY <1>17, <1>18

LEMMA ReconcileNextKeeps ==
    ASSUME ProvInv, NEW n \in Names, ReconcileNext(n)
    PROVE  Keeps(n)
<1>1. pc[n] = "reconcile" /\ Own(n)
  BY DEF ReconcileNext, At, ProvInv
<1>2. CASE call[n].job = {} /\ Step(n, "validate", {}) /\ UNCHANGED <<inventory, disk, tap, faults>>
  <2> DEFINE owns == call[n].owns \cup {}
             made == call[n].made \cup {}
  <2>1. Becomes(n, "validate", call[n].op, owns, made, call[n].job, call[n].install, call[n].failed)
    BY <1>2, StepBecomes DEF ProvLabels
  <2>2. owns = call[n].owns /\ made = call[n].made
    OBVIOUS
  <2> HIDE DEF owns, made
  <2>3. Others(n) /\ Stores'
    BY <1>2, <2>1 DEF Others, Becomes, ProvInv, Stores, inventory, disk
  <2>4. Flow(n)'
    BY <1>1, <2>1, <2>2 DEF Becomes, Own, Flow, Creating, Entering, Restoring, Deleting, Filling
  <2>5. RowsKnown(n)' /\ VolumeKnown(n)'
    BY <1>1, <1>2, <2>1 DEF Becomes, Own, RowsKnown, VolumeKnown, Restoring, Filling, Saving, inventory
  <2>6. journal[n] = None
    BY <1>1, <1>2 DEF Own, JournalKnown
  <2>7. JournalKnown(n)'
    BY <1>1, <1>2, <2>1, <2>6 DEF Becomes, Own, JournalKnown, Restoring, Filling, inventory
  <2>8. LeftoverKnown(n)'
    BY <1>1, <1>2, <2>1, <2>6 DEF Becomes, Own, LeftoverKnown, Pending, inventory, disk
  <2>9. Made(n)'
    BY <1>1, <2>1, <2>2 DEF Becomes, Own, Made, Creating
  <2>10. ~Vouches(n)
    BY <2>6 DEF Vouches
  <2>11. KernelsKept => KernelKept(n)'
    BY <1>1, <1>2, <2>1 DEF Becomes, KernelsKept, KernelKept, Complete, Creating, Restoring, Filling, inventory
  <2> QED BY <1>2, <2>3, <2>4, <2>5, <2>7, <2>8, <2>9, <2>10, <2>11, QuietKeeps DEF Own, inventory, disk
<1>3. ASSUME NEW r, RemovalFails(n, r), Return(n, "failed")
      PROVE  Keeps(n)
  BY <1>3, FailureKeepsRest, ReturnKeeps
<1>4. ASSUME NEW r, First(n, r), Remove(n, r), Set(n, [call[n] EXCEPT !.job = @ \ {r}]), UNCHANGED <<pc, faults>>
      PROVE  Keeps(n)
  BY <1>1, <1>4, RestoreRemovalKeeps
<1> QED BY <1>2, <1>3, <1>4 DEF ReconcileNext

(* One removal of an abort; the journal stays when something failed.       *)
LEMMA AbortUndoKeeps ==
    ASSUME ProvInv, NEW n \in Names, UndoNext(n, "abort")
    PROVE  Keeps(n)
<1>1. pc[n] = "abort" /\ Own(n) /\ "abort" \in ProvLabels
  BY DEF UndoNext, At, ProvInv, ProvLabels
<1>2. call[n].op = "restore" /\ call[n].job \subseteq DOMAIN AbortOrder
  BY <1>1 DEF Own, Flow, Creating, Restoring
<1>3. PICK r \in Ownable :
        /\ First(n, r)
        /\ \/ /\ ~(r = "journal" /\ call[n].failed) /\ Remove(n, r)
              /\ Set(n, [call[n] EXCEPT !.job = @ \ {r}]) /\ UNCHANGED <<pc, faults>>
           \/ /\ RemovalFails(n, r) /\ UNCHANGED pc
              /\ Set(n, [[call[n] EXCEPT !.job = @ \ {r}] EXCEPT !.failed = TRUE])
           \/ /\ r = "journal" /\ call[n].failed /\ Set(n, [call[n] EXCEPT !.job = @ \ {r}])
              /\ UNCHANGED <<inventory, disk, tap, pc, faults>>
  BY DEF UndoNext
<1>4. CASE /\ ~(r = "journal" /\ call[n].failed) /\ Remove(n, r)
           /\ Set(n, [call[n] EXCEPT !.job = @ \ {r}]) /\ UNCHANGED <<pc, faults>>
  BY <1>1, <1>3, <1>4, RestoreRemovalKeeps
<1>5. ASSUME /\ files' \in [Names -> SUBSET VolumeFiles] /\ files'[n] \subseteq files[n]
             /\ \A m \in Names \ {n} : files'[m] = files[m],
             UNCHANGED <<inventory, tap, kernel, staging>>, faults' \in 0..ProvBudget,
             Becomes(n, "abort", call[n].op, call[n].owns, call[n].made, call[n].job \ {r}, call[n].install, TRUE)
      PROVE  Keeps(n)
  <2> DEFINE job == call[n].job \ {r}
  <2>1. job \subseteq call[n].job /\ (job # {} => r # "journal")
    BY <1>2, <1>3, JournalLast
  <2>2. "journal" \in call[n].job /\ r # "journal" => "journal" \in job
    OBVIOUS
  <2>3. Becomes(n, "abort", call[n].op, call[n].owns, call[n].made, job, call[n].install, TRUE)
    BY <1>5
  <2> HIDE DEF job
  <2>4. Others(n) /\ Stores'
    BY <1>5, <2>3 DEF Others, Becomes, ProvInv, Stores, inventory
  <2>5. Flow(n)'
    BY <1>1, <2>1, <2>3 DEF Becomes, Own, Flow, Creating, Entering, Restoring, Deleting, Filling
  <2>6. RowsKnown(n)' /\ VolumeKnown(n)'
    BY <1>1, <1>5, <2>3 DEF Becomes, Own, RowsKnown, VolumeKnown, Restoring, Filling, Saving, inventory
  <2>7. JournalKnown(n)'
    BY <1>1, <1>5, <2>1, <2>2, <2>3 DEF Becomes, Own, JournalKnown, Restoring, Filling, inventory
  <2>8. LeftoverKnown(n)'
    BY <1>1, <1>5, <2>3 DEF Becomes, Own, LeftoverKnown, Pending, inventory
  <2>9. Made(n)'
    BY <1>1, <2>3 DEF Becomes, Own, Made, Creating
  <2>10. Vouches(n) => Vouches(n)'
    BY <1>5, <2>3 DEF Becomes, Vouches, Pending, inventory
  <2>11. KernelsKept => KernelKept(n)'
    BY <1>1, <1>5, <2>1, <2>3 DEF Becomes, KernelsKept, KernelKept, Complete, Creating, Restoring, Filling, inventory
  <2> QED BY <1>5, <2>4, <2>5, <2>6, <2>7, <2>8, <2>9, <2>10, <2>11, QuietKeeps DEF Own, inventory
<1> DEFINE rest == call[n].job \ {r}
<1>6. CASE RemovalFails(n, r) /\ UNCHANGED pc /\ Set(n, [[call[n] EXCEPT !.job = rest] EXCEPT !.failed = TRUE])
  <2> HIDE DEF rest
  <2>1. Becomes(n, "abort", call[n].op, call[n].owns, call[n].made, rest, call[n].install, TRUE)
    BY <1>1, <1>6, JobBecomes
  <2> QED BY <1>5, <1>6, <2>1, FailureKeepsRest DEF rest
<1>7. CASE /\ call[n].failed /\ Set(n, [call[n] EXCEPT !.job = rest])
           /\ UNCHANGED <<inventory, disk, tap, pc, faults>>
  <2> HIDE DEF rest
  <2>1. Becomes(n, "abort", call[n].op, call[n].owns, call[n].made, rest, call[n].install, call[n].failed)
    BY <1>1, <1>7, JobBecomes
  <2>2. call[n].failed = TRUE
    BY <1>1, <1>7 DEF Own, Flow
  <2>3. files \in [Names -> SUBSET VolumeFiles] /\ faults \in 0..ProvBudget
    BY DEF ProvInv, Stores
  <2> QED BY <1>5, <1>7, <2>1, <2>2, <2>3 DEF rest, disk
<1> QED BY <1>3, <1>4, <1>6, <1>7

(* A step of a restore that fails.                                         *)
LEMMA AbortStep ==
    ASSUME ProvInv, NEW n \in Names, pc[n] \in Restoring \ {"abort"}, faults' \in 0..ProvBudget, AbortRestore(n),
           files' \in [Names -> SUBSET VolumeFiles], \A m \in Names \ {n} : files'[m] = files[m],
           files'[n] = files[n] \/ pc[n] \in Filling,
           kernel' \in [Kernels -> {"partial", "good", None}],
           \A k \in Kernels \ {KernelOf[n]} : kernel'[k] = kernel[k],
           kernel' = kernel \/ pc[n] = "fill_kernel", UNCHANGED <<inventory, tap, staging>>
    PROVE  Keeps(n)
<1> DEFINE job == call[n].owns \cap DOMAIN AbortOrder
           extra == {}
           owns == call[n].owns \cup extra
<1>1. job = owns /\ owns = call[n].owns /\ extra \in SUBSET {"dir", "tap", "kernel"} /\ "kernel" \notin extra
  BY DEF ProvInv, Own, Flow, Creating, Restoring, Filling
<1>2. Goto(n, "abort") /\ Set(n, [call[n] EXCEPT !.job = job]) /\ "abort" \in ProvLabels
  BY DEF AbortRestore, ProvLabels
<1> HIDE DEF job, owns
<1>3. Becomes(n, "abort", call[n].op, call[n].owns, call[n].made, job, call[n].install, call[n].failed)
  BY <1>2, JobBecomes
<1>4. Becomes(n, "abort", call[n].op, owns, call[n].made, owns, call[n].install, call[n].failed)
  BY <1>1, <1>3
<1> HIDE DEF extra
<1> QED BY <1>1, <1>4, AbortKeeps DEF owns

LEMMA QuietAbort ==
    ASSUME ProvInv, NEW n \in Names, pc[n] \in Restoring \ {"abort"}, faults' \in 0..ProvBudget, AbortRestore(n),
           UNCHANGED <<inventory, disk, tap>>
    PROVE  Keeps(n)
<1>1. /\ files' = files /\ kernel' = kernel /\ staging' = staging
      /\ files \in [Names -> SUBSET VolumeFiles] /\ kernel \in [Kernels -> {"partial", "good", None}]
  BY DEF disk, ProvInv, Stores
<1> QED BY <1>1, AbortStep

(* The journal is written before anything is made.                         *)
LEMMA ValidateRestoreKeeps ==
    ASSUME ProvInv, NEW n \in Names, ValidateRestore(n)
    PROVE  Keeps(n)
<1>1. pc[n] = "validate" /\ UNCHANGED <<row, registered, files, kernel, tap>> /\ Own(n)
  BY DEF ValidateRestore, At, ProvInv
<1>2. faults' \in 0..ProvBudget
  BY CountedFaults DEF ValidateRestore, Forced
<1>3. CASE Return(n, "failed") /\ UNCHANGED <<journal, staging>>
  BY <1>1, <1>2, <1>3, QuietReturn DEF inventory, disk
<1> DEFINE owns == {"staging", "journal"}
           none == [network |-> FALSE, volume |-> FALSE, kernel |-> FALSE]
           d == [call[n] EXCEPT !.owns = owns, !.made = owns, !.install = InstallNeeded(n)]
<1>4. CASE /\ row[n] = {} /\ files[n] = {} /\ Goto(n, "attach") /\ Set(n, d)
           /\ journal' = [journal EXCEPT ![n] = none] /\ staging' = staging \cup {n}
  <2>1. DOMAIN call[n] = CallFields
    BY <1>1 DEF Own, Flow
  <2>2. /\ DOMAIN d = CallFields /\ d.op = call[n].op /\ d.owns = owns /\ d.made = owns /\ d.job = call[n].job
        /\ d.install = InstallNeeded(n) /\ d.failed = call[n].failed
    BY <2>1 DEF CallFields
  <2> HIDE DEF d
  <2>3. Becomes(n, "attach", d.op, d.owns, d.made, d.job, d.install, d.failed)
    BY <1>4, <2>2, SetBecomes DEF ProvLabels
  <2>4. Becomes(n, "attach", call[n].op, owns, owns, call[n].job, InstallNeeded(n), call[n].failed)
    BY <2>2, <2>3
  <2>5. none \in Journals /\ none # None /\ none.volume = FALSE /\ none.kernel = FALSE
    <3>1. none \in Journals /\ none.volume = FALSE /\ none.kernel = FALSE
      BY DEF Journals
    <3> HIDE DEF none
    <3> QED BY <3>1, JournalsAssumption
  <2> HIDE DEF none
  <2>6. /\ journal' \in [Names -> Journals \cup {None}] /\ journal'[n] = none
        /\ \A m \in Names \ {n} : journal'[m] = journal[m]
        /\ staging' \subseteq Names /\ \A m \in Names \ {n} : m \in staging' <=> m \in staging
    BY <1>4, <2>5 DEF ProvInv, Stores
  <2>7. Others(n) /\ Stores'
    BY <1>1, <1>2, <2>4, <2>6 DEF Others, Becomes, ProvInv, Stores
  <2>8. Flow(n)'
    BY <1>1, <2>4 DEF Becomes, Own, Flow, InstallNeeded, Creating, Entering, Restoring, Deleting, Filling, AbortOrder
  <2>9. RowsKnown(n)' /\ VolumeKnown(n)'
    BY <1>1, <1>4, <2>4 DEF Becomes, RowsKnown, VolumeKnown, Filling, Saving
  <2>10. JournalKnown(n)'
    BY <1>1, <1>4, <2>4, <2>5, <2>6, NoneAssumption DEF Becomes, Own, Flow, Entering, JournalKnown, Filling
  <2>11. LeftoverKnown(n)'
    BY <1>1, <1>4 DEF LeftoverKnown
  <2>12. Made(n)'
    BY <2>4 DEF Becomes, Made, Creating
  <2>13. ~Vouches(n)
    BY <1>1 DEF Own, JournalKnown, Vouches
  <2>14. KernelsKept => KernelKept(n)'
    BY <1>1, <2>4, <2>5, <2>6 DEF Becomes, KernelsKept, KernelKept, InstallNeeded, Complete, Creating
  <2> QED BY <1>1, <2>7, <2>8, <2>9, <2>10, <2>11, <2>12, <2>13, <2>14, QuietKeeps DEF Own
<1> QED BY <1>3, <1>4 DEF ValidateRestore

(* A step of a restore that succeeds and leaves the kernels alone.         *)
LEMMA RestorationKeeps ==
    ASSUME ProvInv, NEW n \in Names, NEW l \in Restoring \ {"abort"}, NEW owns, NEW made,
           pc[n] \in Restoring \ {"abort"}, faults' \in 0..ProvBudget,
           owns \subseteq DOMAIN AbortOrder, made \subseteq owns,
           Becomes(n, l, call[n].op, owns, made, call[n].job, call[n].install, call[n].failed),
           files' \in [Names -> SUBSET VolumeFiles], \A m \in Names \ {n} : files'[m] = files[m],
           tap' \subseteq Names, \A m \in Names \ {n} : m \in tap' <=> m \in tap,
           journal' \in [Names -> Journals \cup {None}], \A m \in Names \ {n} : journal'[m] = journal[m],
           Vouches(n) => journal'[n] # None /\ journal'[n].kernel,
           VolumeKnown(n)', JournalKnown(n)', LeftoverKnown(n)', KernelsKept => KernelKept(n)',
           UNCHANGED <<row, registered, kernel, staging>>
    PROVE  Keeps(n)
<1>1. Own(n)
  BY DEF ProvInv
<1>2. Others(n) /\ Stores'
  BY DEF Others, Becomes, ProvInv, Stores
<1>3. Flow(n)'
  BY <1>1 DEF Becomes, Own, Flow, Creating, Entering, Restoring, Deleting, Filling
<1>4. RowsKnown(n)'
  BY <1>1 DEF Becomes, Own, RowsKnown, Restoring, Filling
<1>5. Made(n)'
  BY DEF Becomes, Made, Creating, Restoring, Filling
<1>6. Vouches(n) => Vouches(n)'
  BY DEF Becomes, Vouches, Pending, Restoring, Filling
<1> QED BY <1>2, <1>3, <1>4, <1>5, <1>6, QuietKeeps DEF Own

LEMMA AttachNetworkKeeps ==
    ASSUME ProvInv, NEW n \in Names, AttachNetwork(n)
    PROVE  Keeps(n)
<1>1. pc[n] = "attach" /\ UNCHANGED <<inventory, disk>> /\ Own(n)
  BY DEF AttachNetwork, At, ProvInv
<1>2. faults' \in 0..ProvBudget
  BY CountedFaults DEF AttachNetwork, Forced
<1>3. CASE UNCHANGED tap /\ AbortRestore(n)
  BY <1>1, <1>2, <1>3, QuietAbort DEF Restoring
<1>4. CASE tap' = tap \cup {n} /\ Step(n, "log_network", {"tap"})
  <2> DEFINE owns == call[n].owns \cup {"tap"}
             made == call[n].made \cup {"tap"}
  <2>1. Becomes(n, "log_network", call[n].op, owns, made, call[n].job, call[n].install, call[n].failed)
    BY <1>4, StepBecomes DEF ProvLabels
  <2>2. /\ "log_network" \in Restoring \ {"abort"} /\ pc[n] \in Restoring \ {"abort"}
        /\ owns \subseteq DOMAIN AbortOrder /\ made \subseteq owns
        /\ call[n].owns \subseteq owns /\ (owns \ {"tap"}) \subseteq call[n].owns
    BY <1>1 DEF Own, Flow, Made, Restoring, Creating, AbortOrder
  <2>3. /\ tap' \subseteq Names /\ n \in tap' /\ \A m \in Names \ {n} : m \in tap' <=> m \in tap
        /\ files' \in [Names -> SUBSET VolumeFiles] /\ journal' \in [Names -> Journals \cup {None}]
        /\ UNCHANGED <<row, registered, kernel, staging, files, journal>>
    BY <1>1, <1>4 DEF ProvInv, Stores, inventory, disk
  <2> HIDE DEF owns, made
  <2>4. VolumeKnown(n)' /\ LeftoverKnown(n)'
    BY <1>1, <2>1, <2>3 DEF Becomes, Own, VolumeKnown, LeftoverKnown, Filling, Saving
  <2>5. JournalKnown(n)'
    BY <1>1, <2>1, <2>2, <2>3 DEF Becomes, Own, JournalKnown, Filling
  <2>6. KernelsKept => KernelKept(n)'
    BY <1>1, <2>1, <2>2, <2>3 DEF Becomes, KernelsKept, KernelKept, Complete, Creating
  <2>7. Vouches(n) => journal'[n] # None /\ journal'[n].kernel
    BY <2>3 DEF Vouches
  <2> QED BY <1>2, <2>1, <2>2, <2>3, <2>4, <2>5, <2>6, <2>7, RestorationKeeps
<1> QED BY <1>3, <1>4 DEF AttachNetwork

LEMMA MakeVolumeKeeps ==
    ASSUME ProvInv, NEW n \in Names, MakeVolume(n)
    PROVE  Keeps(n)
<1>1. pc[n] = "mkdir" /\ UNCHANGED <<inventory, kernel, staging, tap>> /\ Own(n)
  BY DEF MakeVolume, At, ProvInv
<1>2. faults' \in 0..ProvBudget
  BY CountedFaults DEF MakeVolume, Forced
<1>3. CASE UNCHANGED files /\ AbortRestore(n)
  BY <1>1, <1>2, <1>3, QuietAbort DEF Restoring, disk
<1>4. CASE files' = [files EXCEPT ![n] = {"dir"}] /\ Step(n, "log_volume", {"dir"})
  <2> DEFINE owns == call[n].owns \cup {"dir"}
             made == call[n].made \cup {"dir"}
  <2>1. Becomes(n, "log_volume", call[n].op, owns, made, call[n].job, call[n].install, call[n].failed)
    BY <1>4, StepBecomes DEF ProvLabels
  <2>2. /\ "log_volume" \in Restoring \ {"abort"} /\ pc[n] \in Restoring \ {"abort"}
        /\ owns \subseteq DOMAIN AbortOrder /\ made \subseteq owns
        /\ call[n].owns \subseteq owns /\ (owns \ {"dir"}) \subseteq call[n].owns
    BY <1>1 DEF Own, Flow, Made, Restoring, Creating, AbortOrder
  <2>3. /\ tap' \subseteq Names /\ journal' \in [Names -> Journals \cup {None}]
        /\ files' \in [Names -> SUBSET VolumeFiles] /\ files'[n] = {"dir"}
        /\ \A m \in Names \ {n} : files'[m] = files[m]
        /\ UNCHANGED <<row, registered, kernel, staging, tap, journal>>
    BY <1>1, <1>4 DEF ProvInv, Stores, inventory, VolumeFiles
  <2> HIDE DEF owns, made
  <2>4. VolumeKnown(n)' /\ LeftoverKnown(n)'
    BY <1>1, <2>1, <2>3 DEF Becomes, Own, VolumeKnown, LeftoverKnown, Filling, Saving
  <2>5. JournalKnown(n)'
    BY <1>1, <2>1, <2>2, <2>3 DEF Becomes, Own, JournalKnown, Filling
  <2>6. KernelsKept => KernelKept(n)'
    BY <1>1, <2>1, <2>2, <2>3 DEF Becomes, KernelsKept, KernelKept, Complete, Creating
  <2>7. Vouches(n) => journal'[n] # None /\ journal'[n].kernel
    BY <2>3 DEF Vouches
  <2> QED BY <1>2, <2>1, <2>2, <2>3, <2>4, <2>5, <2>6, <2>7, RestorationKeeps
<1> QED BY <1>3, <1>4 DEF MakeVolume

(* What is journalled next, and what has been made by then.                *)
LEMMA LogOwnedKeeps ==
    ASSUME ProvInv, NEW n \in Names,
           \/ LogOwned(n, "log_network", "network", "tap", "mkdir")
           \/ LogOwned(n, "log_volume", "volume", "dir", "copy")
           \/ LogOwned(n, "log_kernel", "kernel", "kernel", "open_kernel")
    PROVE  Keeps(n)
<1>1. PICK field \in {"network", "volume", "kernel"}, owned \in {"tap", "dir", "kernel"},
           l \in {"mkdir", "copy", "open_kernel"} :
        /\ \/ pc[n] = "log_network" /\ field = "network" /\ owned = "tap" /\ l = "mkdir"
           \/ pc[n] = "log_volume" /\ field = "volume" /\ owned = "dir" /\ l = "copy"
           \/ pc[n] = "log_kernel" /\ field = "kernel" /\ owned = "kernel" /\ l = "open_kernel"
        /\ LogOwned(n, pc[n], field, owned, l)
  BY DEF LogOwned, At
<1> DEFINE owns == call[n].owns \cup {owned}
           noted == [call[n] EXCEPT !.owns = owns]
<1>2. Own(n) /\ DOMAIN call[n] = CallFields /\ UNCHANGED <<row, registered, disk, tap>>
  BY <1>1 DEF ProvInv, Own, Flow, LogOwned
<1>3. faults' \in 0..ProvBudget
  BY <1>1, CountedFaults DEF LogOwned
<1>4. /\ l \in Restoring \ {"abort"} /\ pc[n] \in Restoring \ {"abort"} /\ {l, "abort"} \subseteq ProvLabels
      /\ owns \subseteq DOMAIN AbortOrder /\ call[n].made \subseteq owns
      /\ call[n].owns \subseteq owns /\ (owns \ {owned}) \subseteq call[n].owns /\ owned \in owns
  BY <1>1, <1>2 DEF Own, Flow, Made, Restoring, Filling, Creating, AbortOrder, ProvLabels
<1>5. /\ DOMAIN noted = CallFields /\ noted.op = call[n].op /\ noted.owns = owns
      /\ noted.made = call[n].made /\ noted.job = call[n].job /\ noted.install = call[n].install
      /\ noted.failed = call[n].failed
  BY <1>2 DEF CallFields
<1>6. /\ \/ journal' = [journal EXCEPT ![n][field] = TRUE] /\ Goto(n, l) /\ Set(n, noted)
         \/ /\ Goto(n, "abort") /\ UNCHANGED journal
            /\ Set(n, [noted EXCEPT !.job = noted.owns \cap DOMAIN AbortOrder])
  BY <1>1 DEF LogOwned
<1>7. /\ files' \in [Names -> SUBSET VolumeFiles] /\ tap' \subseteq Names
      /\ kernel' \in [Kernels -> {"partial", "good", None}] /\ UNCHANGED <<files, kernel, staging>>
  BY <1>2 DEF ProvInv, Stores, disk
<1>8. journal[n] # None
  BY <1>2, <1>4 DEF Own, JournalKnown
<1> HIDE DEF noted
<1>9. CASE journal' = [journal EXCEPT ![n][field] = TRUE] /\ Goto(n, l) /\ Set(n, noted)
  <2>1. Becomes(n, l, noted.op, noted.owns, noted.made, noted.job, noted.install, noted.failed)
    BY <1>4, <1>5, <1>9, SetBecomes
  <2> HIDE DEF owns
  <2>2. Becomes(n, l, call[n].op, owns, call[n].made, call[n].job, call[n].install, call[n].failed)
    BY <1>5, <2>1
  <2>3. /\ journal' \in [Names -> Journals \cup {None}] /\ journal'[n] # None /\ journal'[n][field] = TRUE
        /\ \A f \in {"network", "volume", "kernel"} \ {field} : journal'[n][f] = journal[n][f]
        /\ \A m \in Names \ {n} : journal'[m] = journal[m]
    <3> DEFINE j == [journal[n] EXCEPT ![field] = TRUE]
    <3>1. journal \in [Names -> Journals \cup {None}] /\ journal[n] \in Journals
      BY <1>8 DEF ProvInv, Stores
    <3>2. /\ j \in Journals /\ j[field] = TRUE
          /\ \A f \in {"network", "volume", "kernel"} \ {field} : j[f] = journal[n][f]
      BY <1>1, <3>1 DEF Journals
    <3>3. journal' = [journal EXCEPT ![n] = j]
      BY <1>9
    <3> HIDE DEF j
    <3> QED BY <3>1, <3>2, <3>3, JournalsAssumption
  <2>4. VolumeKnown(n)'
    BY <1>1, <1>2, <1>7, <2>2 DEF Becomes, Own, VolumeKnown, Filling, Saving
  <2>5. LeftoverKnown(n)'
    BY <1>1, <1>2, <1>7, <2>2, <2>3 DEF Becomes, Own, LeftoverKnown, Pending
  <2>6. JournalKnown(n)'
    BY <1>1, <1>2, <1>4, <2>2, <2>3 DEF Becomes, Own, JournalKnown, Restoring, Filling, RowsKnown
  <2>7. ASSUME KernelsKept PROVE KernelKept(n)'
    <3>1. KernelKept(n)
      BY <2>7 DEF KernelsKept
    <3>2. owned = "kernel" => KernelOf[n] \notin registered
      BY <1>1, <1>4, <3>1 DEF KernelKept
    <3>3. /\ Complete(n)' = Complete(n) /\ l \notin Creating
          /\ "kernel" \in owns => "kernel" \in call[n].owns \/ owned = "kernel"
          /\ journal'[n].kernel => journal[n].kernel \/ owned = "kernel"
      BY <1>1, <1>2, <1>4, <2>3 DEF Complete, Creating
    <3> QED BY <1>1, <1>2, <1>4, <1>7, <1>8, <2>2, <3>1, <3>2, <3>3 DEF Becomes, KernelKept
  <2>8. Vouches(n) => journal'[n] # None /\ journal'[n].kernel
    BY <2>3 DEF Vouches
  <2> QED BY <1>2, <1>3, <1>4, <1>7, <2>2, <2>3, <2>4, <2>5, <2>6, <2>7, <2>8, RestorationKeeps
<1>10. CASE /\ Goto(n, "abort") /\ UNCHANGED journal
            /\ Set(n, [noted EXCEPT !.job = noted.owns \cap DOMAIN AbortOrder])
  <2> DEFINE extra == {owned}
             d == [noted EXCEPT !.job = owns]
  <2>1. noted.owns \cap DOMAIN AbortOrder = owns
    BY <1>4, <1>5
  <2> HIDE DEF owns
  <2>2. Set(n, d)
    BY <1>10, <2>1
  <2>3. /\ DOMAIN d = CallFields /\ d.op = call[n].op /\ d.owns = owns /\ d.made = call[n].made /\ d.job = owns
        /\ d.install = call[n].install /\ d.failed = call[n].failed
    BY <1>5 DEF CallFields
  <2> HIDE DEF d
  <2>4. Becomes(n, "abort", d.op, d.owns, d.made, d.job, d.install, d.failed)
    BY <1>4, <1>10, <2>2, <2>3, SetBecomes
  <2>5. Becomes(n, "abort", call[n].op, owns, call[n].made, owns, call[n].install, call[n].failed)
    BY <2>3, <2>4
  <2>6. /\ extra \in SUBSET {"dir", "tap", "kernel"} /\ ("kernel" \in extra => pc[n] = "log_kernel")
        /\ owns = call[n].owns \cup extra
    BY <1>1 DEF owns
  <2> HIDE DEF extra
  <2>7. UNCHANGED <<inventory, tap, staging>>
    BY <1>2, <1>7, <1>10 DEF inventory
  <2> QED BY <1>3, <1>4, <1>7, <2>5, <2>6, <2>7, AbortKeeps
<1> QED BY <1>6, <1>9, <1>10

(* What leaves the owned things as they are.                               *)
LEMMA PlainStep ==
    ASSUME ProvInv, NEW n \in Names, NEW l \in ProvLabels, pc[n] \in Restoring \ {"abort"}, Step(n, l, {})
    PROVE  /\ Becomes(n, l, call[n].op, call[n].owns, call[n].made, call[n].job, call[n].install, call[n].failed)
           /\ call[n].owns \subseteq DOMAIN AbortOrder /\ call[n].made \subseteq call[n].owns
<1> DEFINE owns == call[n].owns \cup {}
           made == call[n].made \cup {}
<1>1. Becomes(n, l, call[n].op, owns, made, call[n].job, call[n].install, call[n].failed)
  BY StepBecomes
<1>2. owns = call[n].owns /\ made = call[n].made
  OBVIOUS
<1> HIDE DEF owns, made
<1>3. call[n].owns \subseteq DOMAIN AbortOrder /\ call[n].made \subseteq call[n].owns
  BY DEF ProvInv, Own, Flow, Made, Restoring, Filling, Creating
<1> QED BY <1>1, <1>2, <1>3

LEMMA CopyPayloadKeeps ==
    ASSUME ProvInv, NEW n \in Names,
           \/ CopyPayload(n, "copy", {"rootfs"}, {"io", "cancel"}, "copy_keys")
           \/ CopyPayload(n, "copy_keys", {"ssh", "keys"}, {"io"},
                          IF call[n].install THEN "log_kernel" ELSE "configure")
    PROVE  Keeps(n)
<1>1. PICK l \in {"copy_keys", "log_kernel", "configure"}, new \in SUBSET VolumeFiles,
           kinds \in SUBSET {"io", "cancel"} :
        /\ \/ pc[n] = "copy" /\ new = {"rootfs"} /\ l = "copy_keys"
           \/ pc[n] = "copy_keys" /\ new = {"ssh", "keys"} /\ l = "log_kernel" /\ call[n].install
           \/ pc[n] = "copy_keys" /\ new = {"ssh", "keys"} /\ l = "configure" /\ ~call[n].install
        /\ CopyPayload(n, pc[n], new, kinds, l)
  <2>1. /\ {"rootfs"} \in SUBSET VolumeFiles /\ {"ssh", "keys"} \in SUBSET VolumeFiles
        /\ {"io"} \in SUBSET {"io", "cancel"} /\ {"io", "cancel"} \in SUBSET {"io", "cancel"}
    BY DEF VolumeFiles
  <2>2. CASE CopyPayload(n, "copy", {"rootfs"}, {"io", "cancel"}, "copy_keys")
    <3>1. pc[n] = "copy"
      BY <2>2 DEF CopyPayload, At
    <3> QED BY <2>1, <2>2, <3>1, Zenon
  <2>3. CASE CopyPayload(n, "copy_keys", {"ssh", "keys"}, {"io"},
                         IF call[n].install THEN "log_kernel" ELSE "configure")
    <3>1. pc[n] = "copy_keys"
      BY <2>3 DEF CopyPayload, At
    <3>2. CASE call[n].install
      BY <2>1, <2>3, <3>1, <3>2, Zenon
    <3>3. CASE ~call[n].install
      BY <2>1, <2>3, <3>1, <3>3, Zenon
    <3> QED BY <3>2, <3>3
  <2> QED BY <2>2, <2>3
<1>2. UNCHANGED <<inventory, kernel, staging, tap>> /\ Own(n)
  BY <1>1 DEF CopyPayload, ProvInv
<1>3. faults' \in 0..ProvBudget
  BY <1>1, CountedFaults DEF CopyPayload
<1>4. /\ pc[n] \in Restoring \ {"abort"} /\ pc[n] \in Filling /\ l \in Restoring \ {"abort"} /\ l \in ProvLabels
      /\ files \in [Names -> SUBSET VolumeFiles] /\ kernel \in [Kernels -> {"partial", "good", None}]
      /\ tap \subseteq Names /\ journal \in [Names -> Journals \cup {None}]
  BY <1>1 DEF Restoring, Filling, ProvLabels, ProvInv, Stores
<1>5. ASSUME AbortRestore(n), NEW got \in SUBSET new, files' = [files EXCEPT ![n] = @ \cup got]
      PROVE  Keeps(n)
  <2>1. files' \in [Names -> SUBSET VolumeFiles] /\ \A m \in Names \ {n} : files'[m] = files[m]
    BY <1>4, <1>5
  <2> QED BY <1>2, <1>3, <1>4, <1>5, <2>1, AbortStep
<1>6. CASE files' = [files EXCEPT ![n] = @ \cup new] /\ Step(n, l, {})
  <2>1. /\ files' \in [Names -> SUBSET VolumeFiles] /\ \A m \in Names \ {n} : files'[m] = files[m]
        /\ files'[n] = files[n] \cup new
    BY <1>4, <1>6
  <2>2. /\ Becomes(n, l, call[n].op, call[n].owns, call[n].made, call[n].job, call[n].install, call[n].failed)
        /\ call[n].owns \subseteq DOMAIN AbortOrder /\ call[n].made \subseteq call[n].owns
    BY <1>4, <1>6, PlainStep
  <2>3. journal[n] # None /\ journal[n].volume
    BY <1>2, <1>4 DEF Own, JournalKnown
  <2>4. VolumeKnown(n)'
    BY <1>1, <1>2, <2>1, <2>2 DEF Becomes, Own, VolumeKnown, Filling, Saving, VolumeFiles
  <2>5. LeftoverKnown(n)'
    BY <1>1, <1>2, <2>2, <2>3 DEF Becomes, LeftoverKnown, Pending, inventory
  <2>6. JournalKnown(n)'
    BY <1>1, <1>2, <1>4, <2>2, <2>3 DEF Becomes, Own, JournalKnown, inventory
  <2>7. ASSUME KernelsKept PROVE KernelKept(n)'
    <3>1. KernelKept(n) /\ \A k \in registered : kernel[k] = "good"
      BY <2>7 DEF KernelsKept
    <3>2. l = "configure" => kernel[KernelOf[n]] = "good"
      BY <1>1, <1>4, <3>1 DEF KernelKept
    <3> QED BY <1>1, <1>2, <1>4, <2>2, <3>1, <3>2 DEF Becomes, KernelKept, Complete, Creating, inventory
  <2>8. Vouches(n) => journal'[n] # None /\ journal'[n].kernel
    BY <1>2 DEF Vouches, inventory
  <2> QED BY <1>2, <1>3, <1>4, <2>1, <2>2, <2>4, <2>5, <2>6, <2>7, <2>8, RestorationKeeps DEF inventory
<1> QED BY <1>1, <1>5, <1>6 DEF CopyPayload

LEMMA ConfigureKeeps ==
    ASSUME ProvInv, NEW n \in Names, RestoreStep(n, "configure", {"io"}, "commit")
    PROVE  Keeps(n)
<1>1. pc[n] = "configure" /\ UNCHANGED <<inventory, disk, tap>> /\ Own(n)
  BY DEF RestoreStep, At, ProvInv
<1>2. faults' \in 0..ProvBudget
  BY CountedFaults DEF RestoreStep
<1>3. /\ pc[n] \in Restoring \ {"abort"} /\ "commit" \in Restoring \ {"abort"} /\ "commit" \in ProvLabels
      /\ files \in [Names -> SUBSET VolumeFiles] /\ tap \subseteq Names /\ journal \in [Names -> Journals \cup {None}]
  BY <1>1 DEF Restoring, Filling, ProvLabels, ProvInv, Stores
<1>4. CASE AbortRestore(n)
  BY <1>1, <1>2, <1>3, <1>4, QuietAbort
<1>5. CASE Step(n, "commit", {})
  <2>1. /\ Becomes(n, "commit", call[n].op, call[n].owns, call[n].made, call[n].job, call[n].install, call[n].failed)
        /\ call[n].owns \subseteq DOMAIN AbortOrder /\ call[n].made \subseteq call[n].owns
    BY <1>3, <1>5, PlainStep
  <2>2. UNCHANGED <<row, registered, journal, files, kernel, staging, tap>>
    BY <1>1 DEF inventory, disk
  <2>3. VolumeKnown(n)' /\ LeftoverKnown(n)'
    BY <1>1, <2>1, <2>2 DEF Becomes, Own, VolumeKnown, LeftoverKnown, Pending, Filling, Saving
  <2>4. JournalKnown(n)'
    BY <1>1, <1>3, <2>1, <2>2 DEF Becomes, Own, JournalKnown, Filling
  <2>5. KernelsKept => KernelKept(n)'
    BY <1>1, <1>3, <2>1, <2>2 DEF Becomes, KernelsKept, KernelKept, Complete, Creating
  <2>6. Vouches(n) => journal'[n] # None /\ journal'[n].kernel
    BY <2>2 DEF Vouches
  <2> QED BY <1>2, <1>3, <2>1, <2>2, <2>3, <2>4, <2>5, <2>6, RestorationKeeps
<1> QED BY <1>4, <1>5 DEF RestoreStep

(* The steps that write the kernel file, which the journal already has.    *)
LEMMA WriteKernelKeeps ==
    ASSUME ProvInv, NEW n \in Names, pc[n] \in {"open_kernel", "fill_kernel"}, NEW l \in {"fill_kernel", "configure"},
           NEW made, made \subseteq call[n].owns, NEW content \in {"partial", "good"},
           pc[n] = "open_kernel" <=> l = "fill_kernel", l = "configure" => content = "good",
           Becomes(n, l, call[n].op, call[n].owns, made, call[n].job, call[n].install, call[n].failed),
           kernel' = [kernel EXCEPT ![KernelOf[n]] = content], UNCHANGED <<inventory, files, staging, tap, faults>>
    PROVE  Keeps(n)
<1>1. Own(n) /\ KernelOf[n] \in Kernels
  BY KernelOfAssumption DEF ProvInv
<1>2. /\ kernel' \in [Kernels -> {"partial", "good", None}] /\ kernel'[KernelOf[n]] = content
      /\ \A k \in Kernels \ {KernelOf[n]} : kernel'[k] = kernel[k]
  BY <1>1 DEF ProvInv, Stores
<1>3. /\ pc[n] \in Restoring \ {"abort"} /\ l \in Restoring \ {"abort"} /\ UNCHANGED <<row, registered, journal>>
      /\ pc[n] \in Filling
  BY DEF Restoring, Filling, inventory
<1>4. Others(n) /\ Stores'
  BY <1>2 DEF Others, Becomes, ProvInv, Stores, inventory
<1>5. Flow(n)'
  BY <1>1, <1>3 DEF Becomes, Own, Flow, Creating, Entering, Deleting
<1>6. RowsKnown(n)' /\ VolumeKnown(n)'
  BY <1>1, <1>3 DEF Becomes, Own, RowsKnown, VolumeKnown, Filling, Saving
<1>7. JournalKnown(n)'
  BY <1>1, <1>3 DEF Becomes, Own, JournalKnown, Filling
<1>8. LeftoverKnown(n)'
  BY <1>1, <1>3 DEF Becomes, Own, LeftoverKnown, Pending
<1>9. Made(n)'
  BY DEF Becomes, Made, Creating
<1>10. journal[n] # None /\ journal[n].kernel /\ "restore" \in ProvOps[n]
  BY <1>1, <1>3, NoneAssumption DEF Own, Flow, JournalKnown
<1>11. Vouches(n)'
  BY <1>3, <1>10 DEF Becomes, Vouches, Pending
<1>12. KernelsKept => KernelOf[n] \notin registered /\ KernelKept(n)'
  BY <1>1, <1>2, <1>3 DEF Becomes, KernelsKept, KernelKept, Complete, Creating
<1> QED BY <1>2, <1>3, <1>4, <1>5, <1>6, <1>7, <1>8, <1>9, <1>10, <1>11, <1>12, KernelKeeps DEF Own

LEMMA OpenKernelKeeps ==
    ASSUME ProvInv, NEW n \in Names, OpenKernel(n)
    PROVE  Keeps(n)
<1>1. pc[n] = "open_kernel" /\ UNCHANGED <<inventory, files, staging, tap>> /\ Own(n)
  BY DEF OpenKernel, At, ProvInv
<1>2. faults' \in 0..ProvBudget
  BY CountedFaults DEF OpenKernel, Forced
<1>3. CASE UNCHANGED kernel /\ AbortRestore(n)
  BY <1>1, <1>2, <1>3, QuietAbort DEF disk, Restoring, Filling
<1>4. CASE /\ kernel' = [kernel EXCEPT ![KernelOf[n]] = "partial"] /\ Unnoted(n, "fill_kernel", {"kernel"})
           /\ UNCHANGED faults
  <2> DEFINE made == call[n].made \cup {"kernel"}
  <2>1. Becomes(n, "fill_kernel", call[n].op, call[n].owns, made, call[n].job, call[n].install, call[n].failed)
    BY <1>4, UnnotedBecomes DEF ProvLabels
  <2>2. "kernel" \in call[n].owns /\ call[n].made \subseteq call[n].owns
    BY <1>1 DEF Own, JournalKnown, Made, Restoring, Filling, Creating
  <2>3. made \subseteq call[n].owns
    BY <2>2
  <2> HIDE DEF made
  <2> QED BY <1>1, <1>4, <2>1, <2>3, WriteKernelKeeps
<1> QED BY <1>3, <1>4 DEF OpenKernel

LEMMA FillKernelKeeps ==
    ASSUME ProvInv, NEW n \in Names, FillKernel(n)
    PROVE  Keeps(n)
<1>1. pc[n] = "fill_kernel" /\ UNCHANGED <<inventory, files, staging, tap>> /\ KernelOf[n] \in Kernels
  BY KernelOfAssumption DEF FillKernel, At
<1>2. faults' \in 0..ProvBudget
  BY CountedFaults DEF FillKernel
<1>3. /\ pc[n] \in Restoring \ {"abort"} /\ "configure" \in ProvLabels
      /\ files \in [Names -> SUBSET VolumeFiles] /\ kernel \in [Kernels -> {"partial", "good", None}]
  BY <1>1 DEF Restoring, Filling, ProvLabels, ProvInv, Stores
<1>4. ASSUME AbortRestore(n), NEW left \in {None, "partial"}, kernel' = [kernel EXCEPT ![KernelOf[n]] = left]
      PROVE  Keeps(n)
  <2>1. /\ kernel' \in [Kernels -> {"partial", "good", None}]
        /\ \A k \in Kernels \ {KernelOf[n]} : kernel'[k] = kernel[k]
    BY <1>1, <1>3, <1>4
  <2> QED BY <1>1, <1>2, <1>3, <1>4, <2>1, AbortStep
<1>5. CASE /\ kernel' = [kernel EXCEPT ![KernelOf[n]] = "good"] /\ Step(n, "configure", {}) /\ UNCHANGED faults
  <2>1. /\ Becomes(n, "configure", call[n].op, call[n].owns, call[n].made, call[n].job, call[n].install, call[n].failed)
        /\ call[n].made \subseteq call[n].owns
    BY <1>3, <1>5, PlainStep
  <2> QED BY <1>1, <1>5, <2>1, WriteKernelKeeps
<1> QED BY <1>4, <1>5 DEF FillKernel

(* One transaction makes the machine complete and forgets the journal.     *)
LEMMA CommitRestoreKeeps ==
    ASSUME ProvInv, NEW n \in Names, CommitRestore(n)
    PROVE  Keeps(n)
<1>1. pc[n] = "commit" /\ UNCHANGED <<files, kernel, tap>> /\ Own(n) /\ KernelOf[n] \in Kernels
  BY KernelOfAssumption DEF CommitRestore, At, ProvInv
<1>2. faults' \in 0..ProvBudget
  BY CountedFaults DEF CommitRestore, Forced
<1>3. CASE UNCHANGED <<inventory, staging>> /\ AbortRestore(n)
  BY <1>1, <1>2, <1>3, QuietAbort DEF disk, Restoring, Filling
<1>4. CASE /\ row' = [row EXCEPT ![n] = Rows] /\ registered' = registered \cup {KernelOf[n]}
           /\ journal' = [journal EXCEPT ![n] = None] /\ staging' = staging \ {n} /\ Return(n, "done")
  <2>1. Becomes(n, "idle", None, {}, {}, {}, FALSE, FALSE)
    BY <1>4, ReturnBecomes
  <2>2. /\ row' \in [Names -> SUBSET Rows] /\ row'[n] = Rows /\ journal' \in [Names -> Journals \cup {None}]
        /\ journal'[n] = None /\ staging' \subseteq Names /\ registered' \subseteq Kernels
        /\ \A m \in Names \ {n} :
             row'[m] = row[m] /\ journal'[m] = journal[m] /\ (m \in staging' <=> m \in staging)
    BY <1>1, <1>4 DEF ProvInv, Stores
  <2>3. Others(n) /\ Stores'
    BY <1>1, <1>2, <2>1, <2>2 DEF Others, Becomes, ProvInv, Stores
  <2>4. Flow(n)'
    BY <2>1 DEF Becomes, Flow, Creating, Entering, Restoring, Deleting, Filling
  <2>5. RowsKnown(n)' /\ VolumeKnown(n)'
    BY <2>1, <2>2 DEF Becomes, RowsKnown, VolumeKnown, Restoring, Filling, Saving, Rows
  <2>6. JournalKnown(n)' /\ LeftoverKnown(n)'
    BY <2>1, <2>2 DEF Becomes, JournalKnown, LeftoverKnown, Restoring, Filling, Rows
  <2>7. Made(n)'
    BY <2>1 DEF Becomes, Made
  <2>8. KernelsKept => /\ KernelOf[n] \notin registered \/ UNCHANGED <<kernel, registered>>
                       /\ KernelKept(n)' /\ (KernelOf[n] \in registered' => kernel'[KernelOf[n]] = "good")
    BY <1>1, <1>4, <2>1, <2>2 DEF Becomes, KernelsKept, KernelKept, Creating, Restoring, Filling
  <2>9. "restore" \in ProvOps[n]
    BY <1>1, NoneAssumption DEF Own, Flow, Restoring, Filling
  <2>10. /\ registered \subseteq registered' /\ registered' \subseteq registered \cup {KernelOf[n]}
         /\ KernelOf[n] \in registered' /\ \A k \in Kernels \ {KernelOf[n]} : kernel'[k] = kernel[k]
    BY <1>1, <1>4
  <2> QED BY <2>3, <2>4, <2>5, <2>6, <2>7, <2>8, <2>9, <2>10, KernelKeeps DEF Own
<1> QED BY <1>3, <1>4 DEF CommitRestore

LEMMA RestoreStepsKeep ==
    ASSUME ProvInv, NEW n \in Names, RestoreSteps(n)
    PROVE  Keeps(n)
BY StageArchiveKeeps, ReconcileNextKeeps, ValidateRestoreKeeps, AttachNetworkKeeps, LogOwnedKeeps,
   MakeVolumeKeeps, CopyPayloadKeeps, OpenKernelKeeps, FillKernelKeeps, ConfigureKeeps, CommitRestoreKeeps,
   AbortUndoKeeps, UndoneKeeps
   DEF RestoreSteps

-----------------------------------------------------------------------------
(* delete_microvm, and the process or the host stopping.                   *)

LEMMA InvokeDeleteKeeps ==
    ASSUME ProvInv, NEW n \in Names, InvokeDelete(n)
    PROVE  Keeps(n)
<1>1. pc[n] = "idle" /\ "delete" \in ProvOps[n] /\ row[n] # {} /\ UNCHANGED <<inventory, disk, tap, faults>>
  BY DEF InvokeDelete, At
<1>2. Becomes(n, "release", "delete", {}, {}, {}, FALSE, FALSE)
  BY EnterBecomes DEF InvokeDelete, ProvLabels
<1>3. Own(n)
  BY DEF ProvInv
<1>4. Others(n) /\ Stores'
  BY <1>1, <1>2 DEF Others, Becomes, ProvInv, Stores, inventory, disk
<1>5. Flow(n)'
  BY <1>1, <1>2 DEF Becomes, Flow, Creating, Entering, Restoring, Deleting, Filling
<1>6. RowsKnown(n)' /\ VolumeKnown(n)'
  BY <1>1, <1>2, <1>3 DEF Becomes, Own, RowsKnown, VolumeKnown, Restoring, Filling, Saving, inventory
<1>7. JournalKnown(n)'
  BY <1>1, <1>2, <1>3 DEF Becomes, Own, JournalKnown, Restoring, Filling, inventory
<1>8. LeftoverKnown(n)'
  BY <1>1 DEF LeftoverKnown, inventory
<1>9. Made(n)'
  BY <1>2 DEF Becomes, Made
<1>10. Vouches(n) => Vouches(n)'
  BY <1>1, <1>2 DEF Becomes, Vouches, Pending, inventory
<1>11. KernelsKept => KernelKept(n)'
  BY <1>1, <1>2 DEF Becomes, KernelsKept, KernelKept, Complete, Creating, Restoring, Filling, inventory
<1> QED BY <1>1, <1>4, <1>5, <1>6, <1>7, <1>8, <1>9, <1>10, <1>11, QuietKeeps DEF Own, inventory, disk

(* A step of a deletion that leads to l.                                   *)
LEMMA DeletionKeeps ==
    ASSUME ProvInv, NEW n \in Names, pc[n] \in Deleting, NEW l \in {"idle", "remove_volume", "remove_row"},
           NEW r \in {"tap", "dir", "row"}, Removed(n, r) \/ UNCHANGED <<inventory, disk, tap>>,
           l = "idle" => Becomes(n, l, None, {}, {}, {}, FALSE, FALSE) /\ pc[n] = "remove_row",
           l # "idle" => /\ r # "row"
                         /\ Becomes(n, l, call[n].op, call[n].owns, call[n].made, call[n].job, call[n].install,
                                    call[n].failed),
           l = "remove_row" => files'[n] = {}, UNCHANGED faults
    PROVE  Keeps(n)
<1>1. Own(n)
  BY DEF ProvInv
<1>2. Stores' /\ Others(n)
  BY DEF Others, Becomes, Removed, ProvInv, Stores, inventory, disk
<1>3. /\ UNCHANGED <<registered, kernel>> /\ journal'[n] = journal[n] /\ files'[n] \subseteq files[n]
      /\ row'[n] \in {row[n], {}} /\ (l # "idle" => row'[n] = row[n])
  BY DEF Removed, inventory, disk
<1>4. Flow(n)'
  BY <1>1 DEF Becomes, Own, Flow, Creating, Entering, Restoring, Deleting, Filling
<1>5. RowsKnown(n)'
  BY <1>1, <1>3 DEF Becomes, Own, RowsKnown, Restoring, Filling
<1>6. VolumeKnown(n)'
  BY DEF Becomes, VolumeKnown, Filling, Saving
<1>7. JournalKnown(n)'
  BY <1>1, <1>3 DEF Becomes, Own, JournalKnown, Restoring, Filling
<1>8. LeftoverKnown(n)'
  BY <1>1, <1>3 DEF Becomes, Own, VolumeKnown, LeftoverKnown, Pending, Deleting
<1>9. Made(n)'
  BY <1>1 DEF Becomes, Own, Made, Creating, Deleting
<1>10. Vouches(n) => Vouches(n)'
  BY <1>3 DEF Becomes, Vouches, Pending
<1>11. KernelsKept => KernelKept(n)'
  BY <1>3 DEF Becomes, KernelsKept, KernelKept, Complete, Rows, Creating, Restoring, Filling
<1> QED BY <1>2, <1>3, <1>4, <1>5, <1>6, <1>7, <1>8, <1>9, <1>10, <1>11, QuietKeeps DEF Own

LEMMA DeleteStepKeeps ==
    ASSUME ProvInv, NEW n \in Names, DeleteStep(n)
    PROVE  Keeps(n)
<1>1. ASSUME NEW r, RemovalFails(n, r), Return(n, "failed")
      PROVE  Keeps(n)
  BY <1>1, FailureKeepsRest, ReturnKeeps
<1>2. ASSUME NEW l \in ProvLabels, Step(n, l, {})
      PROVE  Becomes(n, l, call[n].op, call[n].owns, call[n].made, call[n].job, call[n].install, call[n].failed)
  <2> DEFINE owns == call[n].owns \cup {}
             made == call[n].made \cup {}
  <2>1. Becomes(n, l, call[n].op, owns, made, call[n].job, call[n].install, call[n].failed)
    BY <1>2, StepBecomes
  <2>2. owns = call[n].owns /\ made = call[n].made
    OBVIOUS
  <2> HIDE DEF owns, made
  <2> QED BY <2>1, <2>2
<1>3. CASE DeleteNext(n, "release", "tap", "network" \in row[n], "remove_volume")
  <2>1. CASE /\ Remove(n, "tap") \/ UNCHANGED <<inventory, disk, tap>>
             /\ Step(n, "remove_volume", {}) /\ pc[n] = "release" /\ UNCHANGED faults
    <3>1. Removed(n, "tap") \/ UNCHANGED <<inventory, disk, tap>>
      BY <2>1, RemoveRemoves
    <3>2. pc[n] \in Deleting
      BY <2>1 DEF Deleting
    <3>3. Becomes(n, "remove_volume", call[n].op, call[n].owns, call[n].made, call[n].job, call[n].install,
                  call[n].failed)
      BY <1>2, <2>1 DEF ProvLabels
    <3> QED BY <2>1, <3>1, <3>2, <3>3, DeletionKeeps
  <2> QED BY <1>1, <1>3, <2>1 DEF DeleteNext, At
<1>4. CASE DeleteNext(n, "remove_volume", "dir", TRUE, "remove_row")
  <2>1. CASE Remove(n, "dir") /\ Step(n, "remove_row", {}) /\ pc[n] = "remove_volume" /\ UNCHANGED faults
    <3>1. Removed(n, "dir")
      BY <2>1, RemoveRemoves
    <3>2. pc[n] \in Deleting /\ files'[n] = {}
      BY <2>1, <3>1 DEF Deleting, Removed
    <3>3. Becomes(n, "remove_row", call[n].op, call[n].owns, call[n].made, call[n].job, call[n].install,
                  call[n].failed)
      BY <1>2, <2>1 DEF ProvLabels
    <3> QED BY <2>1, <3>1, <3>2, <3>3, DeletionKeeps
  <2> QED BY <1>1, <1>4, <2>1 DEF DeleteNext, At
<1>5. CASE DeleteNext(n, "remove_row", "row", TRUE, "idle")
  <2>1. CASE Remove(n, "row") /\ Return(n, "done") /\ pc[n] = "remove_row" /\ UNCHANGED faults
    <3>1. Removed(n, "row") /\ Becomes(n, "idle", None, {}, {}, {}, FALSE, FALSE)
      BY <2>1, RemoveRemoves, ReturnBecomes
    <3>2. pc[n] \in Deleting
      BY <2>1 DEF Deleting
    <3> QED BY <2>1, <3>1, <3>2, DeletionKeeps
  <2> QED BY <1>1, <1>5, <2>1 DEF DeleteNext, At
<1> QED BY <1>3, <1>4, <1>5 DEF DeleteStep

(* Every call is forgotten; the stores stay, the interfaces perhaps not.   *)
LEMMA StopAllKeeps ==
    ASSUME ProvInv, StopAll, tap' \subseteq tap, \E kind : ProvFault(kind)
    PROVE  ProvInv' /\ (KernelsKept => KernelsKept')
<1>1. faults' \in 0..ProvBudget
  BY CountedFaults
<1>2. /\ UNCHANGED <<row, registered, journal, files, kernel, staging>>
      /\ pc' \in [Names -> ProvLabels] /\ DOMAIN call' = Names
      /\ \A n \in Names : pc'[n] = "idle" /\ call'[n] = Idle
  BY DEF StopAll, inventory, disk, ProvLabels
<1>3. Stores'
  BY <1>1, <1>2 DEF ProvInv, Stores
<1>4. /\ DOMAIN Idle = CallFields /\ Idle.op = None /\ Idle.owns = {} /\ Idle.made = {} /\ Idle.job = {}
      /\ Idle.install = FALSE /\ Idle.failed = FALSE
  BY DEF Idle, CallFields
<1>5. ASSUME NEW n \in Names PROVE Own(n)' /\ (Vouches(n) => Vouches(n)') /\ (KernelsKept => KernelKept(n)')
  <2>1. Own(n) /\ pc'[n] = "idle" /\ call'[n] = Idle
    BY <1>2 DEF ProvInv
  <2>2. Flow(n)'
    BY <1>4, <2>1 DEF Flow, Creating, Entering, Restoring, Deleting, Filling
  <2>3. RowsKnown(n)' /\ VolumeKnown(n)'
    BY <1>2, <2>1 DEF Own, RowsKnown, VolumeKnown, Restoring, Filling, Saving
  <2>4. JournalKnown(n)' /\ LeftoverKnown(n)'
    BY <1>2, <2>1 DEF Own, JournalKnown, LeftoverKnown, Pending, Restoring, Filling
  <2>5. Made(n)'
    BY <1>4, <2>1 DEF Made
  <2>6. Vouches(n) => Vouches(n)'
    BY <1>2, <2>1 DEF Vouches, Pending
  <2>7. KernelsKept => KernelKept(n)'
    BY <1>2, <2>1 DEF KernelsKept, KernelKept, Complete, Creating, Restoring, Filling
  <2> QED BY <2>2, <2>3, <2>4, <2>5, <2>6, <2>7 DEF Own
<1>6. KernelsKnown'
  BY <1>2, <1>5 DEF ProvInv, KernelsKnown
<1>7. KernelsKept => KernelsKept'
  BY <1>2, <1>5 DEF KernelsKept
<1> QED BY <1>3, <1>5, <1>6, <1>7 DEF ProvInv

-----------------------------------------------------------------------------
(* The invariant.                                                          *)

LEMMA InitInv == Init => ProvInv /\ KernelsKept
<1> SUFFICES ASSUME Init PROVE ProvInv /\ KernelsKept
  OBVIOUS
<1>1. /\ row = [n \in Names |-> {}] /\ files = [n \in Names |-> {}] /\ tap = {} /\ staging = {}
      /\ registered \in Installed /\ journal = [n \in Names |-> None] /\ faults = 0
      /\ kernel = [k \in Kernels |-> IF k \in registered THEN "good" ELSE None]
      /\ pc = [n \in Names |-> "idle"] /\ call = [n \in Names |-> Idle]
  BY DEF Init
<1>2. /\ DOMAIN Idle = CallFields /\ Idle.op = None /\ Idle.owns = {} /\ Idle.made = {} /\ Idle.job = {}
      /\ Idle.install = FALSE /\ Idle.failed = FALSE
  BY DEF Idle, CallFields
<1>3. registered \subseteq Kernels /\ faults \in 0..ProvBudget
  BY <1>1, InstalledAssumption, ProvFaultsAssumption
<1>4. Stores
  BY <1>1, <1>3 DEF Stores, ProvLabels
<1>5. ASSUME NEW n \in Names PROVE Own(n) /\ KernelKept(n)
  <2>1. pc[n] = "idle" /\ call[n] = Idle /\ row[n] = {} /\ files[n] = {} /\ journal[n] = None
    BY <1>1
  <2>2. Flow(n)
    BY <1>2, <2>1 DEF Flow, Creating, Entering, Restoring, Deleting, Filling
  <2>3. RowsKnown(n) /\ VolumeKnown(n)
    BY <2>1 DEF RowsKnown, VolumeKnown, Restoring, Filling, Saving
  <2>4. JournalKnown(n) /\ LeftoverKnown(n)
    BY <2>1 DEF JournalKnown, LeftoverKnown, Restoring, Filling
  <2>5. Made(n)
    BY <1>2, <2>1 DEF Made
  <2>6. KernelKept(n)
    BY <2>1 DEF KernelKept, Complete, Rows, Creating, Restoring, Filling
  <2> QED BY <2>2, <2>3, <2>4, <2>5, <2>6 DEF Own
<1>6. KernelsKnown
  BY <1>1 DEF KernelsKnown
<1>7. KernelsKept
  BY <1>1, <1>3, <1>5 DEF KernelsKept
<1> QED BY <1>4, <1>5, <1>6, <1>7 DEF ProvInv

(* The steps of n's user and of n's calls.                                 *)
StepOf(n) ==
    \/ InvokeCreate(n) \/ InvokeRestore(n) \/ InvokeDelete(n) \/ DropCreation(n)
    \/ CreateStep(n) \/ RestoreSteps(n) \/ DeleteStep(n)

LEMMA StepKeeps ==
    ASSUME ProvInv, NEW n \in Names, StepOf(n)
    PROVE  Keeps(n)
BY InvokeCreateKeeps, InvokeRestoreKeeps, InvokeDeleteKeeps, DropCreationKeeps, CreateStepKeeps,
   RestoreStepsKeep, DeleteStepKeeps DEF StepOf

LEMMA NextIsStep ==
    ASSUME Next
    PROVE  (\E n \in Names : StepOf(n)) \/ Crash \/ Reboot
BY DEF Next, StepOf, Work

LEMMA StopKeeps ==
    ASSUME ProvInv, Crash \/ Reboot
    PROVE  ProvInv' /\ (KernelsKept => KernelsKept')
<1>1. StopAll /\ tap' \subseteq tap /\ \E kind : ProvFault(kind)
  BY DEF Crash, Reboot
<1> QED BY <1>1, StopAllKeeps

LEMMA StutterKeeps ==
    ASSUME ProvInv, UNCHANGED vars
    PROVE  ProvInv' /\ (KernelsKept => KernelsKept')
<1>1. UNCHANGED <<row, files, tap, kernel, registered, journal, staging, pc, call, faults>>
  BY DEF vars
<1>2. Stores' /\ (\A n \in Names : Own(n)')
  BY <1>1 DEF ProvInv, Stores, Own, Flow, RowsKnown, VolumeKnown, JournalKnown, LeftoverKnown, Pending, Made, There
<1>3. KernelsKnown'
  BY <1>1 DEF ProvInv, KernelsKnown, Vouches, Pending
<1>4. KernelsKept => KernelsKept'
  BY <1>1 DEF KernelsKept, KernelKept, Complete
<1> QED BY <1>2, <1>3, <1>4 DEF ProvInv

LEMMA ProvInvariant == Spec => []ProvInv
<1>1. Init => ProvInv
  BY InitInv
<1>2. ProvInv /\ [Next]_vars => ProvInv'
  BY NextIsStep, StepKeeps, StopKeeps, StutterKeeps DEF Keeps
<1> QED BY <1>1, <1>2, PTL DEF Spec

LEMMA ApartInvariant ==
    ASSUME RestoresApart
    PROVE  Spec => []ApartInv
<1>1. Init => ApartInv
  BY InitInv DEF ApartInv
<1>2. ApartInv /\ [Next]_vars => ApartInv'
  BY NextIsStep, StepKeeps, StopKeeps, StutterKeeps DEF Keeps, ApartInv
<1> QED BY <1>1, <1>2, PTL DEF Spec

(* LeftoversAreJournalled, for any number of names and kernels, any        *)
(* operations and any failures: the volume files and the kernel file that  *)
(* an interrupted restore leaves, the next one finds in restore_journal.   *)
THEOREM InterruptedRestoresAreJournalled == Spec => []LeftoversAreJournalled
<1>1. ASSUME ProvInv PROVE LeftoversAreJournalled
  <2>1. ASSUME NEW n \in Names
        PROVE  /\ call[n].op \in {"create", "restore", "delete", None} /\ (row[n] # {} => "vm" \in row[n])
               /\ {call[n].owns, call[n].made, call[n].job} \subseteq SUBSET Ownable
    <3>1. Own(n) /\ pc[n] \in ProvLabels
      BY <1>1 DEF ProvInv, Stores
    <3>2. call[n].op \in {"create", "restore", "delete", None}
      BY <3>1 DEF Own, Flow, ProvLabels, Creating, Entering, Restoring, Filling, Deleting
    <3>3. DOMAIN RollbackOrder \subseteq Ownable /\ DOMAIN AbortOrder \subseteq Ownable /\ "tap" \in Ownable
      BY DEF RollbackOrder, AbortOrder, Ownable, VolumeFiles
    <3>4. call[n].owns \subseteq Ownable /\ call[n].job \subseteq Ownable
      BY <3>1, <3>3 DEF Own, Flow
    <3>5. call[n].made \subseteq Ownable
      BY <3>1, <3>3, <3>4 DEF Own, Made
    <3> QED BY <3>1, <3>2, <3>4, <3>5 DEF Own, RowsKnown
  <2>2. ProvTypeOK
    BY <1>1, <2>1 DEF ProvTypeOK, ProvInv, Stores
  <2>3. ASSUME NEW n \in Names, row[n] = {}, "create" \notin ProvOps[n], files[n] \ {"dir"} # {}
        PROVE  journal[n] # None /\ journal[n].volume
    BY <1>1, <2>3 DEF ProvInv, Own, LeftoverKnown
  <2>4. ASSUME NEW k \in Kernels, kernel[k] # None, k \notin registered
        PROVE  \E n \in Names : KernelOf[n] = k /\ journal[n] # None /\ journal[n].kernel
    BY <1>1, <2>4 DEF ProvInv, KernelsKnown, Vouches
  <2> QED BY <2>2, <2>3, <2>4 DEF LeftoversAreJournalled
<1> QED BY <1>1, ProvInvariant, PTL

-----------------------------------------------------------------------------
(* What becomes complete.                                                  *)

(* The rows of a machine grow in four steps of a creation, or all at once. *)
LEMMA RowsChange ==
    ASSUME ProvInv, NEW n \in Names, StepOf(n)
    PROVE  \/ row'[n] \in {row[n], {}, {"vm"}}
           \/ /\ pc[n] \in {"save_network", "save_credential"}
              /\ row'[n] \subseteq row[n] \cup {"network", "credential"}
           \/ pc[n] = "runtime" /\ UNCHANGED <<registered, files, kernel, tap>>
           \/ pc[n] = "commit" /\ KernelOf[n] \in registered' /\ UNCHANGED <<files, kernel, tap>>
<1>1. row \in [Names -> SUBSET Rows]
  BY DEF ProvInv, Stores
<1>2. CASE UNCHANGED inventory
  BY <1>2 DEF inventory
<1>3. ASSUME NEW r, Remove(n, r) \/ RemovalFails(n, r) PROVE row'[n] \in {row[n], {}}
  <2>1. CASE Remove(n, r)
    BY <2>1, RemoveRemoves DEF Removed
  <2>2. CASE RemovalFails(n, r)
    BY <2>2 DEF RemovalFails, inventory
  <2> QED BY <1>3, <2>1, <2>2
<1>4. CASE ClaimName(n)
  BY <1>1, <1>4 DEF ClaimName
<1>5. CASE SaveRow(n, "save_network", "network", "save_credential")
  BY <1>1, <1>5 DEF SaveRow, At
<1>6. CASE SaveRow(n, "save_credential", "credential", "runtime")
  BY <1>1, <1>6 DEF SaveRow, At
<1>7. CASE SaveRow(n, "runtime", "runtime", "idle")
  BY <1>7 DEF SaveRow, At, disk
<1>8. CASE CommitRestore(n)
  BY <1>8 DEF CommitRestore, At, inventory
<1>9. CASE UndoNext(n, "rollback") \/ UndoNext(n, "abort")
  BY <1>3, <1>9 DEF UndoNext, inventory
<1>10. CASE ReconcileNext(n)
  BY <1>3, <1>10 DEF ReconcileNext, inventory
<1>11. CASE DeleteStep(n)
  BY <1>3, <1>11 DEF DeleteStep, DeleteNext, inventory
<1>12. CASE \/ InvokeCreate(n) \/ InvokeRestore(n) \/ InvokeDelete(n) \/ DropCreation(n)
            \/ ResolveCreation(n) \/ PrepareVolume(n) \/ GenerateKeys(n) \/ InjectKey(n) \/ ConfigureNetwork(n)
            \/ ConfigureGuest(n) \/ Undone(n, "rollback")
  BY <1>2, <1>12 DEF InvokeCreate, InvokeRestore, InvokeDelete, DropCreation, ResolveCreation, PrepareVolume,
     GenerateKeys, InjectKey, ConfigureNetwork, ConfigureGuest, Undone
<1>13. CASE CreateStep(n)
  BY <1>4, <1>5, <1>6, <1>7, <1>9, <1>12, <1>13 DEF CreateStep
<1>14. CASE ValidateRestore(n) \/ \E label, field, owned, next : LogOwned(n, label, field, owned, next)
  BY <1>14 DEF ValidateRestore, LogOwned
<1>15. CASE \/ StageArchive(n) \/ AttachNetwork(n) \/ MakeVolume(n) \/ OpenKernel(n) \/ FillKernel(n)
            \/ RestoreStep(n, "configure", {"io"}, "commit") \/ Undone(n, "abort")
            \/ \E label, new, kinds, next : CopyPayload(n, label, new, kinds, next)
  BY <1>2, <1>15 DEF StageArchive, AttachNetwork, MakeVolume, OpenKernel, FillKernel, RestoreStep, CopyPayload, Undone
<1>16. CASE RestoreSteps(n)
  BY <1>8, <1>9, <1>10, <1>14, <1>15, <1>16 DEF RestoreSteps
<1> QED BY <1>11, <1>12, <1>13, <1>16 DEF StepOf

LEMMA CompleteIsWhole ==
    ASSUME ApartInv, NEW n \in Names, StepOf(n), ~Complete(n), Complete(n)'
    PROVE  /\ files'[n] = VolumeFiles /\ n \in tap'
           /\ KernelOf[n] \in registered' /\ kernel'[KernelOf[n]] = "good"
<1>1. ProvInv /\ Own(n) /\ KernelKept(n) /\ \A k \in registered : kernel[k] = "good"
  BY DEF ApartInv, ProvInv, KernelsKept
<1>2. row'[n] = Rows /\ row[n] # Rows
  BY DEF Complete
<1>3. "runtime" \in row'[n] /\ row'[n] \notin {row[n], {}, {"vm"}}
  BY <1>2 DEF Rows
<1>4. ~ (/\ pc[n] \in {"save_network", "save_credential"}
         /\ row'[n] \subseteq row[n] \cup {"network", "credential"})
  BY <1>1, <1>3 DEF Own, RowsKnown
<1>5. CASE pc[n] = "runtime" /\ UNCHANGED <<registered, files, kernel, tap>>
  <2>1. files[n] = VolumeFiles /\ n \in tap
    BY <1>1, <1>5 DEF Own, VolumeKnown, Saving
  <2>2. KernelOf[n] \in registered
    BY <1>1, <1>5 DEF KernelKept, Creating
  <2> QED BY <1>1, <1>5, <2>1, <2>2
<1>6. CASE pc[n] = "commit" /\ KernelOf[n] \in registered' /\ UNCHANGED <<files, kernel, tap>>
  <2>1. files[n] = VolumeFiles /\ n \in tap
    BY <1>1, <1>6 DEF Own, VolumeKnown, Filling
  <2>2. kernel[KernelOf[n]] = "good"
    BY <1>1, <1>6 DEF KernelKept
  <2> QED BY <1>6, <2>1, <2>2
<1> QED BY <1>1, <1>3, <1>4, <1>5, <1>6, RowsChange

(* PublishesWholeMachines, when no two restores need the same absent       *)
(* kernel: no crash, failure or interleaving puts a machine into the       *)
(* inventory that is not all there.                                        *)
THEOREM OnlyWholeMachinesArePublished ==
    ASSUME RestoresApart
    PROVE  Spec => PublishesWholeMachines
<1> DEFINE Whole1(n) == /\ files'[n] = VolumeFiles /\ n \in tap'
                        /\ KernelOf[n] \in registered' /\ kernel'[KernelOf[n]] = "good"
<1>1. ASSUME ApartInv, Next, NEW n \in Names, ~Complete(n), Complete(n)' PROVE Whole1(n)
  <2>1. ProvInv /\ row[n] # row'[n]
    BY <1>1 DEF ApartInv, Complete
  <2>2. CASE StepOf(n)
    BY <1>1, <2>2, CompleteIsWhole
  <2>3. ASSUME NEW m \in Names, m # n, StepOf(m) PROVE FALSE
    BY <2>1, <2>3, StepKeeps DEF Keeps, Others
  <2>4. ASSUME Crash \/ Reboot PROVE FALSE
    BY <2>1, <2>4 DEF Crash, Reboot, StopAll, inventory
  <2> QED BY <1>1, <2>2, <2>3, <2>4, NextIsStep
<1>2. ApartInv /\ [Next]_vars => [\A n \in Names : ~Complete(n) /\ Complete(n)' => Whole1(n)]_vars
  BY <1>1
<1> QED BY <1>2, ApartInvariant, PTL DEF Spec, PublishesWholeMachines

-----------------------------------------------------------------------------
(* What complete machines lose.                                            *)

(* No name is both created and restored: a restore then finds no journal   *)
(* of its own under a machine that a creation made meanwhile.              *)
OneWay == \A n \in Names : ~({"create", "restore"} \subseteq ProvOps[n])

LEMMA CompleteIsUnharmed ==
    ASSUME ProvInv, OneWay, NEW n \in Names, StepOf(n), Complete(n), call[n].op # "delete"
    PROVE  UNCHANGED <<files, tap, kernel>>
<1>1. Own(n) /\ pc[n] \in ProvLabels /\ row[n] # {} /\ "runtime" \in row[n]
  BY DEF ProvInv, Stores, Complete, Rows
<1>2. row[n] \notin {{"vm"}, {"vm", "network"}, {"vm", "network", "credential"}}
  BY <1>1
<1>3. pc[n] \in {"idle", "resolve", "stage", "reconcile", "validate"}
  <2>1. pc[n] \notin Restoring /\ pc[n] \notin Deleting
    BY <1>1 DEF Own, RowsKnown, Flow
  <2>2. pc[n] \notin Creating \ {"resolve"}
    BY <1>1, <1>2 DEF Own, RowsKnown, Creating
  <2> QED BY <1>1, <2>1, <2>2 DEF ProvLabels, Restoring, Filling, Deleting, Creating
<1>4. pc[n] = "reconcile" => call[n].job = {}
  <2>1. ASSUME pc[n] = "reconcile" PROVE call[n].job = {}
    <3>1. "restore" \in ProvOps[n]
      BY <1>1, <2>1, NoneAssumption DEF Own, Flow, Entering
    <3>2. "create" \notin ProvOps[n]
      BY <3>1 DEF OneWay
    <3> QED BY <1>1, <2>1, <3>2 DEF Own, JournalKnown
  <2> QED BY <2>1
<1>5. CASE InvokeCreate(n) \/ InvokeRestore(n) \/ InvokeDelete(n) \/ DropCreation(n)
  BY <1>5 DEF InvokeCreate, InvokeRestore, InvokeDelete, DropCreation, disk
<1>6. CASE CreateStep(n)
  BY <1>3, <1>6 DEF CreateStep, ResolveCreation, ClaimName, PrepareVolume, GenerateKeys, InjectKey, ConfigureNetwork,
     ConfigureGuest, SaveRow, UndoNext, Undone, At, disk
<1>7. CASE RestoreSteps(n)
  <2>1. StageArchive(n) \/ ReconcileNext(n) \/ ValidateRestore(n)
    BY <1>3, <1>7 DEF RestoreSteps, AttachNetwork, LogOwned, MakeVolume, CopyPayload, OpenKernel, FillKernel,
       RestoreStep, CommitRestore, UndoNext, Undone, At
  <2>2. CASE StageArchive(n) \/ ValidateRestore(n)
    BY <2>2 DEF StageArchive, ValidateRestore, disk
  <2>3. CASE ReconcileNext(n)
    BY <1>4, <2>3 DEF ReconcileNext, First, At, disk
  <2> QED BY <2>1, <2>2, <2>3
<1>8. CASE DeleteStep(n)
  BY <1>3, <1>8 DEF DeleteStep, DeleteNext, At
<1> QED BY <1>5, <1>6, <1>7, <1>8 DEF StepOf

(* OnlyDeletionDestroys, under the same condition on kernels and for names *)
(* that are created or restored but not both: the run restore_over_created *)
(* shows what happens otherwise.                                           *)
THEOREM CompleteMachinesStayWhole ==
    ASSUME RestoresApart, OneWay
    PROVE  Spec => OnlyDeletionDestroys
<1>1. ASSUME ApartInv, NEW m \in Names, StepOf(m), NEW n \in Names, Complete(n), call[n].op # "delete"
      PROVE  Whole(n)
  <2>1. ProvInv /\ Keeps(m) /\ KernelKept(n) /\ KernelsKept
    BY <1>1, StepKeeps DEF ApartInv, KernelsKept
  <2>2. CASE n = m
    BY <1>1, <2>1, <2>2, CompleteIsUnharmed DEF Whole
  <2>3. CASE n # m
    <3>1. files'[n] = files[n] /\ (n \in tap' <=> n \in tap)
      BY <2>1, <2>3 DEF Keeps, Others
    <3>2. KernelOf[n] \in registered /\ KernelOf[n] \in Kernels
      BY <1>1, <2>1, KernelOfAssumption DEF KernelKept
    <3>3. kernel'[KernelOf[n]] = kernel[KernelOf[n]]
      BY <2>1, <3>2 DEF Keeps
    <3> QED BY <3>1, <3>3 DEF Whole
  <2> QED BY <2>2, <2>3
<1>2. ASSUME Crash, NEW n \in Names PROVE Whole(n)
  BY <1>2 DEF Crash, StopAll, disk, Whole
<1>3. ASSUME ApartInv, Next
      PROVE  Reboot \/ \A n \in Names : Complete(n) /\ call[n].op # "delete" => Whole(n)
  BY <1>1, <1>2, <1>3, NextIsStep
<1>4. ApartInv /\ [Next]_vars => [Reboot \/ \A n \in Names : Complete(n) /\ call[n].op # "delete" => Whole(n)]_vars
  BY <1>3
<1> QED BY <1>4, ApartInvariant, PTL DEF Spec, OnlyDeletionDestroys

-----------------------------------------------------------------------------
(* What failed calls leave.                                                *)

(* A call that goes on, is still the same operation.                       *)
LEMMA GoesOn ==
    ASSUME ProvInv, NEW n \in Names,
           \/ \E l, x : Step(n, l, x) \/ Unnoted(n, l, x)
           \/ \E job, failed : \/ Set(n, [call[n] EXCEPT !.job = job])
                               \/ Set(n, [[call[n] EXCEPT !.job = job] EXCEPT !.failed = failed])
           \/ \E owns, job : \/ Set(n, [call[n] EXCEPT !.owns = owns])
                             \/ Set(n, [[call[n] EXCEPT !.owns = owns] EXCEPT !.job = job])
    PROVE  call'[n].op = call[n].op
<1>1. DOMAIN call = Names /\ DOMAIN call[n] = CallFields
  BY DEF ProvInv, Stores, Own, Flow
<1>2. ASSUME NEW d, Set(n, d), d.op = call[n].op PROVE call'[n].op = call[n].op
  BY <1>1, <1>2 DEF Set
<1>3. ASSUME NEW l, NEW x, Step(n, l, x) PROVE call'[n].op = call[n].op
  <2> DEFINE d == [call[n] EXCEPT !.owns = @ \cup x, !.made = @ \cup x]
  <2>1. Set(n, d) /\ d.op = call[n].op
    BY <1>1, <1>3 DEF Step, CallFields
  <2> HIDE DEF d
  <2> QED BY <1>2, <2>1
<1>4. ASSUME NEW l, NEW x, Unnoted(n, l, x) PROVE call'[n].op = call[n].op
  <2> DEFINE d == [call[n] EXCEPT !.made = @ \cup x]
  <2>1. Set(n, d) /\ d.op = call[n].op
    BY <1>1, <1>4 DEF Unnoted, CallFields
  <2> HIDE DEF d
  <2> QED BY <1>2, <2>1
<1>5. ASSUME NEW job, NEW failed,
             \/ Set(n, [call[n] EXCEPT !.job = job])
             \/ Set(n, [[call[n] EXCEPT !.job = job] EXCEPT !.failed = failed])
      PROVE  call'[n].op = call[n].op
  <2> DEFINE d == [call[n] EXCEPT !.job = job]
             e == [d EXCEPT !.failed = failed]
  <2>1. d.op = call[n].op /\ DOMAIN d = CallFields
    BY <1>1 DEF CallFields
  <2>2. Set(n, d) \/ Set(n, e)
    BY <1>5
  <2> HIDE DEF d
  <2>3. e.op = call[n].op
    BY <2>1 DEF CallFields
  <2> HIDE DEF e
  <2> QED BY <1>2, <2>1, <2>2, <2>3
<1>6. ASSUME NEW owns, NEW job,
             \/ Set(n, [call[n] EXCEPT !.owns = owns])
             \/ Set(n, [[call[n] EXCEPT !.owns = owns] EXCEPT !.job = job])
      PROVE  call'[n].op = call[n].op
  <2> DEFINE d == [call[n] EXCEPT !.owns = owns]
             e == [d EXCEPT !.job = job]
  <2>1. d.op = call[n].op /\ DOMAIN d = CallFields
    BY <1>1 DEF CallFields
  <2>2. Set(n, d) \/ Set(n, e)
    BY <1>6
  <2> HIDE DEF d
  <2>3. e.op = call[n].op
    BY <2>1 DEF CallFields
  <2> HIDE DEF e
  <2> QED BY <1>2, <2>1, <2>2, <2>3
<1> QED BY <1>3, <1>4, <1>5, <1>6

(* The step with which a call reports an error.                            *)
Fails(n) ==
    /\ call[n].op \in {"create", "restore"} /\ call'[n].op = None /\ call'[n].result = "failed"

(* A call fails before it made anything, or at the end of an undo.         *)
LEMMA WhereCallsFail ==
    ASSUME ProvInv, NEW n \in Names, StepOf(n), Fails(n)
    PROVE  \/ pc[n] \in {"resolve", "claim", "stage", "reconcile", "validate"}
           \/ pc[n] \in {"rollback", "abort"} /\ Undone(n, pc[n]) /\ ~call[n].failed
<1>1. Own(n) /\ DOMAIN call = Names
  BY DEF ProvInv, Stores
<1>2. call[n].op # None /\ call'[n].op # call[n].op
  BY NoneAssumption DEF Fails
<1>3. ASSUME NEW result, result # "failed", Return(n, result) PROVE FALSE
  <2>1. call'[n] = [Idle EXCEPT !.result = result]
    BY <1>1, <1>3 DEF Return, Set
  <2>2. [Idle EXCEPT !.result = result].result = result
    BY DEF Idle
  <2> QED BY <1>3, <2>1, <2>2 DEF Fails
<1>4. CASE InvokeCreate(n) \/ InvokeRestore(n) \/ InvokeDelete(n)
  BY <1>1, <1>2, <1>4 DEF InvokeCreate, InvokeRestore, InvokeDelete, At, Own, Flow
<1>5. CASE DropCreation(n)
  BY <1>3, <1>5, NoneAssumption DEF DropCreation
<1>6. CASE DeleteStep(n)
  BY <1>1, <1>6 DEF DeleteStep, DeleteNext, At, Own, Flow, Deleting, Fails
<1>7. CASE ResolveCreation(n) \/ ClaimName(n) \/ StageArchive(n) \/ ReconcileNext(n) \/ ValidateRestore(n)
  BY <1>7 DEF ResolveCreation, ClaimName, StageArchive, ReconcileNext, ValidateRestore, At
<1>8. ASSUME \/ Rollback(n) \/ AbortRestore(n) \/ \E l, x : Step(n, l, x) \/ Unnoted(n, l, x) PROVE FALSE
  <2>1. CASE \E l, x : Step(n, l, x) \/ Unnoted(n, l, x)
    BY <1>2, <2>1, GoesOn
  <2>2. ASSUME NEW job, Set(n, [call[n] EXCEPT !.job = job]) PROVE FALSE
    BY <1>2, <2>2, GoesOn
  <2> QED BY <1>8, <2>1, <2>2 DEF Rollback, AbortRestore
<1>9. CASE PrepareVolume(n) \/ InjectKey(n) \/ ConfigureNetwork(n) \/ ConfigureGuest(n)
  BY <1>8, <1>9 DEF PrepareVolume, InjectKey, ConfigureNetwork, ConfigureGuest
<1>10. CASE GenerateKeys(n)
  <2>1. ASSUME NEW job, Set(n, [call[n] EXCEPT !.job = job]) PROVE FALSE
    BY <1>2, <2>1, GoesOn
  <2> QED BY <1>8, <1>10, <2>1 DEF GenerateKeys
<1>11. CASE \/ SaveRow(n, "save_network", "network", "save_credential")
            \/ SaveRow(n, "save_credential", "credential", "runtime")
            \/ SaveRow(n, "runtime", "runtime", "idle")
  BY <1>3, <1>8, <1>11 DEF SaveRow
<1>12. CASE UndoNext(n, "rollback") \/ UndoNext(n, "abort")
  <2>1. ASSUME NEW job,
               \/ Set(n, [call[n] EXCEPT !.job = job])
               \/ Set(n, [[call[n] EXCEPT !.job = job] EXCEPT !.failed = TRUE])
        PROVE  FALSE
    BY <1>2, <2>1, GoesOn
  <2> QED BY <1>12, <2>1 DEF UndoNext
<1>13. CASE Undone(n, "rollback") \/ Undone(n, "abort")
  <2>1. ~call[n].failed
    <3>1. ASSUME call[n].failed PROVE FALSE
      <4>1. Return(n, "cleanup")
        BY <1>13, <3>1 DEF Undone
      <4> QED BY <1>3, <4>1
    <3> QED BY <3>1
  <2> QED BY <1>13, <2>1 DEF Undone, At
<1>14. CASE AttachNetwork(n) \/ MakeVolume(n) \/ OpenKernel(n) \/ FillKernel(n)
  BY <1>8, <1>14 DEF AttachNetwork, MakeVolume, OpenKernel, FillKernel
<1>15. CASE \/ RestoreStep(n, "configure", {"io"}, "commit")
            \/ \E label, new, kinds, next : CopyPayload(n, label, new, kinds, next)
  BY <1>8, <1>15 DEF RestoreStep, CopyPayload
<1>16. ASSUME NEW label, NEW field, NEW owned, NEW next, LogOwned(n, label, field, owned, next) PROVE FALSE
  <2> DEFINE owns == call[n].owns \cup {owned}
  <2>1. \/ Set(n, [call[n] EXCEPT !.owns = owns])
        \/ \E job : Set(n, [[call[n] EXCEPT !.owns = owns] EXCEPT !.job = job])
    BY <1>16 DEF LogOwned
  <2> HIDE DEF owns
  <2> QED BY <1>2, <2>1, GoesOn
<1>17. CASE CommitRestore(n)
  BY <1>3, <1>8, <1>17 DEF CommitRestore
<1>18. CASE CreateStep(n)
  BY <1>7, <1>9, <1>10, <1>11, <1>12, <1>13, <1>18 DEF CreateStep
<1>19. CASE RestoreSteps(n)
  BY <1>7, <1>12, <1>13, <1>14, <1>15, <1>16, <1>17, <1>19 DEF RestoreSteps
<1> QED BY <1>4, <1>5, <1>6, <1>18, <1>19 DEF StepOf

(* FailedCallLeavesNothing, under the condition on kernels: an error that  *)
(* create_microvm or restore_snapshot returns as its own, after a clean-up *)
(* without failures, leaves nothing of what the call made.                 *)
THEOREM FailuresAreUndone ==
    ASSUME RestoresApart
    PROVE  Spec => FailedCallLeavesNothing
<1> DEFINE Left(n) == (call[n].made \ (IF call[n].op = "create" THEN {"tap"} ELSE {})) \cap There(n)'
<1>1. ASSUME ApartInv, NEW n \in Names, StepOf(n), Fails(n) PROVE Left(n) = {}
  <2>1. ProvInv /\ Own(n) /\ KernelKept(n)
    BY <1>1 DEF ApartInv, ProvInv, KernelsKept
  <2>2. CASE pc[n] \in {"resolve", "claim", "stage", "reconcile", "validate"}
    <3>1. call[n].owns = {} /\ (call[n].op = "create" <=> pc[n] \in Creating)
      BY <2>1, <2>2 DEF Own, Flow, Creating, Restoring, Entering, Filling
    <3> QED BY <2>1, <3>1 DEF Own, Made
  <2>3. CASE pc[n] \in {"rollback", "abort"} /\ Undone(n, pc[n]) /\ ~call[n].failed
    <3>1. /\ call[n].job = {} /\ UNCHANGED <<row, registered, journal, files, kernel, staging, tap>>
      BY <2>3 DEF Undone, inventory, disk
    <3>2. There(n)' = There(n)
      BY <3>1 DEF There
    <3>3. CASE pc[n] = "rollback"
      BY <2>1, <2>3, <3>1, <3>2, <3>3 DEF Own, Made, Flow, Creating
    <3>4. CASE pc[n] = "abort"
      <4>1. "kernel" \in call[n].made => "kernel" \notin There(n)
        BY <2>1, <2>3, <3>1, <3>4 DEF KernelKept, There, ProvInv, Stores, VolumeFiles
      <4>2. (call[n].made \ {"kernel"}) \cap There(n) = {} /\ call[n].op = "restore"
        BY <2>1, <2>3, <3>1, <3>4 DEF Own, Made, Flow, Restoring
      <4> QED BY <3>2, <4>1, <4>2
    <3> QED BY <2>3, <3>3, <3>4
  <2> QED BY <1>1, <2>1, <2>2, <2>3, WhereCallsFail
<1>2. ASSUME ApartInv, Next, NEW n \in Names, Fails(n) PROVE Left(n) = {}
  <2>1. ProvInv /\ call'[n] # call[n]
    BY <1>2, NoneAssumption DEF ApartInv, Fails
  <2>2. ASSUME NEW m \in Names, m # n, StepOf(m) PROVE FALSE
    BY <2>1, <2>2, StepKeeps DEF Keeps, Others
  <2>3. ASSUME Crash \/ Reboot PROVE FALSE
    <3>1. call'[n] = Idle /\ Idle.result = None
      BY <2>3 DEF Crash, Reboot, StopAll, Idle
    <3> QED BY <1>2, <3>1, NoneAssumption DEF Fails
  <2> QED BY <1>1, <1>2, <2>2, <2>3, NextIsStep
<1>3. ApartInv /\ [Next]_vars =>
        [\A n \in Names :
           call[n].op \in {"create", "restore"} /\ call'[n].op = None /\ call'[n].result = "failed"
              => Left(n) = {}]_vars
  BY <1>2 DEF Fails
<1> QED BY <1>3, ApartInvariant, PTL DEF Spec, FailedCallLeavesNothing
=============================================================================
