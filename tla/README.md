# A TLA+ model of taumaru-microvm

`taumaru-microvm` runs Firecracker MicroVMs on one Linux host. There is no
daemon: every `microvm` command is a process that embeds the SDK
(`crates/sdk`), and any program can embed the SDK too. All of them meet in a
SQLite inventory, a directory of downloaded artifacts, the VMs' volume
directories, loop devices and Device Mapper mappings, TAP interfaces and
firewall rules, systemd units, and the processes of the machines. What makes
the program correct is what its operations do to that shared state when they
interleave with each other, with machines that boot and power off by
themselves, with failing host commands, with killed SDK processes and with
reboots. This project models those operations, checks them with TLC and proves
most of the safety properties with TLAPS.

## The system

| Component | State it keeps | Operations | What makes it correct |
|---|---|---|---|
| lifecycle locks (`device_mapper.rs`, `manager.rs`) | one lock file per VM; one in-process mutex per name | `acquire_lifecycle_lock`, `target_lock` | one operation at a time; the lock is always given back |
| start, stop, update, snapshot (`manager.rs`) | `microvms` and `vm_runtime` rows | `start_microvm`, `stop_microvm`, `update_microvm`, `create_snapshot` | one writer per disk, the running machine is the recorded one, cleanup is complete |
| delete, configure_network (`manager.rs`) | the same rows, the volume | `delete_microvm`, `configure_network` | they never disturb a running machine |
| Firecracker adapter (`firecracker.rs`) | control socket, `firectl` and VMM processes | `socket_answers`, `process_references_vm`, `launch_detached`, `wait_for_stop`, `terminate_spawned` | silence is not taken for death where that matters |
| runtime disk (`device_mapper.rs`) | loop device, `snapshot-origin` mapping, copy-on-write view, private child | `ensure_mapping`, `release_mapping`, `create_snapshot_view`, `remove_snapshot_view`, private views | the mapping matches the file, nothing is pulled from under a reader, nothing stays suspended |
| snapshot worker and archive (`manager.rs`, `tar_zstd.rs`) | temporary files, the published archive | the blocking worker of `create_snapshot`, `publish` | the archive shows one moment, cleanup before publication, no overwriting |
| storage (`ext4.rs`, `guest_fs.rs`) | `rootfs.ext4`: its length, its filesystem, a few guest files | `prepare_rootfs`, `resize_rootfs`, key and network injection, sanitising | never truncated, never resized while in use, a recorded guest is reachable |
| creation (`manager.rs`) | in-memory journal, rows, volume, network | `create_microvm`, `rollback_creation` | all or nothing, repeatable |
| restore (`manager/restore.rs`, `archive/restore.rs`) | `restore_journals`, staging directory | `restore_snapshot`, `reconcile_restore_journals` | a crash leaves nothing that the journal does not know, other machines are untouched |
| artifacts (`manager.rs`, `registry/`) | cached files, inventory rows, target locks | `download_*`, `prune_*`, the reads of a creation | what is published and recorded is verified, a cancelled call ends |
| host network (`network/linux.rs`) | TAPs, addresses, routes, rules, two sysctls, `vm_networks` | `configure`, reconcile at start, release | exclusive addresses, complete configuration, complete removal |
| autostart (`manager/autostart.rs`, `boot.rs`, `commands/autostart.rs`) | `vm_autostart`, systemd template and instances | add, edit, rm, run at boot | units follow policies, every machine gets its turn |
| command line (`crates/cli`) | none of its own | ten commands with prompts and elevation | root does what the operator asked for and confirmed |

The hard behaviours are: two locks with different reach (some operations take
only the in-process one, some none); decisions taken on a probe or a listing
and acted on later; a machine that outlives the process that launched it and is
two processes, of which only `firectl` is recorded; changes of many host
commands (resize then row, launch then row, suspend then resume, a dozen
commands per network) that a failure or a crash can cut anywhere; cleanups that
fail as well; journals written before or after what they describe; timeouts
that race a late answer; a second process, started as root, that has only the
arguments the first one gave it. `PROJECT.json` lists them as hazards at their
lines.

## Modules

| Module | Role |
|---|---|
| `VmHost` | the shared state of one VM and the host calls that read and change it, each with every outcome it can leave behind |
| `VmLifecycle` | start, stop, update, snapshot, delete and configure_network as clients that interleave, crashes and reboots; extends `VmHost` |
| `DiskLease` | abstract specification of the root disk: attach, open, close, detach, resize; `VmLifecycle` implements it |
| `Capture` | the snapshot worker, one host command at a time |
| `RootDisk` | length and filesystem of one root disk, resizing, and the guest files that are edited in it |
| `Provisioning` | creation, restore and deletion of several VMs, with journals and shared kernels |
| `HostNetwork` | the host side of the networks of several VMs, one host command at a time |
| `ArtifactCache` | downloads, prune, and what creations and deletions do to the cache |
| `Autostart` | policies, systemd units, the run at boot |
| `CommandLine` | prompting, confirmation, elevation and the SDK call of ten commands |
| `MC...` | constants of the instances TLC checks, one module per specification |
| `VmLifecycleProofs`, `CaptureProofs`, `RootDiskProofs`, `ProvisioningProofs`, `HostNetworkProofs`, `ArtifactCacheProofs`, `AutostartProofs`, `CommandLineProofs` | theorems about the module of that name |

The component modules meet at steps that are single in one and expanded in
another: `Provisioning` configures a network in one step that `HostNetwork`
takes apart, prepares a disk in one step that `RootDisk` takes apart, and takes
kernels from the cache that `ArtifactCache` fills; the snapshot of
`VmLifecycle` is expanded by `Capture`; the SDK calls of `CommandLine` and the
starts of `Autostart` are single steps. Every one of those single steps has a
success, a failure that leaves nothing and, where the expanded module shows
one, a failure that leaves something (a network, a disk or rows in
`Provisioning`, `Remains` in `CommandLine`).

### VmHost and VmLifecycle

| Variable | In the code |
|---|---|
| `record` | `microvms.disk_size_bytes`, `None` once the row is deleted |
| `runtime` | `vm_runtime.process_id` and `process_state` |
| `volume`, `rootfs` | the volume directory, the length of `rootfs.ext4` |
| `loop`, `mapper`, `suspended` | `losetup` and `dmsetup` state of the VM's own names: the length of the loop device, the size of the mapping, its suspension |
| `view` | the snapshot view: nothing, its COW file, the mapped view, the view with a private child on it |
| `launcher`, `vmm` | live `firectl` pids; for each, the VMM it spawned: none, booting, serving its socket, running with its drive open |
| `socket` | directory entry of `firecracker.sock` and the VMM that serves it |

`firectl` and Firecracker are external programs. `Bind`, `OpenDisk`, `VmmExit`
and `FirectlExit` are what the SDK relies on: the VMM refuses an existing
socket path, `firectl` then configures the drive, a socket file stays behind
when its VMM ends, and killing `firectl` does not end the VMM.

Failures are chosen by `Faults`: `host` (any host command or file operation),
`db` (any database call), `probe` (a probe times out on a live machine or
errors), `launcher` (`firectl` is killed from outside), `crash` (an SDK process
dies between any two steps), `reboot`.

A client is one call in flight; `pc` names the point it has reached. There is
one action per call that reads or changes shared state, in the order of the
code, and early returns go to `"fail"`, which `Return` turns into the release
of the guards. The labels of one operation read like its function: start is
`load, probe, (adopt | checkpid, release, socket, reset, prepare, ensure,
launch, starting, await, commit, confirm)`, with `kill, killwait, retain | undo,
undosocket, undoreset` for `cleanup_failed_launch` and `unlaunch, undoreset` for
`cleanup_unstarted_launch`. Steps that several operations share (`Load`,
`Probe`, `CheckPid`, `Release`, `ClearSocket`, `ResetRuntime`) are one action,
and `OnAnswer`, `OnSilence` and `AfterExit` say where each operation goes on.
`delete` and `configure_network` skip the label `"lifecycle"`, as they do in
the code.

Simplifications: one VM (operations on different VMs share only the database
and the network); the extra volume lock, which exists only for volumes outside
`vms/<name>` and is taken last, is left out; the record and the files it names
are read in one step; what `validate_persisted_files` asks of a machine before
`configure_network` beyond the presence of its disk (length, stopped row, no
socket) is left out, so that the model lets more calls through than the code;
the error returns of `build_start_result` and `build_stop_result`, which come
after the last change, are left out, so that the model reports more successes
than the code; `ensure_mapping` that
reuses a loop device and then fails counts as the failure that leaves it; update
changes the disk size only, memory and vCPU count
being choices that end in `ok`, `fail` or the row; each `dmsetup`/`losetup` call
sequence is one step with all its partial outcomes, except in the snapshot,
where suspend, map, resume and remove are separate.

### Capture

`devs` is the set of loop devices, mappings and files that exist, for the
guest's own disk, the stable view, the private view and the archive; `content`
counts what the guest has written, `frozen` is what the stable view shows, so
an archive read in two parts shows whether both are of one moment. `call` holds
what the worker believes it made (`holds`), what it really made (`made`) and
what an early return forgets (`leaked`). Each `dmsetup`, `losetup`, allocation,
read, unlink and rename is an action with success, failure and, where the code
checks it, a cancelled token. Errors on the way in lead through
`remove_private`, `drop_view`, `drop_loop`, `drop_file` in the order of the
code; `settle` decides between publishing and failing. `Invalidate` is a failing
write of the COW store; that the guest cannot fill the store is proved.

### RootDisk

`disk` is the length of the file and the extent of the filesystem, `used` what
the filesystem holds, `db` the recorded size. A call (`job`) is a list of steps:
creation fills and grows a copy of the image, then runs one `debugfs` edit
after another; an update converges, grows or shrinks (file first when growing,
filesystem first when shrinking), verifies, writes the row and rolls back;
a snapshot strips the network unit; a restore writes a new one. Sizes are
counted in units of which a block has `Block`, so that sizes that are no
multiple of a block occur. A guest file is its kind, its mode and the list of
who wrote its lines. A crash discards the volume of a creation that was under
way: `create_microvm` of the same name refuses it until a deletion removes row
and volume, and no operation of this module ever meets it.

### Provisioning

Per name: which inventory rows and which volume files exist, whether the
network is configured, the row of `restore_journals`, the staging directory;
per kernel, the file and its row. A creation keeps what it owns in
`call.owns` as `CreationJournal` does and undoes it in the order of
`rollback_creation`; a restore keeps a durable journal (of its network and
directory after making them, of a kernel before) and undoes in `AbortOrder`;
`ReconcileJob` is `reconcile_restore_journals`. What is left to remove is the
set `call.job`; `First` picks the next from it in the order of the code. `Crash` ends the
calls of a process, `Reboot` also removes the networks. That
`verify_network_outcome` refuses what a restore was given cannot happen with the
Linux adapter, which takes exact values or fails, and is left out. A creation whose future
is dropped (`DropCreation`) ends where it waits and rolls nothing back.

### HostNetwork

Per VM: the parts of its network that exist (TAP, link up, route, proxy-ARP
entry, address, rules), the row of `vm_networks` with its two ownership
flags; shared: `ip_forward` and the uplink's `proxy_arp`. A call works through
a set of resources with one host command each, in the order of the code
(`ApplyOrder`, `UndoOrder`), remembers which it applied itself, and undoes those
when one fails; reconciling at start skips what is
there; release treats what is absent as released. Addresses are small naturals,
a private `/30` a block of four, and the LAN scan looks downwards from the
broadcast address as the code does; a caller may also ask for a block or a LAN
address. Calls of different VMs interleave, since the locks are per name; how
often one begins beside another is counted with the faults. Two history
variables remember it: `alone`, the VM whose call has had no other beside it, and
`raced`, for each VM those that were being created when its creation began.

Rules are counted by direction (`out`, `in`, `nat`), so the two incoming FORWARD
rules of a routed network are one. They are a set, and what is left of them when the VM
is gone belongs to nobody; the code inserts its NAT rule without looking whether
it is there (`linux.rs:1637-1642`), so the creation of a VM of the same name and
addresses after a failed cleanup has it twice, and its deletion removes one. That
copy is not in the model.

### ArtifactCache

Per downloadable file: what is at its target path and which version its row
pins. All versions have one size, because the size is all that reuse checks. A
download goes through manifest, target lock, inspection, hashing of an
unrecorded file, cache decision, transfer to a temporary file, verification,
rename and row; prune through its listings and then, candidate by candidate in
the order of the queries, file and row; a creation through
resolution, verification, claim and copy. Target locks exist per process. The
registry may publish the next release at any point, a body may stall, be cut
short or be wrong.

### Autostart

Per home: machine rows with their ids, policies, and the run at boot; on the
host: the template unit and the enabled instances. Paths are sequences of
bytes, and the escape that makes an instance name of a home is computed byte by
byte as `boot.rs` does; the name is kept as the sequence of the pieces that stand
for one byte each. A command gains root, resolves the machine, changes the
policy, reads all policies back, and brings template and instance in line, one
database or `systemctl` call per step. The template file and the
`daemon-reload` after it are one step, and `Interrupt` has the outcome in which
the file was written and the reload failed; that a killed write leaves a
truncated template (`boot.rs:79`), which the next command replaces, is left out.
The boot run reads the policies and takes
them in name order, passes over paused ones, and tries each machine up to its
limit.

### CommandLine

A command is a script of stages (`need`, `terminal`, `rooted`, `ask`,
`confirm`, `elevate`, `perform`, ...) computed from what was typed, as the
functions in `commands/` are. `elevate` replaces the process by a child that
has only the fields its command line carries, with or without
`--non-interactive`. `want` keeps what the operator typed and answered, `did`
the call that was made, well or not. Other terminals change the machines
meanwhile; the probe with which a deletion begins is a stage of its own, because
a process at another terminal can come between it and the removal. A call that
fails may leave something (`Remains`): a machine that runs after a failed start
or is down after a failed stop, or a `broken` one, a row without its volume, which
is listed, and which every call but a deletion refuses.
`Accepted` is what the parser lets through for each verb; a capacity is a number
of twentieths, so that a size that needs two decimals can be told from one that
needs one, which is all that the flags of the elevated child write.

## Runs

Eleven runs pass and one expects a violation. `PROJECT.json` says for each what
it shows.

| Run | Instance | Properties |
|---|---|---|
| `locked_operations` | two clients in processes of their own, two pids; start, stop, update, snapshot; faults probe, db, launcher | `TypeOK`, `GuestIsNeverLeftFrozen`, `StopMeansGone` |
| `host_failures` | the same with faults host and launcher, three sizes | `StoppedCopyHasNoWriter`, `RunningMachineIsRecorded`, `DivergedDiskIsUnmapped` |
| `crashes` | the same with any number of crashes and reboots | `SingleWriter`, `MapperMatchesDisk`, `ImplementsLease` |
| `one_process` | two tasks of one process; all operations but snapshot; no faults, fair | `RunningMachineIsRecorded`, `DeleteRefusesRunning`, `LifecycleReleased` |
| `downloads` | a client that downloads an image and two binaries beside one that downloads, prunes, creates or deletes; two releases; every fault, cached files may vanish; fair | `PublishedIsVerified`, `RecordedIsIntactOrAbsent`, `ReportedIsVerified`, `CancelEndsDownloads` |
| `configure` | two VMs of either mode, four private blocks, a LAN of eight addresses, a block and two LAN addresses to ask for; two disturbances, each a failing command or write, a crash, a reboot or a call that begins beside another | `NothingIsLeftBehind`, `ExclusiveAddresses`, `ConfiguredIsUsable` |
| `create_and_restore` | a name that is restored, one that is created and deleted, one kernel, downloaded or not; three faults of any kind; fair | `LeftoversAreJournalled`, `OnlyDeletionDestroys`, `PublishesWholeMachines`, `FailedCallLeavesNothing`, `JournalsAreReconciled` |
| `capture` | both address policies, a guest that starts, stops and writes three times; two faults at any command | `NothingDangles`, `ArchiveIsOneMoment`, `ReturnsThawed`, `CleanReturn`, `PublishesSafely` |
| `policies` | homes `/a-b` and `/a/b`, two terminals, two commands of nine, two machines created or deleted, a boot, a fault; fair boot run | `PolicyFollowsMachine`, `SyncedOnSuccess`, `BootReachesEveryMachine` |
| `resize_and_edit` | blocks of two units, sizes 4, 6, 7 and 9, six images, five calls, two faults | `NothingTruncated`, `UpdateIsAllOrNothing`, `CleanUpdateSucceeds`, `RecordedGuestIsPrepared` |
| `commands` | ten verbs with and without values and `--non-interactive`, `ssh -- command` without a machine, sizes that need two decimals, users and root, with and without a terminal, two terminals, two commands, three homes, one with a disk below the minimum; fair | `ElevationKeepsTheRequest`, `ConfirmedBeforeChange`, `ChangesOnlyWhatWasAsked`, `CommandsReturn` |
| `restore_over_created` | one name that is restored and created; one reboot | `OnlyDeletionDestroys` is violated |

`TypeOK` and the type invariants that `PublishedIsVerified`,
`ExclusiveAddresses`, `LeftoversAreJournalled`, `NothingDangles`,
`PolicyFollowsMachine`, `NothingTruncated` and `ElevationKeepsTheRequest`
contain also state the relations between variables on which the actions rely.

### Why the bounds are enough

* Two clients and two pids: any two operations interleave, and a machine left
  over from an earlier launch meets a new one. `Sizes` has three values where a
  shrink can leave a length that is neither old nor new. Crashes and reboots in
  `crashes` are not bounded: they may hit a start, then the operation that
  recovers from it, and so on. Pids are symmetric, and so are two clients of
  two processes, and the two VMs of `configure`; runs that check liveness use
  no symmetry.
* In `downloads` the two packages share members, so that target locks are
  contended and one call finds what another published, and a release can appear
  between the manifest and the transfer.
* In `configure` two disturbances are a failing command and a failure of its
  undoing, a crash and a reboot, or an overlap and a failure in either of the two
  calls; the pool is larger than what two VMs need and the
  operator's network takes part of it, so that skipping and exhaustion happen.
* In `create_and_restore` three faults are an interruption, an interruption of
  its reconciliation and a failure of the next call; the shared kernel is where
  operations on different names meet.
* In `capture` two faults are a failing command and a failing or interrupted
  cleanup; three writes tell the time before the request, the frozen moment and
  the time of both reads apart.
* In `policies` the two homes have instance names that differ only if `-` is
  escaped; two commands overlap, and one may follow the other.
* In `resize_and_edit` 6 and 7 have the same number of blocks and 4 is the
  image's size; five calls are a creation, an interrupted update, its
  repetition, another update and a snapshot or restore.
* In `commands` two commands are one at each terminal, or two in a row; 7
  twentieths are a size that the flags of an elevated child cannot write.

Deadlock is checked except in `configure`, `policies`, `resize_and_edit` and
`commands`, which stop when their calls or faults are used up.

### The run that expects a violation

`restore_over_created`: `restore_snapshot` reconciles the journal of its name
(`restore.rs:186`) before it looks whether a VM of that name exists
(`restore.rs:192`). A restore journals its network, the host reboots, a VM of
that name is created, whose TAP has the same name, and the next restore deletes
the TAP of that VM and then reports that the name is taken.
`specs/021-vm-restore/spec.md:133` (FR-015) and `:157` (SC-007) ask that only
state owned by the interrupted operation is removed.

### Fairness

* `LifecycleReleased`: a client inside an operation keeps taking steps, since
  the waits of the code have deadlines and the rest are calls that return. There
  is one exception: start and update ask the registry for its manifest, and the
  HTTP client sets no timeout (`taumaru.rs:32`). That the registry answers is a
  premise of the property (`AsksRegistry`) and no fairness of the specification.
  `TakeName` is strongly fair because the name lock is a Tokio mutex, which
  serves waiters in arrival order. Nothing is assumed of `TakeLifecycle`:
  `acquire_lifecycle_lock` polls, and a process can lose that race for ever, so
  no property says that every operation gets its turn. The machine is not fair
  either: a guest may ignore a shutdown request.
* `CancelEndsDownloads`: calls go on while they can. Neither the answer to a
  request nor the arrival of its body is fair. The property is about calls whose
  token was triggered; the loop that receives a body watches the token, so there
  a registry that falls silent does no harm. The request itself is awaited
  outside that loop (`manager.rs:4421`), so its answer is a premise.
* `JournalsAreReconciled`: calls go on, and a user whose restore was
  interrupted asks again. Reconciliation happens nowhere else. A creation that
  waits for the manifest is not assumed to go on.
* `BootReachesEveryMachine`: a boot run goes on. That the starts it makes return
  is a premise (`TriesReturn`), because of the manifest again.
* `CommandsReturn`: commands go on where they wait for nobody. That operators
  answer or cancel, sudo and the registry answer and sessions end is a premise
  (`AllAnswer`).

### Wrong variants

A definition that nothing uses is a plausible mistake in the code; with it in
place of the definition after it, TLC refutes the property.

| Variant | The mistake | Refuted |
|---|---|---|
| `LaunchingRow` | a process state the schema does not admit | `TypeOK` |
| `UnmapWithoutResume` | the origin is not resumed after the view is removed | `GuestIsNeverLeftFrozen` |
| `SkipCheckPid` | silence alone counts as stopped | `StoppedCopyHasNoWriter` |
| `KillWithoutWait` | the failed launch is reset without waiting for its exit | `RunningMachineIsRecorded` |
| `FilesOfAnySizeAreValid` | start does not compare the disk with its record | `DivergedDiskIsUnmapped` |
| `ReleaseIgnoringErrors` | a failed release is ignored | `StopMeansGone` |
| `RemoveAnySocket` | the socket is unlinked without probing it | `SingleWriter` |
| `InspectSkippingRelease` | update resizes without releasing the mapping | `MapperMatchesDisk`, `ImplementsLease` |
| `TakeNameShared` | the name lock does not exclude | `RunningMachineIsRecorded` in one process |
| `OnAnswerDeleteToo` | delete ignores an answering socket | `DeleteRefusesRunning` |
| `AwaitSocketForever` | start waits for its socket without a deadline | `LifecycleReleased` |
| `ReceiveUnverified` | a body is published without comparing its digest | `PublishedIsVerified` |
| `KeepRow` | a row stays while its file is replaced | `RecordedIsIntactOrAbsent` |
| `SkipWithoutStat` | a row is trusted without looking at the file | `ReportedIsVerified` |
| `CancelPointsOutsideTransfer` | the transfer loop does not watch the token | `CancelEndsDownloads` |
| `UndoAttemptWithoutRules` | the rollback forgets the firewall rules | `NothingIsLeftBehind` |
| `OccupiedByLiveAddresses` | only live interfaces count as used, not the rows | `ExclusiveAddresses` |
| `RestTrustingTap` | an existing TAP is taken for a complete network | `ConfiguredIsUsable` |
| `UndoNextForgetting` | a rollback drops the journal entry of what it failed to remove | `LeftoversAreJournalled` |
| `InstallAlways` | a restore claims a kernel that was there before | `OnlyDeletionDestroys` |
| `CopyIgnoringErrors` | a failed copy of the payload is not noticed | `PublishesWholeMachines` |
| `AbortOrderWithoutNetwork` | aborting leaves the network | `FailedCallLeavesNothing` |
| `ReconcileJobKeepingJournal` | reconciliation does not remove the journal | `JournalsAreReconciled` |
| `DropLoopAfterFile` | the COW file goes before its loop device | `NothingDangles` |
| `SkipSuspend` | the view is mapped without suspending the origin | `ArchiveIsOneMoment` |
| `RemoveViewUnlessItFails` | a failed removal returns before resuming the guest | `ReturnsThawed` |
| `VerifyViewWithoutUndo` | a failed verification returns without undoing the view | `CleanReturn` |
| `SettleIgnoringFailures` | the archive is published although the cleanup failed | `PublishesSafely` |
| `RemoveMachineKeepingPolicy` | no `ON DELETE CASCADE` | `PolicyFollowsMachine` |
| `EscapeByteKeepingDash` | `-` is not escaped in an instance name | `SyncedOnSuccess` |
| `BootTryFailsAndStops` | a machine that fails ends the boot run | `BootReachesEveryMachine` |
| `ShrinkFileFirst` | the file is cut before the filesystem | `NothingTruncated` |
| `BeginWithoutConverging` | a diverged file is not brought to its record first | `UpdateIsAllOrNothing` |
| `ConvergeTrustingLength` | the last step of a shrink compares the length instead of setting it | `CleanUpdateSucceeds` |
| `WritePublicKeyIfMissing` | an existing `authorized_keys` is left as it is | `RecordedGuestIsPrepared` |
| `SshScriptForgettingCommand` | the child of a session on a named machine is not told the remote command | `ElevationKeepsTheRequest` |
| `DeleteScriptUnconfirmed` | delete does not ask | `ConfirmedBeforeChange` |
| `ChangeFlagsOfAll` | edit passes unchanged capacities as changes | `ChangesOnlyWhatWasAsked` |
| `MayElevateRepeatedly` | a child that is not root elevates again, and the password is asked for without end | `CommandsReturn` |

## Disagreements outside the runs

While the models were written, other places were met where the code does not do
what a document, or a neighbouring piece of code, leads one to expect. Where a
property would be refuted by them, the property excepts exactly that case or
the instance leaves it out, and the place is named here. "With ..." says how to
change an instance to see it in TLC.

Lifecycle (`VmLifecycle`):

* Delete takes no lock file: with the clients `Apart` and the operations start
  and delete, `DeleteRefusesRunning` fails. `manager.rs:2095` says "A running
  machine (its control socket answers) is refused". `CommandLine`, whose
  terminals are processes of their own, has the same window between its probe and
  its call, and no property there denies it.
* Start and update wait for the registry without a timeout while they hold the
  lock file (`taumaru.rs:32`), so a registry that accepts the request and stays
  silent blocks every other operation on the VM, the run at boot, and the
  commands `new` and `edit`. `LifecycleReleased`, `BootReachesEveryMachine` and
  `CommandsReturn` have its answer as a premise.
* configure_network writes back the runtime row it read and takes no lock file:
  with `Apart`, start and configure_network, `RunningMachineIsRecorded` fails
  (`manager.rs:1790`; `specs/008-start-microvm/spec.md:117`).
* A start killed between `launch_detached` and its first row leaves a machine
  that nobody knows: with start, snapshot and crashes, `StoppedCopyHasNoWriter`
  fails (`manager.rs:1427`; `specs/020-vm-snapshot/data-model.md:76`).
* A snapshot killed while the origin is suspended: a start adopts the machine
  and does not resume it (`manager.rs:1834`; `data-model.md:77`); the view that
  is left makes every later stop, start and resizing update fail
  (`device_mapper.rs:213`; `specs/019-vm-runtime-mapping/spec.md:94`).
* Delete never releases the mapping of a machine that powered itself off
  (`manager.rs:2139`; `README.md:162`, "Delete a VM and everything it owns").

Artifacts (`ArtifactCache`):

* A recorded kernel or image whose bytes changed on disk is reported as valid,
  since only its size is looked at: with `Damages = {"bad"}`,
  `ReportedIsVerified` fails (`manager.rs:150`;
  `specs/002-taumaru-registry-artifacts/spec.md:172`, FR-010 asks for size and
  digest).
* A cancelled download waits for the answer to its request: `fetch_file` is
  awaited outside the `select` on the token (`manager.rs:4421`, `:4430`).
  `CancelEndsDownloads` has that answer as a premise.
* Prune lists references and then removes files; a creation in between comes
  to need what is removed (`manager.rs:2499`;
  `specs/015-prune-unused-artifacts/spec.md:97`, FR-013).

Host network (`HostNetwork`):

* Two creations that overlap can choose the same addresses: both read what is in
  use before either writes its own (`linux.rs:742`), and `vm_networks` has no
  unique index. `ExclusiveAddresses` excepts the pairs in `raced`; without that
  it fails.
* The private block of a routed VM is compared with live addresses only
  (`linux.rs:288-290`), so it can be that of any VM that is down, although
  `specs/004-routed-lan-networking/data-model.md:154` wants private addresses
  unique. `ExclusiveAddresses` compares routed VMs by their LAN address and
  host-only VMs by their block.
* Reconciliation does not bring up a TAP that exists and is down, which a start
  killed between `tuntap add` and `link set up` leaves (`linux.rs:1935-1945`);
  `data-model.md:55` of that feature lists the link's state among what is
  reconciled. `ConfiguredIsUsable` asks for the link of those TAPs only that the
  call made.
* `ip_forward` is written back to 0 on deletion of the VM that found it off,
  although others rely on it (`linux.rs:113-120`;
  `specs/017-delete-microvm/spec.md:66`, "the surviving machine is fully
  unaffected"). `ConfiguredIsUsable` is therefore about the moment a call
  reports success, and about the sysctls only for a call that had no other beside
  it.
* The firewall rules of a host-only VM stay after its deletion, and after a
  creation that configured them and could not persist the network.

Creation and restore (`Provisioning`):

* A creation whose guest configuration fails leaves its network, because
  `journal.network` is set afterwards (`manager.rs:3786-3799`).
  `FailedCallLeavesNothing` excepts the network of a creation.
* A restore makes its network (`restore.rs:383`) and its directory
  (`restore.rs:403`) before it journals them; a crash in between leaves a TAP or
  an empty directory that no journal knows, although
  `specs/021-vm-restore/spec.md:133` (FR-015) has the next restore reconcile what
  an interrupted one left. `LeftoversAreJournalled` is about files only, and of a
  directory only once there is something in it.
* Two restores that need the same absent kernel: one that fails removes the
  file that the other found present (`restore.rs:459`).
* The staging directory of a restore that died before its journal existed is
  never removed.
* Repeating the creation of a routed VM without naming its address is refused
  as a conflict, since the stored address is compared with the empty request
  (`manager.rs:3206-3220`).

Snapshot worker (`Capture`), all three excepted by `CleanReturn` through
`call.leaked`: an error before the private COW file is attached keeps the file
(`device_mapper.rs:817`), an error while the parent of the private view is
inspected keeps file and loop device (`device_mapper.rs:866`), and an error of
the path check before publication keeps the staged archive (`tar_zstd.rs:80`).

Root disk (`RootDisk`):

* A disk whose filesystem an interrupted resize left smaller than its file
  stays so: the length alone decides that there is nothing to do
  (`ext4.rs:624-627`), and an update to the recorded sizes returns before it
  looks at the disk (`manager.rs:2299`).
* A guest file is replaced by removing and writing it (`guest_fs.rs:574-596`),
  and a host key whose public half cannot be written is removed on a best
  effort (`guest_fs.rs:196-199`). Both matter only to disks that the failing
  creation or restore discards.

Autostart (`Autostart`):

* Two commands of one home that overlap: the slower one brings the unit in line
  with policies it read before the other changed them
  (`commands/autostart.rs:261`; `specs/023-microvm-boot-autostart/spec.md:33`).
  `SyncedOnSuccess` is about commands that were alone on their home.
* Deleting the last machine with an enabled policy deletes the policy and leaves
  the unit enabled: `delete_microvm` knows nothing of systemd.
  `specs/023-microvm-boot-autostart/spec.md:46-47` has the unit disabled then. The
  next `autostart` command that succeeds on the home brings it in line. `SyncedOnSuccess` is
  about the commands, and counts one as not alone if a machine is deleted after
  it read the policies.
* An `UPDATE` that meets no row is reported as success (`sqlite.rs:1705`).

Command line (`CommandLine`), all about what an elevated child is told:

* `ssh -- command` without a machine name elevates before the selection, with
  the bare word `ssh` (`ssh.rs:181`). The child lets the operator select a
  machine and opens a shell on it; the command is gone. `cli.rs:315-316` documents this very use,
  "omit the name and put the command after `--`", and
  `specs/010-cli-ssh-command/spec.md:95` (FR-007) asks for the words verbatim.
* `new` hands the disk size over with one decimal (`new.rs:1071`,
  `new.rs:249-256`), and so the memory (`new.rs:258-268`, not in the model), so
  20.25 GB is created as another size than the review showed.
  `specs/007-microvm-new-command/spec.md:120` (FR-006) allows decimal values and
  says which size they stand for.
* These two are what `Altered` excepts from `ElevationKeepsTheRequest`; without
  it the property fails on both.
* The child of `delete web` is `delete web --non-interactive`
  (`delete.rs:109`), and the confirmation comes after the point where the parent
  has returned the child's status (`delete.rs:123`), so a user who is not root
  deletes a named machine unasked. Without `asked[t]["password"] = 0`,
  `ConfirmedBeforeChange` fails. `specs/018-cli-delete-command/spec.md:96`
  (FR-007) asks for a confirmation after the elevation; `plan.md:143-149` of
  that feature prescribes both the flag and the confirmation, which exclude each
  other. The child of `prune` is quiet likewise.

## Proofs

The theorems hold for any number of clients, processes, VMs, files, homes,
sizes, releases and faults: nothing of what bounds a run (fault budgets, call
and write counts, the size of a set) is used beyond its being a natural number
or a set. They assume what the `ASSUME`s of the modules say, which TLC evaluates
on every instance:

* `None` and its like are none of the other values; every client has a process;
  faults and operations are among the listed ones; sizes and bounds are
  naturals.
* `Capture`: an archive is not the file somebody else put at the requested path
  (`OutputAssumption`).
* `RootDisk`: images are whole blocks (`RootDiskAssumption`); the finitely many
  host key types have files of their own (`KeyTypesAssumption`); an image
  describes every path that is edited, ships no authorized key twice and no host
  key that the SDK has yet to make (`TreeAssumption`), and what a guest writes is
  a file (`GuestEditsAssumption`). A key that an image shipped twice would stay
  there twice: the SDK only looks whether its own is missing.
* `ArtifactCache`: a creation needs an image (`NeedsAssumption`), prune only
  looks at kernels and images (`PruneOrderAssumption`).
* `Autostart`: there are enough ids for every machine, and what a command
  carries is a request (`AutostartAssumption`).
* `Provisioning`: `None` is not a journal (`JournalsAssumption`), and every name
  has a kernel (`KernelOfAssumption`).
* `CommandLine`: what is typed uses arguments that its verb has, a capacity being
  a number (`RequestsAssumption`), and the homes hold machines with a state and
  capacities (`HomesAssumption`).
* `HostNetwork`: finitely many VMs, pool blocks of four addresses, an uplink
  network that starts at a multiple of its size.

Some theorems have a hypothesis of their own. Each is the weakest one found
under which the code keeps the property; what happens without it is listed under
"Disagreements outside the runs" or said below.

| Theorem | States | Hypothesis |
|---|---|---|
| `TypeCorrect` | `TypeOK` | none |
| `MappingMatchesDisk`, `DivergedDiskStaysUnmapped`, `StopIsComplete`, `ResizesAreOffline`, `LifecycleImplementsLease` | `MapperMatchesDisk`, `DivergedDiskIsUnmapped`, `StopMeansGone`, `ResizeOffline`, `ImplementsLease` | none |
| `OneWriter` | `SingleWriter` | no unreliable probe, no delete |
| `OneWriterAlsoWithDelete`, `StoppedCopiesAreQuiet`, `MachinesAreRecorded`, `DeletesAreOffline` | `SingleWriter`, `StoppedCopyHasNoWriter`, `RunningMachineIsRecorded`, `DeleteRefusesRunning` | `Sheltered` |
| `GuestsAreThawed` | `GuestIsNeverLeftFrozen` | `Undisturbed` |
| `LayersStand`, `ArchivesAreConsistent`, `GuestIsThawed`, `CallsCleanUp`, `PublicationIsLast` | `NothingDangles`, `ArchiveIsOneMoment`, `ReturnsThawed`, `CleanReturn`, `PublishesSafely` | none |
| `StoreIsLargeEnough` | a fact about `CowSectors` | none |
| `DiskIsNeverTruncated`, `UpdatesAreAllOrNothing`, `CleanUpdatesSucceed` | `NothingTruncated`, `UpdateIsAllOrNothing`, `CleanUpdateSucceeds` | none |
| `GuestsArePrepared` | `RecordedGuestIsPrepared` | none |
| `OnlyVerifiedBytes` | `PublishedIsVerified` | nobody but the SDK writes into the cache |
| `RowsVouchForFiles`, `ReportsAreTrue` | `RecordedIsIntactOrAbsent`, `ReportedIsVerified` | the same, and one process |
| `CleanupIsComplete` | `NothingIsLeftBehind` | none |
| `AddressesAreExclusive`, `SuccessMeansUsable` | `ExclusiveAddresses`, `ConfiguredIsUsable` | none |
| `InterruptedRestoresAreJournalled` | `LeftoversAreJournalled` | none |
| `OnlyWholeMachinesArePublished`, `FailuresAreUndone` | `PublishesWholeMachines`, `FailedCallLeavesNothing` | `RestoresApart` |
| `CompleteMachinesStayWhole` | `OnlyDeletionDestroys` | `RestoresApart` and `OneWay` |
| `PoliciesFollowMachines` | `PolicyFollowsMachine` | none |
| `SuccessMeansSynced` | `SyncedOnSuccess` | none |
| `ChangesAreConfirmed` | `ConfirmedBeforeChange` | none |
| `RequestsSurviveElevation`, `OnlyWhatWasAsked` | `ElevationKeepsTheRequest`, `ChangesOnlyWhatWasAsked` | none |

Every inductive invariant was also model-checked, on the instance of a run that
satisfies the hypotheses of its theorem (`MachineInv`, for instance, on
`host_failures` and `one_process`, since the other two have faults that
`Sheltered` excludes). Few of the properties are inductive as they stand; what
follows says what each invariant adds and why.

### VmLifecycle

`VmLifecycleProofs` first proves `TypeCorrect`. `TypeOK` alone is not inductive,
because `OnAnswer`, `OnSilence` and `AfterExit` are functions on operations and
the label a client goes to depends on the operation it runs. The invariant
`Control` adds `ControlOK`, which operation can be at which label, and
`LockOK`, who holds the lock file where. Each operation has a lemma that its
steps stay inside; a crash or reboot sends clients to `idle` without locks.

It then proves five theorems from one invariant, `Inv`:

* `MappingOK` relates machine, mapping, loop device and file; `RecordOK`
  relates file and record.
* `Knows` states what a client at each label has learnt and still relies on: a
  start that the disk has its recorded length, from its validation up to
  `ensure_mapping`; an update that it released the mapping, or that the length
  differed from the record, which implies that nothing is mapped; a stop that
  the disk stays unmapped after its release. This is where the argument of the
  code is.
* It is preserved because whoever changes the disk holds the lock file, which
  `LockOK` makes exclusive. `delete` is the exception: it holds no lock file.
  The invariant survives it because delete removes the file before the record,
  so that every `Knows` reads "or the file is gone".
* `ResizeOffline` has no run of its own because the refinement implies most of
  it.

Its second half is about the machines. The notion on which that turns is
`MayWrite(p)`: the machine launched as `p` has the disk open, or can still come
to open it because its `firectl` lives and its socket path was or is free.

* `Served`: a machine that has bound the socket and may write owns the socket
  path. Since a path has one owner, at most one machine writes; that is
  `OneWriter`. It is kept because a path is only unlinked when nobody answers on
  it. This is the reason for its two hypotheses: a probe that times out on a
  live machine makes start remove a path that is served, and delete removes the
  volume, path included, under the name lock only. Crashes, reboots and all
  other failures are covered.
* `MachineInv` adds `Between` (outside the labels from launch to the row that
  settles it, the runtime row names the machine, and one that has not bound yet
  never will, or its row still says that it is starting) and `Judged`, what each
  client concluded: that the row it loaded is still the row, that the machine it
  spawned is the only one, that the socket is unlinked, that nobody may write
  any more.
* `Sheltered` excludes unreliable probes, database failures and crashes, each
  of which separates machine and row: a start killed, or unable to write,
  between `launch_detached` and its row leaves a machine that nobody knows. It
  asks either that all operations take the lock file (then host commands may
  fail), or that all clients share one process and so exclude each other by the
  name lock. `launcher` and `reboot` are always allowed.
* `FreezeInv` is the corresponding invariant for suspended origins and views:
  each is watched by a client at the labels that will undo it. `Undisturbed`
  excludes what keeps the code from undoing it (a crash, a failing `dmsetup`);
  probes, database calls and launchers may fail.

### Capture

`CaptureInv` has seven parts: types; `Flow`, what is known of the call's locals
at each step; `Sides`, that a call on a stopped guest never touches a mapping;
`Layered`, which devices are there for sure, or for sure not; `Freezes`, between
which steps the guest may be suspended and when the failure to resume it was
noted; `OneMoment`, that what is read stays as it was when the view was mapped;
`Tidy`, that everything made and not yet removed is still held, reported or one
of the three known leaks. The last one is what `CleanReturn` and
`PublishesSafely` need and what the order of the cleanup steps is for: an entry
leaves `call.holds` only when its removal was attempted, and a failed removal
sets `unclean`.

`StoreIsLargeEnough` needs no invariant and has no run, being about a number. It
says for every size that the file `snapshot_cow_size` asks for has room
for every chunk of the disk, the header and the metadata areas. The argument
splits on which of the two reserves is the larger one; the smaller disks live on
the fixed 16 MiB, the larger ones on a sixteenth, of which the metadata needs
far less.

### RootDisk

`DiskInv` says of every resting state that content, filesystem and file fit into
each other and that the content fits into the recorded size, which is why a
rollback can always shrink back; of a running guest that no call is at work; and
of each stage of a resize how length and filesystem relate to the goal
(`Resized`): after the filesystem was shrunk it has exactly the blocks of the
goal, so that cutting the file cannot truncate it. The arithmetic about sizes
that are no multiple of a block is in `FloorFits`.

`GuestsArePrepared` is about a list of edits that is worked off, and an edit may
put others in its place. `GuestInv` therefore says of each thing that makes a
guest prepared that it holds or that what brings it about is still in the list:
a directory is there or to be made (`DirectoriesCome`), the keys are complete,
waiting to be written back (`Rewritten`) or as the image shipped them
(`KeysCome`), a key pair that was begun will be finished (`HostKeysCome`). Modes
need the order: writing a file resets its mode, so the `chmod` has to come after
everything else that is done to the file (`ModeAhead`). One lemma for each part
(`...Stays`) says which edits leave it alone, whatever stands in the list behind
them, and `Harmless` collects what they ask; each edit then only shows that it
is harmless. No induction over the list is needed, only its beginning
(`CreationBegins`, `RestoreBegins`), its first step, and its end, at which
nothing is left to come. The list has an edit for every host key type because
the types are finitely many and `SetToSeq` misses none (`KeyTypesListed`).

### Provisioning

`ProvInv` has two halves. `Own(n)` is what the call of a name knows of its own
name: which rows and files there are at each step, what of them it owns, what
the journal says and what is still in `call.job`. The name lock keeps all other
calls away from that, so one lemma (`OthersOwn`) deals with everybody else's
steps. The parts that are not obvious are about undoing: `LeftoverKnown` and
`Pending`, that a volume with files stays in the journal until its removal
succeeded, and the journal itself goes last (`JournalLast`) and only if nothing
failed; `Made`, that what a call made and has not removed is in `job` or a
failure was noted.

The other half is the kernels, which calls share. `KernelsKnown`, that a kernel
file without a row is in some journal, needs no hypothesis: the journal is
written before the file is opened. That a registered kernel is whole and nobody
is about to remove it (`KernelsKept`) does need one. Two restores may both find
a kernel absent; the one that fails then removes the file that the other has
registered. `RestoresApart` excludes that: names that are restored have
different kernels, or the kernel was downloaded before. `OneWay` says that no
name is both created and restored; without it a restore reconciles an old
journal under a machine that a creation made meanwhile, which is what the run
`restore_over_created` shows.

### HostNetwork

`NetInv` says what each call has applied and still has to undo, separately per
VM: while applying, every resource of the plan that is not in `job` any more and
was not found present is in `applied`; while undoing, what is still on the host
of it is in `job`, or the cleanup is noted as failed. The steps of other VMs do
not disturb that, so `CleanupIsComplete` holds for any number of concurrent
calls.

`PairInv` adds what calls of two VMs share. `InPlace`: what is not in the plan
any more is in place, the two sysctls only as long as the call is `alone`, the
link unless the TAP was found. `Fitting`: the network of a call and those of all
rows fit each other, which needs to know of a creation that has read `used` but
not chosen yet that `used` lists every row of its mode, except that of a VM it
`raced` with. `Histories` ties the history variables to the calls: if one is
alone the others are idle, and two creations under way have raced. A row that
appears between the reading and the choice is therefore one of those excepted,
and that is the only place where overlapping calls matter. The argument about
addresses also needs that a pool block that does not conflict with a guest's
address is not its block.

### ArtifactCache

`OnlyVerifiedBytes` needs no lock: bytes reach a target only through `Receive`,
which compares the digest, so that it is enough to know that a part that is
about to be published is verified (`Flow`). `RowsVouchForFiles` is about the
target locks: `Locks` says that a lock is held exactly by the download that works
on the target, and `Guarded` what that download may rely on while it has the lock,
namely that the row stays away between its removal and the publication, that a
published or adopted file stays, and that what it found of the file is still
true. Locks exist per process: with two of them a download writes its row over a
file that the other process has replaced since, so the hypothesis is needed.
Prune removes a file only while its lock is free, and a row without it, which
cannot break the property.

### Autostart

`Owned` (a policy carries the id of the machine row of its name) is preserved
because ids only grow and the removal of a machine takes its policy along. For
`SyncedOnSuccess`, `Known` says that a command that is alone on its home read
policies that are still the policies and, once it replies, that the instance is
enabled exactly if it read an enabled one; `Apart` says that two commands on one
home know of each other, and a deletion after the policies were read ends the
command's being alone. It also needs that distinct homes have distinct instance
names, or a command on one would disable the unit of the other
(`UnitNamesDiffer`). That is proved byte by byte: two bytes have different
escapes (`HexOfByte`, `PieceOfByte`), so the pieces of a name give back the path.
That a string of characters can be cut into its pieces in one way only is not
proved, as it would need an induction over its length: a piece that begins with
a backslash has four characters, any other has one.

### CommandLine

The stages that a command still has ahead are a sequence that depends on what was
typed, and a property of the call at its end is a property of the whole way
there. `CliInv` therefore speaks about that sequence: of the stages that are
left, where the questions, the confirmation, the elevation and the call are,
which of them precede which, and that a process that is not root still has a
`rooted` or an `elevate` ahead. Such a statement holds of every script as it is
composed (one lemma per script, for every request and operator), it is kept when
a stage takes itself off the front (one lemma for all stages), and it is started
afresh when an elevation replaces the process by a child with a script of its
own. No induction over the sequence is needed, because every statement is a
quantification over its positions.

* `ConfirmedBeforeChange` follows from `Confirming`, which relates what was asked
  so far to what is ahead: either the confirmation was given and neither this
  process nor a child it may start asks again, or it was not and there is
  exactly one ahead, on this side of the elevation if the child is a quiet one.
  Whom the property excepts is excepted there, too.
* `KeptInv` adds that each value of the process means what the operator typed and
  answered up to now, or that the process is an elevated child and the value
  differs from that in one of the two known ways (`Kept`, `Differing`), and that
  every elevation ahead carries each field that is set or will be asked before it,
  except a remote command while the machine is not named (`Carried`, `Nameless`).
  Only `elevate` can break the former. `Differing` is `Altered` said of a process
  that has not made its call: where the remote command is gone, the name was
  asked for or still will be (`AsksName`). What the two ways mean for an operator
  is under "Disagreements outside the runs".
* `OnlyWhatWasAsked` needs both: the process that makes the call is root, and its
  machine and its changed capacities are the operator's.

### Only model-checked

* Liveness: `LifecycleReleased`, `CancelEndsDownloads`, `JournalsAreReconciled`,
  `BootReachesEveryMachine`, `CommandsReturn`. The prover has no rules for
  fairness.

Every other property that a passing run checks is also a theorem.

## Not modelled

* Listing, inspection and `verify_all`: read-only probes with a timeout.
* The download command of the CLI, a selection in front of `ArtifactCache`, and
  all text output, progress reporting included.
* Schema migrations, column encodings and connection handling of SQLite.
* The bytes of archives, manifests and guest files, key generation, digests.
* Syntax checks of names, paths and versions.
* The kill of an elevated child 30 s after Ctrl-C, and paths relative to a
  working directory that `pkexec` changes.
* A database write that completes after the future that waited for it was
  dropped and its locks released (`manager.rs:4018`).

None of these has state that two operations share, the last one excepted.

## Plan

1. An abstract specification "present or absent" for one name of
   `Provisioning`, and its refinement.
2. Database writes that outlive their call, in `VmLifecycle`.
