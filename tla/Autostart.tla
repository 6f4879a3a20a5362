----------------------------- MODULE Autostart -----------------------------
(***************************************************************************)
(* Autostart policies and the boot service that acts on them.              *)
(*                                                                         *)
(* A policy is a row of one home's database, kept for one machine row. The *)
(* commands `autostart add`, `edit` and `rm` each run in a process of      *)
(* their own: they gain root access (possibly in a child process), change  *)
(* one policy through the SDK, read all policies back and then bring the   *)
(* systemd unit of the home in line.  At boot systemd runs `autostart run` *)
(* once for every enabled unit instance, with the home that the instance   *)
(* name decodes to.                                                        *)
(*                                                                         *)
(* Every database call is one step, so are the template file and every     *)
(* systemctl call: nothing holds a lock across processes.                  *)
(*                                                                         *)
(* A definition that nothing uses is a deliberately wrong variant of the   *)
(* one that follows it; the README lists which property it breaks.         *)
(***************************************************************************)
EXTENDS Integers, Sequences, FiniteSets, Functions

CONSTANTS
    Clients,        \* operators' terminals, each running one command at a time
    Homes,          \* canonical home directories: absolute paths, as bytes
    RootHome,       \* the default home of the superuser
    NameOrder,      \* machine names, in the order SQLite sorts them
    Created,        \* Created[h]: the names of machines home h has or had
    Invocations,    \* the commands operators may enter
    MaxAutostartAttempts,
    MaxCommands,    \* bound: commands ever invoked
    MaxBoots,       \* bound: reboots of the host
    MaxMachineIds,  \* bound: machine rows ever inserted in one home
    MaxChanges,     \* bound: machines created and deleted beside the commands
    FaultBudget     \* bound: failed calls and killed processes

Names == Range(NameOrder)
NoName == "no name"

\* Where a name stands in that order.
Position(n) == CHOOSE i \in DOMAIN NameOrder : NameOrder[i] = n

\* The settings a command carries, and which of them it was given.
Requests == [fields : SUBSET {"enabled", "attempts"}, enabled : BOOLEAN, max : Nat]

\* Bytes of a path.
Slash == 47
Dash == 45
Dot == 46
Backslash == 92

(* canonicalize: absolute, no slash after another, none at the end.        *)
ASSUME HomesAssumption ==
    \A h \in Homes :
        /\ h \in Seq(0..255) /\ Len(h) > 0 /\ h[1] = Slash
        /\ \A i \in 2..Len(h) : h[i] = Slash => i # Len(h) /\ h[i - 1] # Slash

ASSUME AutostartAssumption ==
    /\ RootHome \in Homes
    /\ Created \in [Homes -> SUBSET Names]
    /\ NameOrder \in Seq(Names) /\ NoName \notin Names
    /\ MaxAutostartAttempts \in Nat \ {0}
    /\ MaxMachineIds \in Nat /\ MaxMachineIds >= Len(NameOrder)
    /\ \A i \in Invocations :
        /\ i.kind \in {"add", "edit", "rm"}
        /\ i.home \in Homes /\ i.name \in Names \cup {NoName}
        /\ i.root \in BOOLEAN /\ i.interactive \in BOOLEAN
        /\ i.request \in Requests
        /\ i.kind = "add" => i.request.fields = {"enabled", "attempts"}

VARIABLES
    cmd,        \* cmd[c]: the command client c runs
    machine,    \* machine[h][n]: id of the row of n in microvms, 0 if absent
    ids,        \* ids[h]: last id the AUTOINCREMENT column gave out
    policy,     \* policy[h][n]: the row of vm_autostart for machine n
    template,   \* the template unit file holds an ExecStart line
    wanted,     \* instance names enabled under multi-user.target
    boot,       \* boot[h]: the run of `autostart run` for home h
    systemd,    \* whether the host runs systemd at all
    spent       \* how much of each bound is used up

vars == <<cmd, machine, ids, policy, template, wanted, boot, systemd, spent>>

---------------------------------------------------------------------------
(* The instance name of a home: the systemd path escape of its bytes.      *)

\* A byte in two hexadecimal digits, as their characters.
Digit(d) == IF d < 10 THEN 48 + d ELSE 87 + d
Hex(byte) == <<Backslash, 120, Digit(byte \div 16), Digit(byte % 16)>>

\* Letters, digits, colon, underscore and dot.
Plain == (97..122) \cup (65..90) \cup (48..57) \cup {58, 95, Dot}

\* canonicalize leaves no repeated or trailing slash: only the leading one goes.
TrimSlashes(path) == IF path = <<Slash>> THEN << >> ELSE Tail(path)

EscapeByteKeepingDash(index, byte) ==
    CASE byte = Slash -> <<Dash>>
      [] byte = Dot /\ index = 1 -> Hex(byte)
      [] OTHER -> <<byte>>

EscapeByte(index, byte) ==
    CASE byte = Slash -> <<Dash>>
      [] byte \in Plain /\ ~(byte = Dot /\ index = 1) -> <<byte>>
      [] OTHER -> Hex(byte)

(* The name, kept as the pieces that stand for one byte each.  Written one *)
(* after the other they can be told apart again: only an escape, which has *)
(* four characters, begins with a backslash.                               *)
EscapePath(path) ==
    LET trimmed == TrimSlashes(path)
    IN  IF trimmed = << >> THEN <<<<Dash>>>>
        ELSE [i \in 1..Len(trimmed) |-> EscapeByte(i, trimmed[i])]

\* instance_unit of every home.
Unit == [h \in Homes |-> EscapePath(h)]

\* systemd's reading of %f: the home an instance name stands for.
HomesOf(instance) == {h \in Homes : Unit[h] = instance}

---------------------------------------------------------------------------
NoPolicy == [id |-> 0, enabled |-> FALSE, max |-> 0]

IdleCommand ==
    [pc |-> "idle", kind |-> "add", asked |-> RootHome, home |-> RootHome,
     root |-> FALSE, interactive |-> FALSE, marker |-> FALSE, name |-> NoName,
     request |-> [fields |-> {}, enabled |-> FALSE, max |-> 0],
     id |-> 0, found |-> NoPolicy, any |-> FALSE, alone |-> TRUE]

IdleBoot == [pc |-> "off", queue |-> {}, attempt |-> 1, report |-> {}]

AnyEnabled(h) == \E n \in Names : policy[h][n].enabled

Init ==
    /\ machine = [h \in Homes |-> [n \in Names |-> IF n \in Created[h] THEN Position(n) ELSE 0]]
    /\ ids = [h \in Homes |-> Len(NameOrder)]
    /\ policy = [h \in Homes |-> [n \in Names |-> NoPolicy]]
    /\ cmd = [c \in Clients |-> IdleCommand]
    /\ boot = [h \in Homes |-> IdleBoot]
    /\ template = FALSE
    /\ wanted = {}
    /\ systemd \in BOOLEAN
    /\ spent = [commands |-> 0, boots |-> 0, changes |-> 0, faults |-> 0]

\* Client c goes on with its command changed to `next`.
Proceed(c, next) == cmd' = [cmd EXCEPT ![c] = next]
At(c, pc) == cmd[c].pc = pc
Goto(c, pc) == Proceed(c, [cmd[c] EXCEPT !.pc = pc])
Return(c) == Proceed(c, IdleCommand)

InFlight(h) == {c \in Clients : ~At(c, "idle") /\ cmd[c].asked = h}

(* An operator enters a command. Without a name the machine is chosen from *)
(* a list, which takes a terminal; so does an edit that names no field.    *)
(* Otherwise such a command is refused before anything else happens.       *)
Invoke(c, i) ==
    /\ At(c, "idle")
    /\ spent.commands < MaxCommands
    /\ i.name = NoName \/ (i.kind = "edit" /\ i.request.fields = {}) => i.interactive
    /\ LET others == InFlight(i.home)
           mine == [IdleCommand EXCEPT
                       !.pc = "privilege", !.kind = i.kind, !.asked = i.home,
                       !.home = i.home, !.root = i.root, !.name = i.name,
                       !.interactive = i.interactive, !.request = i.request,
                       !.alone = others = {}]
       IN  cmd' = [d \in Clients |->
                      IF d = c THEN mine
                      ELSE IF d \in others THEN [cmd[d] EXCEPT !.alone = FALSE]
                      ELSE cmd[d]]
    /\ spent' = [spent EXCEPT !.commands = @ + 1]
    /\ UNCHANGED <<machine, ids, policy, template, wanted, boot, systemd>>

---------------------------------------------------------------------------
(* require_privileged: carry on as root, refuse, or run the same command   *)
(* again in a child of sudo or pkexec.                                     *)

\* The child is told its home: sudo resets HOME to the superuser's.
ChildHome(command) == command.home

\* A marked child that is still not root does not escalate again.
MayEscalate(command) == command.interactive /\ ~command.marker

Privileged(c) ==
    /\ At(c, "privilege")
    /\ cmd[c].root
    /\ Goto(c, "systemd")
    /\ UNCHANGED <<machine, ids, policy, template, wanted, boot, systemd, spent>>

\* No terminal, no backend installed, or the marker already set.
RefusePrivilege(c) ==
    /\ At(c, "privilege")
    /\ ~cmd[c].root
    /\ Return(c)
    /\ UNCHANGED <<machine, ids, policy, template, wanted, boot, systemd, spent>>

Escalate(c, granted) ==
    /\ At(c, "privilege")
    /\ ~cmd[c].root
    /\ MayEscalate(cmd[c])
    /\ Proceed(c, [cmd[c] EXCEPT !.home = ChildHome(cmd[c]), !.root = granted,
                                 !.marker = TRUE])
    /\ UNCHANGED <<machine, ids, policy, template, wanted, boot, systemd, spent>>

EnsureAvailable(c) ==
    /\ At(c, "systemd")
    /\ IF ~systemd THEN Return(c)
       ELSE Goto(c, IF cmd[c].name = NoName THEN "select" ELSE "prompt")
    /\ UNCHANGED <<machine, ids, policy, template, wanted, boot, systemd, spent>>

Options(c) ==
    LET h == cmd[c].home
    IN  IF cmd[c].kind = "add"
        THEN {n \in Names : machine[h][n] # 0 /\ policy[h][n] = NoPolicy}
        ELSE {n \in Names : policy[h][n] # NoPolicy}

\* The lists offered: machines without a policy for add, with one otherwise.
Select(c) ==
    /\ At(c, "select")
    /\ \/ \E n \in Options(c) :
            Proceed(c, [cmd[c] EXCEPT !.pc = "prompt", !.name = n])
       \/ Return(c)                     \* nothing to offer, or prompt cancelled
    /\ UNCHANGED <<machine, ids, policy, template, wanted, boot, systemd, spent>>

(* An edit without flags reads the policy and asks for both fields; an add *)
(* asks for the attempts.  The values were chosen with the request.        *)
Prompt(c) ==
    /\ At(c, "prompt")
    /\ LET asks == cmd[c].kind = "edit" /\ cmd[c].request.fields = {}
           known == policy[cmd[c].home][cmd[c].name] # NoPolicy
       IN  IF asks /\ ~known THEN Return(c)
           ELSE Proceed(c, [cmd[c] EXCEPT
                    !.pc = "lookup",
                    !.request.fields = IF asks THEN {"enabled", "attempts"} ELSE @])
    /\ UNCHANGED <<machine, ids, policy, template, wanted, boot, systemd, spent>>

---------------------------------------------------------------------------
(* The SDK calls.                                                          *)

ValidAttempts(request) ==
    "attempts" \in request.fields => request.max \in 1..MaxAutostartAttempts

Lookup(c) ==
    LET k == cmd[c]
        id == machine[k.home][k.name]
    IN  /\ At(c, "lookup")
        /\ IF ~ValidAttempts(k.request) \/ id = 0 THEN Return(c)
           ELSE Proceed(c, [k EXCEPT !.id = id,
                               !.pc = IF k.kind = "rm" THEN "write" ELSE "find"])
        /\ UNCHANGED <<machine, ids, policy, template, wanted, boot, systemd, spent>>

\* The row an add or an edit would leave: fields not asked for are kept.
Merged(k, existing) ==
    [id |-> k.id,
     enabled |-> IF "enabled" \in k.request.fields THEN k.request.enabled
                 ELSE existing.enabled,
     max |-> IF "attempts" \in k.request.fields THEN k.request.max
             ELSE existing.max]

Find(c) ==
    LET k == cmd[c]
        existing == policy[k.home][k.name]
        same == [Merged(k, existing) EXCEPT !.id = existing.id] = existing
    IN  /\ At(c, "find")
        /\ IF existing # NoPolicy /\ same THEN Goto(c, "list")
           ELSE IF (k.kind = "add") = (existing = NoPolicy)
                THEN Proceed(c, [k EXCEPT !.pc = "write", !.found = existing])
                ELSE Return(c)                        \* conflict, or no policy
        /\ UNCHANGED <<machine, ids, policy, template, wanted, boot, systemd, spent>>

SetPolicy(h, n, row) == policy' = [policy EXCEPT ![h][n] = row]

(* INSERT fails when the machine row is gone (foreign key) or has a policy *)
(* by now (primary key).                                                   *)
Insert(c) ==
    LET k == cmd[c]
    IN  /\ At(c, "write") /\ k.kind = "add"
        /\ IF machine[k.home][k.name] = k.id /\ policy[k.home][k.name] = NoPolicy
           THEN SetPolicy(k.home, k.name, Merged(k, NoPolicy)) /\ Goto(c, "list")
           ELSE Return(c) /\ UNCHANGED policy
        /\ UNCHANGED <<machine, ids, template, wanted, boot, systemd, spent>>

\* An UPDATE that finds no row of that id changes nothing and succeeds.
Update(c) ==
    LET k == cmd[c]
    IN  /\ At(c, "write") /\ k.kind = "edit"
        /\ IF policy[k.home][k.name].id = k.id
           THEN SetPolicy(k.home, k.name, Merged(k, k.found))
           ELSE UNCHANGED policy
        /\ Goto(c, "list")
        /\ UNCHANGED <<machine, ids, template, wanted, boot, systemd, spent>>

Delete(c) ==
    LET k == cmd[c]
    IN  /\ At(c, "write") /\ k.kind = "rm"
        /\ IF policy[k.home][k.name].id = k.id
           THEN SetPolicy(k.home, k.name, NoPolicy)
           ELSE UNCHANGED policy
        /\ Goto(c, "list")
        /\ UNCHANGED <<machine, ids, template, wanted, boot, systemd, spent>>

---------------------------------------------------------------------------
(* sync_boot: read every policy of the home, then enable or disable.       *)

ListPolicies(c) ==
    /\ At(c, "list")
    /\ LET any == AnyEnabled(cmd[c].home)
       IN  Proceed(c, [cmd[c] EXCEPT !.any = any,
                          !.pc = IF any THEN "template" ELSE "disable"])
    /\ UNCHANGED <<machine, ids, policy, template, wanted, boot, systemd, spent>>

\* Writing the file and daemon-reload; skipped when the content is the same.
WriteTemplate(c) ==
    /\ At(c, "template")
    /\ template' = TRUE
    /\ Goto(c, "enable")
    /\ UNCHANGED <<machine, ids, policy, wanted, boot, systemd, spent>>

Enable(c) ==
    /\ At(c, "enable")
    /\ wanted' = wanted \cup {Unit[cmd[c].home]}
    /\ Goto(c, "reply")
    /\ UNCHANGED <<machine, ids, policy, template, boot, systemd, spent>>

Disable(c) ==
    /\ At(c, "disable")
    /\ wanted' = IF template THEN wanted \ {Unit[cmd[c].home]} ELSE wanted
    /\ Goto(c, "reply")
    /\ UNCHANGED <<machine, ids, policy, template, boot, systemd, spent>>

Reply(c) ==
    /\ At(c, "reply")
    /\ Return(c)
    /\ UNCHANGED <<machine, ids, policy, template, wanted, boot, systemd, spent>>

(* A database or systemctl call fails, or the process is killed: the       *)
(* command ends where it is and nothing is undone, a template included     *)
(* that was written before daemon-reload failed.                           *)
Interrupt(c) ==
    /\ cmd[c].pc \in {"lookup", "find", "write", "list", "template", "enable", "disable"}
    /\ spent.faults < FaultBudget
    /\ spent' = [spent EXCEPT !.faults = @ + 1]
    /\ Return(c)
    /\ template' \in {template, template \/ At(c, "template")}
    /\ UNCHANGED <<machine, ids, policy, wanted, boot, systemd>>

CommandStep(c) ==
    \/ Privileged(c) \/ RefusePrivilege(c) \/ \E granted \in BOOLEAN : Escalate(c, granted)
    \/ EnsureAvailable(c) \/ Select(c) \/ Prompt(c)
    \/ Lookup(c) \/ Find(c) \/ Insert(c) \/ Update(c) \/ Delete(c)
    \/ ListPolicies(c) \/ WriteTemplate(c) \/ Enable(c) \/ Disable(c) \/ Reply(c)

---------------------------------------------------------------------------
(* Machines come and go beside the policies. Deleting the row of a machine *)
(* deletes its policy with it (ON DELETE CASCADE); the unit is not synced. *)

Change ==
    /\ spent.changes < MaxChanges
    /\ spent' = [spent EXCEPT !.changes = @ + 1]

(* History: a command that has read the policies of the home is no longer  *)
(* alone.                                                                  *)
Syncing == {"template", "enable", "disable", "reply"}
Disturb(h) ==
    cmd' = [c \in Clients |->
               IF c \in InFlight(h) /\ cmd[c].pc \in Syncing THEN [cmd[c] EXCEPT !.alone = FALSE]
               ELSE cmd[c]]

RemoveMachineKeepingPolicy(h, n) ==
    /\ machine[h][n] # 0
    /\ Change
    /\ machine' = [machine EXCEPT ![h][n] = 0]
    /\ Disturb(h)
    /\ UNCHANGED <<ids, policy, template, wanted, boot, systemd>>

RemoveMachine(h, n) ==
    /\ machine[h][n] # 0
    /\ Change
    /\ machine' = [machine EXCEPT ![h][n] = 0]
    /\ SetPolicy(h, n, NoPolicy)
    /\ Disturb(h)
    /\ UNCHANGED <<ids, template, wanted, boot, systemd>>

InsertMachine(h, n) ==
    /\ n \in Created[h] /\ machine[h][n] = 0
    /\ Change
    /\ ids[h] < MaxMachineIds
    /\ ids' = [ids EXCEPT ![h] = @ + 1]
    /\ machine' = [machine EXCEPT ![h][n] = ids[h] + 1]
    /\ UNCHANGED <<cmd, policy, template, wanted, boot, systemd>>

---------------------------------------------------------------------------
(* The host boots: every process is gone and systemd starts the enabled    *)
(* instances of the template.                                              *)

Reboot ==
    /\ systemd
    /\ spent.boots < MaxBoots
    /\ spent' = [spent EXCEPT !.boots = @ + 1]
    /\ cmd' = [c \in Clients |-> IdleCommand]
    /\ boot' = [h \in Homes |->
                   IF template /\ \E u \in wanted : h \in HomesOf(u)
                   THEN [IdleBoot EXCEPT !.pc = "list"] ELSE IdleBoot]
    /\ UNCHANGED <<machine, ids, policy, template, wanted, systemd>>

SetBoot(h, next) ==
    /\ boot' = [boot EXCEPT ![h] = next]
    /\ UNCHANGED <<cmd, machine, ids, policy, template, wanted, systemd>>

\* The policies of the home, each with the settings it has now.
Listed(h) ==
    {[name |-> n, row |-> policy[h][n]] : n \in {m \in Names : policy[h][m] # NoPolicy}}

BootList(h) ==
    /\ boot[h].pc = "list"
    /\ SetBoot(h, [boot[h] EXCEPT !.pc = "run", !.queue = Listed(h)])
    /\ UNCHANGED spent

\* Only a failure to read the policies ends the run without a report.
BootListFails(h) ==
    /\ boot[h].pc = "list"
    /\ spent.faults < FaultBudget
    /\ spent' = [spent EXCEPT !.faults = @ + 1]
    /\ SetBoot(h, IdleBoot)

\* The loop is at policy p: those before it in the order of names are done.
Up(h, p) ==
    /\ boot[h].pc = "run" /\ p \in boot[h].queue
    /\ \A q \in boot[h].queue : Position(p.name) <= Position(q.name)

\* Its machine is reported, and the next one is up.
Report(h, p, result, attempts) ==
    SetBoot(h, [boot[h] EXCEPT
        !.queue = @ \ {p}, !.attempt = 1,
        !.report = @ \cup {[name |-> p.name, result |-> result, attempts |-> attempts]}])

BootPaused(h, p) ==
    /\ Up(h, p) /\ ~p.row.enabled
    /\ Report(h, p, "paused", 0)
    /\ UNCHANGED spent

\* start_microvm succeeded, for a machine that is still there.
BootStarted(h, p) ==
    /\ Up(h, p) /\ p.row.enabled
    /\ machine[h][p.name] # 0
    /\ Report(h, p, "started", boot[h].attempt)
    /\ UNCHANGED spent

LastAttempt(h, p) == boot[h].attempt >= p.row.max

BootTryFailsAndStops(h, p) ==
    /\ Up(h, p) /\ p.row.enabled
    /\ IF LastAttempt(h, p)
       THEN SetBoot(h, [boot[h] EXCEPT !.pc = "off"])
       ELSE SetBoot(h, [boot[h] EXCEPT !.attempt = @ + 1])
    /\ UNCHANGED spent

BootTryFails(h, p) ==
    /\ Up(h, p) /\ p.row.enabled
    /\ IF LastAttempt(h, p)
       THEN Report(h, p, "failed", boot[h].attempt)
       ELSE SetBoot(h, [boot[h] EXCEPT !.attempt = @ + 1])
    /\ UNCHANGED spent

\* The report is printed and the process exits.
BootEnd(h) ==
    /\ boot[h].pc = "run" /\ boot[h].queue = {}
    /\ SetBoot(h, IdleBoot)
    /\ UNCHANGED spent

\* The run by itself, and the call of start_microvm it waits for.
BootRun(h) ==
    \/ BootList(h) \/ BootListFails(h) \/ BootEnd(h)
    \/ \E p \in boot[h].queue : BootPaused(h, p)

BootTry(h) == \E p \in boot[h].queue : BootStarted(h, p) \/ BootTryFails(h, p)

---------------------------------------------------------------------------
Next ==
    \/ \E c \in Clients :
        \/ \E i \in Invocations : Invoke(c, i)
        \/ CommandStep(c)
        \/ Interrupt(c)
    \/ \E h \in Homes, n \in Names : RemoveMachine(h, n) \/ InsertMachine(h, n)
    \/ Reboot
    \/ \E h \in Homes : BootRun(h) \/ BootTry(h)

Spec == Init /\ [][Next]_vars

(* A boot run keeps running: SQLite answers.  Nobody has to enter a        *)
(* command or boot the host.                                               *)
Fairness == \A h \in Homes : WF_vars(BootRun(h))

FairSpec == Spec /\ Fairness

---------------------------------------------------------------------------
Policies ==
    {NoPolicy} \cup
    [id : 1..MaxMachineIds, enabled : BOOLEAN, max : 1..MaxAutostartAttempts]

(* Every variable has its type, a machine is queued and reported once, and *)
(* never both, and it gets no more attempts than its policy allows.        *)
AutostartTypeOK ==
    /\ machine \in [Homes -> [Names -> 0..MaxMachineIds]]
    /\ ids \in [Homes -> 0..MaxMachineIds]
    /\ policy \in [Homes -> [Names -> Policies]]
    /\ template \in BOOLEAN /\ systemd \in BOOLEAN
    /\ wanted \subseteq {Unit[h] : h \in Homes}
    /\ \A c \in Clients : cmd[c].home \in Homes /\ cmd[c].name \in Names \cup {NoName}
    /\ \A h \in Homes :
        /\ boot[h].attempt \in 1..MaxAutostartAttempts
        /\ \A p \in boot[h].queue :
             /\ p.name \in Names /\ p.row \in Policies \ {NoPolicy}
             /\ \A q \in boot[h].queue \ {p} : p.name # q.name
             /\ \A r \in boot[h].report : p.name # r.name
        /\ \A r \in boot[h].report :
             /\ r.name \in Names /\ r.attempts \in 0..MaxAutostartAttempts
             /\ \A q \in boot[h].report \ {r} : q.name # r.name

(* A policy belongs to the machine row it was made for: a machine deleted  *)
(* and created again under its name does not inherit one.                  *)
PolicyFollowsMachine ==
    AutostartTypeOK /\ \A h \in Homes, n \in Names :
        policy[h][n] # NoPolicy => policy[h][n].id = machine[h][n]

Replying(c, h) == At(c, "reply") /\ cmd[c].home = h

(* When a command that was alone on its home is about to report success,   *)
(* the unit of that home is enabled exactly if a policy of the home is,    *)
(* whatever commands for other homes, interrupted earlier commands and     *)
(* boots did.  Alone: no other command on the home ran at the same time    *)
(* and no machine of it was deleted after the command had read the         *)
(* policies.  The code promises nothing then: a deletion takes the policy  *)
(* with it and leaves the unit as it is, enabled for nobody if need be.    *)
SyncedOnSuccess ==
    \A c \in Clients, h \in Homes :
        Replying(c, h) /\ cmd[c].alone => (Unit[h] \in wanted) = AnyEnabled(h)

(* start_microvm returns.  Its waits are bounded but one: it asks the      *)
(* registry for its manifest, through a client that has no timeout.        *)
TriesReturn == \A h \in Homes : WF_vars(BootTry(h))

(* If it does, the queue of a boot run drains, and only a report takes a   *)
(* machine out of it (or the next boot): a machine that cannot start, was  *)
(* deleted or is paused does not keep the ones behind it from their turn.  *)
BootReachesEveryMachine ==
    TriesReturn => \A h \in Homes : boot[h].queue # {} ~> boot[h].queue = {}
=============================================================================
