---------------------------- MODULE CommandLine ----------------------------
(***************************************************************************)
(* The `microvm` command line.  Operators at several terminals type        *)
(* commands against one SDK home.  A command checks its arguments, asks    *)
(* for what is missing, may start itself again as root through sudo or     *)
(* pkexec with the values it has, and in the end makes one SDK call.  The  *)
(* parent waits for its elevated child and exits with the child's status,  *)
(* so one process per terminal is in control at a time.                    *)
(*                                                                         *)
(* A command is a script, a sequence of stages that depends on what was    *)
(* typed, and each kind of stage is one action.  The values a command      *)
(* carries are one function on Fields: a field that was neither typed nor  *)
(* answered is Unset.  Capacities are numbers of twentieths of the unit    *)
(* their flag is written in.  The SDK calls are single steps here; the     *)
(* other modules are about what happens inside them.                       *)
(*                                                                         *)
(* A definition that nothing uses is a deliberately wrong variant of the   *)
(* one that follows it; the README lists which property it breaks.         *)
(***************************************************************************)
EXTENDS Naturals, Sequences, FiniteSets

CONSTANTS
  Terminals,         \* where operators type
  Names,             \* names of machines
  RemoteCommands,    \* what a session may be asked to run
  Requests,          \* what an operator may type at each terminal
  Operators,         \* who types it: [root |-> BOOLEAN, tty |-> BOOLEAN]
  InitialMachines,   \* the homes the terminals start with
  Sizes,             \* capacities an operator may answer with
  Minimum,           \* the capacities the distribution and the used disk need
  MaxCommands,       \* bound on the commands typed in one behaviour
  Unset, Absent, Idle

ASSUME SizesAssumption == Sizes \subseteq Nat \ {0}
ASSUME MinimumAssumption == Minimum \in [{"disk", "vcpus"} -> Nat]
ASSUME OperatorsAssumption == Operators \subseteq [root : BOOLEAN, tty : BOOLEAN]

Capacities == DOMAIN Minimum
ChosenValues == {"image", "lan", "remote", "policy", "output", "archive"}
Fields == {"name"} \cup Capacities \cup ChosenValues
Verbs == {"start", "stop", "delete", "prune", "snapshot", "restore", "ssh",
          "edit", "ls", "new"}
Questions == Fields \cup {"confirm", "password"}
Codes == {"none", "ok", "failed", "cancelled"}

\* the arguments a command has; the parser refuses all others
Accepted(verb) ==
  CASE verb \in {"start", "stop", "delete"} -> {"name"}
    [] verb \in {"prune", "ls"} -> {}
    [] verb = "snapshot" -> {"name", "policy", "output"}
    [] verb = "restore"  -> {"archive"}
    [] verb = "ssh"      -> {"name", "remote"}
    [] verb = "edit"     -> {"name"} \cup Capacities
    [] verb = "new"      -> {"name", "image", "lan"} \cup Capacities

\* what is typed or answered: a capacity is a number, anything else a word
Words ==
  {Unset, "image", "yes", "no", "preserve", "regenerate", "folder"}
    \cup Names \cup RemoteCommands
Texts == Nat \cup Words
MayHold(f) == IF f \in Capacities THEN Nat \cup {Unset} ELSE Words

ASSUME RequestsAssumption ==
  \A t \in Terminals : \A r \in Requests[t] :
    /\ r.verb \in Verbs
    /\ r.quiet \in BOOLEAN
    /\ r.values = [f \in Fields |-> r.values[f]]
    /\ \A f \in Fields : r.values[f] \in MayHold(f)
    /\ \A f \in Fields \ Accepted(r.verb) : r.values[f] = Unset

\* what is known of a machine; a broken one is a row that a failed deletion or
\* creation left without its volume, listed as stopped and good for deletion only
Descriptions == [state : {"stopped", "running", "broken"}, caps : [Capacities -> Nat]]

ASSUME HomesAssumption == InitialMachines \subseteq [Names -> Descriptions \cup {Absent}]

ASSUME UnsetAssumption ==
  /\ Unset \notin Nat \cup Names
  /\ Unset \notin {"image", "yes", "no", "preserve", "regenerate", "folder"}
  /\ Unset \notin [verb : Verbs, values : [Fields -> Texts]]

ASSUME AbsentAssumption == Absent \notin Descriptions

VARIABLES
  vms,     \* Names -> Absent, or a description
  proc,    \* the process in control of each terminal, or Idle
  code,    \* the exit status the last command at each terminal reported
  did,     \* the SDK call the command made, well or not, or Unset; a deletion
           \* counts once its probe lets it go on
  want,    \* what the operator typed and answered
  asked,   \* how often each question was put during the command
  typed    \* commands typed so far

vars == <<vms, proc, code, did, want, asked, typed>>
ghosts == <<did, want, asked>>

-----------------------------------------------------------------------------
(* Scripts. *)

Stage(do, on) == [do |-> do, on |-> on, quiet |-> FALSE]
Need(fields) == Stage("need", fields)
Terminal == Stage("terminal", {})
Rooted == Stage("rooted", {})
Ask(f) == Stage("ask", {f})
Perform == Stage("perform", {})
\* require_privileged with the arguments of the child: the fields it is given
\* and whether --non-interactive is among them
Elevate(fields, quiet) == [do |-> "elevate", on |-> fields, quiet |-> quiet]

Given(r, f) == r.values[f] # Unset
\* commands without a name elevate first and select as root
SelectAfter(r, kept) ==
  IF Given(r, "name") THEN <<>> ELSE <<Elevate(kept, FALSE), Terminal, Ask("name")>>

StartScript(r) ==
  IF r.quiet THEN <<Need({"name"}), Rooted, Perform>>
  ELSE SelectAfter(r, {}) \o <<Elevate({"name"}, TRUE), Perform>>

StopScript(r) ==
  IF r.quiet THEN <<Need({"name"}), Rooted, Perform>>
  ELSE SelectAfter(r, {}) \o <<Elevate({"name"}, TRUE), Perform>>

\* A form of DeleteScript that goes ahead without the question.
DeleteScriptUnconfirmed(r) ==
  IF r.quiet THEN <<Need({"name"}), Rooted, Stage("probe", {}), Perform>>
  ELSE SelectAfter(r, {}) \o <<Elevate({"name"}, TRUE), Stage("probe", {}), Perform>>

\* delete_microvm probes the machine first, and holds no lock that a process at
\* another terminal would wait for between the probe and the removal
DeleteScript(r) ==
  IF r.quiet THEN <<Need({"name"}), Rooted, Stage("probe", {}), Perform>>
  ELSE SelectAfter(r, {})
         \o <<Elevate({"name"}, TRUE), Stage("confirmOnTerminal", {}), Stage("probe", {}), Perform>>

PruneScript(r) ==
  IF r.quiet THEN <<Rooted, Perform>>
  ELSE <<Elevate({}, TRUE), Stage("preview", {}), Stage("confirm", {}), Perform>>

\* there is no --non-interactive for snapshots
SnapshotScript(r) ==
  (IF Given(r, "name") THEN <<>>
   ELSE <<Terminal, Elevate({"policy"}, FALSE), Ask("name")>>)
    \o <<Ask("policy"), Elevate({"name", "output", "policy"}, FALSE),
         Stage("askOnTerminal", {"output"}), Perform>>

RestoreScript(r) ==
  IF r.quiet THEN <<Need({"archive"}), Rooted, Perform>>
  ELSE (IF Given(r, "archive") THEN <<>> ELSE <<Terminal>>)
         \o <<Elevate({"archive"}, FALSE), Ask("archive"), Perform>>

\* A form of SshScript whose child gets the name and not the remote command.
SshScriptForgettingCommand(r) ==
  LET connect == <<Elevate({"name"}, TRUE), Stage("running", {}), Perform>> IN
  IF r.quiet THEN <<Need({"name"}), Rooted, Stage("running", {}), Perform>>
  ELSE IF Given(r, "name")
       THEN (IF Given(r, "remote") THEN <<>> ELSE <<Terminal>>) \o connect
       ELSE SelectAfter(r, {}) \o connect

SshScript(r) ==
  LET connect == <<Elevate({"name", "remote"}, TRUE), Stage("running", {}), Perform>> IN
  IF r.quiet THEN <<Need({"name"}), Rooted, Stage("running", {}), Perform>>
  ELSE IF Given(r, "name")
       THEN (IF Given(r, "remote") THEN <<>> ELSE <<Terminal>>) \o connect
       ELSE SelectAfter(r, {}) \o connect

AskCapacities == <<Ask("disk"), Ask("vcpus")>>

\* the fields whose current value an empty answer keeps without looking at the
\* minimum again
Check(kept) == Stage("check", kept)

EditScript(r) ==
  IF r.quiet
  THEN <<Need({"name"}), Stage("needSome", Capacities), Rooted, Stage("load", {}),
         Check({}), Stage("changed", {}), Perform>>
  ELSE SelectAfter(r, Capacities)
         \o <<Stage("load", {}), Check({}), Terminal>> \o AskCapacities
         \o <<Check({"disk"}), Stage("review", {}), Stage("confirm", {}),
              Elevate({"name"} \cup Capacities, TRUE), Perform>>

LsScript(r) ==
  IF r.quiet THEN <<Rooted, Perform>> ELSE <<Elevate({}, FALSE), Perform>>

\* the elevated child trusts the catalog entries its parent resolved
QuietNewScript(r, marker) ==
  <<Need({"name", "image"} \cup Capacities), Rooted>>
    \o (IF marker THEN <<>> ELSE <<Stage("catalog", {})>>)
    \o <<Check({}), Stage("provision", {}), Perform>>

\* any value on the command line makes the name mandatory and skips the
\* question about the network and the review
NewScript(r, marker) ==
  LET explicit == \E f \in Fields : Given(r, f)
      kept == {"name", "image", "lan"} \cup Capacities
  IN  IF r.quiet THEN QuietNewScript(r, marker)
      ELSE (IF explicit THEN <<Need({"name"})>> ELSE <<Terminal>>)
             \o <<Stage("catalog", {}), Ask("name"), Ask("image")>> \o AskCapacities
             \o <<Check({})>>
             \o (IF explicit THEN <<>> ELSE <<Ask("lan"), Stage("confirm", {})>>)
             \o <<Elevate(kept, TRUE), Stage("provision", {}), Perform>>

Script(r, marker) ==
  CASE r.verb = "start"    -> StartScript(r)
    [] r.verb = "stop"     -> StopScript(r)
    [] r.verb = "delete"   -> DeleteScript(r)
    [] r.verb = "prune"    -> PruneScript(r)
    [] r.verb = "snapshot" -> SnapshotScript(r)
    [] r.verb = "restore"  -> RestoreScript(r)
    [] r.verb = "ssh"      -> SshScript(r)
    [] r.verb = "edit"     -> EditScript(r)
    [] r.verb = "ls"       -> LsScript(r)
    [] r.verb = "new"      -> NewScript(r, marker)

-----------------------------------------------------------------------------
(* Processes. *)

Process(r, root, tty, marker) ==
  [verb |-> r.verb, values |-> r.values, quiet |-> r.quiet, root |-> root,
   tty |-> tty, marker |-> marker, seen |-> Unset, rest |-> Script(r, marker)]

At(t, do) == proc[t] # Idle /\ Head(proc[t].rest).do = do
NowOn(t) == Head(proc[t].rest).on

Continue(t, p) == proc' = [proc EXCEPT ![t] = [p EXCEPT !.rest = Tail(@)]]
Goon(t) == Continue(t, proc[t])

\* the process ends, and the parent that waited for it ends with its status
Exit(t, c) ==
  /\ code' = [code EXCEPT ![t] = c]
  /\ proc' = [proc EXCEPT ![t] = Idle]

Refuse(t) == Exit(t, "failed") /\ UNCHANGED <<vms, ghosts, typed>>
Pass(t) == Goon(t) /\ UNCHANGED <<vms, code, ghosts, typed>>

Put(t, q) == asked' = [asked EXCEPT ![t][q] = IF @ = 2 THEN 2 ELSE @ + 1]

\* an operator types a command
Invoke(t, r, who) ==
  /\ proc[t] = Idle
  /\ typed < MaxCommands
  /\ typed' = typed + 1
  /\ proc' = [proc EXCEPT ![t] = Process(r, who.root, who.tty, FALSE)]
  /\ code' = [code EXCEPT ![t] = "none"]
  /\ did' = [did EXCEPT ![t] = Unset]
  /\ want' = [want EXCEPT ![t] = [verb |-> r.verb, values |-> r.values,
                                  silent |-> r.quiet \/ ~who.tty]]
  /\ asked' = [asked EXCEPT ![t] = [q \in Questions |-> 0]]
  /\ UNCHANGED vms

NeedStage(t) ==
  /\ At(t, "need")
  /\ IF \A f \in NowOn(t) : proc[t].values[f] # Unset THEN Pass(t) ELSE Refuse(t)

NeedSomeStage(t) ==
  /\ At(t, "needSome")
  /\ IF \E f \in NowOn(t) : proc[t].values[f] # Unset THEN Pass(t) ELSE Refuse(t)

TerminalStage(t) ==
  /\ At(t, "terminal")
  /\ IF proc[t].tty THEN Pass(t) ELSE Refuse(t)

\* require_privileged for a command that must not ask
RootedStage(t) ==
  /\ At(t, "rooted")
  /\ IF proc[t].root THEN Pass(t) ELSE Refuse(t)

-----------------------------------------------------------------------------
(* Elevation. *)

\* format_gb_flag writes one decimal place, so an odd number of twentieths
\* becomes the tenth above or the tenth below
FlagText(f, v, up) ==
  IF f = "disk" /\ v % 2 = 1 THEN (IF up THEN v + 1 ELSE v - 1) ELSE v

\* new formats its values again, edit passes on the text it was given; a no to
\* the question about the network is the absence of a flag
FlagValue(verb, f, v, up) ==
  CASE v = Unset -> Unset
    [] f = "lan" -> IF v = "no" THEN Unset ELSE v
    [] OTHER     -> IF verb = "new" THEN FlagText(f, v, up) ELSE v

\* what the child reads from its command line
ChildValues(p, kept) ==
  {[f \in Fields |-> IF f \in kept THEN FlagValue(p.verb, f, p.values[f], up) ELSE Unset] :
     up \in BOOLEAN}

\* A form of MayElevate that elevates again in a child that is not root.
MayElevateRepeatedly(p) == p.tty

\* an elevated child that is not root does not try again
MayElevate(p) == p.tty /\ ~p.marker

\* decide and require_privileged: root goes on in this process.  sudo may
\* refuse, and may be set up to change to a user other than root.
ElevateStage(t) ==
  /\ At(t, "elevate")
  /\ LET p == proc[t] IN
     IF p.root THEN Pass(t)
     ELSE IF ~MayElevate(p) THEN Refuse(t)
     ELSE /\ Put(t, "password")
          /\ \/ Exit(t, "failed")
             \/ /\ \E w \in ChildValues(p, NowOn(t)), root \in BOOLEAN :
                      LET r == [verb |-> p.verb, values |-> w, quiet |-> Head(p.rest).quiet]
                      IN  proc' = [proc EXCEPT ![t] = Process(r, root, p.tty, TRUE)]
                /\ UNCHANGED code
          /\ UNCHANGED <<vms, did, want, typed>>

-----------------------------------------------------------------------------
(* Questions. *)

Machines == {n \in Names : vms[n] # Absent}
Running == {n \in Machines : vms[n].state = "running"}

\* the selectors of stop and ssh list running machines only; new takes a name
\* as text; the prompts of edit start from the current capacity as a flag
\* would show it, and an empty answer keeps it
Offers(p, f) ==
  CASE f = "name" -> IF p.verb = "new" THEN Names
                     ELSE IF p.verb \in {"stop", "ssh"} THEN Running ELSE Machines
    [] f \in Capacities -> IF p.verb = "edit"
                            THEN Sizes \cup {p.seen[f]} \cup {FlagText(f, p.seen[f], up) : up \in BOOLEAN}
                            ELSE Sizes
    [] f = "image" -> {"image"}
    [] f = "lan" -> {"yes", "no"}
    [] f = "policy" -> {"preserve", "regenerate"}
    [] f = "archive" -> Names
    [] f = "output" -> {"folder"}

Answer(t, f) ==
  /\ Put(t, f)
  /\ \/ \E a \in Offers(proc[t], f) :
          /\ Continue(t, [proc[t] EXCEPT !.values[f] = a])
          /\ want' = [want EXCEPT ![t].values[f] = a]
          /\ UNCHANGED code
     \/ Exit(t, "cancelled") /\ UNCHANGED want
  /\ UNCHANGED <<vms, did, typed>>

\* a value that was given is not asked for; a prompt without a terminal fails
AskStage(t) ==
  /\ At(t, "ask")
  /\ \E f \in NowOn(t) :
       IF proc[t].values[f] # Unset THEN Pass(t)
       ELSE IF ~proc[t].tty \/ Offers(proc[t], f) = {} THEN Refuse(t)
       ELSE Answer(t, f)

AskOnTerminalStage(t) ==
  /\ At(t, "askOnTerminal")
  /\ \E f \in NowOn(t) :
       IF proc[t].values[f] # Unset \/ ~proc[t].tty THEN Pass(t) ELSE Answer(t, f)

Confirmation(t) ==
  /\ Put(t, "confirm")
  /\ \/ Goon(t) /\ UNCHANGED code
     \/ Exit(t, "cancelled")
  /\ UNCHANGED <<vms, did, want, typed>>

ConfirmStage(t) ==
  /\ At(t, "confirm")
  /\ IF proc[t].tty THEN Confirmation(t) ELSE Refuse(t)

ConfirmOnTerminalStage(t) ==
  /\ At(t, "confirmOnTerminal")
  /\ IF proc[t].tty THEN Confirmation(t) ELSE Pass(t)

\* an empty list of candidates ends the command well
PreviewStage(t) ==
  /\ At(t, "preview")
  /\ \/ Pass(t)
     \/ Exit(t, "ok") /\ UNCHANGED <<vms, ghosts, typed>>

-----------------------------------------------------------------------------
(* Editing. *)

CatalogStage(t) == At(t, "catalog") /\ (Pass(t) \/ Refuse(t))

\* load_targets: the machine must be stopped; its capacities are kept for the
\* questions and the review
LoadStage(t) ==
  /\ At(t, "load")
  /\ LET n == proc[t].values["name"] IN
     \/ Refuse(t)
     \/ /\ n \in Machines
        /\ vms[n].state = "stopped"
        /\ Continue(t, [proc[t] EXCEPT !.seen = vms[n].caps])
        /\ UNCHANGED <<vms, code, ghosts, typed>>

\* a value below the minimum is refused, unless it is the current one and the
\* answer was empty
CheckStage(t) ==
  /\ At(t, "check")
  /\ LET p == proc[t]
         low == {c \in Capacities : p.values[c] # Unset /\ p.values[c] < Minimum[c]}
     IN  \/ low # {} /\ Refuse(t)
         \/ low \subseteq {c \in NowOn(t) : p.values[c] = p.seen[c]} /\ Pass(t)

Differs(p, c) == p.values[c] # Unset /\ p.values[c] # p.seen[c]

ChangedStage(t) ==
  /\ At(t, "changed")
  /\ IF \E c \in Capacities : Differs(proc[t], c) THEN Pass(t) ELSE Refuse(t)

\* A form of ChangeFlags that sends every capacity, changed or not.
ChangeFlagsOfAll(p) == p.values

\* only the capacities that the review shows as changed go any further
ChangeFlags(p) ==
  [f \in Fields |-> IF f \in Capacities /\ ~Differs(p, f) THEN Unset ELSE p.values[f]]

ReviewStage(t) ==
  /\ At(t, "review")
  /\ LET p == proc[t] IN
     IF \A c \in Capacities : ~Differs(p, c) THEN Refuse(t)
     ELSE /\ Continue(t, [p EXCEPT !.values = ChangeFlags(p)])
          /\ want' = [want EXCEPT ![t].values =
                        [f \in Fields |-> IF f \in Capacities /\ @[f] = p.seen[f] THEN Unset ELSE @[f]]]
          /\ UNCHANGED <<vms, code, did, asked, typed>>

-----------------------------------------------------------------------------
(* The SDK call. *)

\* ssh looks the machine up once more among the running ones
RunningStage(t) ==
  /\ At(t, "running")
  /\ IF proc[t].values["name"] \in Running THEN Pass(t) ELSE Refuse(t)

Called(t, c) ==
  /\ did' = [did EXCEPT ![t] = [verb |-> proc[t].verb, values |-> proc[t].values]]
  /\ Exit(t, c)
  /\ UNCHANGED <<want, asked, typed>>

\* the first thing a deletion does: a machine that answers is not deleted
ProbeStage(t) ==
  /\ At(t, "probe")
  /\ IF proc[t].values["name"] \in Running THEN Refuse(t) ELSE Pass(t)

\* The calls: the states of machine n that they may return with, none when
\* the SDK refuses them.
Stopped == {n \in Machines : vms[n].state = "stopped"}
Sound == Running \cup Stopped

Become(n, state, from) == {[vms[m] EXCEPT !.state = state] : m \in {n} \cap from}

\* to start a running machine, and to stop a stopped one, succeeds as well
StartCall(n) == Become(n, "running", Sound)
StopCall(n) == Become(n, "stopped", Sound)
DeleteCall(n) == {Absent : m \in {n} \cap Machines}
SnapshotCall(n) == {vms[m] : m \in {n} \cap Sound}
\* the session itself does not change the machine, and fails if it has gone
SessionCall(n) == {vms[m] : m \in {n} \cap Running}

EditCall(n, values) ==
  {[vms[m] EXCEPT !.caps = [c \in Capacities |-> IF values[c] = Unset THEN @[c] ELSE values[c]]] :
     m \in {n} \cap Stopped}

Requested(values, state) == [state |-> state, caps |-> [c \in Capacities |-> values[c]]]

\* a creation that was made already, with the same capacities, is returned
NewCall(n, values) ==
  {Requested(values, "stopped") : m \in {n} \ Machines}
    \cup {vms[m] : m \in {k \in {n} \cap Sound : vms[k].caps = Requested(values, "stopped").caps}}

\* an archive names the machine it holds; its capacities are not told apart
RestoreCall(n) == {[state |-> "stopped", caps |-> Minimum] : m \in {n} \ Machines}

Outcomes(p, n) ==
  CASE p.verb = "start"    -> StartCall(n)
    [] p.verb = "stop"     -> StopCall(n)
    [] p.verb = "delete"   -> DeleteCall(n)
    [] p.verb = "snapshot" -> SnapshotCall(n)
    [] p.verb = "ssh"      -> SessionCall(n)
    [] p.verb = "edit"     -> EditCall(n, p.values)
    [] p.verb = "new"      -> NewCall(n, p.values)
    [] p.verb = "restore"  -> RestoreCall(n)

\* what a call may leave of machine n when it fails half-way, and its own
\* cleanup with it: a machine that runs after a failed start, one that is down
\* after a failed stop, a row without its volume
Remains(p, n) ==
  CASE p.verb = "start"  -> Become(n, "running", Stopped)
    [] p.verb = "stop"   -> Become(n, "stopped", Running)
    [] p.verb = "delete" -> Become(n, "broken", Machines)
    [] p.verb = "new"    -> {Requested(p.values, "broken") : m \in {n} \ Machines}
    [] OTHER             -> {}

\* the downloads before a creation, which Ctrl-C cancels
ProvisionStage(t) ==
  /\ At(t, "provision")
  /\ \/ Pass(t)
     \/ Refuse(t)
     \/ Exit(t, "cancelled") /\ UNCHANGED <<vms, ghosts, typed>>

\* prune and ls are about no machine in particular
HomeStage(t) ==
  /\ At(t, "perform")
  /\ proc[t].verb \in {"prune", "ls"}
  /\ \E c \in {"ok", "failed"} : Called(t, c)
  /\ UNCHANGED vms

\* any other call
MachineStage(t) ==
  /\ At(t, "perform")
  /\ proc[t].verb \notin {"prune", "ls"}
  /\ LET p == proc[t]
         n == p.values[IF p.verb = "restore" THEN "archive" ELSE "name"]
     IN  \/ Called(t, "failed") /\ UNCHANGED vms
         \/ \E v \in Remains(p, n) : vms' = [vms EXCEPT ![n] = v] /\ Called(t, "failed")
         \/ \E v \in Outcomes(p, n) : vms' = [vms EXCEPT ![n] = v] /\ Called(t, "ok")

-----------------------------------------------------------------------------

Init ==
  /\ vms \in InitialMachines
  /\ proc = [t \in Terminals |-> Idle]
  /\ code = [t \in Terminals |-> "none"]
  /\ did = [t \in Terminals |-> Unset]
  /\ want = [t \in Terminals |-> Unset]
  /\ asked = [t \in Terminals |-> [q \in Questions |-> 0]]
  /\ typed = 0

Step(t) ==
  \/ NeedStage(t) \/ NeedSomeStage(t) \/ TerminalStage(t) \/ RootedStage(t)
  \/ ElevateStage(t) \/ AskStage(t) \/ AskOnTerminalStage(t) \/ ConfirmStage(t)
  \/ ConfirmOnTerminalStage(t) \/ PreviewStage(t) \/ CatalogStage(t) \/ LoadStage(t)
  \/ CheckStage(t) \/ ChangedStage(t) \/ ReviewStage(t) \/ RunningStage(t)
  \/ ProbeStage(t) \/ ProvisionStage(t) \/ HomeStage(t) \/ MachineStage(t)

Next ==
  \E t \in Terminals :
    \/ Step(t)
    \/ \E r \in Requests[t], who \in Operators : Invoke(t, r, who)

Spec == Init /\ [][Next]_vars

\* where a command waits for its operator (who answers a question or gives a
\* password), for the registry, whose client has no timeout, or for the end of
\* a session: start, edit and new ask for the manifest within the call, too
Waits(t) ==
  \/ \E do \in {"ask", "askOnTerminal", "confirm", "confirmOnTerminal", "elevate"} : At(t, do)
  \/ \E do \in {"catalog", "load", "provision"} : At(t, do)
  \/ At(t, "perform") /\ proc[t].verb \in {"start", "edit", "new", "ssh"}

\* everywhere else it runs on
FairSpec == Spec /\ \A t \in Terminals : WF_vars(~Waits(t) /\ Step(t))

-----------------------------------------------------------------------------
(* Properties. *)

Busy(t) == proc[t] # Idle

\* Type correctness.  A process in control always has a stage left, so no
\* command runs off the end of its script without a status.
CliTypeOK ==
  /\ \A n \in Names : vms[n] = Absent \/ (/\ vms[n].state \in {"stopped", "running", "broken"}
                                          /\ \A c \in Capacities : vms[n].caps[c] \in Nat)
  /\ \A t \in Terminals :
       /\ code[t] \in Codes
       /\ asked[t] \in [Questions -> 0..2]
       /\ Busy(t) => /\ proc[t].verb \in Verbs
                     /\ DOMAIN proc[t].values = Fields
                     /\ proc[t].rest # <<>>
                     /\ code[t] = "none"
       /\ did[t] # Unset => did[t].verb \in Verbs

\* what a field means: an answer of no and a missing flag are the same network
Meaning(f, v) == IF f = "lan" /\ v = "no" THEN Unset ELSE v

\* What an elevated child is told otherwise than its parent was: the disk of a
\* creation is written with one decimal place, and a remote command is dropped
\* when the machine to run it on has yet to be selected.
Altered(t, f) ==
  \/ /\ f = "disk" /\ want[t].verb = "new"
     /\ \E up \in BOOLEAN : did[t].values[f] = FlagText(f, want[t].values[f], up)
  \/ f = "remote" /\ did[t].values[f] = Unset /\ asked[t]["name"] > 0

\* The SDK call that is made in the end, usually by another process than the
\* one the operator typed at, is the one that was asked for: the same machine,
\* capacities, remote command, address policy and archive.  Two fields may
\* differ if there was an elevation, the disk of a creation by the rounding of
\* its flag and no more, and the remote command of a session whose machine was
\* selected, which becomes none and never another.
ElevationKeepsTheRequest ==
  CliTypeOK /\ \A t \in Terminals :
    did[t] # Unset =>
      /\ did[t].verb = want[t].verb
      /\ \A f \in Fields \ {"output"} :
           \/ Meaning(f, did[t].values[f]) = Meaning(f, want[t].values[f])
           \/ asked[t]["password"] > 0 /\ Altered(t, f)

\* A machine is only changed by a root process, on behalf of an operator who
\* named or chose it, whether the call succeeds or fails half-way, and an edit
\* leaves every capacity alone that its review did not show as changed,
\* whatever another terminal made of it since.
ChangesOnlyWhatWasAsked ==
  [][\A n \in Names : vms'[n] # vms[n] =>
       \E t \in Terminals :
         /\ did'[t] # did[t]
         /\ proc[t].root
         /\ n \in {want[t].values["name"], want[t].values["archive"]}
         /\ want[t].verb = "edit" =>
              \A c \in Capacities :
                vms'[n].caps[c] # vms[n].caps[c] => want[t].values[c] = vms'[n].caps[c]]_vars

Destroys(verb) == verb \in {"delete", "prune"}

\* At a terminal, an edit, a creation whose values were all answered, and a
\* deletion or a prune by an operator who is already root, are confirmed
\* before they happen; that of the edit and of the creation, which their
\* unprivileged process asks for, stands across the elevation.
ConfirmedBeforeChange ==
  \A t \in Terminals :
    /\ did[t] # Unset
    /\ ~want[t].silent
    /\ \/ want[t].verb = "edit"
       \/ want[t].verb = "new" /\ asked[t]["lan"] = 1
       \/ Destroys(want[t].verb) /\ asked[t]["password"] = 0
    => asked[t]["confirm"] = 1

\* What a command waits for comes: the operator answers or cancels, sudo and the
\* registry answer, sessions end.
AllAnswer == \A t \in Terminals : WF_vars(Waits(t) /\ Step(t))

\* If so, every command ends, and has put no question twice, neither in the
\* process that was typed nor in the elevated child.
CommandsReturn ==
  AllAnswer => \A t \in Terminals :
                 Busy(t) ~> ~Busy(t) /\ \A q \in Questions : asked[t][q] <= 1

=============================================================================
