-------------------------- MODULE AutostartProofs --------------------------
(***************************************************************************)
(* What Autostart promises, for every set of homes, machines, operators    *)
(* and commands.                                                           *)
(*                                                                         *)
(* AutostartInv is the inductive invariant: the tables have their types,   *)
(* a policy carries the id of its machine row, every command in flight     *)
(* knows what it has read, two commands on one home know of each other,    *)
(* and a boot run gives every machine one turn.  That no two homes share   *)
(* an instance name (UnitNamesDiffer) follows from escape_path itself.     *)
(***************************************************************************)
EXTENDS Autostart, TLAPS

(* The fields of a command.                                                *)
Fields == {"pc", "kind", "asked", "home", "root", "interactive", "marker", "name",
           "request", "id", "found", "any", "alone"}

(* A command and what it knows by itself at each point: the home it acts   *)
(* on is the one it was asked for, however its process gained root access. *)
Typed(k) ==
    /\ DOMAIN k = Fields
    /\ k.kind \in {"add", "edit", "rm"}
    /\ k.asked \in Homes /\ k.home = k.asked
    /\ k.name \in Names \cup {NoName} /\ k.request \in Requests
    /\ k.id \in 0..MaxMachineIds /\ k.found \in Policies
    /\ k.any \in BOOLEAN /\ k.alone \in BOOLEAN

Flow(k) ==
    /\ k.pc \in {"prompt", "lookup", "find", "write"} => k.name \in Names
    /\ k.pc \in {"find", "write"} => k.id # 0 /\ ValidAttempts(k.request)
    /\ k.pc = "write" /\ k.kind = "edit" => k.found # NoPolicy
    /\ k.kind = "add" => k.request.fields = {"enabled", "attempts"} \/ k.pc = "idle"
    /\ k.pc \in {"template", "enable"} => k.any
    /\ k.pc = "disable" => ~k.any

(* No two homes have the same unit.                                        *)
UnitsDiffer == \A g, h \in Homes : Unit[g] = Unit[h] => g = h

(* What a command relies on that others could change.                      *)
Known(k) ==
    /\ k.pc = "enable" => template
    /\ k.alone /\ k.pc \in Syncing => (AnyEnabled(k.home) <=> k.any)
    /\ UnitsDiffer /\ k.alone /\ k.pc = "reply" => ((Unit[k.home] \in wanted) <=> k.any)

CommandOK(k) == Typed(k) /\ Flow(k) /\ Known(k)

(* Two commands on one home know that they are not alone.                  *)
Apart ==
    \A c, d \in Clients :
        c # d /\ ~At(c, "idle") /\ ~At(d, "idle") /\ cmd[c].alone => cmd[c].asked # cmd[d].asked

(* A boot run of a home: nothing is queued or reported before the policies *)
(* were read, and a machine has one turn.                                  *)
BootOK(b) ==
    /\ DOMAIN b = {"pc", "queue", "attempt", "report"}
    /\ b.attempt \in 1..MaxAutostartAttempts
    /\ b.pc # "run" => b.queue = {} /\ b.report = {} /\ b.attempt = 1
    /\ \A p \in b.queue :
         /\ p.name \in Names /\ p.row \in Policies \ {NoPolicy}
         /\ \A q \in b.queue : p.name = q.name => p = q
         /\ \A r \in b.report : p.name # r.name
    /\ \A r \in b.report :
         /\ r.name \in Names /\ r.attempts \in 0..MaxAutostartAttempts
         /\ \A q \in b.report : q.name = r.name => q = r

Stores ==
    /\ machine \in [Homes -> [Names -> 0..MaxMachineIds]]
    /\ ids \in [Homes -> 0..MaxMachineIds]
    /\ policy \in [Homes -> [Names -> Policies]]
    /\ template \in BOOLEAN /\ systemd \in BOOLEAN
    /\ wanted \subseteq {Unit[h] : h \in Homes}
    /\ wanted # {} => template

Owned == \A h \in Homes, n \in Names : policy[h][n] # NoPolicy => policy[h][n].id = machine[h][n]

Commands == DOMAIN cmd = Clients /\ \A c \in Clients : CommandOK(cmd[c])
Boots == DOMAIN boot = Homes /\ \A h \in Homes : BootOK(boot[h])

AutostartInv == Stores /\ Owned /\ Commands /\ Apart /\ Boots

-----------------------------------------------------------------------------
(* Nothing is idle but the idle command, which relies on nothing.          *)
LEMMA IdleIsOK == CommandOK(IdleCommand) /\ IdleCommand.pc = "idle"
<1>1. NoPolicy \in Policies
  BY DEF Policies
<1>2. IdleCommand.request \in Requests
  BY DEF IdleCommand, Requests
<1>3. Typed(IdleCommand)
  BY <1>1, <1>2, AutostartAssumption DEF IdleCommand, Typed, Fields
<1>4. Flow(IdleCommand) /\ Known(IdleCommand)
  BY DEF IdleCommand, Flow, Known, Syncing
<1> QED BY <1>3, <1>4 DEF CommandOK, IdleCommand

(* A home without an enabled policy.                                       *)
LEMMA NoPolicyIsOff == NoPolicy \in Policies /\ NoPolicy.enabled = FALSE /\ NoPolicy.id = 0
BY DEF NoPolicy, Policies

(* No home but h is touched.                                               *)
Beyond(h) ==
    /\ \A g \in Homes \ {h} :
         policy'[g] = policy[g] /\ (UnitsDiffer => (Unit[g] \in wanted' <=> Unit[g] \in wanted))
    /\ template => template'

(* A step of one command in flight: what the others rely on is beyond its  *)
(* home, or they know that they are not alone.                             *)
LEMMA OneCommand ==
    ASSUME AutostartInv, NEW c \in Clients, ~At(c, "idle"),
           DOMAIN cmd' = Clients, \A d \in Clients \ {c} : cmd'[d] = cmd[d],
           CommandOK(cmd[c])', Beyond(cmd[c].home),
           cmd'[c].pc # "idle" => cmd'[c].asked = cmd[c].asked /\ cmd'[c].alone = cmd[c].alone
    PROVE  Commands' /\ Apart'
<1>1. ASSUME NEW d \in Clients, d # c PROVE CommandOK(cmd[d])'
  <2> DEFINE k == cmd[d]
  <2>1. cmd'[d] = k /\ CommandOK(k) /\ CommandOK(cmd[c])
    BY <1>1 DEF AutostartInv, Commands
  <2>2. k.pc # "idle" /\ k.alone => k.home # cmd[c].home
    BY <1>1, <2>1 DEF AutostartInv, Apart, At, CommandOK, Typed
  <2>3. k.home \in Homes
    BY <2>1 DEF CommandOK, Typed
  <2>4. k.pc # "idle" /\ k.alone =>
          /\ policy'[k.home] = policy[k.home]
          /\ UnitsDiffer => (Unit[k.home] \in wanted' <=> Unit[k.home] \in wanted)
    BY <2>2, <2>3 DEF Beyond
  <2>5. Known(cmd[d])'
    <3>1. cmd'[d].pc = "enable" => template'
      BY <2>1 DEF CommandOK, Known, Beyond
    <3>2. k.pc # "idle" /\ k.alone => (AnyEnabled(k.home)' <=> AnyEnabled(k.home))
      BY <2>1, <2>4 DEF AnyEnabled
    <3>3. k.alone /\ k.pc \in Syncing => (AnyEnabled(k.home)' <=> k.any)
      BY <2>1, <3>2 DEF CommandOK, Known, Syncing
    <3>4. UnitsDiffer /\ k.alone /\ k.pc = "reply" => ((Unit[k.home] \in wanted') <=> k.any)
      BY <2>1, <2>4 DEF CommandOK, Known
    <3> QED BY <2>1, <3>1, <3>3, <3>4 DEF Known, AnyEnabled, UnitsDiffer
  <2>6. Typed(cmd[d])' /\ Flow(cmd[d])'
    BY <2>1 DEF CommandOK, Typed, Flow
  <2> QED BY <2>5, <2>6 DEF CommandOK
<1>2. Commands'
  BY <1>1 DEF Commands
<1>3. Apart'
  BY DEF AutostartInv, Apart, At
<1> QED BY <1>2, <1>3

stores == <<machine, ids, policy, template, wanted, boot, systemd>>

(* A step of one command that leaves everything else alone.                *)
LEMMA QuietCommand ==
    ASSUME AutostartInv, NEW c \in Clients, ~At(c, "idle"), UNCHANGED stores,
           DOMAIN cmd' = Clients, \A d \in Clients \ {c} : cmd'[d] = cmd[d],
           CommandOK(cmd[c])',
           cmd'[c].pc # "idle" => cmd'[c].asked = cmd[c].asked /\ cmd'[c].alone = cmd[c].alone
    PROVE  AutostartInv'
<1>1. UNCHANGED <<machine, ids, policy, template, wanted, boot, systemd>>
  BY DEF stores
<1>2. Beyond(cmd[c].home)
  BY <1>1 DEF Beyond
<1>3. Stores' /\ Owned' /\ Boots'
  BY <1>1 DEF AutostartInv, Stores, Owned, Boots, BootOK
<1> QED BY <1>2, <1>3, OneCommand DEF AutostartInv

(* What a command that proceeds is afterwards, and what one that returns.  *)
LEMMA ProceedEffect ==
    ASSUME AutostartInv, NEW c \in Clients, NEW k, Proceed(c, k)
    PROVE  DOMAIN cmd' = Clients /\ cmd'[c] = k /\ \A d \in Clients \ {c} : cmd'[d] = cmd[d]
BY DEF AutostartInv, Commands, Proceed

(* A command ends; what it has done so far stays.                          *)
LEMMA ReturnKeeps ==
    ASSUME AutostartInv, NEW c \in Clients, ~At(c, "idle"), Return(c), UNCHANGED stores
    PROVE  AutostartInv'
<1>1. DOMAIN cmd' = Clients /\ cmd'[c] = IdleCommand /\ \A d \in Clients \ {c} : cmd'[d] = cmd[d]
  BY ProceedEffect DEF Return
<1>2. CommandOK(cmd[c])'
  <2>1. Typed(IdleCommand) /\ Flow(IdleCommand)
    BY IdleIsOK DEF CommandOK
  <2>2. Typed(cmd[c])' /\ Flow(cmd[c])'
    BY <1>1, <2>1 DEF Typed, Flow
  <2>3. Known(cmd[c])'
    BY <1>1, IdleIsOK DEF Known, Syncing
  <2> QED BY <2>2, <2>3 DEF CommandOK
<1> QED BY <1>1, <1>2, IdleIsOK, QuietCommand

(* A command fails or is killed, its template written or not.              *)
LEMMA InterruptKeeps ==
    ASSUME AutostartInv, NEW c \in Clients, Interrupt(c)
    PROVE  AutostartInv'
<1>0. /\ ~At(c, "idle") /\ UNCHANGED <<machine, ids, policy, wanted, boot, systemd>>
      /\ (template => template') /\ template' \in BOOLEAN
  BY DEF Interrupt, At, AutostartInv, Stores
<1>1. DOMAIN cmd' = Clients /\ cmd'[c] = IdleCommand /\ \A d \in Clients \ {c} : cmd'[d] = cmd[d]
  BY ProceedEffect DEF Interrupt, Return
<1>2. CommandOK(cmd[c])'
  <2>1. Typed(IdleCommand) /\ Flow(IdleCommand)
    BY IdleIsOK DEF CommandOK
  <2>2. Typed(cmd[c])' /\ Flow(cmd[c])'
    BY <1>1, <2>1 DEF Typed, Flow
  <2>3. Known(cmd[c])'
    BY <1>1, IdleIsOK DEF Known, Syncing
  <2> QED BY <2>2, <2>3 DEF CommandOK
<1>3. Beyond(cmd[c].home)
  BY <1>0 DEF Beyond
<1>4. Commands' /\ Apart'
  BY <1>0, <1>1, <1>2, <1>3, IdleIsOK, OneCommand
<1>5. Stores' /\ Owned' /\ Boots'
  BY <1>0 DEF AutostartInv, Stores, Owned, Boots, BootOK
<1> QED BY <1>4, <1>5 DEF AutostartInv

(* A command goes on to a point before it has changed anything.            *)
LEMMA AdvanceKeeps ==
    ASSUME AutostartInv, NEW c \in Clients, ~At(c, "idle"), UNCHANGED stores,
           NEW k, Proceed(c, k), Typed(k), Flow(k), k.pc \notin Syncing,
           k.asked = cmd[c].asked, k.alone = cmd[c].alone
    PROVE  AutostartInv'
<1>1. DOMAIN cmd' = Clients /\ cmd'[c] = k /\ \A d \in Clients \ {c} : cmd'[d] = cmd[d]
  BY ProceedEffect
<1>2. Typed(cmd[c])' /\ Flow(cmd[c])'
  BY <1>1 DEF Typed, Flow
<1>3. Known(cmd[c])'
  BY <1>1 DEF Known, Syncing
<1> QED BY <1>1, <1>2, <1>3, QuietCommand DEF CommandOK

(* A command at another point is otherwise the same.                       *)
SameCommand(n, k) ==
    /\ DOMAIN n = Fields
    /\ n.kind = k.kind /\ n.asked = k.asked /\ n.home = k.home /\ n.request = k.request
    /\ n.found = k.found /\ n.alone = k.alone

LEMMA GotoFields ==
    ASSUME NEW k, Typed(k), NEW l
    PROVE  LET n == [k EXCEPT !.pc = l]
           IN  SameCommand(n, k) /\ n.pc = l /\ n.name = k.name /\ n.id = k.id /\ n.any = k.any
BY DEF Typed, Fields, SameCommand

(* The command line up to the SDK call: root access, the choice of a       *)
(* machine and the questions asked change the command only.                *)
LEMMA FrontKeeps ==
    ASSUME AutostartInv, NEW c \in Clients,
           \/ Privileged(c) \/ RefusePrivilege(c) \/ (\E granted \in BOOLEAN : Escalate(c, granted))
           \/ EnsureAvailable(c) \/ Select(c) \/ Prompt(c)
    PROVE  AutostartInv'
<1> DEFINE k == cmd[c]
<1>0. Typed(k) /\ Flow(k) /\ UNCHANGED stores
  BY DEF AutostartInv, Commands, CommandOK, stores, Privileged, RefusePrivilege, Escalate,
     EnsureAvailable, Select, Prompt
<1>1. ~At(c, "idle")
  BY DEF Privileged, RefusePrivilege, Escalate, EnsureAvailable, Select, Prompt, At
<1>2. CASE Return(c)
  BY <1>0, <1>1, <1>2, ReturnKeeps
<1>3. ASSUME NEW l \in {"systemd", "select"}, Goto(c, l) PROVE AutostartInv'
  <2> DEFINE n == [k EXCEPT !.pc = l]
  <2>1. SameCommand(n, k) /\ n.pc = l /\ n.name = k.name /\ n.id = k.id /\ n.any = k.any
    BY <1>0, GotoFields
  <2>2. Typed(n) /\ Flow(n)
    BY <1>0, <1>1, <1>3, <2>1 DEF Typed, Flow, SameCommand, At
  <2> QED BY <1>0, <1>1, <1>3, <2>1, <2>2, AdvanceKeeps DEF Goto, Syncing, SameCommand
<1>4. ASSUME Goto(c, "prompt"), k.name # NoName PROVE AutostartInv'
  <2> DEFINE n == [k EXCEPT !.pc = "prompt"]
  <2>1. SameCommand(n, k) /\ n.pc = "prompt" /\ n.name = k.name /\ n.id = k.id /\ n.any = k.any
    BY <1>0, GotoFields
  <2>2. Typed(n) /\ Flow(n)
    BY <1>0, <1>1, <1>4, <2>1 DEF Typed, Flow, SameCommand, At
  <2> QED BY <1>0, <1>1, <1>4, <2>1, <2>2, AdvanceKeeps DEF Goto, Syncing, SameCommand
<1>5. ASSUME NEW granted \in BOOLEAN, Escalate(c, granted) PROVE AutostartInv'
  <2> DEFINE n == [k EXCEPT !.home = ChildHome(k), !.root = granted, !.marker = TRUE]
  <2>1. Typed(n) /\ Flow(n) /\ n.pc = k.pc /\ n.asked = k.asked /\ n.alone = k.alone
    BY <1>0 DEF Typed, Flow, Fields, ChildHome
  <2>2. Proceed(c, n) /\ k.pc = "privilege"
    BY <1>5 DEF Escalate, At
  <2> QED BY <1>0, <1>1, <2>1, <2>2, AdvanceKeeps DEF Syncing
<1>6. CASE Privileged(c) \/ RefusePrivilege(c) \/ EnsureAvailable(c)
  BY <1>2, <1>3, <1>4, <1>6 DEF Privileged, RefusePrivilege, EnsureAvailable
<1>7. ASSUME NEW n \in Options(c), Proceed(c, [k EXCEPT !.pc = "prompt", !.name = n]) PROVE AutostartInv'
  <2> DEFINE m == [k EXCEPT !.pc = "prompt", !.name = n]
  <2>1. n \in Names
    BY <1>7 DEF Options
  <2>2. SameCommand(m, k) /\ m.pc = "prompt" /\ m.name = n /\ m.id = k.id /\ m.any = k.any
    BY <1>0 DEF Typed, Fields, SameCommand
  <2>3. Typed(m) /\ Flow(m)
    BY <1>0, <1>1, <2>1, <2>2 DEF Typed, Flow, SameCommand, At
  <2> QED BY <1>0, <1>1, <1>7, <2>2, <2>3, AdvanceKeeps DEF Syncing, SameCommand
<1>8. CASE Select(c)
  BY <1>2, <1>7, <1>8 DEF Select
<1>9. CASE Prompt(c)
  <2> DEFINE f == IF k.kind = "edit" /\ k.request.fields = {} THEN {"enabled", "attempts"} ELSE k.request.fields
  <2> DEFINE m == [k EXCEPT !.pc = "lookup", !.request.fields = f]
  <2>1. CASE Return(c)
    BY <1>2, <2>1
  <2>2. CASE ~Return(c)
    <3>1. Proceed(c, m)
      BY <1>9, <2>2 DEF Prompt
    <3>2. k.pc = "prompt" /\ f \in SUBSET {"enabled", "attempts"}
      BY <1>0, <1>9 DEF Prompt, At, Typed, Requests
    <3>3. m.request = [k.request EXCEPT !.fields = f] /\ m.pc = "lookup" /\ DOMAIN m = Fields
      BY <1>0 DEF Typed, Fields
    <3>4. m.request \in Requests /\ m.request.fields = f
      BY <1>0, <3>2, <3>3 DEF Typed, Requests
    <3>5. Typed(m) /\ m.asked = k.asked /\ m.alone = k.alone
      BY <1>0, <3>4 DEF Typed, Fields
    <3>6. Flow(m)
      BY <1>0, <3>2, <3>3, <3>4 DEF Typed, Flow, Fields
    <3> QED BY <1>0, <1>1, <3>1, <3>3, <3>5, <3>6, AdvanceKeeps DEF Syncing
  <2> QED BY <2>1, <2>2
<1> QED BY <1>5, <1>6, <1>8, <1>9

(* A policy row as an add or an edit leaves it.                            *)
LEMMA MergedType ==
    ASSUME NEW k, Typed(k), k.id # 0, ValidAttempts(k.request), NEW e \in Policies,
           k.request.fields = {"enabled", "attempts"} \/ e # NoPolicy
    PROVE  Merged(k, e) \in Policies \ {NoPolicy} /\ Merged(k, e).id = k.id
<1>1. k.request.enabled \in BOOLEAN /\ k.id \in 1..MaxMachineIds
  BY AutostartAssumption DEF Typed, Requests
<1>2. e # NoPolicy => e.enabled \in BOOLEAN /\ e.max \in 1..MaxAutostartAttempts
  BY DEF Policies
<1>3. Merged(k, e).enabled \in BOOLEAN /\ Merged(k, e).max \in 1..MaxAutostartAttempts
  BY <1>1, <1>2 DEF Merged, ValidAttempts
<1>4. Merged(k, e) \in [id : 1..MaxMachineIds, enabled : BOOLEAN, max : 1..MaxAutostartAttempts]
  BY <1>1, <1>3 DEF Merged
<1>5. Merged(k, e).id = k.id /\ NoPolicy.id = 0
  BY DEF Merged, NoPolicy
<1> QED BY <1>4, <1>5 DEF Policies

(* The reads of the SDK calls, and the list of policies that follows them. *)
LEMMA ReadsKeep ==
    ASSUME AutostartInv, NEW c \in Clients, Lookup(c) \/ Find(c) \/ ListPolicies(c) \/ Reply(c)
    PROVE  AutostartInv'
<1> DEFINE k == cmd[c]
<1>0. Typed(k) /\ Flow(k) /\ UNCHANGED stores
  BY DEF AutostartInv, Commands, CommandOK, stores, Lookup, Find, ListPolicies, Reply
<1>1. ~At(c, "idle")
  BY DEF Lookup, Find, ListPolicies, Reply, At
<1>2. CASE Return(c)
  BY <1>0, <1>1, <1>2, ReturnKeeps
<1>3. k.home \in Homes
  BY <1>0 DEF Typed
<1>4. CASE Lookup(c) /\ ~Return(c)
  <2> DEFINE id == machine[k.home][k.name]
  <2> DEFINE l == IF k.kind = "rm" THEN "write" ELSE "find"
  <2> DEFINE n == [k EXCEPT !.id = id, !.pc = l]
  <2>1. Proceed(c, n) /\ id # 0 /\ ValidAttempts(k.request) /\ k.pc = "lookup"
    BY <1>4 DEF Lookup, At
  <2>2. k.name \in Names
    BY <1>0, <2>1 DEF Flow
  <2>3. id \in 0..MaxMachineIds
    BY <1>3, <2>2 DEF AutostartInv, Stores
  <2>4. SameCommand(n, k) /\ n.pc = l /\ n.name = k.name /\ n.id = id /\ n.any = k.any
    BY <1>0 DEF Typed, Fields, SameCommand
  <2>5. Typed(n)
    BY <1>0, <2>3, <2>4 DEF Typed, SameCommand
  <2>6. Flow(n)
    BY <1>0, <1>1, <2>1, <2>2, <2>4 DEF Flow, SameCommand, Typed, At
  <2>7. n.pc \notin Syncing /\ n.asked = k.asked /\ n.alone = k.alone
    BY <2>4 DEF SameCommand, Syncing
  <2> HIDE DEF n
  <2> QED BY <1>0, <1>1, <2>1, <2>5, <2>6, <2>7, AdvanceKeeps
<1>5. ASSUME Goto(c, "list") PROVE AutostartInv'
  <2> DEFINE n == [k EXCEPT !.pc = "list"]
  <2>1. SameCommand(n, k) /\ n.pc = "list" /\ n.name = k.name /\ n.id = k.id /\ n.any = k.any
    BY <1>0, GotoFields
  <2>2. Typed(n) /\ Flow(n)
    BY <1>0, <1>1, <2>1 DEF Typed, Flow, SameCommand, At
  <2> QED BY <1>0, <1>1, <1>5, <2>1, <2>2, AdvanceKeeps DEF Goto, Syncing, SameCommand
<1>6. CASE Find(c) /\ ~Return(c)
  <2> DEFINE e == policy[k.home][k.name]
  <2> DEFINE n == [k EXCEPT !.pc = "write", !.found = e]
  <2>1. CASE Goto(c, "list")
    BY <1>5, <2>1
  <2>2. CASE ~Goto(c, "list")
    <3>1. Proceed(c, n) /\ ((k.kind = "add") = (e = NoPolicy)) /\ k.pc = "find"
      BY <1>6, <2>2 DEF Find, At
    <3>2. k.name \in Names /\ k.id # 0 /\ ValidAttempts(k.request)
      BY <1>0, <3>1 DEF Flow
    <3>3. e \in Policies
      BY <1>3, <3>2 DEF AutostartInv, Stores
    <3>4. /\ DOMAIN n = Fields /\ n.pc = "write" /\ n.found = e
          /\ n.kind = k.kind /\ n.asked = k.asked /\ n.home = k.home /\ n.request = k.request
          /\ n.alone = k.alone /\ n.name = k.name /\ n.id = k.id /\ n.any = k.any
      BY <1>0 DEF Typed, Fields
    <3>5. Typed(n)
      BY <1>0, <3>3, <3>4 DEF Typed
    <3>6. Flow(n)
      BY <1>0, <1>1, <3>1, <3>2, <3>4 DEF Flow, At
    <3> QED BY <1>0, <1>1, <3>1, <3>4, <3>5, <3>6, AdvanceKeeps DEF Syncing
  <2> QED BY <2>1, <2>2
<1>7. CASE ListPolicies(c)
  <2> DEFINE any == AnyEnabled(k.home)
  <2> DEFINE l == IF any THEN "template" ELSE "disable"
  <2> DEFINE n == [k EXCEPT !.any = any, !.pc = l]
  <2>1. Proceed(c, n)
    BY <1>7 DEF ListPolicies
  <2>2. DOMAIN cmd' = Clients /\ cmd'[c] = n /\ \A d \in Clients \ {c} : cmd'[d] = cmd[d]
    BY <2>1, ProceedEffect
  <2>3. SameCommand(n, k) /\ n.pc = l /\ n.name = k.name /\ n.id = k.id /\ n.any = any
    BY <1>0 DEF Typed, Fields, SameCommand
  <2>4. any \in BOOLEAN
    BY DEF AnyEnabled
  <2>5. Typed(n) /\ Flow(n)
    BY <1>0, <1>1, <2>3, <2>4 DEF Typed, Flow, SameCommand, At
  <2>6. AnyEnabled(n.home)' <=> any
    BY <1>0, <2>2, <2>3 DEF AnyEnabled, SameCommand, stores
  <2>7. Known(cmd[c])'
    <3>1. l # "enable" /\ l # "reply"
      OBVIOUS
    <3>2. AnyEnabled(cmd[c].home)' <=> cmd'[c].any
      BY <2>2, <2>3, <2>6 DEF AnyEnabled, stores
    <3> QED BY <2>2, <2>3, <3>1, <3>2 DEF Known
  <2>8. Typed(cmd[c])' /\ Flow(cmd[c])'
    BY <2>2, <2>5 DEF Typed, Flow
  <2> QED BY <1>0, <1>1, <2>2, <2>3, <2>7, <2>8, QuietCommand DEF CommandOK, SameCommand
<1> QED BY <1>2, <1>4, <1>6, <1>7 DEF Reply

(* A command writes one row of its home and goes on to read them all.      *)
LEMMA WriteStep ==
    ASSUME AutostartInv, NEW c \in Clients, ~At(c, "idle"), NEW n \in Names, NEW row \in Policies,
           policy' = policy \/ SetPolicy(cmd[c].home, n, row),
           row # NoPolicy => row.id = machine[cmd[c].home][n],
           Goto(c, "list"), UNCHANGED <<machine, ids, template, wanted, boot, systemd>>
    PROVE  AutostartInv'
<1> DEFINE k == cmd[c]
<1> DEFINE m == [k EXCEPT !.pc = "list"]
<1>0. Typed(k) /\ Flow(k) /\ k.home \in Homes /\ Stores
  BY DEF AutostartInv, Commands, CommandOK, Typed
<1>1. SameCommand(m, k) /\ m.pc = "list" /\ m.name = k.name /\ m.id = k.id /\ m.any = k.any
  BY <1>0, GotoFields
<1>2. DOMAIN cmd' = Clients /\ cmd'[c] = m /\ \A d \in Clients \ {c} : cmd'[d] = cmd[d]
  BY ProceedEffect DEF Goto
<1>3. Typed(m) /\ Flow(m)
  BY <1>0, <1>1 DEF Typed, Flow, SameCommand, At
<1>4. CommandOK(cmd[c])'
  <2>1. Typed(cmd[c])' /\ Flow(cmd[c])'
    BY <1>2, <1>3 DEF Typed, Flow
  <2>2. Known(cmd[c])'
    BY <1>1, <1>2 DEF Known, Syncing
  <2> QED BY <2>1, <2>2 DEF CommandOK
<1>5. /\ policy' \in [Homes -> [Names -> Policies]]
      /\ \A g \in Homes, q \in Names :
           policy'[g][q] = policy[g][q] \/ (g = k.home /\ q = n /\ policy'[g][q] = row)
      /\ \A g \in Homes \ {k.home} : policy'[g] = policy[g]
  <2>1. CASE policy' = policy
    BY <1>0, <2>1 DEF Stores
  <2>2. CASE SetPolicy(k.home, n, row)
    <3> DEFINE table == [policy[k.home] EXCEPT ![n] = row]
    <3>1. policy' = [policy EXCEPT ![k.home] = table]
      BY <2>2 DEF SetPolicy
    <3>2. policy[k.home] \in [Names -> Policies]
      BY <1>0 DEF Stores
    <3>3. table \in [Names -> Policies] /\ \A q \in Names : table[q] = IF q = n THEN row ELSE policy[k.home][q]
      BY <3>2
    <3> HIDE DEF table
    <3> QED BY <1>0, <3>1, <3>3 DEF Stores
  <2> QED BY <2>1, <2>2
<1>6. Stores'
  BY <1>0, <1>5 DEF Stores
<1>7. Owned'
  BY <1>5 DEF AutostartInv, Owned
<1>8. Boots'
  BY DEF AutostartInv, Boots, BootOK
<1>9. Beyond(k.home)
  BY <1>5 DEF Beyond
<1>10. Commands' /\ Apart'
  BY <1>1, <1>2, <1>4, <1>9, OneCommand DEF SameCommand
<1> QED BY <1>6, <1>7, <1>8, <1>10 DEF AutostartInv

(* INSERT, UPDATE and DELETE of one policy.                                *)
LEMMA WritesKeep ==
    ASSUME AutostartInv, NEW c \in Clients, Insert(c) \/ Update(c) \/ Delete(c)
    PROVE  AutostartInv'
<1> DEFINE k == cmd[c]
<1> DEFINE e == policy[k.home][k.name]
<1>0. Typed(k) /\ Flow(k) /\ k.home \in Homes /\ Stores /\ k.pc = "write"
  BY DEF AutostartInv, Commands, CommandOK, Typed, Insert, Update, Delete, At
<1>1. ~At(c, "idle") /\ k.name \in Names /\ k.id # 0 /\ ValidAttempts(k.request)
  BY <1>0 DEF Flow, At
<1>2. e \in Policies /\ (e # NoPolicy => e.id = machine[k.home][k.name])
  BY <1>0, <1>1 DEF AutostartInv, Owned, Stores
<1>3. UNCHANGED <<machine, ids, template, wanted, boot, systemd>>
  BY DEF Insert, Update, Delete
<1>4. CASE Insert(c)
  <2>1. CASE Return(c) /\ UNCHANGED policy
    BY <1>1, <1>3, <2>1, ReturnKeeps DEF stores
  <2>2. CASE ~(Return(c) /\ UNCHANGED policy)
    <3> DEFINE row == Merged(k, NoPolicy)
    <3>1. /\ machine[k.home][k.name] = k.id /\ SetPolicy(k.home, k.name, row) /\ Goto(c, "list")
          /\ k.kind = "add"
      BY <1>4, <2>2 DEF Insert
    <3>2. k.request.fields = {"enabled", "attempts"}
      BY <1>0, <3>1 DEF Flow
    <3>3. row \in Policies /\ row.id = k.id
      BY <1>0, <1>1, <3>2, MergedType, NoPolicyIsOff
    <3> QED BY <1>1, <1>3, <3>1, <3>3, WriteStep
  <2> QED BY <2>1, <2>2
<1>5. CASE Update(c)
  <2> DEFINE row == Merged(k, k.found)
  <2>1. k.found \in Policies /\ k.found # NoPolicy /\ Goto(c, "list")
    BY <1>0, <1>5 DEF Update, Flow, Typed
  <2>2. row \in Policies /\ row.id = k.id
    BY <1>0, <1>1, <2>1, MergedType
  <2>3. CASE e.id = k.id
    <3>1. k.id = machine[k.home][k.name]
      BY <1>1, <1>2, <2>3, NoPolicyIsOff
    <3> QED BY <1>1, <1>3, <1>5, <2>1, <2>2, <2>3, <3>1, WriteStep DEF Update
  <2>4. CASE e.id # k.id
    <3>1. policy' = policy
      BY <1>5, <2>4 DEF Update
    <3> QED BY <1>1, <1>2, <1>3, <2>1, <3>1, WriteStep
  <2> QED BY <2>3, <2>4
<1>6. CASE Delete(c)
  <2>1. Goto(c, "list") /\ (policy' = policy \/ SetPolicy(k.home, k.name, NoPolicy))
    BY <1>6 DEF Delete
  <2> QED BY <1>1, <1>3, <2>1, NoPolicyIsOff, WriteStep
<1> QED BY <1>4, <1>5, <1>6
(* Template, enable and disable.                                           *)
LEMMA SyncKeeps ==
    ASSUME AutostartInv, NEW c \in Clients, WriteTemplate(c) \/ Enable(c) \/ Disable(c)
    PROVE  AutostartInv'
<1> DEFINE k == cmd[c]
<1> DEFINE l == IF k.pc = "template" THEN "enable" ELSE "reply"
<1> DEFINE n == [k EXCEPT !.pc = l]
<1>0. Typed(k) /\ Flow(k) /\ Known(k) /\ k.home \in Homes /\ Stores
  BY DEF AutostartInv, Commands, CommandOK, Typed
<1>1. k.pc \in {"template", "enable", "disable"} /\ Goto(c, l)
  BY DEF WriteTemplate, Enable, Disable, At
<1>2. SameCommand(n, k) /\ n.pc = l /\ n.name = k.name /\ n.id = k.id /\ n.any = k.any
  BY <1>0, GotoFields
<1>3. DOMAIN cmd' = Clients /\ cmd'[c] = n /\ \A d \in Clients \ {c} : cmd'[d] = cmd[d]
  BY <1>1, ProceedEffect DEF Goto
<1>4. UNCHANGED <<machine, ids, policy, boot, systemd>>
  BY DEF WriteTemplate, Enable, Disable
<1>5. /\ template' \in BOOLEAN /\ (template => template') /\ (k.pc = "template" => template')
      /\ wanted' \subseteq {Unit[h] : h \in Homes} /\ (wanted' # {} => template')
      /\ UnitsDiffer => \A g \in Homes \ {k.home} : Unit[g] \in wanted' <=> Unit[g] \in wanted
      /\ k.pc = "enable" => Unit[k.home] \in wanted'
      /\ k.pc = "disable" => Unit[k.home] \notin wanted'
  <2>1. CASE WriteTemplate(c)
    BY <1>0, <2>1 DEF WriteTemplate, Stores, At
  <2>2. CASE Enable(c)
    <3>1. wanted' = wanted \cup {Unit[k.home]} /\ template' = template /\ k.pc = "enable"
      BY <2>2 DEF Enable, At
    <3>2. template
      BY <1>0, <3>1 DEF Known
    <3> QED BY <1>0, <3>1, <3>2 DEF Stores, UnitsDiffer
  <2>3. CASE Disable(c)
    <3>1. wanted' = (IF template THEN wanted \ {Unit[k.home]} ELSE wanted) /\ template' = template /\ k.pc = "disable"
      BY <2>3 DEF Disable, At
    <3> QED BY <1>0, <3>1 DEF Stores, UnitsDiffer
  <2> QED BY <2>1, <2>2, <2>3
<1>6. Typed(n) /\ Flow(n)
  BY <1>0, <1>1, <1>2 DEF Typed, Flow, SameCommand
<1>7. Typed(cmd[c])' /\ Flow(cmd[c])'
  BY <1>3, <1>6 DEF Typed, Flow
<1>8. AnyEnabled(cmd[c].home)' <=> AnyEnabled(k.home)
  BY <1>2, <1>3, <1>4 DEF AnyEnabled, SameCommand
<1>9. Known(cmd[c])'
  <2>1. cmd'[c].pc = "enable" => template'
    BY <1>1, <1>2, <1>3, <1>5
  <2>2. cmd'[c].alone => (AnyEnabled(cmd[c].home)' <=> cmd'[c].any)
    BY <1>0, <1>1, <1>2, <1>3, <1>8 DEF Known, Syncing, SameCommand
  <2>3. cmd'[c].pc = "reply" => ((Unit[cmd'[c].home] \in wanted') <=> cmd'[c].any)
    <3>1. l = "reply" => ((Unit[k.home] \in wanted') <=> k.any)
      BY <1>0, <1>1, <1>5 DEF Flow, Typed
    <3> QED BY <1>2, <1>3, <3>1 DEF SameCommand
  <2> QED BY <2>1, <2>2, <2>3 DEF Known
<1>10. Beyond(k.home)
  BY <1>4, <1>5 DEF Beyond
<1>11. Commands' /\ Apart'
  BY <1>1, <1>2, <1>3, <1>7, <1>9, <1>10, OneCommand DEF SameCommand, CommandOK, At
<1>12. Stores' /\ Owned' /\ Boots'
  BY <1>0, <1>4, <1>5 DEF Stores, AutostartInv, Owned, Boots, BootOK
<1> QED BY <1>11, <1>12 DEF AutostartInv

(* An operator enters a command: those in flight on its home learn that    *)
(* they are not alone.                                                     *)
LEMMA InvokeKeeps ==
    ASSUME AutostartInv, NEW c \in Clients, NEW i \in Invocations, Invoke(c, i)
    PROVE  AutostartInv'
<1> DEFINE others == InFlight(i.home)
<1> DEFINE mine == [IdleCommand EXCEPT
                       !.pc = "privilege", !.kind = i.kind, !.asked = i.home,
                       !.home = i.home, !.root = i.root, !.name = i.name,
                       !.interactive = i.interactive, !.request = i.request,
                       !.alone = others = {}]
<1>1. /\ DOMAIN cmd' = Clients /\ cmd'[c] = mine
      /\ \A d \in Clients \ {c} :
           cmd'[d] = IF d \in others THEN [cmd[d] EXCEPT !.alone = FALSE] ELSE cmd[d]
  BY DEF Invoke
<1>2. UNCHANGED <<machine, ids, policy, template, wanted, boot, systemd>>
  BY DEF Invoke
<1>3. Typed(IdleCommand) /\ DOMAIN IdleCommand = Fields
  BY IdleIsOK DEF CommandOK, Typed
<1>4. /\ DOMAIN mine = Fields /\ mine.pc = "privilege" /\ mine.kind = i.kind /\ mine.asked = i.home
      /\ mine.home = i.home /\ mine.name = i.name /\ mine.request = i.request
      /\ mine.alone = (others = {}) /\ mine.id = IdleCommand.id /\ mine.found = IdleCommand.found
      /\ mine.any = IdleCommand.any
  BY <1>3 DEF Fields
<1>5. /\ i.kind \in {"add", "edit", "rm"} /\ i.home \in Homes /\ i.name \in Names \cup {NoName}
      /\ i.request \in Requests /\ (i.kind = "add" => i.request.fields = {"enabled", "attempts"})
  BY AutostartAssumption
<1>6. Typed(mine) /\ Flow(mine)
  BY <1>3, <1>4, <1>5 DEF Typed, Flow
<1>7. CommandOK(cmd[c])'
  <2>1. Typed(cmd[c])' /\ Flow(cmd[c])'
    BY <1>1, <1>6 DEF Typed, Flow
  <2>2. Known(cmd[c])'
    BY <1>1, <1>4 DEF Known, Syncing
  <2> QED BY <2>1, <2>2 DEF CommandOK
<1>8. ASSUME NEW d \in Clients, d # c
      PROVE  /\ DOMAIN cmd'[d] = Fields /\ cmd'[d].pc = cmd[d].pc /\ cmd'[d].kind = cmd[d].kind
             /\ cmd'[d].asked = cmd[d].asked /\ cmd'[d].home = cmd[d].home
             /\ cmd'[d].name = cmd[d].name /\ cmd'[d].request = cmd[d].request
             /\ cmd'[d].id = cmd[d].id /\ cmd'[d].found = cmd[d].found /\ cmd'[d].any = cmd[d].any
             /\ cmd'[d].alone = IF d \in others THEN FALSE ELSE cmd[d].alone
  <2>1. DOMAIN cmd[d] = Fields
    BY DEF AutostartInv, Commands, CommandOK, Typed
  <2> HIDE DEF others
  <2> QED BY <1>1, <1>8, <2>1 DEF Fields
<1>9. ASSUME NEW d \in Clients, d # c PROVE CommandOK(cmd[d])'
  <2> HIDE DEF others
  <2>1. CommandOK(cmd[d])
    BY DEF AutostartInv, Commands
  <2>2. Typed(cmd[d])' /\ Flow(cmd[d])'
    BY <1>8, <1>9, <2>1 DEF CommandOK, Typed, Flow
  <2>3. AnyEnabled(cmd[d].home)' <=> AnyEnabled(cmd[d].home)
    BY <1>2, <1>8, <1>9 DEF AnyEnabled
  <2>4. cmd'[d].alone => cmd[d].alone
    BY <1>8, <1>9
  <2>5. Known(cmd[d])'
    BY <1>2, <1>8, <1>9, <2>1, <2>3, <2>4 DEF CommandOK, Known, Syncing, UnitsDiffer
  <2> QED BY <2>2, <2>5 DEF CommandOK
<1>10. Commands'
  BY <1>1, <1>7, <1>9 DEF Commands
<1>11. Apart'
  <2> SUFFICES ASSUME NEW d \in Clients, NEW e \in Clients, d # e,
                      cmd'[d].pc # "idle", cmd'[e].pc # "idle", cmd'[d].alone
               PROVE  cmd'[d].asked # cmd'[e].asked
    BY DEF Apart, At
  <2>1. \A f \in Clients : f \in others <=> cmd[f].pc # "idle" /\ cmd[f].asked = i.home
    BY DEF InFlight, At
  <2> HIDE DEF others, mine
  <2>2. CASE d = c
    BY <1>1, <1>4, <1>8, <2>1, <2>2
  <2>3. CASE e = c
    <3>1. cmd'[d].alone = (IF d \in others THEN FALSE ELSE cmd[d].alone) /\ cmd'[d].asked = cmd[d].asked
          /\ cmd'[d].pc = cmd[d].pc
      BY <1>8, <2>3
    <3>2. d \notin others
      BY <3>1
    <3>3. cmd'[e].asked = i.home
      BY <1>1, <1>4, <2>3
    <3> QED BY <2>1, <3>1, <3>2, <3>3
  <2>4. CASE d # c /\ e # c
    <3>1. cmd[d].alone /\ cmd[d].pc # "idle" /\ cmd[e].pc # "idle"
      BY <1>8, <2>4
    <3>2. cmd[d].asked # cmd[e].asked
      BY <3>1 DEF AutostartInv, Apart, At
    <3> QED BY <1>8, <2>4, <3>2
  <2> QED BY <2>2, <2>3, <2>4
<1>12. Stores' /\ Owned' /\ Boots'
  BY <1>2 DEF AutostartInv, Stores, Owned, Boots, BootOK
<1> QED BY <1>10, <1>11, <1>12 DEF AutostartInv

(* A step beside the commands: those that have read the policies of a home *)
(* where one was taken away are no longer alone.                           *)
LEMMA CommandsStay ==
    ASSUME AutostartInv, UNCHANGED <<template, wanted>>, DOMAIN cmd' = Clients,
           \A c \in Clients :
              \/ /\ cmd'[c] = cmd[c]
                 /\ cmd[c].pc \in Syncing => (AnyEnabled(cmd[c].home)' <=> AnyEnabled(cmd[c].home))
              \/ cmd'[c] = [cmd[c] EXCEPT !.alone = FALSE]
    PROVE  Commands' /\ Apart'
<1>0. ASSUME NEW c \in Clients
      PROVE  /\ DOMAIN cmd'[c] = Fields /\ cmd'[c].pc = cmd[c].pc /\ cmd'[c].kind = cmd[c].kind
             /\ cmd'[c].asked = cmd[c].asked /\ cmd'[c].home = cmd[c].home
             /\ cmd'[c].name = cmd[c].name /\ cmd'[c].request = cmd[c].request
             /\ cmd'[c].id = cmd[c].id /\ cmd'[c].found = cmd[c].found /\ cmd'[c].any = cmd[c].any
             /\ cmd'[c].alone = FALSE \/ cmd'[c] = cmd[c]
  <2>1. DOMAIN cmd[c] = Fields
    BY DEF AutostartInv, Commands, CommandOK, Typed
  <2> QED BY <2>1 DEF Fields
<1>1. ASSUME NEW c \in Clients PROVE CommandOK(cmd[c])'
  <2>1. CommandOK(cmd[c])
    BY DEF AutostartInv, Commands
  <2>2. Typed(cmd[c])' /\ Flow(cmd[c])'
    BY <1>0, <2>1 DEF CommandOK, Typed, Flow
  <2>3. cmd'[c].pc = "enable" => template'
    BY <1>0, <2>1 DEF CommandOK, Known
  <2>4. ASSUME cmd'[c].alone, cmd'[c].pc \in Syncing PROVE AnyEnabled(cmd[c].home)' <=> cmd'[c].any
    <3>1. cmd'[c] = cmd[c]
      BY <1>0, <2>4
    <3>2. cmd[c].alone /\ cmd[c].pc \in Syncing
      BY <2>4, <3>1
    <3>3. [cmd[c] EXCEPT !.alone = FALSE].alone = FALSE
      BY <2>1 DEF CommandOK, Typed, Fields
    <3>4. AnyEnabled(cmd[c].home)' <=> AnyEnabled(cmd[c].home)
      BY <3>1, <3>2, <3>3
    <3> QED BY <2>1, <3>1, <3>2, <3>4 DEF CommandOK, Known
  <2>5. UnitsDiffer /\ cmd'[c].alone /\ cmd'[c].pc = "reply" =>
            ((Unit[cmd'[c].home] \in wanted') <=> cmd'[c].any)
    BY <1>0, <2>1 DEF CommandOK, Known
  <2>6. Known(cmd[c])'
    BY <2>3, <2>4, <2>5 DEF Known, UnitsDiffer
  <2> QED BY <2>2, <2>6 DEF CommandOK
<1>2. Commands'
  BY <1>1 DEF Commands
<1>3. ASSUME NEW c \in Clients, NEW d \in Clients, c # d, cmd'[c].pc # "idle", cmd'[d].pc # "idle",
             cmd'[c].alone
      PROVE  cmd'[c].asked # cmd'[d].asked
  <2>1. cmd'[c] = cmd[c] /\ cmd[d].pc # "idle" /\ cmd'[d].asked = cmd[d].asked
    BY <1>0, <1>3
  <2>2. cmd[c].pc # "idle" /\ cmd[c].alone
    BY <1>3, <2>1
  <2>3. cmd[c].asked # cmd[d].asked
    BY <1>3, <2>1, <2>2 DEF AutostartInv, Apart, At
  <2> QED BY <2>1, <2>3
<1>4. Apart'
  BY <1>3 DEF Apart, At
<1> QED BY <1>2, <1>4

(* One entry of a table of tables is replaced.                             *)
LEMMA TableEntry ==
    ASSUME NEW S, NEW t \in [Homes -> [Names -> S]], NEW h \in Homes, NEW n \in Names, NEW x \in S
    PROVE  LET u == [t EXCEPT ![h][n] = x]
           IN  /\ u \in [Homes -> [Names -> S]]
               /\ \A g \in Homes, m \in Names :
                    u[g][m] = IF g = h /\ m = n THEN x ELSE t[g][m]
<1> DEFINE row == [t[h] EXCEPT ![n] = x]
<1> DEFINE u == [t EXCEPT ![h] = row]
<1>1. row \in [Names -> S] /\ \A m \in Names : row[m] = IF m = n THEN x ELSE t[h][m]
  OBVIOUS
<1>2. u = [t EXCEPT ![h][n] = x]
  OBVIOUS
<1> HIDE DEF row
<1>3. u \in [Homes -> [Names -> S]] /\ \A g \in Homes, m \in Names : u[g][m] = IF g = h /\ m = n THEN x ELSE t[g][m]
  BY <1>1
<1> QED BY <1>2, <1>3

(* A machine is deleted with its policy, or created with a new id.         *)
LEMMA MachinesKeep ==
    ASSUME AutostartInv, NEW h \in Homes, NEW n \in Names, RemoveMachine(h, n) \/ InsertMachine(h, n)
    PROVE  AutostartInv'
<1>0. Stores /\ Owned /\ Commands /\ UNCHANGED <<template, wanted, boot, systemd>>
  BY DEF AutostartInv, RemoveMachine, InsertMachine
<1>1. Boots'
  BY <1>0 DEF AutostartInv, Boots, BootOK
<1>2. CASE RemoveMachine(h, n)
  <2>1. /\ machine' = [machine EXCEPT ![h][n] = 0] /\ policy' = [policy EXCEPT ![h][n] = NoPolicy]
        /\ ids' = ids
    BY <1>2 DEF RemoveMachine, SetPolicy
  <2>2. 0 \in 0..MaxMachineIds
    BY AutostartAssumption
  <2>3. /\ machine' \in [Homes -> [Names -> 0..MaxMachineIds]]
        /\ \A g \in Homes, m \in Names : machine'[g][m] = IF g = h /\ m = n THEN 0 ELSE machine[g][m]
    BY <1>0, <2>1, <2>2, TableEntry DEF Stores
  <2>4. /\ policy' \in [Homes -> [Names -> Policies]]
        /\ \A g \in Homes, m \in Names : policy'[g][m] = IF g = h /\ m = n THEN NoPolicy ELSE policy[g][m]
    BY <1>0, <2>1, NoPolicyIsOff, TableEntry DEF Stores
  <2>5. Stores'
    BY <1>0, <2>1, <2>3, <2>4 DEF Stores
  <2>6. Owned'
    BY <1>0, <2>3, <2>4 DEF Owned
  <2>7. \A g \in Homes \ {h} : AnyEnabled(g)' <=> AnyEnabled(g)
    BY <2>4 DEF AnyEnabled
  <2>8. cmd' = [c \in Clients |->
                   IF c \in InFlight(h) /\ cmd[c].pc \in Syncing THEN [cmd[c] EXCEPT !.alone = FALSE]
                   ELSE cmd[c]]
    BY <1>2 DEF RemoveMachine, Disturb
  <2>9. ASSUME NEW c \in Clients, cmd'[c] # [cmd[c] EXCEPT !.alone = FALSE]
        PROVE  /\ cmd'[c] = cmd[c]
               /\ cmd[c].pc \in Syncing => (AnyEnabled(cmd[c].home)' <=> AnyEnabled(cmd[c].home))
    <3>1. cmd'[c] = cmd[c] /\ (cmd[c].pc \in Syncing => c \notin InFlight(h))
      BY <2>8, <2>9
    <3>2. cmd[c].pc \in Syncing => cmd[c].home \in Homes \ {h}
      BY <1>0, <3>1 DEF Commands, CommandOK, Typed, InFlight, At, Syncing
    <3>3. PICK g : g = cmd[c].home
      OBVIOUS
    <3>4. AnyEnabled(g)' <=> AnyEnabled(cmd[c].home)'
      BY <3>1, <3>3 DEF AnyEnabled
    <3> QED BY <2>7, <3>1, <3>2, <3>3, <3>4
  <2>10. DOMAIN cmd' = Clients
    BY <2>8
  <2> QED BY <1>0, <1>1, <2>5, <2>6, <2>9, <2>10, CommandsStay DEF AutostartInv
<1>3. CASE InsertMachine(h, n)
  <2>1. /\ machine' = [machine EXCEPT ![h][n] = ids[h] + 1] /\ policy' = policy
        /\ ids' = [ids EXCEPT ![h] = ids[h] + 1] /\ ids[h] < MaxMachineIds /\ machine[h][n] = 0
    BY <1>3 DEF InsertMachine
  <2>2. ids[h] + 1 \in 0..MaxMachineIds
    BY <1>0, <2>1, AutostartAssumption DEF Stores
  <2>3. /\ machine' \in [Homes -> [Names -> 0..MaxMachineIds]]
        /\ \A g \in Homes, m \in Names :
             machine'[g][m] = IF g = h /\ m = n THEN ids[h] + 1 ELSE machine[g][m]
    BY <1>0, <2>1, <2>2, TableEntry DEF Stores
  <2>4. Stores'
    BY <1>0, <2>1, <2>2, <2>3 DEF Stores
  <2>5. policy[h][n] = NoPolicy
    <3>1. policy[h][n] \in Policies
      BY <1>0 DEF Stores
    <3>2. policy[h][n] # NoPolicy => policy[h][n].id = 0
      BY <1>0, <2>1 DEF Owned
    <3>3. policy[h][n] # NoPolicy => policy[h][n].id \in 1..MaxMachineIds
      BY <3>1 DEF Policies
    <3> QED BY <3>2, <3>3, AutostartAssumption
  <2>6. Owned'
    BY <1>0, <2>1, <2>3, <2>5 DEF Owned
  <2>7. cmd' = cmd
    BY <1>3 DEF InsertMachine
  <2>8. \A c \in Clients : AnyEnabled(cmd[c].home)' <=> AnyEnabled(cmd[c].home)
    BY <2>1, <2>7 DEF AnyEnabled
  <2> QED BY <1>0, <1>1, <2>4, <2>6, <2>7, <2>8, CommandsStay DEF AutostartInv, Commands
<1> QED BY <1>2, <1>3

(* A boot run that has not read its policies.                              *)
LEMMA IdleBootIsOK == BootOK(IdleBoot) /\ BootOK([IdleBoot EXCEPT !.pc = "list"])
BY AutostartAssumption DEF BootOK, IdleBoot

(* The host boots: every command is gone.                                  *)
LEMMA RebootKeeps ==
    ASSUME AutostartInv, Reboot
    PROVE  AutostartInv'
<1>1. UNCHANGED <<machine, ids, policy, template, wanted, systemd>>
  BY DEF Reboot
<1>2. Stores' /\ Owned'
  BY <1>1 DEF AutostartInv, Stores, Owned
<1>3. DOMAIN cmd' = Clients /\ \A c \in Clients : cmd'[c] = IdleCommand
  BY DEF Reboot
<1>4. ASSUME NEW c \in Clients PROVE CommandOK(cmd[c])'
  <2>1. Typed(IdleCommand) /\ Flow(IdleCommand)
    BY IdleIsOK DEF CommandOK
  <2>2. Typed(cmd[c])' /\ Flow(cmd[c])'
    BY <1>3, <2>1 DEF Typed, Flow
  <2>3. Known(cmd[c])'
    BY <1>3, IdleIsOK DEF Known, Syncing
  <2> QED BY <2>2, <2>3 DEF CommandOK
<1>5. Commands' /\ Apart'
  BY <1>3, <1>4, IdleIsOK DEF Commands, Apart, At
<1>6. DOMAIN boot' = Homes /\ \A h \in Homes : boot'[h] \in {IdleBoot, [IdleBoot EXCEPT !.pc = "list"]}
  BY DEF Reboot
<1>7. ASSUME NEW h \in Homes PROVE BootOK(boot[h])'
  BY <1>6, IdleBootIsOK DEF BootOK
<1>8. Boots'
  BY <1>6, <1>7 DEF Boots
<1> QED BY <1>2, <1>5, <1>8 DEF AutostartInv

(* A step of one boot run touches nothing else.                            *)
LEMMA BootStays ==
    ASSUME AutostartInv, NEW h \in Homes, NEW b, SetBoot(h, b), BootOK(b)
    PROVE  AutostartInv'
<1>1. boot' = [boot EXCEPT ![h] = b] /\ UNCHANGED <<cmd, machine, ids, policy, template, wanted, systemd>>
  BY DEF SetBoot
<1>2. DOMAIN boot' = Homes /\ \A g \in Homes : boot'[g] = IF g = h THEN b ELSE boot[g]
  BY <1>1 DEF AutostartInv, Boots
<1>3. \A g \in Homes : BootOK(boot'[g])
  BY <1>2 DEF AutostartInv, Boots
<1>4. Boots'
  BY <1>2, <1>3 DEF Boots, BootOK
<1>5. Stores' /\ Owned'
  BY <1>1 DEF AutostartInv, Stores, Owned
<1>6. \A c \in Clients : AnyEnabled(cmd[c].home)' <=> AnyEnabled(cmd[c].home)
  BY <1>1 DEF AnyEnabled
<1> QED BY <1>1, <1>4, <1>5, <1>6, CommandsStay DEF AutostartInv, Commands

(* The machine that is up is reported.                                     *)
LEMMA ReportKeeps ==
    ASSUME AutostartInv, NEW h \in Homes, NEW p \in boot[h].queue, boot[h].pc = "run",
           NEW result, NEW attempts \in 0..MaxAutostartAttempts, Report(h, p, result, attempts)
    PROVE  AutostartInv'
<1> DEFINE b == boot[h]
<1> DEFINE entry == [name |-> p.name, result |-> result, attempts |-> attempts]
<1> DEFINE n == [b EXCEPT !.queue = @ \ {p}, !.attempt = 1, !.report = @ \cup {entry}]
<1>1. BootOK(b)
  BY DEF AutostartInv, Boots
<1>2. /\ DOMAIN n = {"pc", "queue", "attempt", "report"} /\ n.pc = "run" /\ n.attempt = 1
      /\ n.queue = b.queue \ {p} /\ n.report = b.report \cup {entry}
  BY <1>1 DEF BootOK
<1>3. entry.name = p.name /\ entry.attempts = attempts
  OBVIOUS
<1>4. SetBoot(h, n)
  BY DEF Report
<1> HIDE DEF n, entry
<1>5. 1 \in 1..MaxAutostartAttempts
  BY AutostartAssumption
<1>6. \A q \in n.queue :
        /\ q.name \in Names /\ q.row \in Policies \ {NoPolicy}
        /\ \A r \in n.queue : q.name = r.name => q = r
        /\ \A r \in n.report : q.name # r.name
  BY <1>1, <1>2, <1>3 DEF BootOK
<1>7. \A r \in n.report :
        /\ r.name \in Names /\ r.attempts \in 0..MaxAutostartAttempts
        /\ \A q \in n.report : q.name = r.name => q = r
  BY <1>1, <1>2, <1>3 DEF BootOK
<1>8. BootOK(n)
  BY <1>2, <1>5, <1>6, <1>7 DEF BootOK
<1> QED BY <1>4, <1>8, BootStays

(* The boot service reads the policies and works through them.             *)
LEMMA BootKeeps ==
    ASSUME AutostartInv, NEW h \in Homes, BootRun(h) \/ BootTry(h)
    PROVE  AutostartInv'
<1> DEFINE b == boot[h]
<1>1. BootOK(b) /\ Stores
  BY DEF AutostartInv, Boots
<1>2. CASE BootListFails(h) \/ BootEnd(h)
  BY <1>2, IdleBootIsOK, BootStays DEF BootListFails, BootEnd
<1>3. CASE BootList(h)
  <2> DEFINE n == [b EXCEPT !.pc = "run", !.queue = Listed(h)]
  <2>1. b.pc = "list" /\ SetBoot(h, n)
    BY <1>3 DEF BootList
  <2>2. b.report = {} /\ b.attempt = 1
    BY <1>1, <2>1 DEF BootOK
  <2>3. /\ DOMAIN n = {"pc", "queue", "attempt", "report"} /\ n.pc = "run" /\ n.attempt = 1
        /\ n.queue = Listed(h) /\ n.report = {}
    BY <1>1, <2>2 DEF BootOK
  <2> HIDE DEF n
  <2>4. \A p \in Listed(h) :
          /\ p.name \in Names /\ p.row \in Policies \ {NoPolicy}
          /\ \A q \in Listed(h) : p.name = q.name => p = q
    BY <1>1 DEF Listed, Stores
  <2>5. BootOK(n)
    BY <2>3, <2>4, AutostartAssumption DEF BootOK
  <2> QED BY <2>1, <2>5, BootStays
<1>4. ASSUME NEW p \in b.queue, BootPaused(h, p) \/ BootStarted(h, p) \/ BootTryFails(h, p)
      PROVE  AutostartInv'
  <2>1. b.pc = "run" /\ b.attempt \in 0..MaxAutostartAttempts /\ b.attempt \in Nat /\ 0 \in 0..MaxAutostartAttempts
    BY <1>1, <1>4, AutostartAssumption DEF BootPaused, BootStarted, BootTryFails, Up, BootOK
  <2>2. CASE BootPaused(h, p)
    BY <2>1, <2>2, ReportKeeps DEF BootPaused
  <2>3. CASE BootStarted(h, p)
    BY <2>1, <2>3, ReportKeeps DEF BootStarted
  <2>4. CASE BootTryFails(h, p) /\ LastAttempt(h, p)
    BY <2>1, <2>4, ReportKeeps DEF BootTryFails
  <2>5. CASE BootTryFails(h, p) /\ ~LastAttempt(h, p)
    <3> DEFINE n == [b EXCEPT !.attempt = @ + 1]
    <3>1. SetBoot(h, n) /\ ~(b.attempt >= p.row.max)
      BY <2>5 DEF BootTryFails, LastAttempt
    <3>2. p.row.max \in 1..MaxAutostartAttempts
      BY <1>1, <1>4 DEF BootOK, Policies
    <3>3. /\ DOMAIN n = {"pc", "queue", "attempt", "report"} /\ n.pc = "run"
          /\ n.attempt = b.attempt + 1 /\ n.queue = b.queue /\ n.report = b.report
      BY <1>1, <2>1 DEF BootOK
    <3> HIDE DEF n
    <3>4. n.attempt \in 1..MaxAutostartAttempts
      BY <2>1, <3>1, <3>2, <3>3, AutostartAssumption
    <3>5. BootOK(n)
      BY <1>1, <3>3, <3>4 DEF BootOK
    <3> QED BY <3>1, <3>5, BootStays
  <2> QED BY <1>4, <2>2, <2>3, <2>4, <2>5
<1> QED BY <1>2, <1>3, <1>4 DEF BootRun, BootTry

(* Every step keeps the invariant.                                         *)
LEMMA AutostartInvStep ==
    ASSUME AutostartInv, [Next]_vars
    PROVE  AutostartInv'
<1>1. CASE UNCHANGED vars
  <2>1. UNCHANGED <<cmd, machine, ids, policy, template, wanted, boot, systemd>>
    BY <1>1 DEF vars
  <2>2. \A c \in Clients : AnyEnabled(cmd[c].home)' <=> AnyEnabled(cmd[c].home)
    BY <2>1 DEF AnyEnabled
  <2>3. Stores' /\ Owned' /\ Boots'
    BY <2>1 DEF AutostartInv, Stores, Owned, Boots, BootOK
  <2> QED BY <2>1, <2>2, <2>3, CommandsStay DEF AutostartInv, Commands
<1>2. ASSUME NEW c \in Clients, NEW i \in Invocations, Invoke(c, i) PROVE AutostartInv'
  BY <1>2, InvokeKeeps
<1>3. ASSUME NEW c \in Clients, CommandStep(c) PROVE AutostartInv'
  BY <1>3, FrontKeeps, ReadsKeep, WritesKeep, SyncKeeps DEF CommandStep
<1>4. ASSUME NEW c \in Clients, Interrupt(c) PROVE AutostartInv'
  BY <1>4, InterruptKeeps
<1> QED BY <1>1, <1>2, <1>3, <1>4, MachinesKeep, RebootKeeps, BootKeeps DEF Next

(* A name of the order has its place in it.                                *)
LEMMA PlaceOfName == \A n \in Names : Position(n) \in 1..Len(NameOrder)
<1>1. NameOrder \in Seq(Names) /\ DOMAIN NameOrder = 1..Len(NameOrder)
  BY AutostartAssumption
<1>2. ASSUME NEW n \in Names PROVE Position(n) \in DOMAIN NameOrder
  <2>1. \E i \in DOMAIN NameOrder : NameOrder[i] = n
    BY <1>2 DEF Names, Range
  <2> QED BY <2>1 DEF Position
<1> QED BY <1>1, <1>2

LEMMA AutostartInvInit ==
    ASSUME Init
    PROVE  AutostartInv
<1>1. Len(NameOrder) \in 0..MaxMachineIds /\ 0 \in 0..MaxMachineIds
  BY AutostartAssumption
<1>2. \A n \in Names : Position(n) \in 0..MaxMachineIds
  BY <1>1, PlaceOfName, AutostartAssumption
<1>3. Stores
  BY <1>1, <1>2, NoPolicyIsOff DEF Init, Stores
<1>4. Owned
  BY DEF Init, Owned
<1>5. Commands /\ Apart
  BY IdleIsOK DEF Init, Commands, Apart, At
<1>6. Boots
  BY IdleBootIsOK DEF Init, Boots
<1> QED BY <1>3, <1>4, <1>5, <1>6 DEF AutostartInv

(* The invariant of every reachable state.                                 *)
LEMMA AutostartInvHolds == Spec => []AutostartInv
BY AutostartInvInit, AutostartInvStep, PTL DEF Spec

(* For every set of homes, machines and operators: a policy belongs to the *)
(* machine row it was made for, across concurrent commands, interrupted    *)
(* ones, deletions, re-creations and boots.                                *)
THEOREM PoliciesFollowMachines == Spec => []PolicyFollowsMachine
<1>1. ASSUME AutostartInv PROVE PolicyFollowsMachine
  <2>1. \A c \in Clients : cmd[c].home \in Homes /\ cmd[c].name \in Names \cup {NoName}
    BY <1>1 DEF AutostartInv, Commands, CommandOK, Typed
  <2>2. AutostartTypeOK
    BY <1>1, <2>1 DEF AutostartInv, AutostartTypeOK, Stores, Boots, BootOK
  <2> QED BY <1>1, <2>2 DEF AutostartInv, Owned, PolicyFollowsMachine
<1> QED BY <1>1, AutostartInvHolds, PTL

(* An escape says which byte it stands for.                                *)
LEMMA HexOfByte ==
    ASSUME NEW a \in 0..255, NEW b \in 0..255, Hex(a) = Hex(b)
    PROVE  a = b
<1>1. ASSUME NEW d \in 0..15, NEW e \in 0..15, Digit(d) = Digit(e) PROVE d = e
  BY <1>1 DEF Digit
<1>2. Digit(a \div 16) = Digit(b \div 16) /\ Digit(a % 16) = Digit(b % 16)
  BY DEF Hex
<1>3. ASSUME NEW d \in Int, 0 <= d, d <= 255
      PROVE  d \div 16 \in 0..15 /\ d % 16 \in 0..15 /\ d = 16 * (d \div 16) + (d % 16)
  BY <1>3
<1>4. a \in Int /\ 0 <= a /\ a <= 255 /\ b \in Int /\ 0 <= b /\ b <= 255
  OBVIOUS
<1>5. a \div 16 = b \div 16 /\ a % 16 = b % 16
  BY <1>1, <1>2, <1>3, <1>4
<1>6. a = 16 * (a \div 16) + (a % 16) /\ b = 16 * (b \div 16) + (b % 16)
  BY <1>3, <1>4
<1> QED BY <1>5, <1>6

(* So does every piece of an instance name, at its place.                  *)
LEMMA PieceOfByte ==
    ASSUME NEW i \in Nat, NEW a \in 0..255, NEW b \in 0..255, EscapeByte(i, a) = EscapeByte(i, b)
    PROVE  a = b
<1>1. Dash \notin Plain /\ Slash \notin Plain
  BY DEF Dash, Slash, Plain, Dot
<1>2. ASSUME NEW x \in 0..255
      PROVE  \/ x = Slash /\ EscapeByte(i, x) = <<Dash>>
             \/ x # Slash /\ x \in Plain /\ EscapeByte(i, x) = <<x>>
             \/ x # Slash /\ EscapeByte(i, x) = Hex(x)
  BY <1>1 DEF EscapeByte
<1>3. ASSUME NEW x, NEW y PROVE Hex(x) # <<y>>
  BY DEF Hex
<1>4. ASSUME NEW x, NEW y, <<x>> = <<y>> PROVE x = y
  BY <1>4
<1>5. CASE EscapeByte(i, a) = Hex(a)
  <2>1. EscapeByte(i, b) = Hex(b)
    BY <1>2, <1>3, <1>5
  <2> QED BY <1>5, <2>1, HexOfByte
<1>6. CASE a = Slash /\ EscapeByte(i, a) = <<Dash>>
  <2>1. EscapeByte(i, b) # Hex(b)
    BY <1>3, <1>6
  <2>2. EscapeByte(i, b) = <<b>> => b = Dash
    BY <1>4, <1>6
  <2> QED BY <1>1, <1>2, <1>6, <2>1, <2>2
<1>7. CASE a \in Plain /\ EscapeByte(i, a) = <<a>>
  <2>1. EscapeByte(i, b) # Hex(b)
    BY <1>3, <1>7
  <2>2. EscapeByte(i, b) # <<Dash>>
    <3>1. EscapeByte(i, b) = <<Dash>> => a = Dash
      BY <1>4, <1>7
    <3> QED BY <1>1, <1>7, <3>1
  <2>3. EscapeByte(i, b) = <<b>>
    BY <1>2, <2>1, <2>2
  <2> QED BY <1>4, <1>7, <2>3
<1> QED BY <1>2, <1>5, <1>6, <1>7

(* escape_path is injective: no two homes have the same unit.              *)
LEMMA UnitNamesDiffer == UnitsDiffer
<1> SUFFICES ASSUME NEW g \in Homes, NEW h \in Homes, EscapePath(g) = EscapePath(h) PROVE g = h
  BY DEF UnitsDiffer, Unit
<1>1. ASSUME NEW p \in Homes
      PROVE  /\ p \in Seq(0..255) /\ Len(p) \in Nat /\ Len(p) > 0 /\ p[1] = Slash
             /\ (\A i \in 1..Len(p) : p[i] \in 0..255) /\ (p # <<Slash>> => Len(p) > 1)
             /\ Len(p) = 2 => p[2] # Slash
  <2>1. p \in Seq(0..255) /\ Len(p) \in Nat /\ Len(p) > 0 /\ p[1] = Slash
    BY HomesAssumption
  <2>2. Len(p) = 1 => p = <<Slash>>
    BY <2>1
  <2>3. Len(p) = 2 => p[2] # Slash
    <3>1. \A i \in 2..Len(p) : p[i] = Slash => i # Len(p) /\ p[i - 1] # Slash
      BY HomesAssumption
    <3>2. Len(p) = 2 => 2 \in 2..Len(p)
      OBVIOUS
    <3> QED BY <3>1, <3>2
  <2>4. ASSUME NEW B, NEW q \in Seq(B), NEW i \in 1..Len(q) PROVE q[i] \in B
    OBVIOUS
  <2>5. ASSUME NEW i \in 1..Len(p) PROVE p[i] \in 0..255
    BY <2>1, <2>4
  <2>6. ASSUME p # <<Slash>> PROVE Len(p) > 1
    <3>1. Len(p) # 1 /\ Len(p) \in Nat /\ Len(p) > 0
      BY <2>1, <2>2, <2>6
    <3>2. ASSUME NEW l \in Nat, l > 0, l # 1 PROVE l > 1
      BY <3>2
    <3> QED BY <3>1, <3>2
  <2> QED BY <2>1, <2>3, <2>5, <2>6
<1>2. ASSUME NEW p \in Homes, p # <<Slash>>
      PROVE  /\ Len(p) > 1
             /\ EscapePath(p) = [i \in 1..(Len(p) - 1) |-> EscapeByte(i, p[i + 1])]
  <2>1. Len(p) > 1
    BY <1>1, <1>2
  <2>2. Len(Tail(p)) = Len(p) - 1 /\ \A i \in 1..(Len(p) - 1) : Tail(p)[i] = p[i + 1]
    BY <1>1, <2>1
  <2>3. TrimSlashes(p) = Tail(p) /\ Tail(p) # << >>
    <3>1. Len(<< >>) = 0 /\ Len(p) \in Nat
      BY <1>1
    <3>2. Tail(p) # << >>
      BY <2>1, <2>2, <3>1
    <3> QED BY <1>2, <3>2 DEF TrimSlashes
  <2> QED BY <2>1, <2>2, <2>3 DEF EscapePath
<1>3. EscapePath(<<Slash>>) = <<<<Dash>>>>
  BY DEF EscapePath, TrimSlashes
<1>4. ASSUME NEW p \in Homes, p # <<Slash>> PROVE EscapePath(p) # <<<<Dash>>>>
  <2> SUFFICES ASSUME EscapePath(p) = <<<<Dash>>>> PROVE FALSE
    OBVIOUS
  <2>1. Len(p) = 2
    <3>1. DOMAIN EscapePath(p) = 1..(Len(p) - 1)
      BY <1>2, <1>4
    <3>2. DOMAIN EscapePath(p) = 1..1
      OBVIOUS
    <3>3. Len(p) > 1 /\ Len(p) \in Nat
      BY <1>1, <1>2, <1>4
    <3> QED BY <3>1, <3>2, <3>3
  <2>2. p[2] \in 0..255 /\ p[2] # Slash
    <3>1. 2 \in 1..Len(p)
      BY <2>1
    <3> QED BY <1>1, <2>1, <3>1
  <2>3. EscapeByte(1, p[2]) = <<Dash>>
    <3>1. 1 \in 1..(Len(p) - 1) /\ 1 + 1 = 2
      BY <2>1
    <3>2. EscapePath(p)[1] = EscapeByte(1, p[1 + 1])
      BY <1>2, <1>4, <3>1
    <3> QED BY <3>1, <3>2
  <2>4. EscapeByte(1, Slash) = <<Dash>> /\ Slash \in 0..255
    BY DEF EscapeByte, Plain, Slash, Dash, Dot
  <2> QED BY <2>2, <2>3, <2>4, PieceOfByte
<1>5. CASE g # <<Slash>> /\ h # <<Slash>>
  <2>1. Len(g) = Len(h)
    BY <1>1, <1>2, <1>5
  <2>2. ASSUME NEW i \in 2..Len(g) PROVE g[i] = h[i]
    <3>1. EscapeByte(i - 1, g[i]) = EscapeByte(i - 1, h[i])
      <4>1. PICK j : j = i - 1
        OBVIOUS
      <4>2. j \in 1..(Len(g) - 1) /\ j \in 1..(Len(h) - 1) /\ j + 1 = i
        BY <1>1, <2>1, <2>2, <4>1
      <4>3. EscapePath(g)[j] = EscapeByte(j, g[j + 1]) /\ EscapePath(h)[j] = EscapeByte(j, h[j + 1])
        BY <1>2, <1>5, <4>2
      <4> QED BY <4>1, <4>2, <4>3
    <3>2. g[i] \in 0..255 /\ h[i] \in 0..255 /\ i - 1 \in Nat
      <4>1. Len(g) \in Nat /\ i \in 1..Len(g) /\ i \in 1..Len(h) /\ i - 1 \in Nat
        BY <1>1, <2>1, <2>2
      <4> QED BY <1>1, <4>1
    <3> QED BY <3>1, <3>2, PieceOfByte
  <2>3. g[1] = h[1]
    BY <1>1
  <2>4. \A i \in 1..Len(g) : g[i] = h[i]
    BY <1>1, <2>2, <2>3
  <2> QED BY <1>1, <2>1, <2>4
<1> QED BY <1>3, <1>4, <1>5

(* For every set of homes, machines and operators: a command that was      *)
(* alone on its home reports success only with the unit enabled exactly if *)
(* a policy of the home is.                                                *)
THEOREM SuccessMeansSynced == Spec => []SyncedOnSuccess
<1>1. ASSUME AutostartInv PROVE SyncedOnSuccess
  <2> SUFFICES ASSUME NEW c \in Clients, NEW h \in Homes, cmd[c].pc = "reply", cmd[c].home = h, cmd[c].alone
               PROVE  (Unit[h] \in wanted) = AnyEnabled(h)
    BY DEF SyncedOnSuccess, Replying, At
  <2>1. Known(cmd[c])
    BY <1>1 DEF AutostartInv, Commands, CommandOK
  <2>2. AnyEnabled(h) <=> cmd[c].any
    BY <2>1 DEF Known, Syncing
  <2>3. (Unit[h] \in wanted) <=> cmd[c].any
    BY <2>1, UnitNamesDiffer DEF Known
  <2>4. AnyEnabled(h) \in BOOLEAN
    BY DEF AnyEnabled
  <2> QED BY <2>2, <2>3, <2>4
<1> QED BY <1>1, AutostartInvHolds, PTL
=============================================================================
