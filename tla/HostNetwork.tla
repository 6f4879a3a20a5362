----------------------------- MODULE HostNetwork -----------------------------
(***************************************************************************)
(* The host side of MicroVM networking: TAP interfaces, addresses, routes, *)
(* proxy-ARP entries, iptables rules and two sysctls that all MicroVMs and *)
(* the operator share, and the three operations on them: configure for a   *)
(* new MicroVM (creation, or a restore that asks for exact values),        *)
(* reconcile when an existing one starts, and release on deletion or       *)
(* rollback.  Every operation is a sequence of host commands; any of them  *)
(* can fail, another MicroVM's operation can come between any two, and a   *)
(* crash or a reboot can end it anywhere.  Nothing serialises two          *)
(* MicroVMs: the lifecycle locks are per name.                             *)
(*                                                                         *)
(* Addresses are small naturals; a private /30 is a block of four.         *)
(*                                                                         *)
(* A definition that nothing uses is a deliberately wrong variant of the   *)
(* one that follows it; the README lists which property it breaks.  `alone`*)
(* and `raced` are history variables: no step depends on them.             *)
(***************************************************************************)
EXTENDS Integers, Sequences, FiniteSets

CONSTANTS
    Vms,
    Modes,         \* network modes each VM can be created with
    Pool,          \* bases of the private /30 blocks, in order of allocation
    OperatorNets,  \* other networks the host is on: [address, size]
    Uplink,        \* [base, size, host, gateway] of the uplink's subnet
    ScanWindow,    \* how far below the broadcast address LAN offers are sought
    Exact,         \* blocks a restore can ask for
    ExactLan,      \* LAN addresses a caller can ask for
    Operator,      \* possible boot-time values of the sysctls
    NetOps,        \* operations of this model
    NetFaults,     \* which of Disturbances happen
    FaultBudget,   \* how many of them happen in one behaviour
    None

ASSUME PoolAssumption == Pool \in Seq(Nat) /\ \A i \in DOMAIN Pool : Pool[i] \in Nat /\ Pool[i] % 4 = 0
ASSUME ModesAssumption == Modes \in [Vms -> SUBSET {"host_only", "lan"}]
ASSUME UplinkAssumption ==
    /\ Uplink \in [base : Nat, size : Nat, host : Nat, gateway : Nat]
    /\ Uplink.size >= 4 /\ Uplink.base % Uplink.size = 0 /\ ScanWindow \in Nat
    /\ ExactLan \subseteq Nat
ASSUME OperatorAssumption ==
    Operator # {} /\ Operator \subseteq [forward : BOOLEAN, proxy : BOOLEAN]
(* A command or a database write fails, a process dies, the host reboots,  *)
(* a call begins while that of another VM is under way.                    *)
Disturbances == {"command", "db", "crash", "reboot", "overlap"}

ASSUME NetFaultsAssumption == NetFaults \subseteq Disturbances /\ FaultBudget \in Nat

VARIABLES
    operator,   \* what the sysctls are at boot
    forward,    \* net.ipv4.ip_forward
    proxy,      \* proxy_arp of the uplink
    links,      \* per VM: TAP there, link up, host route, proxy-ARP entry
    address,    \* per VM: the block its TAP has the gateway address of
    rules,      \* per VM: its iptables rules: FORWARD out, FORWARD in, NAT
    row,        \* per VM: the persisted network, or None
    known,      \* VMs with a row in microvms
    pc,
    call,       \* per VM: the locals of the operation under way
    faults,     \* how many disturbances there were
    alone,      \* history: the VM whose call has been the only one since it began
    raced       \* history, per VM: those being created when its creation began

sysctls == <<operator, forward, proxy>>
attached == <<links, address, rules>>
history == <<alone, raced>>
vars == <<sysctls, attached, row, known, pc, call, faults, history>>

Links == {"tap", "up", "route", "neigh"}
RuleKinds == {"out", "in", "nat"}
Blocks == {Pool[i] : i \in DOMAIN Pool}

ASSUME NoneAssumption == None \notin Blocks \cup Vms /\ None # "create"

(* What vm_networks keeps of a VM, ownership flags included.               *)
Networks == [mode : {"host_only", "lan"}, block : Blocks, lan : Nat \cup {None},
             forwardBySdk : BOOLEAN, proxyBySdk : BOOLEAN]

(* What a call asks for before addresses are chosen: exact ones or any.     *)
Requested == [mode : {"host_only", "lan"}, block : Exact \cup {None},
              lan : ExactLan \cup {None}, forwardBySdk : {FALSE}, proxyBySdk : {FALSE}]

Idle == [op |-> None, net |-> None, job |-> {}, applied |-> {}, existed |-> FALSE,
         forwardWas |-> FALSE, proxyWas |-> FALSE, used |-> {}, strict |-> FALSE,
         failed |-> FALSE]

Resources == Links \cup RuleKinds \cup {"addr", "forward", "proxy"}
NetLabels == {"idle", "select", "apply", "undo", "drop"}

(* Every variable keeps its type, and a VM without a row in microvms has   *)
(* no network row: persist_network follows insert_microvm, and the rows    *)
(* are deleted together.                                                   *)
NetTypeOK ==
    /\ operator \in Operator
    /\ forward \in BOOLEAN /\ proxy \in BOOLEAN
    /\ links \in [Vms -> SUBSET Links]
    /\ address \in [Vms -> Blocks \cup {None}]
    /\ rules \in [Vms -> SUBSET RuleKinds]
    /\ row \in [Vms -> Networks \cup {None}]
    /\ known \in SUBSET Vms /\ faults \in 0..FaultBudget
    /\ pc \in [Vms -> NetLabels]
    /\ alone \in Vms \cup {None} /\ raced \in [Vms -> SUBSET Vms]
    /\ \A v \in Vms :
         /\ call[v].op \in {"create", "start", "delete", None}
         /\ call[v].net \in Networks \cup Requested \cup {None}
         /\ call[v].job \subseteq Resources /\ call[v].applied \subseteq Resources
         /\ row[v] # None => v \in known

Init ==
    /\ operator \in Operator
    /\ forward = operator.forward /\ proxy = operator.proxy
    /\ links = [v \in Vms |-> {}]
    /\ address = [v \in Vms |-> None]
    /\ rules = [v \in Vms |-> {}]
    /\ row = [v \in Vms |-> None]
    /\ known = {} /\ faults = 0
    /\ pc = [v \in Vms |-> "idle"]
    /\ call = [v \in Vms |-> Idle]
    /\ alone = None /\ raced = [v \in Vms |-> {}]

(* Something the environment may do to a call, until the budget is spent;  *)
(* and what the state of the host forces on it.                            *)
NetFault(kind) == kind \in NetFaults /\ faults < FaultBudget /\ faults' = faults + 1
Forced(condition) == condition /\ UNCHANGED faults
At(v, label) == pc[v] = label
Goto(v, label) == pc' = [pc EXCEPT ![v] = label]
Update(v, c) == call' = [call EXCEPT ![v] = c]
Net(v) == call[v].net
Creating(v) == call[v].op = "create"
Quiet == \A v \in Vms : At(v, "idle")

(* A call can begin: the locks are per VM.                                 *)
Idling(v) == At(v, "idle") /\ (Forced(Quiet) \/ NetFault("overlap"))

Return(v) == Goto(v, "idle") /\ Update(v, Idle)

-----------------------------------------------------------------------------
(* Choosing addresses.                                                     *)

(* private_subnet_conflicts: an address with a prefix of /30 or shorter    *)
(* takes its whole network, a longer one the /30 it lies in.               *)
Conflicts(base, used) ==
    LET size == IF used.size >= 4 THEN used.size ELSE 4
    IN  base \div size = used.address \div size

(* live_ipv4_addresses: what `ip addr` and `ip route` show.                *)
LiveAddresses ==
    OperatorNets \cup {[address |-> address[v] + 1, size |-> 4] : v \in {w \in Vms : address[w] # None}}

(* list_host_only_networks and list_lan_addresses.  The host-only list has *)
(* guest addresses, with the TAP name where a prefix is expected, which    *)
(* reads as /32.                                                           *)
Listed(net) ==
    IF net.mode = "host_only" THEN [address |-> net.block + 2, size |-> 1] ELSE net.lan

UsedBy(mode) ==
    {Listed(row[v]) : v \in {w \in Vms : row[w] # None /\ row[w].mode = mode}}

OccupiedByLiveAddresses(v) == LiveAddresses

(* A host-only VM avoids live and persisted addresses; a LAN VM's block    *)
(* only live ones.                                                         *)
Occupied(v) ==
    LiveAddresses \cup IF Net(v).mode = "host_only" THEN call[v].used ELSE {}

FreeBlocks(v) == {i \in DOMAIN Pool : \A u \in Occupied(v) : ~Conflicts(Pool[i], u)}

(* select_private_subnet: the first free block, or the one asked for.      *)
OfferedBlocks(v) ==
    LET first == {Pool[i] : i \in {j \in FreeBlocks(v) : \A k \in FreeBlocks(v) : j <= k}}
    IN  IF Net(v).block = None THEN first
        ELSE {Pool[i] : i \in FreeBlocks(v)} \cap {Net(v).block}

(* automatic_lan_candidates, from below the broadcast address down.        *)
AutomaticLanCandidates ==
    LET broadcast == Uplink.base + Uplink.size - 1
        low == Uplink.base + 2
        stop == IF broadcast - ScanWindow > low THEN broadcast - ScanWindow ELSE low
    IN  {a \in stop..(broadcast - 1) : a # Uplink.host /\ a # Uplink.gateway}

(* validate_lan_candidate.                                                 *)
ValidLanAddress(a) ==
    /\ a \div Uplink.size = Uplink.base \div Uplink.size
    /\ a # Uplink.base /\ a # Uplink.base + Uplink.size - 1
    /\ a # Uplink.host /\ a # Uplink.gateway

(* select_lan_offer: the address asked for, if it is valid, or any         *)
(* candidate of the search; no LAN VM has it, and which of them a probe    *)
(* finds answered is up to the network.  (No caller passes the previous    *)
(* assignment that the function could also take.)                          *)
LanOffers(v) ==
    LET candidates == IF Net(v).lan = None THEN AutomaticLanCandidates
                      ELSE {a \in {Net(v).lan} : ValidLanAddress(a)}
    IN  IF Net(v).mode = "lan" THEN candidates \ call[v].used ELSE {None}

-----------------------------------------------------------------------------
(* Configuring.                                                            *)

(* create_claimed_microvm, up to network.configure: the row of the VM is   *)
(* there, the used addresses are read.                                     *)
InvokeCreate(v) ==
    /\ Idling(v) /\ "create" \in NetOps /\ v \notin known
    /\ known' = known \cup {v}
    /\ \E net \in Requested :
         /\ net.mode \in Modes[v] /\ (net.mode = "host_only" => net.lan = None)
         /\ Update(v, [Idle EXCEPT !.op = "create", !.used = UsedBy(net.mode), !.net = net])
    /\ Goto(v, "select")
    /\ UNCHANGED <<sysctls, attached, row>>

(* configure_network of start_microvm: the network is the persisted one.   *)
InvokeStart(v) ==
    /\ Idling(v) /\ "start" \in NetOps /\ row[v] # None
    /\ Update(v, [Idle EXCEPT !.op = "start", !.net = row[v]])
    /\ Goto(v, "select")
    /\ UNCHANGED <<sysctls, attached, row, known>>

HostOnlyPlan == {"tap", "up", "addr", "forward", "out", "in", "nat"}
LanPlan == HostOnlyPlan \cup {"route", "neigh", "proxy"}
PlanFor(net) == IF net.mode = "lan" THEN LanPlan ELSE HostOnlyPlan

(* The order of the commands, the same for both modes.                     *)
ApplyOrder == [tap |-> 1, up |-> 2, addr |-> 3, route |-> 4, neigh |-> 5, forward |-> 6,
               proxy |-> 7, out |-> 8, in |-> 9, nat |-> 10]
First(v, order, r) == \A s \in call[v].job : order[r] <= order[s]

(* The network with its addresses; sysctls that are off become the SDK's.  *)
Chosen(v, block, lan) ==
    [Net(v) EXCEPT !.block = block, !.lan = lan, !.forwardBySdk = ~forward,
                   !.proxyBySdk = @ \/ (Net(v).mode = "lan" /\ ~proxy)]

(* create_host_only and create_lan up to their first change, reconcile_*   *)
(* likewise: addresses are chosen and the sysctls remembered.  Nothing has *)
(* to be undone if that fails; the claim on the name is.                   *)
Select(v) ==
    /\ At(v, "select") /\ UNCHANGED <<sysctls, attached, row>>
    /\ \/ /\ Creating(v)
          /\ \E block \in OfferedBlocks(v), lan \in LanOffers(v) :
               Update(v, [call[v] EXCEPT
                    !.net = Chosen(v, block, lan), !.used = {}, !.job = PlanFor(Net(v)),
                    !.forwardWas = forward, !.proxyWas = proxy])
          /\ Goto(v, "apply") /\ UNCHANGED <<known, faults>>
       \/ /\ ~Creating(v)
          /\ Update(v, [call[v] EXCEPT
                    !.job = PlanFor(Net(v)), !.existed = "tap" \in links[v],
                    !.forwardWas = forward, !.proxyWas = proxy])
          /\ Goto(v, "apply") /\ UNCHANGED <<known, faults>>
       \/ /\ \/ NetFault("command")
             \/ Forced(Creating(v) /\ (OfferedBlocks(v) = {} \/ LanOffers(v) = {}))
          /\ Return(v)
          /\ known' = IF Creating(v) THEN known \ {v} ELSE known

(* Is a resource already what the network wants it to be?                  *)
Present(v, r) ==
    CASE r \in Links -> r \in links[v]
      [] r = "addr" -> address[v] = Net(v).block
      [] r = "forward" -> forward
      [] r = "proxy" -> proxy
      [] r \in RuleKinds -> r \in rules[v]

(* The host command that establishes r.                                    *)
Establish(v, r) ==
    /\ links' = IF r \in Links THEN [links EXCEPT ![v] = @ \cup {r}] ELSE links
    /\ address' = IF r = "addr" THEN [address EXCEPT ![v] = Net(v).block] ELSE address
    /\ rules' = IF r \in RuleKinds THEN [rules EXCEPT ![v] = @ \cup {r}] ELSE rules
    /\ forward' = (forward \/ r = "forward")
    /\ proxy' = (proxy \/ r = "proxy")
    /\ UNCHANGED operator

(* What a command that succeeded leaves in `applied`.  Enabling proxy ARP  *)
(* counts as Forwarding; bringing the link up is part of the TAP.          *)
Recorded(r) == IF r = "proxy" THEN {"forward"} ELSE IF r = "up" THEN {} ELSE {r}

(* A creation claims a TAP nobody has, reconciliation one without another  *)
(* address.                                                                *)
Refused(v, r) ==
    \/ Creating(v) /\ r = "tap" /\ "tap" \in links[v]
    \/ r = "addr" /\ address[v] \notin {None, Net(v).block}

(* Only the sysctls are looked at before a creation sets them; it inserts  *)
(* its rules and reports them applied even where they are there already.   *)
Skips(v, r) == Present(v, r) /\ (~Creating(v) \/ r \in {"forward", "proxy"})

RestTrustingTap(v, r) ==
    call[v].job \ IF r = "tap" /\ Skips(v, r) THEN {"tap", "up", "addr"} ELSE {r}

(* A TAP that is already there is not brought up.                          *)
Rest(v, r) == call[v].job \ IF r = "tap" /\ Skips(v, r) THEN {"tap", "up"} ELSE {r}

-----------------------------------------------------------------------------
(* Undoing.                                                                *)

(* The order of the commands of every cleanup.                             *)
UndoOrder == [out |-> 1, in |-> 2, nat |-> 3, neigh |-> 4, route |-> 5, addr |-> 6, tap |-> 7,
              forward |-> 8, proxy |-> 9]

Gated(condition, set) == IF condition THEN set ELSE {}

UndoAttemptWithoutRules(v) == call[v].applied \ RuleKinds

(* cleanup_host_only_attempt, cleanup_reconciled_host_only and             *)
(* cleanup_routed: what the attempt applied, the sysctls only if they were *)
(* off before.  One rule applied is reason enough to delete all of them.   *)
UndoAttempt(v) ==
    LET c == call[v]
        lan == c.net.mode = "lan"
        anyRule == c.applied \cap RuleKinds # {}
    IN  Gated(lan /\ anyRule, RuleKinds)
        \cup Gated(~lan /\ c.applied \cap {"out", "in"} # {}, {"out", "in"})
        \cup Gated(~lan, c.applied \cap {"nat"})
        \cup Gated(~lan /\ ~Creating(v), c.applied \cap {"addr"})
        \cup Gated(lan, c.applied \cap {"neigh", "route"})
        \cup Gated(lan \/ ~c.existed, c.applied \cap {"tap"})
        \cup Gated(~c.forwardWas, c.applied \cap {"forward"})
        \cup Gated(lan /\ ~c.proxyWas /\ "forward" \in c.applied, {"proxy"})

(* cleanup and cleanup_for_delete: what the row records.  Of a host-only   *)
(* network that is the TAP and the sysctl; its rules stay.                 *)
UndoRecorded(net) ==
    {"tap"} \cup Gated(net.mode = "lan", RuleKinds \cup {"neigh", "route"})
    \cup Gated(net.forwardBySdk, {"forward"})
    \cup Gated(net.mode = "lan" /\ net.proxyBySdk, {"proxy"})

(* One command of ensure_* or reconcile_*; the first that fails starts the *)
(* undoing of those before it.                                             *)
Apply(v) ==
    /\ At(v, "apply")
    /\ UNCHANGED <<row, known>>
    /\ \E r \in call[v].job :
        /\ First(v, ApplyOrder, r)
        /\ \/ /\ ~Refused(v, r) /\ Skips(v, r)
              /\ Update(v, [call[v] EXCEPT !.job = Rest(v, r)])
              /\ UNCHANGED <<sysctls, attached, pc, faults>>
           \/ /\ ~Refused(v, r) /\ ~Skips(v, r)
              /\ Establish(v, r)
              /\ Update(v, [call[v] EXCEPT !.job = Rest(v, r), !.applied = @ \cup Recorded(r)])
              /\ UNCHANGED <<pc, faults>>
           \/ /\ Forced(Refused(v, r)) \/ NetFault("command")
              /\ Goto(v, "undo")
              /\ Update(v, [call[v] EXCEPT !.job = UndoAttempt(v), !.strict = TRUE])
              /\ UNCHANGED <<sysctls, attached>>

(* A reconciliation that applied Forwarding owns it from now on.           *)
Outcome(v) ==
    [Net(v) EXCEPT !.forwardBySdk = @ \/ (~Creating(v) /\ "forward" \in call[v].applied)]

(* persist_network and update_network.  If the former fails, creation      *)
(* rolls back by what it would have recorded; a start just fails.          *)
Persist(v) ==
    /\ At(v, "apply") /\ call[v].job = {}
    /\ UNCHANGED <<sysctls, attached, known>>
    /\ \/ row' = [row EXCEPT ![v] = Outcome(v)] /\ Return(v) /\ UNCHANGED faults
       \/ /\ NetFault("db") /\ UNCHANGED row
          /\ IF Creating(v)
             THEN /\ Goto(v, "undo")
                  /\ Update(v, [call[v] EXCEPT !.job = UndoRecorded(Net(v)), !.strict = TRUE])
             ELSE Return(v)

(* delete_microvm of a stopped VM: the network is released first.          *)
InvokeDelete(v) ==
    /\ Idling(v) /\ "delete" \in NetOps /\ v \in known
    /\ Update(v, [Idle EXCEPT !.op = "delete", !.net = row[v],
                    !.job = IF row[v] = None THEN {} ELSE UndoRecorded(row[v])])
    /\ Goto(v, "undo")
    /\ UNCHANGED <<sysctls, attached, row, known>>

(* The command that removes r.  Address, link state and route go with the  *)
(* TAP; the proxy-ARP entry is the uplink's.                               *)
Remove(v, r) ==
    /\ links' = [links EXCEPT ![v] = IF r = "tap" THEN @ \cap {"neigh"} ELSE @ \ {r}]
    /\ address' = IF r \in {"tap", "addr"} THEN [address EXCEPT ![v] = None] ELSE address
    /\ rules' = [rules EXCEPT ![v] = @ \ {r}]
    /\ forward' = (forward /\ r # "forward")
    /\ proxy' = (proxy /\ r # "proxy")
    /\ UNCHANGED operator

(* Rollback deletes routes, entries and addresses without looking; absence *)
(* of anything else, or on deletion, is success.                           *)
MustExist(v, r) == call[v].strict /\ r \in {"route", "neigh", "addr"}

(* A failed rule deletion gives up the other rules of a routed network.    *)
GiveUp(v, r) ==
    call[v].job \ IF r \in RuleKinds /\ Net(v).mode = "lan" THEN RuleKinds ELSE {r}

(* One command of a cleanup: failures are collected, the rest goes on.     *)
Undo(v) ==
    /\ At(v, "undo")
    /\ UNCHANGED <<row, known, pc>>
    /\ \E r \in call[v].job :
        /\ First(v, UndoOrder, r)
        /\ \/ /\ Present(v, r) \/ ~MustExist(v, r)
              /\ Remove(v, r)
              /\ Update(v, [call[v] EXCEPT !.job = @ \ {r}])
              /\ UNCHANGED faults
           \/ /\ NetFault("command") \/ Forced(MustExist(v, r) /\ ~Present(v, r))
              /\ Update(v, [call[v] EXCEPT !.job = GiveUp(v, r), !.failed = TRUE])
              /\ UNCHANGED <<sysctls, attached>>

(* The end of a rollback drops the claim on the name, whatever failed; the *)
(* end of a deletion drops the row only if everything was released.        *)
Finish(v) ==
    /\ At(v, "undo") /\ call[v].job = {}
    /\ UNCHANGED <<sysctls, attached, faults>>
    /\ IF call[v].op = "start" \/ (call[v].op = "delete" /\ call[v].failed)
       THEN Return(v) /\ UNCHANGED <<row, known>>
       ELSE Goto(v, "drop") /\ UNCHANGED <<row, known, call>>

(* delete_microvm of the repository; the network row cascades.  Rules and  *)
(* proxy-ARP entries that are left now name addresses of nobody and are    *)
(* not followed any further; a TAP that is left still bars its name.       *)
Drop(v) ==
    /\ At(v, "drop") /\ Return(v)
    /\ UNCHANGED <<sysctls, address>>
    /\ \/ /\ row' = [row EXCEPT ![v] = None] /\ known' = known \ {v} /\ UNCHANGED faults
          /\ links' = [links EXCEPT ![v] = @ \ {"neigh"}]
          /\ rules' = [rules EXCEPT ![v] = {}]
       \/ NetFault("db") /\ UNCHANGED <<row, known, links, rules>>

-----------------------------------------------------------------------------

(* The process working on v dies: locals are lost, nothing is undone.      *)
Crash(v) ==
    /\ NetFault("crash") /\ ~At(v, "idle")
    /\ Return(v)
    /\ UNCHANGED <<sysctls, attached, row, known>>

(* The host reboots: links and rules are gone, sysctls are the operator's. *)
Reboot ==
    /\ NetFault("reboot")
    /\ forward' = operator.forward /\ proxy' = operator.proxy
    /\ links' = [v \in Vms |-> {}]
    /\ address' = [v \in Vms |-> None]
    /\ rules' = [v \in Vms |-> {}]
    /\ pc' = [v \in Vms |-> "idle"]
    /\ call' = [v \in Vms |-> Idle]
    /\ UNCHANGED <<operator, row, known>>

(* What the properties need to know of the past: which calls overlapped.   *)
Begin(v) == alone' = IF Quiet THEN v ELSE None
BeginCreate(v) ==
    raced' = [w \in Vms |-> IF w = v THEN {u \in Vms : Creating(u)} ELSE raced[w] \ {v}]

Next ==
    \/ \E v \in Vms :
         \/ InvokeCreate(v) /\ Begin(v) /\ BeginCreate(v)
         \/ (InvokeStart(v) \/ InvokeDelete(v)) /\ Begin(v) /\ UNCHANGED raced
         \/ /\ \/ Select(v) \/ Apply(v) \/ Persist(v) \/ Undo(v) \/ Finish(v) \/ Drop(v)
               \/ Crash(v)
            /\ UNCHANGED history
    \/ Reboot /\ UNCHANGED history

Spec == Init /\ [][Next]_vars

-----------------------------------------------------------------------------
(* Properties.                                                             *)

(* The VM's own part of a working network, the shared sysctls aside.       *)
Attached(v, net) ==
    /\ "tap" \in links[v] /\ address[v] = net.block
    /\ rules[v] = RuleKinds
    /\ net.mode = "lan" => {"route", "neigh"} \subseteq links[v]

(* When configure reports success, created or reconciled, after a reboot,  *)
(* after a crash, with any part already there and whatever other VMs'      *)
(* calls do meanwhile, every resource of the VM's own is in place.  Two    *)
(* exceptions are the code's: a TAP that reconcile_tap finds is not        *)
(* brought up, so its link is up only if the call made it; and the sysctls *)
(* are on only if no other call was under way beside this one, since a     *)
(* deletion or a rollback of another VM may write them back to off.        *)
ConfiguredIsUsable ==
    \A v \in Vms : At(v, "apply") /\ call[v].job = {} =>
        /\ Attached(v, Net(v))
        /\ "up" \in links[v] \/ call[v].existed
        /\ alone = v => forward /\ (Net(v).mode = "lan" => proxy)

(* At the end of a creation that fails and of a deletion that succeeds,    *)
(* after any failures, crashes and reboots before, nothing is left on the  *)
(* host: of what a creation applied, unless it reports a failed cleanup;   *)
(* of all that a routed VM ever had, when it is deleted.  (Rules of a      *)
(* host-only network stay if it was configured and then not persisted.)    *)
NothingIsLeftBehind ==
    \A v \in Vms : At(v, "drop") =>
        /\ Creating(v) /\ ~call[v].failed =>
             \A r \in call[v].applied \ {"forward"} :
                 \/ ~Present(v, r)
                 \/ r \in RuleKinds /\ Net(v).mode = "host_only" /\ "nat" \in call[v].applied
        /\ call[v].op = "delete" /\ Net(v) # None /\ Net(v).mode = "lan" =>
             links[v] = {} /\ address[v] = None /\ rules[v] = {}

SameAddresses(a, b) ==
    a.mode = b.mode /\ IF a.mode = "lan" THEN a.lan = b.lan ELSE a.block = b.block

(* Unless their creations overlapped, no two routed VMs have one LAN       *)
(* address and no two host-only VMs one private block, whatever was live   *)
(* or down when they were chosen; no VM is put on a network the host is on *)
(* or given a reserved LAN address.  Two things the code does not keep     *)
(* apart: creations that overlap read the used addresses before either has *)
(* written its own, and the private block of a routed VM is compared with  *)
(* live addresses only, so it can be that of any VM that is down.          *)
ExclusiveAddresses ==
    NetTypeOK /\ \A v \in Vms : row[v] # None =>
        /\ row[v].mode = "lan" => ValidLanAddress(row[v].lan)
        /\ \A u \in OperatorNets : ~Conflicts(row[v].block, u)
        /\ \A w \in Vms \ {v} :
             row[w] # None /\ w \notin raced[v] /\ v \notin raced[w] =>
                 ~SameAddresses(row[v], row[w])

=============================================================================
