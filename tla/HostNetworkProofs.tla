------------------------- MODULE HostNetworkProofs -------------------------
(***************************************************************************)
(* What HostNetwork promises, for any number of VMs, any pool of blocks,   *)
(* uplink and networks of the operator's, and any number of failures.      *)
(*                                                                         *)
(* However many calls are under way: nothing in the code keeps two         *)
(* processes from configuring two VMs at once.  NetInv says what each call *)
(* has applied and still has to remove.  PairInv adds what the calls of    *)
(* two VMs could take from each other: the sysctls, for the call that had  *)
(* none beside it, and the addresses, for VMs whose creations did not      *)
(* overlap.                                                                *)
(***************************************************************************)
EXTENDS HostNetwork, TLAPS

(* The locals of a call.                                                   *)
CallFields == {"op", "net", "job", "applied", "existed", "forwardWas", "proxyWas", "used",
               "strict", "failed"}

NetTypes ==
    /\ operator \in Operator /\ forward \in BOOLEAN /\ proxy \in BOOLEAN
    /\ links \in [Vms -> SUBSET Links]
    /\ address \in [Vms -> Blocks \cup {None}]
    /\ rules \in [Vms -> SUBSET RuleKinds]
    /\ row \in [Vms -> Networks \cup {None}]
    /\ known \in SUBSET Vms /\ faults \in 0..FaultBudget
    /\ pc \in [Vms -> NetLabels] /\ DOMAIN call = Vms

(* A call and the network it is about.  The row of a VM under creation is  *)
(* written at the end.                                                     *)
CallTypes(v) ==
    LET c == call[v]
    IN  /\ DOMAIN c = CallFields
        /\ c.op \in {"create", "start", "delete", None}
        /\ c.net \in Networks \cup Requested \cup {None}
        /\ c.job \subseteq Resources /\ c.applied \subseteq Resources \ {"up", "proxy"}

CallFlow(v) ==
    LET c == call[v]
    IN  /\ row[v] # None => v \in known
        /\ ~At(v, "idle") => v \in known /\ (c.op = "create" => row[v] = None)
        /\ At(v, "select") =>
             /\ c.op = "start" \/ (c.op = "create" /\ ~c.existed)
             /\ c.applied = {} /\ ~c.failed
             /\ IF c.op = "start" THEN c.net \in Networks ELSE c.net \in Requested
        /\ At(v, "apply") =>
             c.op \in {"create", "start"} /\ c.net \in Networks /\ ~c.failed
        /\ At(v, "undo") => c.op \in {"create", "start", "delete"}
        /\ At(v, "drop") => c.op \in {"create", "delete"} /\ c.job = {}

(* What a creation has done: all of its plan but what is left of it.       *)
Applied(v) ==
    LET c == call[v]
    IN  At(v, "apply") /\ c.op = "create" =>
          /\ ~c.existed
          /\ PlanFor(c.net) \ {"up", "forward", "proxy"} \subseteq c.applied \cup c.job
          /\ c.job \cup c.applied \subseteq PlanFor(c.net)
          /\ c.applied # {} => "tap" \in c.applied

(* What a rollback still has to remove of what was applied; the address    *)
(* goes with the TAP.                                                      *)
Leaves(v, r) ==
    \/ r \in call[v].job \/ ~Present(v, r)
    \/ r = "addr" /\ "tap" \in call[v].job
    \/ r \in RuleKinds /\ Net(v).mode = "host_only" /\ "nat" \in call[v].applied

RolledBack(v) ==
    At(v, "undo") \/ At(v, "drop") =>
        (Creating(v) => Net(v) \in Networks /\
                        (~call[v].failed => \A r \in call[v].applied \ {"forward"} : Leaves(v, r)))

(* What a deletion still has to remove.                                    *)
Released(v) ==
    LET c == call[v]
    IN  (At(v, "undo") \/ At(v, "drop")) /\ c.op = "delete" =>
          /\ c.net \in Networks \cup {None}
          /\ At(v, "drop") => ~c.failed
          /\ c.net # None /\ c.net.mode = "lan" /\ ~c.failed =>
               /\ "tap" \in c.job \/ (links[v] \subseteq {"neigh"} /\ address[v] = None)
               /\ "neigh" \in c.job \/ "neigh" \notin links[v]
               /\ rules[v] \subseteq c.job

CallOK(v) == CallTypes(v) /\ CallFlow(v) /\ Applied(v) /\ RolledBack(v) /\ Released(v)

NetInv == NetTypes /\ \A v \in Vms : CallOK(v)

(* What the history variables say.                                         *)
Apart(v, w) == w \notin raced[v] /\ v \notin raced[w]

Histories ==
    /\ alone \in Vms \cup {None} /\ raced \in [Vms -> SUBSET Vms]
    /\ \A v, w \in Vms : alone = v /\ w # v => At(w, "idle")
    /\ \A v, w \in Vms : v # w /\ Creating(v) /\ Creating(w) => ~Apart(v, w)

(* What is not in the plan any more is in place, the sysctls if no other   *)
(* call could take them away, the link unless the TAP was there before.    *)
InPlace(v) ==
    At(v, "apply") =>
        /\ \A r \in PlanFor(Net(v)) \ {"up"} :
             r \in call[v].job \/ Present(v, r) \/ (r \in {"forward", "proxy"} /\ alone # v)
        /\ "up" \in call[v].job \/ "up" \in links[v] \/ call[v].existed
        /\ "tap" \in call[v].job /\ "tap" \in links[v] => call[v].existed \/ Creating(v)

(* A network that fits: valid, off the operator's networks and unlike      *)
(* those of the VMs that were not created at the same time.                *)
Fits(v, net) ==
    /\ net.mode = "lan" => ValidLanAddress(net.lan)
    /\ \A u \in OperatorNets : ~Conflicts(net.block, u)
    /\ \A w \in Vms \ {v} : row[w] # None /\ Apart(v, w) => ~SameAddresses(net, row[w])

Alike(a, b) == a.mode = b.mode /\ a.block = b.block /\ a.lan = b.lan

(* A creation that has read the used addresses knows of every VM that was  *)
(* not being created when it began.                                        *)
Fitting(v) ==
    /\ row[v] # None => Fits(v, row[v])
    /\ At(v, "select") /\ Creating(v) =>
         \A w \in Vms \ {v} : row[w] # None /\ row[w].mode = Net(v).mode /\ Apart(v, w) =>
             Listed(row[w]) \in call[v].used
    /\ At(v, "apply") /\ Creating(v) => Fits(v, Net(v))
    /\ (At(v, "select") \/ At(v, "apply")) /\ ~Creating(v) =>
         row[v] # None /\ Alike(Net(v), row[v])

PairInv == NetInv /\ Histories /\ \A v \in Vms : InPlace(v) /\ Fitting(v)

-----------------------------------------------------------------------------
(* No call is under way.                                                   *)
LEMMA IdleFields ==
    /\ DOMAIN Idle = CallFields
    /\ Idle.op = None /\ Idle.net = None /\ Idle.job = {} /\ Idle.applied = {}
    /\ Idle.existed = FALSE /\ Idle.used = {} /\ Idle.failed = FALSE
BY DEF Idle, CallFields

(* The step of one VM's call leaves the others what they know.             *)
Untouched(v) ==
    \A w \in Vms \ {v} :
        /\ links'[w] = links[w] /\ address'[w] = address[w] /\ rules'[w] = rules[w]
        /\ row'[w] = row[w] /\ pc'[w] = pc[w] /\ call'[w] = call[w]
        /\ w \in known' <=> w \in known

LEMMA OneVm ==
    ASSUME NetInv, NEW v \in Vms, Untouched(v), NetTypes', CallOK(v)'
    PROVE  NetInv'
<1>1. ASSUME NEW w \in Vms, w # v PROVE CallOK(w)'
  <2>1. /\ links'[w] = links[w] /\ address'[w] = address[w] /\ rules'[w] = rules[w]
        /\ row'[w] = row[w] /\ pc'[w] = pc[w] /\ call'[w] = call[w]
        /\ w \in known' <=> w \in known
    BY <1>1 DEF Untouched
  <2>2. CallTypes(w) /\ CallFlow(w) /\ Applied(w) /\ RolledBack(w) /\ Released(w)
    BY DEF NetInv, CallOK
  <2>3. CallTypes(w)' /\ CallFlow(w)'
    BY <2>1, <2>2 DEF CallTypes, CallFlow, At
  <2>4. Applied(w)'
    BY <2>1, <2>2 DEF Applied, At, PlanFor
  <2>5. Released(w)'
    BY <2>1, <2>2 DEF Released, At
  <2>6. ASSUME NEW r \in call[w].applied \ {"forward"} PROVE Leaves(w, r)' <=> Leaves(w, r)
    <3>1. r \in Resources \ {"proxy", "forward"}
      BY <2>2, <2>6 DEF CallTypes
    <3>2. Present(w, r)' <=> Present(w, r)
      BY <2>1, <3>1 DEF Present, Net, Resources, Links, RuleKinds
    <3> QED BY <2>1, <3>2 DEF Leaves, Net
  <2>7. RolledBack(w)'
    BY <2>1, <2>2, <2>6 DEF RolledBack, At, Creating, Net
  <2> QED BY <2>3, <2>4, <2>5, <2>7 DEF CallOK
<1> QED BY <1>1 DEF NetInv

(* What Goto, Update and Return do to the call.                            *)
LEMMA CallEffect ==
    ASSUME NetInv, NEW v \in Vms, NEW l \in NetLabels, NEW n, Goto(v, l), Update(v, n)
    PROVE  /\ pc' \in [Vms -> NetLabels] /\ DOMAIN call' = Vms /\ pc'[v] = l /\ call'[v] = n
           /\ \A w \in Vms \ {v} : pc'[w] = pc[w] /\ call'[w] = call[w]
BY DEF NetInv, NetTypes, Goto, Update

LEMMA UpdateEffect ==
    ASSUME NetInv, NEW v \in Vms, NEW n, UNCHANGED pc, Update(v, n)
    PROVE  /\ pc' \in [Vms -> NetLabels] /\ DOMAIN call' = Vms /\ pc'[v] = pc[v] /\ call'[v] = n
           /\ \A w \in Vms \ {v} : pc'[w] = pc[w] /\ call'[w] = call[w]
BY DEF NetInv, NetTypes, Update

(* The count of failures stays in its bound.                               *)
LEMMA FaultTypes ==
    ASSUME NetTypes,
           \/ UNCHANGED faults
           \/ \E kind \in {"command", "db", "crash", "reboot", "overlap"} : NetFault(kind)
    PROVE  faults' \in 0..FaultBudget
BY NetFaultsAssumption DEF NetTypes, NetFault

(* A call that begins beside another is counted.                           *)
LEMMA IdlingTypes ==
    ASSUME NetTypes, NEW v \in Vms, Idling(v)
    PROVE  faults' \in 0..FaultBudget /\ pc[v] = "idle"
BY FaultTypes DEF Idling, Forced, At

(* A VM without a call relies on nothing.                                  *)
LEMMA IdleCall ==
    ASSUME NEW v \in Vms, pc'[v] = "idle", call'[v] = Idle, row'[v] # None => v \in known'
    PROVE  CallOK(v)'
<1>1. CallTypes(v)'
  BY IdleFields DEF CallTypes
<1>2. CallFlow(v)'
  BY DEF CallFlow, At
<1>3. Applied(v)' /\ RolledBack(v)' /\ Released(v)'
  BY DEF Applied, RolledBack, Released, At
<1> QED BY <1>1, <1>2, <1>3 DEF CallOK

(* A call ends.                                                            *)
LEMMA ReturnKeeps ==
    ASSUME NetInv, NEW v \in Vms, Return(v), UNCHANGED <<sysctls, attached>>,
           faults' \in 0..FaultBudget,
           row' \in [Vms -> Networks \cup {None}], known' \in SUBSET Vms,
           \A w \in Vms \ {v} : row'[w] = row[w] /\ (w \in known' <=> w \in known),
           row'[v] # None => v \in known'
    PROVE  NetInv'
<1>1. /\ pc' \in [Vms -> NetLabels] /\ DOMAIN call' = Vms /\ pc'[v] = "idle" /\ call'[v] = Idle
      /\ \A w \in Vms \ {v} : pc'[w] = pc[w] /\ call'[w] = call[w]
  BY CallEffect DEF Return, NetLabels
<1>2. UNCHANGED <<operator, forward, proxy, links, address, rules>>
  BY DEF sysctls, attached
<1>3. NetTypes'
  BY <1>1, <1>2 DEF NetInv, NetTypes
<1>4. Untouched(v)
  BY <1>1, <1>2 DEF Untouched
<1>5. CallOK(v)'
  BY <1>1, IdleCall
<1> QED BY <1>3, <1>4, <1>5, OneVm

(* A call that only changes itself.                                        *)
LEMMA CallStep ==
    ASSUME NetInv, NEW v \in Vms, UNCHANGED <<sysctls, attached, row>>, faults' \in 0..FaultBudget,
           known' \in SUBSET Vms, \A w \in Vms \ {v} : w \in known' <=> w \in known,
           pc' \in [Vms -> NetLabels], DOMAIN call' = Vms,
           \A w \in Vms \ {v} : pc'[w] = pc[w] /\ call'[w] = call[w],
           CallOK(v)'
    PROVE  NetInv'
<1>1. UNCHANGED <<operator, forward, proxy, links, address, rules, row>>
  BY DEF sysctls, attached
<1>2. NetTypes'
  BY <1>1 DEF NetInv, NetTypes
<1>3. Untouched(v)
  BY <1>1 DEF Untouched
<1> QED BY <1>2, <1>3, OneVm

(* A call is entered.                                                      *)
LEMMA InvokesKeep ==
    ASSUME NetInv, NEW v \in Vms, InvokeCreate(v) \/ InvokeStart(v)
    PROVE  NetInv'
<1>0. NetTypes /\ CallFlow(v) /\ v \notin known => row[v] = None
  BY DEF NetInv, CallOK, CallFlow
<1>1. CASE InvokeCreate(v)
  <2>1. PICK net \in Requested :
          Update(v, [Idle EXCEPT !.op = "create", !.used = UsedBy(net.mode), !.net = net])
    BY <1>1 DEF InvokeCreate
  <2> DEFINE n == [Idle EXCEPT !.op = "create", !.used = UsedBy(net.mode), !.net = net]
  <2>2. Update(v, n) /\ Goto(v, "select") /\ v \notin known /\ known' = known \cup {v}
        /\ UNCHANGED <<sysctls, attached, row>> /\ Idling(v)
    BY <1>1, <2>1 DEF InvokeCreate
  <2>3. net \in Requested
    BY <2>1
  <2>4. /\ DOMAIN n = CallFields /\ n.op = "create" /\ n.net = net /\ n.job = {} /\ n.applied = {}
        /\ n.existed = FALSE /\ n.failed = FALSE
    BY IdleFields DEF CallFields
  <2> HIDE DEF n
  <2>5. /\ pc' \in [Vms -> NetLabels] /\ DOMAIN call' = Vms /\ pc'[v] = "select" /\ call'[v] = n
        /\ \A w \in Vms \ {v} : pc'[w] = pc[w] /\ call'[w] = call[w]
    BY <2>2, CallEffect DEF NetLabels
  <2>6. row'[v] = None
    BY <2>2 DEF NetInv, CallOK, CallFlow
  <2>7. CallTypes(v)'
    BY <2>3, <2>4, <2>5 DEF CallTypes
  <2>8. CallFlow(v)'
    BY <2>2, <2>3, <2>4, <2>5, <2>6 DEF CallFlow, At
  <2>9. Applied(v)' /\ RolledBack(v)' /\ Released(v)'
    BY <2>5 DEF Applied, RolledBack, Released, At
  <2>10. CallOK(v)'
    BY <2>7, <2>8, <2>9 DEF CallOK
  <2>11. faults' \in 0..FaultBudget /\ known' \in SUBSET Vms
    BY <2>2, IdlingTypes DEF NetInv, NetTypes
  <2> QED BY <2>2, <2>5, <2>10, <2>11, CallStep
<1>2. CASE InvokeStart(v)
  <2> DEFINE n == [Idle EXCEPT !.op = "start", !.net = row[v]]
  <2>1. Update(v, n) /\ Goto(v, "select") /\ row[v] # None /\ UNCHANGED <<sysctls, attached, row, known>>
        /\ Idling(v)
    BY <1>2 DEF InvokeStart
  <2>2. row[v] \in Networks /\ v \in known
    BY <2>1 DEF NetInv, NetTypes, CallOK, CallFlow
  <2>3. /\ DOMAIN n = CallFields /\ n.op = "start" /\ n.net = row[v] /\ n.job = {} /\ n.applied = {}
        /\ n.existed = FALSE /\ n.failed = FALSE
    BY IdleFields DEF CallFields
  <2> HIDE DEF n
  <2>5. /\ pc' \in [Vms -> NetLabels] /\ DOMAIN call' = Vms /\ pc'[v] = "select" /\ call'[v] = n
        /\ \A w \in Vms \ {v} : pc'[w] = pc[w] /\ call'[w] = call[w]
    BY <2>1, CallEffect DEF NetLabels
  <2>7. CallTypes(v)'
    BY <2>2, <2>3, <2>5 DEF CallTypes
  <2>8. CallFlow(v)'
    BY <2>1, <2>2, <2>3, <2>5 DEF CallFlow, At
  <2>9. Applied(v)' /\ RolledBack(v)' /\ Released(v)'
    BY <2>5 DEF Applied, RolledBack, Released, At
  <2>10. CallOK(v)'
    BY <2>7, <2>8, <2>9 DEF CallOK
  <2>11. faults' \in 0..FaultBudget /\ known' \in SUBSET Vms
    BY <2>1, IdlingTypes DEF NetInv, NetTypes
  <2> QED BY <2>1, <2>5, <2>10, <2>11, CallStep
<1> QED BY <1>1, <1>2

(* The blocks offered are of the pool, the LAN addresses of the uplink.    *)
LEMMA Offers ==
    ASSUME NEW v \in Vms, Net(v) \in Requested,
           NEW block \in OfferedBlocks(v), NEW lan \in LanOffers(v)
    PROVE  /\ block \in Blocks /\ \A u \in Occupied(v) : ~Conflicts(block, u)
           /\ lan \in Nat \cup {None}
           /\ Net(v).mode = "lan" => ValidLanAddress(lan) /\ lan \notin call[v].used
<1>1. PICK i \in FreeBlocks(v) : block = Pool[i]
  BY DEF OfferedBlocks
<1>2. block \in Blocks /\ \A u \in Occupied(v) : ~Conflicts(block, u)
  BY <1>1 DEF FreeBlocks, Blocks
<1>3. /\ Uplink.base \in Nat /\ Uplink.size \in Nat /\ Uplink.size >= 4 /\ ScanWindow \in Nat
      /\ Uplink.base % Uplink.size = 0
  BY UplinkAssumption
<1>e. Net(v).lan \in Nat \cup {None}
  BY UplinkAssumption DEF Requested
<1>4. ASSUME Net(v).mode = "lan"
      PROVE  lan \in Nat /\ ValidLanAddress(lan) /\ lan \notin call[v].used
  <2>0. /\ lan \notin call[v].used
        /\ lan \in AutomaticLanCandidates \/ (lan = Net(v).lan /\ lan # None /\ ValidLanAddress(lan))
    BY <1>4 DEF LanOffers
  <2> SUFFICES ASSUME lan \in AutomaticLanCandidates
               PROVE  lan \in Nat /\ ValidLanAddress(lan) /\ lan \notin call[v].used
    BY <1>e, <2>0
  <2>1. lan \in AutomaticLanCandidates /\ lan \notin call[v].used
    BY <2>0
  <2>2. lan \in Nat /\ lan >= Uplink.base + 2 /\ lan <= Uplink.base + Uplink.size - 2
        /\ lan # Uplink.host /\ lan # Uplink.gateway
    BY <1>3, <2>1 DEF AutomaticLanCandidates
  <2>3. lan \div Uplink.size = Uplink.base \div Uplink.size
    BY <1>3, <2>2
  <2> QED BY <1>3, <2>1, <2>2, <2>3 DEF ValidLanAddress
<1>5. Net(v).mode # "lan" => lan = None
  BY DEF LanOffers
<1> QED BY <1>2, <1>4, <1>5

(* What a creation chooses is a network.                                   *)
LEMMA ChosenType ==
    ASSUME NetTypes, NEW v, Net(v) \in Requested,
           NEW block, NEW lan, block \in Blocks, lan \in Nat \cup {None}
    PROVE  /\ Chosen(v, block, lan) \in Networks
           /\ Chosen(v, block, lan).mode = Net(v).mode
           /\ Chosen(v, block, lan).block = block /\ Chosen(v, block, lan).lan = lan
BY DEF Chosen, NetTypes, Requested, Networks

(* Addresses are chosen, or the call fails before its first change.        *)
LEMMA SelectKeeps ==
    ASSUME NetInv, NEW v \in Vms, Select(v)
    PROVE  NetInv'
<1> DEFINE c == call[v]
<1>0. /\ CallTypes(v) /\ CallFlow(v) /\ NetTypes /\ pc[v] = "select"
      /\ UNCHANGED <<sysctls, attached, row>>
  BY DEF NetInv, CallOK, Select, At
<1>1. /\ DOMAIN c = CallFields /\ v \in known /\ c.applied = {} /\ ~c.failed
      /\ (c.op = "create" => row[v] = None)
      /\ c.op = "start" \/ (c.op = "create" /\ ~c.existed)
      /\ IF c.op = "start" THEN c.net \in Networks ELSE c.net \in Requested
  BY <1>0 DEF CallTypes, CallFlow, At
<1>2. ASSUME NEW n, NEW net \in Networks, Update(v, n), Goto(v, "apply"), UNCHANGED <<known, faults>>,
             DOMAIN n = CallFields, n.op = c.op, n.net = net, n.job = PlanFor(net), n.applied = {},
             n.failed = c.failed, c.op = "create" => n.existed = c.existed
      PROVE  NetInv'
  <2>1. /\ pc' \in [Vms -> NetLabels] /\ DOMAIN call' = Vms /\ pc'[v] = "apply" /\ call'[v] = n
        /\ \A w \in Vms \ {v} : pc'[w] = pc[w] /\ call'[w] = call[w]
    BY <1>2, CallEffect DEF NetLabels
  <2>2. PlanFor(net) \subseteq Resources
    BY DEF PlanFor, HostOnlyPlan, LanPlan, Resources, Links, RuleKinds
  <2>3. CallTypes(v)'
    BY <1>1, <1>2, <2>1, <2>2 DEF CallTypes
  <2>4. CallFlow(v)'
    BY <1>0, <1>1, <1>2, <2>1 DEF CallFlow, At
  <2>5. Applied(v)'
    BY <1>1, <1>2, <2>1 DEF Applied, At, PlanFor
  <2>6. RolledBack(v)' /\ Released(v)'
    BY <2>1 DEF RolledBack, Released, At
  <2>7. CallOK(v)'
    BY <2>3, <2>4, <2>5, <2>6 DEF CallOK
  <2>8. faults' \in 0..FaultBudget /\ known' \in SUBSET Vms
    BY <1>0, <1>2 DEF NetTypes
  <2> QED BY <1>0, <1>2, <2>1, <2>7, <2>8, CallStep
<1>3. ASSUME Creating(v), NEW block \in OfferedBlocks(v), NEW lan \in LanOffers(v),
             Update(v, [c EXCEPT !.net = Chosen(v, block, lan), !.used = {}, !.job = PlanFor(Net(v)),
                                 !.forwardWas = forward, !.proxyWas = proxy]),
             Goto(v, "apply"), UNCHANGED <<known, faults>>
      PROVE  NetInv'
  <2> DEFINE net == Chosen(v, block, lan)
  <2> DEFINE n == [c EXCEPT !.net = net, !.used = {}, !.job = PlanFor(Net(v)),
                            !.forwardWas = forward, !.proxyWas = proxy]
  <2>1. net \in Networks /\ net.mode = Net(v).mode
    BY <1>0, <1>1, <1>3, Offers, ChosenType DEF Creating, Net
  <2>2. PlanFor(Net(v)) = PlanFor(net)
    BY <2>1 DEF PlanFor
  <2> HIDE DEF net
  <2>3. /\ DOMAIN n = CallFields /\ n.op = c.op /\ n.net = net /\ n.job = PlanFor(net)
        /\ n.applied = {} /\ n.failed = c.failed /\ n.existed = c.existed
    BY <1>1, <2>2 DEF CallFields
  <2>4. Update(v, n)
    BY <1>3 DEF net
  <2> HIDE DEF n
  <2> QED BY <1>2, <1>3, <2>1, <2>3, <2>4
<1>4. ASSUME ~Creating(v), Goto(v, "apply"), UNCHANGED <<known, faults>>,
             Update(v, [c EXCEPT !.job = PlanFor(Net(v)), !.existed = "tap" \in links[v],
                                 !.forwardWas = forward, !.proxyWas = proxy])
      PROVE  NetInv'
  <2> DEFINE n == [c EXCEPT !.job = PlanFor(Net(v)), !.existed = "tap" \in links[v],
                            !.forwardWas = forward, !.proxyWas = proxy]
  <2>1. c.net \in Networks /\ c.op # "create"
    BY <1>1, <1>4 DEF Creating
  <2>2. /\ DOMAIN n = CallFields /\ n.op = c.op /\ n.net = c.net /\ n.job = PlanFor(c.net)
        /\ n.applied = {} /\ n.failed = c.failed
    BY <1>1 DEF CallFields, Net
  <2>3. Update(v, n)
    BY <1>4
  <2> HIDE DEF n
  <2> QED BY <1>2, <1>4, <2>1, <2>2, <2>3
<1>5. ASSUME Return(v), known' = IF Creating(v) THEN known \ {v} ELSE known, faults' \in 0..FaultBudget
      PROVE  NetInv'
  <2>1. known' \in SUBSET Vms /\ row' = row
    BY <1>0, <1>5 DEF NetTypes
  <2>2. row'[v] # None => v \in known'
    BY <1>0, <1>1, <1>5 DEF Creating
  <2>3. \A w \in Vms \ {v} : row'[w] = row[w] /\ (w \in known' <=> w \in known)
    BY <1>5, <2>1
  <2> QED BY <1>0, <1>5, <2>1, <2>2, <2>3, ReturnKeeps DEF NetTypes
<1>6. CASE NetFault("command") \/ Forced(Creating(v) /\ (OfferedBlocks(v) = {} \/ LanOffers(v) = {}))
  <2>1. faults' \in 0..FaultBudget
    BY <1>0, <1>6, FaultTypes DEF Forced
  <2> QED BY <1>3, <1>4, <1>5, <2>1 DEF Select
<1> QED BY <1>3, <1>4, <1>6 DEF Select

(* A host command concerns one VM and the sysctls.                         *)
LEMMA EstablishEffect ==
    ASSUME NetTypes, NEW v \in Vms, NEW r \in Resources, Net(v) \in Networks, Establish(v, r)
    PROVE  /\ operator' \in Operator /\ forward' \in BOOLEAN /\ proxy' \in BOOLEAN
           /\ links' \in [Vms -> SUBSET Links] /\ address' \in [Vms -> Blocks \cup {None}]
           /\ rules' \in [Vms -> SUBSET RuleKinds]
           /\ \A w \in Vms \ {v} :
                links'[w] = links[w] /\ address'[w] = address[w] /\ rules'[w] = rules[w]
<1>1. Net(v).block \in Blocks
  BY DEF Networks
<1> QED BY <1>1 DEF NetTypes, Establish

(* The first of what is left of a plan is the TAP, if that is left.        *)
LEMMA TapFirst ==
    ASSUME NEW v \in Vms, NEW r \in Resources, First(v, ApplyOrder, r), "tap" \in call[v].job
    PROVE  r = "tap"
<1>1. ApplyOrder[r] <= ApplyOrder["tap"]
  BY DEF First
<1> QED BY <1>1 DEF ApplyOrder, Resources, Links, RuleKinds

(* A command of a plan: it is skipped, succeeds, or starts the rollback.   *)
LEMMA ApplyKeeps ==
    ASSUME NetInv, NEW v \in Vms, Apply(v)
    PROVE  NetInv'
<1> DEFINE c == call[v]
<1>0. CallTypes(v) /\ CallFlow(v) /\ Applied(v) /\ NetTypes /\ pc[v] = "apply" /\ UNCHANGED <<row, known>>
  BY DEF NetInv, CallOK, Apply, At
<1>1. /\ DOMAIN c = CallFields /\ v \in known /\ ~c.failed /\ c.net \in Networks
      /\ (c.op = "create" => row[v] = None) /\ c.op \in {"create", "start"}
      /\ c.job \subseteq Resources /\ c.applied \subseteq Resources \ {"up", "proxy"}
  BY <1>0 DEF CallTypes, CallFlow, At
<1>2. PICK r \in c.job :
        /\ First(v, ApplyOrder, r)
        /\ \/ /\ ~Refused(v, r) /\ Skips(v, r)
              /\ Update(v, [call[v] EXCEPT !.job = Rest(v, r)])
              /\ UNCHANGED <<sysctls, attached, pc, faults>>
           \/ /\ ~Refused(v, r) /\ ~Skips(v, r)
              /\ Establish(v, r)
              /\ Update(v, [call[v] EXCEPT !.job = Rest(v, r), !.applied = @ \cup Recorded(r)])
              /\ UNCHANGED <<pc, faults>>
           \/ /\ Forced(Refused(v, r)) \/ NetFault("command")
              /\ Goto(v, "undo")
              /\ Update(v, [call[v] EXCEPT !.job = UndoAttempt(v), !.strict = TRUE])
              /\ UNCHANGED <<sysctls, attached>>
  BY DEF Apply
<1>3. r \in Resources
  BY <1>1
<1>4. Rest(v, r) \subseteq c.job /\ ((r = "tap" /\ Skips(v, r)) \/ c.job \ {r} \subseteq Rest(v, r))
  BY DEF Rest
<1>5. ASSUME NEW n, NEW more \in SUBSET (Resources \ {"up", "proxy"}), Update(v, n), UNCHANGED <<pc, faults>>,
             DOMAIN n = CallFields, n.op = c.op, n.net = c.net, n.job = Rest(v, r),
             n.applied = c.applied \cup more, n.failed = c.failed, n.existed = c.existed,
             more \subseteq {r, "forward"}, ~Refused(v, r),
             c.op = "create" /\ r \notin {"up", "forward", "proxy"} => r \in more,
             c.op = "create" /\ "forward" \in more => "forward" \in PlanFor(c.net),
             NetTypes', \A w \in Vms \ {v} :
                links'[w] = links[w] /\ address'[w] = address[w] /\ rules'[w] = rules[w]
      PROVE  NetInv'
  <2>1. /\ pc' \in [Vms -> NetLabels] /\ DOMAIN call' = Vms /\ pc'[v] = "apply" /\ call'[v] = n
        /\ \A w \in Vms \ {v} : pc'[w] = pc[w] /\ call'[w] = call[w]
    BY <1>0, <1>5, UpdateEffect
  <2>2. CallTypes(v)'
    BY <1>0, <1>1, <1>4, <1>5, <2>1 DEF CallTypes
  <2>3. CallFlow(v)'
    BY <1>0, <1>1, <1>5, <2>1 DEF CallFlow, At
  <2>4. Applied(v)'
    <3> SUFFICES ASSUME c.op = "create"
                 PROVE  /\ ~n.existed
                        /\ PlanFor(n.net) \ {"up", "forward", "proxy"} \subseteq n.applied \cup n.job
                        /\ n.job \cup n.applied \subseteq PlanFor(n.net)
                        /\ n.applied # {} => "tap" \in n.applied
      BY <1>5, <2>1 DEF Applied, At, PlanFor
    <3>1. /\ ~c.existed /\ PlanFor(c.net) \ {"up", "forward", "proxy"} \subseteq c.applied \cup c.job
          /\ c.job \cup c.applied \subseteq PlanFor(c.net) /\ (c.applied # {} => "tap" \in c.applied)
      BY <1>0 DEF Applied, At
    <3>2. ~(r = "tap" /\ Skips(v, r))
      BY DEF Skips, Creating
    <3>3. "tap" \in PlanFor(c.net)
      BY DEF PlanFor, HostOnlyPlan, LanPlan
    <3>4. n.applied # {} => "tap" \in n.applied
      <4>1. CASE "tap" \in c.job
        BY <1>2, <1>3, <1>5, <4>1, TapFirst
      <4>2. CASE "tap" \notin c.job
        BY <1>5, <3>1, <3>3, <4>2
      <4> QED BY <4>1, <4>2
    <3>5. PlanFor(c.net) \ {"up", "forward", "proxy"} \subseteq n.applied \cup n.job
      BY <1>4, <1>5, <3>1, <3>2
    <3>6. n.job \cup n.applied \subseteq PlanFor(n.net)
      BY <1>2, <1>4, <1>5, <3>1
    <3> QED BY <1>5, <3>1, <3>4, <3>5, <3>6
  <2>5. RolledBack(v)' /\ Released(v)'
    BY <2>1 DEF RolledBack, Released, At
  <2>6. CallOK(v)'
    BY <2>2, <2>3, <2>4, <2>5 DEF CallOK
  <2>7. Untouched(v)
    BY <1>0, <1>5, <2>1 DEF Untouched
  <2> QED BY <1>5, <2>6, <2>7, OneVm
<1>6. CASE /\ ~Refused(v, r) /\ Skips(v, r)
           /\ Update(v, [call[v] EXCEPT !.job = Rest(v, r)])
           /\ UNCHANGED <<sysctls, attached, pc, faults>>
  <2> DEFINE n == [c EXCEPT !.job = Rest(v, r)]
  <2>1. /\ DOMAIN n = CallFields /\ n.op = c.op /\ n.net = c.net /\ n.job = Rest(v, r)
        /\ n.applied = c.applied \cup {} /\ n.failed = c.failed /\ n.existed = c.existed
    BY <1>1 DEF CallFields
  <2>2. UNCHANGED <<operator, forward, proxy, links, address, rules, pc, faults>> /\ Update(v, n)
    BY <1>6 DEF sysctls, attached
  <2> HIDE DEF n
  <2>3. DOMAIN call' = Vms
    BY <2>2, UpdateEffect
  <2>4. NetTypes'
    BY <1>0, <2>2, <2>3 DEF NetTypes
  <2>5. c.op = "create" => r \in {"forward", "proxy"}
    BY <1>6 DEF Skips, Creating
  <2> DEFINE nothing == {}
  <2>6. /\ nothing \in SUBSET (Resources \ {"up", "proxy"}) /\ nothing \subseteq {r, "forward"}
        /\ n.applied = c.applied \cup nothing /\ "forward" \notin nothing
    BY <2>1
  <2>7. \A w \in Vms \ {v} :
          links'[w] = links[w] /\ address'[w] = address[w] /\ rules'[w] = rules[w]
    BY <2>2
  <2>8. c.op = "create" /\ r \notin {"up", "forward", "proxy"} => r \in nothing
    BY <2>5
  <2> HIDE DEF nothing
  <2>9. ~Refused(v, r)
    BY <1>6
  <2> QED BY <1>5, <2>1, <2>2, <2>4, <2>6, <2>7, <2>8, <2>9
<1>7. CASE /\ ~Refused(v, r) /\ ~Skips(v, r)
           /\ Establish(v, r)
           /\ Update(v, [call[v] EXCEPT !.job = Rest(v, r), !.applied = @ \cup Recorded(r)])
           /\ UNCHANGED <<pc, faults>>
  <2> DEFINE n == [c EXCEPT !.job = Rest(v, r), !.applied = @ \cup Recorded(r)]
  <2>1. /\ DOMAIN n = CallFields /\ n.op = c.op /\ n.net = c.net /\ n.job = Rest(v, r)
        /\ n.applied = c.applied \cup Recorded(r) /\ n.failed = c.failed /\ n.existed = c.existed
    BY <1>1 DEF CallFields
  <2>2. UNCHANGED <<pc, faults>> /\ Update(v, n)
    BY <1>7
  <2> HIDE DEF n
  <2>3. DOMAIN call' = Vms
    BY <2>2, UpdateEffect
  <2>4. NetTypes' /\ \A w \in Vms \ {v} :
                links'[w] = links[w] /\ address'[w] = address[w] /\ rules'[w] = rules[w]
    BY <1>0, <1>1, <1>3, <1>7, <2>2, <2>3, EstablishEffect DEF NetTypes, Net
  <2>5. Recorded(r) \in SUBSET (Resources \ {"up", "proxy"}) /\ Recorded(r) \subseteq {r, "forward"}
    BY <1>3 DEF Recorded, Resources
  <2>6. r \notin {"up", "forward", "proxy"} => r \in Recorded(r)
    BY DEF Recorded
  <2>7. "forward" \in PlanFor(c.net)
    BY DEF PlanFor, HostOnlyPlan, LanPlan
  <2> QED BY <1>5, <1>7, <2>1, <2>2, <2>4, <2>5, <2>6, <2>7
<1>8. CASE /\ Forced(Refused(v, r)) \/ NetFault("command")
           /\ Goto(v, "undo")
           /\ Update(v, [call[v] EXCEPT !.job = UndoAttempt(v), !.strict = TRUE])
           /\ UNCHANGED <<sysctls, attached>>
  <2> DEFINE n == [c EXCEPT !.job = UndoAttempt(v), !.strict = TRUE]
  <2>1. /\ DOMAIN n = CallFields /\ n.op = c.op /\ n.net = c.net /\ n.job = UndoAttempt(v)
        /\ n.applied = c.applied /\ n.failed = c.failed /\ n.existed = c.existed
    BY <1>1 DEF CallFields
  <2>2. Update(v, n) /\ Goto(v, "undo")
    BY <1>8
  <2> HIDE DEF n
  <2>3. /\ pc' \in [Vms -> NetLabels] /\ DOMAIN call' = Vms /\ pc'[v] = "undo" /\ call'[v] = n
        /\ \A w \in Vms \ {v} : pc'[w] = pc[w] /\ call'[w] = call[w]
    BY <2>2, CallEffect DEF NetLabels
  <2>4. UndoAttempt(v) \subseteq Resources
    BY <1>1 DEF UndoAttempt, Gated, Resources, RuleKinds, Links
  <2>5. CallTypes(v)'
    BY <1>0, <1>1, <2>1, <2>3, <2>4 DEF CallTypes
  <2>6. CallFlow(v)'
    BY <1>0, <1>1, <2>1, <2>3 DEF CallFlow, At
  <2>7. Applied(v)' /\ Released(v)'
    BY <1>1, <2>1, <2>3 DEF Applied, Released, At
  <2>8. ASSUME c.op = "create", NEW s \in c.applied, s # "forward"
        PROVE  s \in UndoAttempt(v) \/ (s = "addr" /\ "tap" \in UndoAttempt(v))
    <3>1. ~c.existed /\ c.applied \subseteq PlanFor(c.net) /\ "tap" \in c.applied
      BY <1>0, <2>8 DEF Applied, At
    <3>2. "tap" \in UndoAttempt(v)
      BY <3>1 DEF UndoAttempt, Gated
    <3>3. s \in Resources \ {"up", "proxy", "forward"}
      BY <1>1, <2>8
    <3>4. CASE c.net.mode = "lan"
      BY <2>8, <3>2, <3>3, <3>4 DEF UndoAttempt, Gated, Resources, Links, RuleKinds
    <3>5. CASE c.net.mode # "lan"
      <4>1. s \in {"tap", "addr", "out", "in", "nat"}
        BY <2>8, <3>1, <3>3, <3>5 DEF PlanFor, HostOnlyPlan
      <4> QED BY <2>8, <3>2, <3>5, <4>1 DEF UndoAttempt, Gated
    <3> QED BY <3>4, <3>5
  <2>9. RolledBack(v)'
    BY <1>1, <2>1, <2>3, <2>8 DEF RolledBack, Leaves, Creating, Net
  <2>10. CallOK(v)'
    BY <2>5, <2>6, <2>7, <2>9 DEF CallOK
  <2>11. faults' \in 0..FaultBudget
    BY <1>0, <1>8, FaultTypes DEF Forced
  <2> QED BY <1>0, <1>8, <2>3, <2>10, <2>11, CallStep DEF NetTypes
<1> QED BY <1>2, <1>6, <1>7, <1>8

(* The network is persisted; a creation that cannot rolls back.            *)
LEMMA PersistKeeps ==
    ASSUME NetInv, NEW v \in Vms, Persist(v)
    PROVE  NetInv'
<1> DEFINE c == call[v]
<1>0. /\ CallTypes(v) /\ CallFlow(v) /\ Applied(v) /\ NetTypes /\ pc[v] = "apply" /\ c.job = {}
      /\ UNCHANGED <<sysctls, attached, known>>
  BY DEF NetInv, CallOK, Persist, At
<1>1. /\ DOMAIN c = CallFields /\ v \in known /\ ~c.failed /\ c.net \in Networks
      /\ (c.op = "create" => row[v] = None) /\ c.op \in {"create", "start"}
      /\ c.applied \subseteq Resources \ {"up", "proxy"}
  BY <1>0 DEF CallTypes, CallFlow, At
<1>2. CASE row' = [row EXCEPT ![v] = Outcome(v)] /\ Return(v) /\ UNCHANGED faults
  <2>1. Outcome(v) \in Networks
    BY <1>1 DEF Outcome, Net, Networks, Creating
  <2>2. row' \in [Vms -> Networks \cup {None}] /\ \A w \in Vms \ {v} : row'[w] = row[w]
    BY <1>0, <1>2, <2>1 DEF NetTypes
  <2> QED BY <1>0, <1>1, <1>2, <2>2, ReturnKeeps DEF NetTypes
<1>3. CASE NetFault("db") /\ UNCHANGED row /\ Return(v)
  <2>1. faults' \in 0..FaultBudget
    BY <1>0, <1>3, FaultTypes
  <2> QED BY <1>0, <1>1, <1>3, <2>1, ReturnKeeps DEF NetTypes
<1>4. CASE /\ NetFault("db") /\ UNCHANGED row /\ Creating(v) /\ Goto(v, "undo")
           /\ Update(v, [call[v] EXCEPT !.job = UndoRecorded(Net(v)), !.strict = TRUE])
  <2> DEFINE n == [c EXCEPT !.job = UndoRecorded(Net(v)), !.strict = TRUE]
  <2>1. /\ DOMAIN n = CallFields /\ n.op = c.op /\ n.net = c.net /\ n.job = UndoRecorded(c.net)
        /\ n.applied = c.applied /\ n.failed = c.failed
    BY <1>1 DEF CallFields, Net
  <2>2. Update(v, n) /\ Goto(v, "undo") /\ c.op = "create"
    BY <1>4 DEF Creating
  <2> HIDE DEF n
  <2>3. /\ pc' \in [Vms -> NetLabels] /\ DOMAIN call' = Vms /\ pc'[v] = "undo" /\ call'[v] = n
        /\ \A w \in Vms \ {v} : pc'[w] = pc[w] /\ call'[w] = call[w]
    BY <2>2, CallEffect DEF NetLabels
  <2>4. UndoRecorded(c.net) \subseteq Resources
    BY DEF UndoRecorded, Gated, Resources, RuleKinds, Links
  <2>5. CallTypes(v)'
    BY <1>0, <1>1, <2>1, <2>3, <2>4 DEF CallTypes
  <2>6. CallFlow(v)'
    BY <1>0, <1>1, <1>4, <2>1, <2>3 DEF CallFlow, At
  <2>7. Applied(v)' /\ Released(v)'
    BY <1>1, <2>1, <2>2, <2>3 DEF Applied, Released, At
  <2>8. ASSUME NEW s \in c.applied, s # "forward"
        PROVE  \/ s \in UndoRecorded(c.net)
               \/ s = "addr" /\ "tap" \in UndoRecorded(c.net)
               \/ s \in RuleKinds /\ c.net.mode = "host_only" /\ "nat" \in c.applied
    <3>1. c.applied \subseteq PlanFor(c.net) /\ PlanFor(c.net) \ {"up", "forward", "proxy"} \subseteq c.applied
      BY <1>0, <2>2 DEF Applied, At
    <3>2. s \in Resources \ {"up", "proxy", "forward"}
      BY <1>1, <2>8
    <3>3. CASE c.net.mode = "lan"
      BY <3>2, <3>3 DEF UndoRecorded, Gated, Resources, Links, RuleKinds
    <3>4. CASE c.net.mode # "lan"
      <4>1. c.net.mode = "host_only" /\ s \in {"tap", "addr", "out", "in", "nat"} /\ "nat" \in c.applied
        BY <1>1, <2>8, <3>1, <3>2, <3>4 DEF PlanFor, HostOnlyPlan, Networks
      <4> QED BY <4>1 DEF UndoRecorded, Gated, RuleKinds
    <3> QED BY <3>3, <3>4
  <2>9. RolledBack(v)'
    BY <1>1, <2>1, <2>3, <2>8 DEF RolledBack, Leaves, Creating, Net
  <2>10. CallOK(v)'
    BY <2>5, <2>6, <2>7, <2>9 DEF CallOK
  <2>11. faults' \in 0..FaultBudget
    BY <1>0, <1>4, FaultTypes
  <2> QED BY <1>0, <1>4, <2>3, <2>10, <2>11, CallStep DEF NetTypes
<1> QED BY <1>2, <1>3, <1>4 DEF Persist

(* A deletion is entered: all that the row records is to be released.      *)
LEMMA InvokeDeleteKeeps ==
    ASSUME NetInv, NEW v \in Vms, InvokeDelete(v)
    PROVE  NetInv'
<1> DEFINE job == IF row[v] = None THEN {} ELSE UndoRecorded(row[v])
<1> DEFINE n == [Idle EXCEPT !.op = "delete", !.net = row[v], !.job = job]
<1>1. /\ Update(v, n) /\ Goto(v, "undo") /\ v \in known
      /\ UNCHANGED <<sysctls, attached, row, known>> /\ NetTypes /\ faults' \in 0..FaultBudget
  BY IdlingTypes DEF InvokeDelete, NetInv
<1>2. row[v] \in Networks \cup {None} /\ links[v] \in SUBSET Links /\ rules[v] \in SUBSET RuleKinds
  BY <1>1 DEF NetTypes
<1>3. job \subseteq Resources
  BY DEF UndoRecorded, Gated, Resources, RuleKinds, Links
<1>4. row[v] # None /\ row[v].mode = "lan" => RuleKinds \cup {"neigh", "tap"} \subseteq job
  BY DEF UndoRecorded, Gated
<1> HIDE DEF job
<1>5. /\ DOMAIN n = CallFields /\ n.op = "delete" /\ n.net = row[v] /\ n.job = job
      /\ n.applied = {} /\ n.failed = FALSE
  BY IdleFields DEF CallFields
<1> HIDE DEF n
<1>6. /\ pc' \in [Vms -> NetLabels] /\ DOMAIN call' = Vms /\ pc'[v] = "undo" /\ call'[v] = n
      /\ \A w \in Vms \ {v} : pc'[w] = pc[w] /\ call'[w] = call[w]
  BY <1>1, CallEffect DEF NetLabels
<1>7. CallTypes(v)'
  BY <1>2, <1>3, <1>5, <1>6 DEF CallTypes
<1>8. CallFlow(v)'
  BY <1>1, <1>5, <1>6 DEF CallFlow, At
<1>9. Applied(v)' /\ RolledBack(v)'
  BY <1>5, <1>6 DEF Applied, RolledBack, At, Creating
<1>10. Released(v)'
  BY <1>1, <1>2, <1>4, <1>5, <1>6 DEF Released, At, attached
<1>11. CallOK(v)'
  BY <1>7, <1>8, <1>9, <1>10 DEF CallOK
<1> QED BY <1>1, <1>6, <1>11, CallStep DEF NetTypes

(* A command that removes.                                                 *)
LEMMA RemoveEffect ==
    ASSUME NetTypes, NEW v \in Vms, NEW r \in Resources, Remove(v, r)
    PROVE  /\ operator' \in Operator /\ forward' \in BOOLEAN /\ proxy' \in BOOLEAN
           /\ links' \in [Vms -> SUBSET Links] /\ address' \in [Vms -> Blocks \cup {None}]
           /\ rules' \in [Vms -> SUBSET RuleKinds]
           /\ \A w \in Vms \ {v} :
                links'[w] = links[w] /\ address'[w] = address[w] /\ rules'[w] = rules[w]
           /\ links'[v] = (IF r = "tap" THEN links[v] \cap {"neigh"} ELSE links[v] \ {r})
           /\ address'[v] = (IF r \in {"tap", "addr"} THEN None ELSE address[v])
           /\ rules'[v] = rules[v] \ {r}
BY DEF NetTypes, Remove

(* One command of a cleanup.                                               *)
LEMMA UndoKeeps ==
    ASSUME NetInv, NEW v \in Vms, Undo(v)
    PROVE  NetInv'
<1> DEFINE c == call[v]
<1>0. /\ CallTypes(v) /\ CallFlow(v) /\ RolledBack(v) /\ Released(v) /\ NetTypes /\ pc[v] = "undo"
      /\ UNCHANGED <<row, known, pc>>
  BY DEF NetInv, CallOK, Undo, At
<1>1. /\ DOMAIN c = CallFields /\ v \in known /\ (c.op = "create" => row[v] = None)
      /\ c.op \in {"create", "start", "delete"} /\ c.net \in Networks \cup Requested \cup {None}
      /\ c.job \subseteq Resources /\ c.applied \subseteq Resources \ {"up", "proxy"}
  BY <1>0 DEF CallTypes, CallFlow, At
<1>2. PICK r \in c.job :
        \/ /\ Remove(v, r)
           /\ Update(v, [call[v] EXCEPT !.job = @ \ {r}])
           /\ UNCHANGED faults
        \/ /\ NetFault("command") \/ Forced(MustExist(v, r) /\ ~Present(v, r))
           /\ Update(v, [call[v] EXCEPT !.job = GiveUp(v, r), !.failed = TRUE])
           /\ UNCHANGED <<sysctls, attached>>
  BY DEF Undo
<1>3. r \in Resources
  BY <1>1
<1>4. CASE /\ Remove(v, r)
           /\ Update(v, [call[v] EXCEPT !.job = @ \ {r}])
           /\ UNCHANGED faults
  <2> DEFINE n == [c EXCEPT !.job = @ \ {r}]
  <2>1. /\ DOMAIN n = CallFields /\ n.op = c.op /\ n.net = c.net /\ n.job = c.job \ {r}
        /\ n.applied = c.applied /\ n.failed = c.failed
    BY <1>1 DEF CallFields
  <2> HIDE DEF n
  <2>2. /\ pc' \in [Vms -> NetLabels] /\ DOMAIN call' = Vms /\ pc'[v] = "undo" /\ call'[v] = n
        /\ \A w \in Vms \ {v} : pc'[w] = pc[w] /\ call'[w] = call[w]
    BY <1>0, <1>4, UpdateEffect DEF n
  <2>3. /\ operator' \in Operator /\ forward' \in BOOLEAN /\ proxy' \in BOOLEAN
        /\ links' \in [Vms -> SUBSET Links] /\ address' \in [Vms -> Blocks \cup {None}]
        /\ rules' \in [Vms -> SUBSET RuleKinds]
        /\ \A w \in Vms \ {v} :
             links'[w] = links[w] /\ address'[w] = address[w] /\ rules'[w] = rules[w]
        /\ links'[v] = (IF r = "tap" THEN links[v] \cap {"neigh"} ELSE links[v] \ {r})
        /\ address'[v] = (IF r \in {"tap", "addr"} THEN None ELSE address[v])
        /\ rules'[v] = rules[v] \ {r}
    BY <1>0, <1>3, <1>4, RemoveEffect
  <2>4. NetTypes'
    BY <1>0, <1>4, <2>2, <2>3 DEF NetTypes
  <2>5. CallTypes(v)'
    BY <1>0, <1>1, <2>1, <2>2 DEF CallTypes
  <2>6. CallFlow(v)'
    BY <1>0, <1>1, <2>1, <2>2 DEF CallFlow, At
  <2>7. Applied(v)'
    BY <2>2 DEF Applied, At
  <2>8. Released(v)'
    <3> SUFFICES ASSUME c.op = "delete", c.net # None, c.net.mode = "lan", ~c.failed
                 PROVE  /\ "tap" \in n.job \/ (links'[v] \subseteq {"neigh"} /\ address'[v] = None)
                        /\ "neigh" \in n.job \/ "neigh" \notin links'[v]
                        /\ rules'[v] \subseteq n.job
      BY <1>0, <2>1, <2>2 DEF Released, At
    <3>1. /\ "tap" \in c.job \/ (links[v] \subseteq {"neigh"} /\ address[v] = None)
          /\ "neigh" \in c.job \/ "neigh" \notin links[v]
          /\ rules[v] \subseteq c.job
      BY <1>0 DEF Released, At
    <3> QED BY <2>1, <2>3, <3>1
  <2>9. ASSUME c.op = "create", ~c.failed, NEW s \in c.applied \ {"forward"} PROVE Leaves(v, s)'
    <3>1. Leaves(v, s) /\ c.net \in Networks
      BY <1>0, <2>9 DEF RolledBack, At, Creating, Net
    <3>2. c.net.block # None
      BY <3>1, NoneAssumption DEF Networks
    <3>3. s \in Resources \ {"up", "proxy", "forward"} /\ Net(v)' = c.net /\ Net(v) = c.net
      BY <1>1, <2>1, <2>2, <2>9 DEF Net
    <3>4. Present(v, s)' => Present(v, s) /\ s # r /\ (s = "addr" => r # "tap")
      <4>1. CASE s \in Links
        <5>1. (Present(v, s) <=> s \in links[v]) /\ (Present(v, s)' <=> s \in links'[v])
          BY <4>1 DEF Present, Links, RuleKinds
        <5>2. s # "addr"
          BY <4>1 DEF Links
        <5> QED BY <2>3, <5>1, <5>2
      <4>2. CASE s = "addr"
        <5>1. (Present(v, s) <=> address[v] = c.net.block) /\ (Present(v, s)' <=> address'[v] = c.net.block)
          BY <3>3, <4>2 DEF Present, Links, RuleKinds
        <5> QED BY <2>3, <3>2, <4>2, <5>1
      <4>3. CASE s \in RuleKinds
        BY <2>3, <4>3 DEF Present, Links, RuleKinds
      <4> QED BY <3>3, <4>1, <4>2, <4>3 DEF Resources
    <3> QED BY <2>1, <2>2, <3>1, <3>3, <3>4 DEF Leaves
  <2>10. RolledBack(v)'
    <3>1. c.op = "create" => c.net \in Networks
      BY <1>0 DEF RolledBack, At, Creating, Net
    <3> QED BY <2>1, <2>2, <2>9, <3>1 DEF RolledBack, Creating, Net
  <2>11. CallOK(v)'
    BY <2>5, <2>6, <2>7, <2>8, <2>10 DEF CallOK
  <2>12. Untouched(v)
    BY <1>0, <2>2, <2>3 DEF Untouched
  <2> QED BY <2>4, <2>11, <2>12, OneVm
<1>5. CASE /\ NetFault("command") \/ Forced(MustExist(v, r) /\ ~Present(v, r))
           /\ Update(v, [call[v] EXCEPT !.job = GiveUp(v, r), !.failed = TRUE])
           /\ UNCHANGED <<sysctls, attached>>
  <2> DEFINE n == [c EXCEPT !.job = GiveUp(v, r), !.failed = TRUE]
  <2>1. /\ DOMAIN n = CallFields /\ n.op = c.op /\ n.net = c.net /\ n.job = GiveUp(v, r)
        /\ n.applied = c.applied /\ n.failed = TRUE
    BY <1>1 DEF CallFields
  <2> HIDE DEF n
  <2>2. /\ pc' \in [Vms -> NetLabels] /\ DOMAIN call' = Vms /\ pc'[v] = "undo" /\ call'[v] = n
        /\ \A w \in Vms \ {v} : pc'[w] = pc[w] /\ call'[w] = call[w]
    BY <1>0, <1>5, UpdateEffect DEF n
  <2>3. GiveUp(v, r) \subseteq Resources
    BY <1>1 DEF GiveUp
  <2>4. CallTypes(v)'
    BY <1>0, <1>1, <2>1, <2>2, <2>3 DEF CallTypes
  <2>5. CallFlow(v)'
    BY <1>0, <1>1, <2>1, <2>2 DEF CallFlow, At
  <2>6. Applied(v)'
    BY <2>2 DEF Applied, At
  <2>7. c.op = "create" => c.net \in Networks
    BY <1>0 DEF RolledBack, At, Creating, Net
  <2>8. RolledBack(v)'
    BY <2>1, <2>2, <2>7 DEF RolledBack, Creating, Net
  <2>9. c.op = "delete" => c.net \in Networks \cup {None}
    BY <1>0 DEF Released, At
  <2>10. Released(v)'
    BY <2>1, <2>2, <2>9 DEF Released, At
  <2>11. CallOK(v)'
    BY <2>4, <2>5, <2>6, <2>8, <2>10 DEF CallOK
  <2>12. faults' \in 0..FaultBudget
    BY <1>0, <1>5, FaultTypes DEF Forced
  <2> QED BY <1>0, <1>5, <2>2, <2>11, <2>12, CallStep DEF NetTypes
<1> QED BY <1>2, <1>4, <1>5

(* The end of a cleanup.                                                   *)
LEMMA FinishKeeps ==
    ASSUME NetInv, NEW v \in Vms, Finish(v)
    PROVE  NetInv'
<1> DEFINE c == call[v]
<1>0. /\ CallTypes(v) /\ CallFlow(v) /\ RolledBack(v) /\ Released(v) /\ NetTypes /\ pc[v] = "undo"
      /\ UNCHANGED <<sysctls, attached, row, known, faults>> /\ c.job = {}
  BY DEF NetInv, CallOK, Finish, At
<1>1. CASE Return(v)
  BY <1>0, <1>1, ReturnKeeps DEF NetTypes, CallFlow
<1>2. CASE Goto(v, "drop") /\ UNCHANGED call /\ ~(c.op = "start" \/ (c.op = "delete" /\ c.failed))
  <2>1. /\ pc' \in [Vms -> NetLabels] /\ pc'[v] = "drop" /\ \A w \in Vms \ {v} : pc'[w] = pc[w]
        /\ UNCHANGED <<links, address, rules, row, known, call>>
    BY <1>0, <1>2 DEF Goto, NetTypes, NetLabels, attached
  <2>2. CallTypes(v)'
    BY <1>0, <2>1 DEF CallTypes
  <2>3. CallFlow(v)'
    BY <1>0, <1>2, <2>1 DEF CallFlow, At
  <2>4. Applied(v)' /\ Released(v)'
    BY <1>0, <1>2, <2>1 DEF Applied, Released, At
  <2>5. ASSUME NEW s \in c.applied \ {"forward"}, Leaves(v, s) PROVE Leaves(v, s)'
    <3>1. s \in Resources \ {"proxy", "forward"}
      BY <1>0, <2>5 DEF CallTypes
    <3>2. Present(v, s)' <=> Present(v, s)
      BY <2>1, <3>1 DEF Present, Net, Resources, Links, RuleKinds
    <3> QED BY <2>1, <2>5, <3>2 DEF Leaves, Net
  <2>6. RolledBack(v)'
    BY <1>0, <2>1, <2>5 DEF RolledBack, At, Creating, Net
  <2>7. CallOK(v)'
    BY <2>2, <2>3, <2>4, <2>6 DEF CallOK
  <2> QED BY <1>0, <2>1, <2>7, CallStep DEF NetTypes
<1> QED BY <1>1, <1>2 DEF Finish

(* The row of a VM is dropped, or the call ends without it.                *)
LEMMA DropKeeps ==
    ASSUME NetInv, NEW v \in Vms, Drop(v)
    PROVE  NetInv'
<1>0. NetTypes /\ CallFlow(v) /\ Return(v) /\ UNCHANGED <<operator, forward, proxy, address>> /\ pc[v] = "drop"
  BY DEF NetInv, CallOK, Drop, At, sysctls
<1>1. CASE NetFault("db") /\ UNCHANGED <<row, known, links, rules>>
  <2>1. faults' \in 0..FaultBudget
    BY <1>0, <1>1, FaultTypes
  <2> QED BY <1>0, <1>1, <2>1, ReturnKeeps DEF NetTypes, CallFlow, sysctls, attached
<1>2. CASE /\ row' = [row EXCEPT ![v] = None] /\ known' = known \ {v} /\ UNCHANGED faults
           /\ links' = [links EXCEPT ![v] = @ \ {"neigh"}]
           /\ rules' = [rules EXCEPT ![v] = {}]
  <2>1. /\ pc' \in [Vms -> NetLabels] /\ DOMAIN call' = Vms /\ pc'[v] = "idle" /\ call'[v] = Idle
        /\ \A w \in Vms \ {v} : pc'[w] = pc[w] /\ call'[w] = call[w]
    BY <1>0, CallEffect DEF Return, NetLabels
  <2>2. NetTypes'
    BY <1>0, <1>2, <2>1 DEF NetTypes
  <2>3. Untouched(v)
    BY <1>0, <1>2, <2>1 DEF Untouched, NetTypes
  <2>4. row'[v] = None
    BY <1>0, <1>2 DEF NetTypes
  <2>5. CallOK(v)'
    BY <2>1, <2>4, IdleCall
  <2> QED BY <2>2, <2>3, <2>5, OneVm
<1> QED BY <1>1, <1>2 DEF Drop

(* The process dies, or the host reboots.                                  *)
LEMMA EndsKeep ==
    ASSUME NetInv, Reboot \/ \E v \in Vms : Crash(v)
    PROVE  NetInv'
<1>0. NetTypes /\ \A v \in Vms : CallFlow(v)
  BY DEF NetInv, CallOK
<1>1. ASSUME NEW v \in Vms, Crash(v) PROVE NetInv'
  <2>1. faults' \in 0..FaultBudget
    BY <1>0, <1>1, FaultTypes DEF Crash
  <2> QED BY <1>0, <1>1, <2>1, ReturnKeeps DEF Crash, NetTypes, CallFlow
<1>2. CASE Reboot
  <2>1. faults' \in 0..FaultBudget
    BY <1>0, <1>2, FaultTypes DEF Reboot
  <2>2. operator.forward \in BOOLEAN /\ operator.proxy \in BOOLEAN
    BY <1>0, OperatorAssumption DEF NetTypes
  <2>3. NetTypes'
    BY <1>0, <1>2, <2>1, <2>2 DEF Reboot, NetTypes, NetLabels
  <2>4. ASSUME NEW v \in Vms PROVE CallOK(v)'
    <3>1. pc'[v] = "idle" /\ call'[v] = Idle /\ row' = row /\ known' = known
      BY <1>2 DEF Reboot
    <3> QED BY <1>0, <3>1, IdleCall DEF CallFlow
  <2> QED BY <2>3, <2>4 DEF NetInv
<1> QED BY <1>1, <1>2

(* Every step keeps the invariant.                                         *)
LEMMA NetInvStep ==
    ASSUME NetInv, [Next]_vars
    PROVE  NetInv'
<1>1. CASE UNCHANGED vars
  <2>1. UNCHANGED <<operator, forward, proxy, links, address, rules, row, known, pc, call, faults>>
    BY <1>1 DEF vars, sysctls, attached, history
  <2>2. NetTypes'
    BY <2>1 DEF NetInv, NetTypes
  <2>3. ASSUME NEW v \in Vms PROVE CallOK(v)'
    <3>1. CallOK(v)
      BY DEF NetInv
    <3>2. CallTypes(v)' /\ CallFlow(v)' /\ Applied(v)' /\ Released(v)'
      BY <2>1, <3>1 DEF CallOK, CallTypes, CallFlow, Applied, Released, At, PlanFor
    <3>3. RolledBack(v)'
      BY <2>1, <3>1 DEF CallOK, RolledBack, At, Creating, Net, Leaves, Present
    <3> QED BY <3>2, <3>3 DEF CallOK
  <2> QED BY <2>2, <2>3 DEF NetInv
<1>2. ASSUME NEW v \in Vms,
             \/ InvokeCreate(v) \/ InvokeStart(v) \/ Select(v) \/ Apply(v) \/ Persist(v)
             \/ InvokeDelete(v) \/ Undo(v) \/ Finish(v) \/ Drop(v)
      PROVE  NetInv'
  BY <1>2, InvokesKeep, SelectKeeps, ApplyKeeps, PersistKeeps, InvokeDeleteKeeps, UndoKeeps,
     FinishKeeps, DropKeeps
<1> QED BY <1>1, <1>2, EndsKeep DEF Next

LEMMA NetInvInit ==
    ASSUME Init
    PROVE  NetInv
<1>1. operator.forward \in BOOLEAN /\ operator.proxy \in BOOLEAN
  BY OperatorAssumption DEF Init
<1>2. NetTypes
  BY <1>1, NetFaultsAssumption DEF Init, NetTypes, NetLabels
<1>3. ASSUME NEW v \in Vms PROVE CallOK(v)
  <2>1. pc[v] = "idle" /\ call[v] = Idle /\ row[v] = None
    BY DEF Init
  <2>2. CallTypes(v)
    BY <2>1, IdleFields DEF CallTypes
  <2>3. CallFlow(v) /\ Applied(v) /\ RolledBack(v) /\ Released(v)
    BY <2>1 DEF CallFlow, Applied, RolledBack, Released, At
  <2> QED BY <2>2, <2>3 DEF CallOK
<1> QED BY <1>2, <1>3 DEF NetInv

(* The invariant of every reachable state, however many calls are under    *)
(* way at once.                                                            *)
LEMMA NetInvHolds == Spec => []NetInv
BY NetInvInit, NetInvStep, PTL DEF Spec

(* For any number of VMs, any addresses and any number of concurrent calls *)
(* and failures: a failed creation whose cleanup worked leaves nothing of  *)
(* what it applied, and a deleted routed VM leaves nothing at all.         *)
THEOREM CleanupIsComplete == Spec => []NothingIsLeftBehind
<1>1. ASSUME NetInv PROVE NothingIsLeftBehind
  <2> SUFFICES ASSUME NEW v \in Vms, pc[v] = "drop"
               PROVE  /\ Creating(v) /\ ~call[v].failed =>
                           \A r \in call[v].applied \ {"forward"} :
                              \/ ~Present(v, r)
                              \/ r \in RuleKinds /\ Net(v).mode = "host_only" /\ "nat" \in call[v].applied
                      /\ call[v].op = "delete" /\ Net(v) # None /\ Net(v).mode = "lan" =>
                           links[v] = {} /\ address[v] = None /\ rules[v] = {}
    BY DEF NothingIsLeftBehind, At
  <2>1. CallFlow(v) /\ RolledBack(v) /\ Released(v)
    BY <1>1 DEF NetInv, CallOK
  <2>2. call[v].job = {}
    BY <2>1 DEF CallFlow, At
  <2>3. Creating(v) /\ ~call[v].failed => \A r \in call[v].applied \ {"forward"} : Leaves(v, r)
    BY <2>1 DEF RolledBack, At
  <2>4. call[v].op = "delete" /\ Net(v) # None /\ Net(v).mode = "lan" =>
          links[v] = {} /\ address[v] = None /\ rules[v] = {}
    BY <2>1, <2>2 DEF Released, At, Net
  <2> QED BY <2>2, <2>3, <2>4 DEF Leaves
<1> QED BY <1>1, NetInvHolds, PTL

-----------------------------------------------------------------------------
(* What the calls of two VMs share.                                        *)

(* The call of a VM that takes no step keeps what it has in place, but for *)
(* the sysctls.                                                            *)
LEMMA OtherInPlace ==
    ASSUME PairInv, NEW w \in Vms, pc'[w] = pc[w], call'[w] = call[w],
           links'[w] = links[w], address'[w] = address[w], rules'[w] = rules[w],
           alone' # w \/ UNCHANGED <<alone, forward, proxy>>
    PROVE  InPlace(w)'
<1> SUFFICES ASSUME pc[w] = "apply" PROVE InPlace(w)'
  BY DEF InPlace, At
<1>1. Net(w)' = Net(w) /\ PlanFor(Net(w))' = PlanFor(Net(w)) /\ (Creating(w)' <=> Creating(w))
  BY DEF Net, PlanFor, Creating
<1>2. /\ \A r \in PlanFor(Net(w)) \ {"up"} :
           r \in call[w].job \/ Present(w, r) \/ (r \in {"forward", "proxy"} /\ alone # w)
      /\ "up" \in call[w].job \/ "up" \in links[w] \/ call[w].existed
      /\ "tap" \in call[w].job /\ "tap" \in links[w] => call[w].existed \/ Creating(w)
  BY DEF PairInv, InPlace, At
<1>3. PlanFor(Net(w)) \subseteq Resources
  BY DEF PlanFor, HostOnlyPlan, LanPlan, Resources, Links, RuleKinds
<1>4. ASSUME NEW r \in Resources \ {"forward", "proxy"} PROVE Present(w, r)' <=> Present(w, r)
  BY <1>1 DEF Present, Net, Resources, Links, RuleKinds
<1>5. ASSUME NEW r \in {"forward", "proxy"}, UNCHANGED <<forward, proxy>>
      PROVE  Present(w, r)' <=> Present(w, r)
  BY <1>5 DEF Present, Links, RuleKinds
<1>6. \A r \in PlanFor(Net(w)) \ {"up"} :
           r \in call[w].job \/ Present(w, r)' \/ (r \in {"forward", "proxy"} /\ alone' # w)
  BY <1>2, <1>3, <1>4, <1>5
<1> QED BY <1>1, <1>2, <1>6 DEF InPlace, At

(* Fitting looks at the addresses of a network only.                       *)
LEMMA AlikeAreListed ==
    ASSUME NEW a, NEW b, Alike(a, b)
    PROVE  /\ Listed(a) = Listed(b)
           /\ \A net : SameAddresses(net, a) <=> SameAddresses(net, b)
BY DEF Alike, Listed, SameAddresses

(* A step of v's call keeps the addresses of v, or takes them away, or     *)
(* gives v new ones at the end of a creation.                              *)
LEMMA OtherFits ==
    ASSUME PairInv, NEW v \in Vms, NEW w \in Vms, v # w, UNCHANGED raced,
           \A u \in Vms \ {v} : row'[u] = row[u],
           \/ row'[v] = None
           \/ row[v] # None /\ Alike(row'[v], row[v])
           \/ Creating(v) /\ Fits(v, row'[v]),
           pc'[w] = pc[w], call'[w] = call[w]
    PROVE  Fitting(w)'
<1>0. /\ \A x, y \in Vms : Apart(x, y)' <=> Apart(x, y)
      /\ Net(w)' = Net(w) /\ (Creating(w)' <=> Creating(w)) /\ row'[w] = row[w]
  BY DEF Apart, Net, Creating
<1>1. Fitting(w) /\ (Creating(v) /\ Creating(w) => ~Apart(w, v))
  BY DEF PairInv, Histories, Apart
<1>2. ASSUME NEW net, Fits(w, net),
             row'[v] # None /\ Apart(w, v) => ~SameAddresses(net, row'[v])
      PROVE  Fits(w, net)'
  BY <1>0, <1>2 DEF Fits
<1>3. ASSUME row[w] # None PROVE Fits(w, row[w])'
  <2>1. Fits(w, row[w])
    BY <1>1, <1>3 DEF Fitting
  <2>2. ASSUME row'[v] # None, Apart(w, v) PROVE ~SameAddresses(row[w], row'[v])
    <3>1. CASE row[v] # None /\ Alike(row'[v], row[v])
      BY <2>1, <2>2, <3>1, AlikeAreListed DEF Fits
    <3>2. CASE Fits(v, row'[v])
      BY <1>3, <2>2, <3>2 DEF Fits, Apart, SameAddresses
    <3> QED BY <2>2, <3>1, <3>2
  <2> QED BY <1>2, <2>1, <2>2
<1>4. ASSUME pc[w] = "select", Creating(w), NEW u \in Vms \ {w}, row'[u] # None,
             row'[u].mode = Net(w).mode, Apart(w, u)
      PROVE  Listed(row'[u]) \in call[w].used
  <2>0. \A x \in Vms \ {w} : row[x] # None /\ row[x].mode = Net(w).mode /\ Apart(w, x) =>
            Listed(row[x]) \in call[w].used
    BY <1>1, <1>4 DEF Fitting, At
  <2>1. CASE u # v
    BY <1>4, <2>0, <2>1
  <2>2. CASE u = v
    <3>1. row[v] # None /\ Alike(row'[v], row[v])
      BY <1>1, <1>4, <2>2
    <3>2. row[v].mode = Net(w).mode
      BY <1>4, <2>2, <3>1 DEF Alike
    <3> QED BY <1>4, <2>0, <2>2, <3>1, <3>2, AlikeAreListed
  <2> QED BY <2>1, <2>2
<1>5. ASSUME pc[w] = "apply", Creating(w) PROVE Fits(w, Net(w))'
  <2>1. Fits(w, Net(w))
    BY <1>1, <1>5 DEF Fitting, At
  <2>2. ASSUME row'[v] # None, Apart(w, v) PROVE ~SameAddresses(Net(w), row'[v])
    <3>1. row[v] # None /\ Alike(row'[v], row[v])
      BY <1>1, <1>5, <2>2
    <3> QED BY <2>1, <2>2, <3>1, AlikeAreListed DEF Fits
  <2>3. Fits(w, call[w].net)'
    BY <1>2, <2>1, <2>2 DEF Net
  <2> QED BY <2>3 DEF Net, Fits
<1>6. (pc[w] = "select" \/ pc[w] = "apply") /\ ~Creating(w) => row[w] # None /\ Alike(Net(w), row[w])
  BY <1>1 DEF Fitting, At
<1>7. (row[w] # None => Fits(w, row[w]))'
  BY <1>0, <1>3
<1>8. pc'[w] = "select" /\ Creating(w)' =>
         \A u \in Vms \ {w} : row'[u] # None /\ row'[u].mode = Net(w)'.mode /\ Apart(w, u)' =>
             Listed(row'[u]) \in call'[w].used
  BY <1>0, <1>4
<1>9. pc'[w] = "apply" /\ Creating(w)' => Fits(w, Net(w))'
  BY <1>0, <1>5
<1> QED BY <1>0, <1>6, <1>7, <1>8, <1>9 DEF Fitting, At, Listed

(* What is left to show of a step of v's call.                             *)
LEMMA PairStep ==
    ASSUME PairInv, NetInv', NEW v \in Vms, pc[v] # "idle", UNCHANGED history, Untouched(v),
           Creating(v)' => Creating(v),
           InPlace(v)', Fitting(v)',
           \/ row'[v] = None
           \/ row[v] # None /\ Alike(row'[v], row[v])
           \/ Creating(v) /\ Fits(v, row'[v])
    PROVE  PairInv'
<1>0. UNCHANGED <<alone, raced>>
  BY DEF history
<1>1. alone \in {v, None}
  BY DEF PairInv, Histories, At
<1>2. \A w \in Vms \ {v} : /\ pc'[w] = pc[w] /\ call'[w] = call[w] /\ row'[w] = row[w]
                           /\ links'[w] = links[w] /\ address'[w] = address[w] /\ rules'[w] = rules[w]
  BY DEF Untouched
<1>3. ASSUME NEW w \in Vms, w # v PROVE InPlace(w)' /\ Fitting(w)'
  <2>1. alone' # w
    BY <1>0, <1>1, <1>3, NoneAssumption
  <2> QED BY <1>0, <1>2, <1>3, <2>1, OtherInPlace, OtherFits
<1>4. \A x, y \in Vms : Apart(x, y)' <=> Apart(x, y)
  BY <1>0 DEF Apart
<1>5. \A w \in Vms : Creating(w)' => Creating(w)
  BY <1>2 DEF Creating
<1>6. Histories'
  BY <1>0, <1>1, <1>2, <1>4, <1>5, NoneAssumption DEF PairInv, Histories, At
<1> QED BY <1>3, <1>6 DEF PairInv

(* A call that ends, or undoes: nothing but the row is of interest.        *)
LEMMA PairEnd ==
    ASSUME PairInv, NetInv', NEW v \in Vms, pc[v] # "idle", UNCHANGED history, Untouched(v),
           Creating(v)' => Creating(v),
           pc'[v] \in {"idle", "undo", "drop"}, row'[v] = row[v] \/ row'[v] = None
    PROVE  PairInv'
<1>1. InPlace(v)'
  BY DEF InPlace, At
<1>2. ASSUME row'[v] # None PROVE Fits(v, row[v])'
  <2>1. Fits(v, row[v]) /\ row'[v] = row[v]
    BY <1>2 DEF PairInv, Fitting
  <2>2. UNCHANGED raced /\ \A w \in Vms \ {v} : row'[w] = row[w]
    BY DEF history, Untouched
  <2> QED BY <2>1, <2>2 DEF Fits, Apart
<1>3. Fitting(v)'
  BY <1>2 DEF Fitting, At
<1>4. row'[v] = None \/ (row[v] # None /\ Alike(row'[v], row[v]))
  BY DEF Alike
<1> QED BY <1>1, <1>3, <1>4, PairStep

(* Rows that stay fit as long as no more pairs count.                      *)
LEMMA SameRows ==
    ASSUME NEW w \in Vms, Fitting(w), row' = row,
           \A u \in Vms \ {w} : row[u] # None /\ Apart(w, u)' => Apart(w, u)
    PROVE  /\ (row[w] # None => Fits(w, row[w]))'
           /\ pc'[w] = pc[w] /\ call'[w] = call[w] => Fitting(w)'
<1>1. ASSUME NEW net, Fits(w, net) PROVE Fits(w, net)'
  BY <1>1 DEF Fits
<1>2. row[w] # None => Fits(w, row[w])'
  <2>1. ASSUME NEW net, net = row[w], net # None PROVE Fits(w, net)'
    BY <1>1, <2>1 DEF Fitting
  <2> QED BY <2>1
<1>3. (row[w] # None => Fits(w, row[w]))'
  BY <1>2
<1>4. ASSUME pc'[w] = pc[w], call'[w] = call[w] PROVE Fitting(w)'
  <2>1. Net(w)' = Net(w) /\ (Creating(w)' <=> Creating(w))
    BY <1>4 DEF Net, Creating
  <2>2. ASSUME pc[w] = "apply", Creating(w) PROVE Fits(w, Net(w))'
    <3>1. ASSUME NEW net, net = Net(w) PROVE Fits(w, net)'
      BY <1>1, <2>2, <3>1 DEF Fitting, At
    <3> QED BY <2>1, <3>1
  <2>3. ASSUME pc[w] = "select", Creating(w), NEW u \in Vms \ {w}, row[u] # None,
               row[u].mode = Net(w).mode, Apart(w, u)'
        PROVE  Listed(row[u]) \in call[w].used
    BY <2>3 DEF Fitting, At
  <2>4. (pc[w] = "select" \/ pc[w] = "apply") /\ ~Creating(w) => row[w] # None /\ Alike(Net(w), row[w])
    BY DEF Fitting, At
  <2> QED BY <1>3, <1>4, <2>1, <2>2, <2>3, <2>4 DEF Fitting, At, Listed
<1> QED BY <1>3, <1>4

(* A call is entered.                                                      *)
LEMMA PairInvoke ==
    ASSUME PairInv, NetInv', NEW v \in Vms, Begin(v),
           \/ InvokeCreate(v) /\ BeginCreate(v)
           \/ (InvokeStart(v) \/ InvokeDelete(v)) /\ UNCHANGED raced
    PROVE  PairInv'
<1>0. /\ NetInv /\ NetTypes /\ Histories /\ UNCHANGED <<row, links, address, rules, forward, proxy>>
      /\ pc[v] = "idle"
  BY DEF PairInv, NetInv, InvokeCreate, InvokeStart, InvokeDelete, sysctls, attached, Idling, At
<1>1. \A w \in Vms \ {v} : pc'[w] = pc[w] /\ call'[w] = call[w]
  BY <1>0 DEF InvokeCreate, InvokeStart, InvokeDelete, Goto, Update, NetTypes
<1>2. pc'[v] \in {"select", "undo"}
  BY <1>0 DEF InvokeCreate, InvokeStart, InvokeDelete, Goto, NetTypes
<1>3. alone' \in {v, None} /\ (alone' = v => \A w \in Vms : pc[w] = "idle")
  BY NoneAssumption DEF Begin, Quiet, At
<1>4. ASSUME NEW w \in Vms PROVE InPlace(w)'
  <2>1. CASE w = v
    BY <1>2, <2>1 DEF InPlace, At
  <2>2. CASE w # v
    <3>1. alone' # w
      BY <1>3, <2>2, NoneAssumption
    <3> QED BY <1>0, <1>1, <2>2, <3>1, OtherInPlace
  <2> QED BY <2>1, <2>2
<1>5. CASE InvokeCreate(v) /\ BeginCreate(v)
  <2>1. row[v] = None
    BY <1>0, <1>5 DEF InvokeCreate, NetInv, CallOK, CallFlow
  <2>2. raced' = [w \in Vms |-> IF w = v THEN {u \in Vms : Creating(u)} ELSE raced[w] \ {v}]
    BY <1>5 DEF BeginCreate
  <2>3. raced'[v] = {u \in Vms : Creating(u)} /\ \A w \in Vms \ {v} : raced'[w] = raced[w] \ {v}
    BY <2>2
  <2>4. ASSUME NEW x \in Vms \ {v}, NEW y \in Vms \ {v} PROVE Apart(x, y)' <=> Apart(x, y)
    BY <2>3 DEF Apart
  <2>5. ASSUME NEW w \in Vms \ {v} PROVE Fitting(w)'
    <3>1. \A u \in Vms \ {w} : row[u] # None /\ Apart(w, u)' => Apart(w, u)
      BY <2>1, <2>4
    <3> QED BY <1>0, <1>1, <3>1, SameRows DEF PairInv
  <2>6. PICK net \in Requested :
          Update(v, [Idle EXCEPT !.op = "create", !.used = UsedBy(net.mode), !.net = net])
    BY <1>5 DEF InvokeCreate
  <2> DEFINE n == [Idle EXCEPT !.op = "create", !.used = UsedBy(net.mode), !.net = net]
  <2>7. call'[v] = n
    BY <1>0, <2>6 DEF Update, NetTypes
  <2>8. n.net = net /\ n.op = "create" /\ n.used = UsedBy(net.mode)
    BY DEF Idle
  <2> HIDE DEF n
  <2>9. Net(v)' = net /\ Creating(v)' /\ pc'[v] = "select"
    BY <1>0, <1>5, <2>7, <2>8 DEF Net, Creating, InvokeCreate, Goto, NetTypes
  <2>10. \A w \in Vms \ {v} : row[w] # None /\ row[w].mode = net.mode => Listed(row[w]) \in call'[v].used
    BY <2>7, <2>8 DEF UsedBy
  <2>11. Fitting(v)'
    BY <1>0, <2>1, <2>9, <2>10 DEF Fitting, At, Listed
  <2>12. ASSUME NEW x \in Vms, NEW y \in Vms, x # y, Creating(x)', Creating(y)' PROVE ~Apart(x, y)'
    <3>1. \A w \in Vms \ {v} : Creating(w)' <=> Creating(w)
      BY <1>1 DEF Creating
    <3>2. CASE x # v /\ y # v
      BY <1>0, <2>4, <2>12, <3>1, <3>2 DEF Histories
    <3>3. CASE x = v
      BY <2>3, <2>12, <3>1, <3>3 DEF Apart
    <3>4. CASE y = v
      BY <2>3, <2>12, <3>1, <3>4 DEF Apart
    <3> QED BY <3>2, <3>3, <3>4
  <2>13. raced' \in [Vms -> SUBSET Vms]
    BY <1>0, <2>2 DEF Histories
  <2>14. Histories'
    BY <1>1, <1>3, <2>12, <2>13, NoneAssumption DEF Histories, At
  <2> QED BY <1>4, <2>5, <2>11, <2>14 DEF PairInv
<1>6. CASE (InvokeStart(v) \/ InvokeDelete(v)) /\ UNCHANGED raced
  <2>1. \A x, y \in Vms : Apart(x, y)' <=> Apart(x, y)
    BY <1>6 DEF Apart
  <2>2. ASSUME NEW w \in Vms
        PROVE  /\ (row[w] # None => Fits(w, row[w]))'
               /\ pc'[w] = pc[w] /\ call'[w] = call[w] => Fitting(w)'
    BY <1>0, <2>1, SameRows DEF PairInv
  <2> DEFINE n == [Idle EXCEPT !.op = "start", !.net = row[v]]
             d == [Idle EXCEPT !.op = "delete", !.net = row[v],
                    !.job = IF row[v] = None THEN {} ELSE UndoRecorded(row[v])]
  <2>3. \/ row[v] # None /\ call'[v] = n
        \/ pc'[v] = "undo" /\ call'[v] = d
    BY <1>0, <1>6 DEF InvokeStart, InvokeDelete, Goto, Update, NetTypes
  <2>4. n.net = row[v] /\ n.op = "start" /\ d.op = "delete"
    BY DEF Idle
  <2> HIDE DEF n, d
  <2>5. ~Creating(v)' /\ (pc'[v] = "select" => row[v] # None /\ Net(v)' = row[v])
    BY <2>3, <2>4 DEF Creating, Net
  <2>6. Fitting(v)'
    BY <1>0, <1>2, <2>2, <2>5 DEF Fitting, At, Alike
  <2>7. \A w \in Vms : Creating(w)' => Creating(w)
    BY <1>1, <2>5 DEF Creating
  <2>8. Histories'
    BY <1>0, <1>1, <1>3, <1>6, <2>1, <2>7, NoneAssumption DEF Histories, At
  <2> QED BY <1>1, <1>4, <2>2, <2>6, <2>8 DEF PairInv
<1> QED BY <1>5, <1>6

(* A block that does not conflict with a guest's address is not its block. *)
LEMMA OtherBlock ==
    ASSUME NEW a \in Blocks, NEW b \in Blocks, ~Conflicts(a, [address |-> b + 2, size |-> 1])
    PROVE  a # b
<1>1. b \in Nat /\ b % 4 = 0
  BY PoolAssumption DEF Blocks
<1>2. b \div 4 = (b + 2) \div 4
  BY <1>1
<1>3. Conflicts(b, [address |-> b + 2, size |-> 1])
  BY <1>2 DEF Conflicts
<1> QED BY <1>3

(* What a creation chooses fits.                                           *)
LEMMA ChosenFits ==
    ASSUME PairInv, NEW v \in Vms, pc[v] = "select", Creating(v),
           NEW block \in OfferedBlocks(v), NEW lan \in LanOffers(v)
    PROVE  Fits(v, Chosen(v, block, lan))
<1> DEFINE net == Chosen(v, block, lan)
<1>1. /\ Net(v) \in Requested /\ NetTypes
      /\ \A w \in Vms \ {v} : row[w] # None /\ row[w].mode = Net(v).mode /\ Apart(v, w) =>
             Listed(row[w]) \in call[v].used
  BY DEF PairInv, NetInv, CallOK, CallFlow, Fitting, At, Creating, Net
<1>2. /\ block \in Blocks /\ \A u \in Occupied(v) : ~Conflicts(block, u)
      /\ lan \in Nat \cup {None}
      /\ Net(v).mode = "lan" => ValidLanAddress(lan) /\ lan \notin call[v].used
  BY <1>1, Offers
<1>3. net.mode = Net(v).mode /\ net.block = block /\ net.lan = lan
  BY <1>1, <1>2, ChosenType
<1>4. \A u \in OperatorNets : ~Conflicts(net.block, u)
  BY <1>2, <1>3 DEF Occupied, LiveAddresses
<1>5. ASSUME NEW w \in Vms \ {v}, row[w] # None, Apart(v, w), row[w].mode = net.mode
      PROVE  IF net.mode = "lan" THEN net.lan # row[w].lan ELSE net.block # row[w].block
  <2>1. row[w] \in Networks /\ Listed(row[w]) \in call[v].used
    BY <1>1, <1>3, <1>5 DEF NetTypes
  <2>2. CASE net.mode = "lan"
    <3>1. row[w].lan \in call[v].used
      BY <1>5, <2>1, <2>2 DEF Listed
    <3> QED BY <1>2, <1>3, <2>2, <3>1
  <2>3. CASE net.mode # "lan"
    <3>1. net.mode = "host_only"
      BY <1>1, <1>3, <2>3 DEF Requested
    <3>2. [address |-> row[w].block + 2, size |-> 1] \in call[v].used
      BY <1>5, <2>1, <3>1 DEF Listed
    <3>3. [address |-> row[w].block + 2, size |-> 1] \in Occupied(v)
      BY <1>1, <1>3, <3>1, <3>2 DEF Occupied
    <3>4. row[w].block \in Blocks
      BY <2>1 DEF Networks
    <3> QED BY <1>2, <1>3, <2>3, <3>3, <3>4, OtherBlock
  <2> QED BY <2>2, <2>3
<1> HIDE DEF net
<1>6. net.mode = "lan" => ValidLanAddress(net.lan)
  BY <1>2, <1>3
<1>7. Fits(v, net)
  BY <1>4, <1>5, <1>6 DEF Fits, SameAddresses
<1> QED BY <1>7 DEF net

(* What a command establishes is in place, and nothing else is taken away. *)
LEMMA EstablishedIsPresent ==
    ASSUME NetTypes, NEW v \in Vms, NEW r \in Resources, Establish(v, r), call'[v].net = call[v].net
    PROVE  Present(v, r)' /\ \A s \in Resources : Present(v, s) => Present(v, s)'
<1>1. Net(v)' = Net(v)
  BY DEF Net
<1>2. /\ links'[v] = (IF r \in Links THEN links[v] \cup {r} ELSE links[v])
      /\ address'[v] = (IF r = "addr" THEN Net(v).block ELSE address[v])
      /\ rules'[v] = (IF r \in RuleKinds THEN rules[v] \cup {r} ELSE rules[v])
      /\ forward' = (forward \/ r = "forward") /\ proxy' = (proxy \/ r = "proxy")
  BY DEF Establish, NetTypes
<1>3. ASSUME NEW s \in Resources, Present(v, s) \/ s = r PROVE Present(v, s)'
  <2>1. CASE s \in Links
    <3>1. (Present(v, s) <=> s \in links[v]) /\ (Present(v, s)' <=> s \in links'[v])
      BY <2>1 DEF Present, Links, RuleKinds
    <3> QED BY <1>2, <1>3, <2>1, <3>1
  <2>2. CASE s \in RuleKinds
    BY <1>2, <1>3, <2>2 DEF Present, Links, RuleKinds
  <2>3. CASE s = "addr"
    <3>1. (Present(v, s) <=> address[v] = Net(v).block) /\ (Present(v, s)' <=> address'[v] = Net(v).block)
      BY <1>1, <2>3 DEF Present, Links, RuleKinds
    <3> QED BY <1>2, <1>3, <2>3, <3>1
  <2>4. CASE s = "forward"
    BY <1>2, <1>3, <2>4 DEF Present, Links, RuleKinds
  <2>5. CASE s = "proxy"
    BY <1>2, <1>3, <2>5 DEF Present, Links, RuleKinds
  <2> QED BY <2>1, <2>2, <2>3, <2>4, <2>5 DEF Resources
<1> QED BY <1>3

(* A step of v's call that keeps to the network it is about.               *)
LEMMA PairSelect ==
    ASSUME PairInv, NetInv', NEW v \in Vms, UNCHANGED history, Select(v)
    PROVE  PairInv'
<1> DEFINE c == call[v]
<1>0. /\ NetInv /\ NetTypes /\ row' = row /\ pc[v] = "select" /\ DOMAIN c = CallFields
      /\ UNCHANGED <<links, address, rules, raced>>
      /\ \A w \in Vms \ {v} : w \in known' <=> w \in known
  BY DEF PairInv, NetInv, CallOK, CallTypes, Select, At, attached, history
<1>1. \A w \in Vms \ {v} : pc'[w] = pc[w] /\ call'[w] = call[w]
  BY <1>0 DEF Select, Return, Goto, Update, NetTypes
<1>2. Untouched(v)
  BY <1>0, <1>1 DEF Untouched
<1>3. (row[v] # None => Fits(v, row[v]))' /\ (row'[v] = None \/ (row[v] # None /\ Alike(row'[v], row[v])))
  <2>1. \A u \in Vms \ {v} : row[u] # None /\ Apart(v, u)' => Apart(v, u)
    BY <1>0 DEF Apart
  <2> QED BY <1>0, <2>1, SameRows DEF PairInv, Alike
<1>4. ASSUME NEW net, pc'[v] = "apply", call'[v].net = net, call'[v].job = PlanFor(net),
             call'[v].op = c.op, "tap" \in links[v] => call'[v].existed \/ Creating(v),
             IF Creating(v) THEN Fits(v, net) ELSE row[v] # None /\ Alike(net, row[v])
      PROVE  PairInv'
  <2>1. Net(v)' = net /\ (Creating(v)' <=> Creating(v))
    BY <1>4 DEF Net, Creating
  <2>2. PlanFor(Net(v))' = PlanFor(net) /\ "up" \in PlanFor(net)
    BY <2>1 DEF PlanFor, LanPlan, HostOnlyPlan
  <2>3. InPlace(v)'
    BY <1>0, <1>4, <2>1, <2>2 DEF InPlace
  <2>4. Creating(v) => Fits(v, net)'
    BY <1>0, <1>4 DEF Fits, Apart
  <2>5. Creating(v) => Fits(v, Net(v))'
    BY <2>1, <2>4
  <2>6. Fitting(v)'
    BY <1>0, <1>3, <1>4, <2>1, <2>5 DEF Fitting, At
  <2> QED BY <1>0, <1>2, <1>3, <2>1, <2>3, <2>6, PairStep
<1>5. ASSUME Creating(v), NEW block \in OfferedBlocks(v), NEW lan \in LanOffers(v),
             Update(v, [c EXCEPT !.net = Chosen(v, block, lan), !.used = {}, !.job = PlanFor(Net(v)),
                                 !.forwardWas = forward, !.proxyWas = proxy]),
             Goto(v, "apply")
      PROVE  PairInv'
  <2>1. PICK net : net = Chosen(v, block, lan)
    OBVIOUS
  <2>2. Fits(v, net)
    BY <1>0, <1>5, <2>1, ChosenFits
  <2>3. Net(v) \in Requested
    BY <1>0, <1>5 DEF NetInv, CallOK, CallFlow, At, Creating, Net
  <2>4. PlanFor(Net(v)) = PlanFor(net)
    <3>1. block \in Blocks /\ lan \in Nat \cup {None}
      BY <2>3, Offers
    <3>2. net.mode = Net(v).mode
      BY <1>0, <2>1, <2>3, <3>1, ChosenType
    <3> QED BY <3>2 DEF PlanFor
  <2> DEFINE n == [c EXCEPT !.net = net, !.used = {}, !.job = PlanFor(Net(v)),
                            !.forwardWas = forward, !.proxyWas = proxy]
  <2>5. Update(v, n)
    BY <1>5, <2>1
  <2>6. n.net = net /\ n.job = PlanFor(net) /\ n.op = c.op
    BY <1>0, <2>4 DEF CallFields
  <2> HIDE DEF n
  <2>7. pc'[v] = "apply" /\ call'[v] = n
    BY <1>0, <1>5, <2>5, CallEffect DEF NetLabels
  <2> QED BY <1>4, <1>5, <2>2, <2>6, <2>7
<1>6. ASSUME ~Creating(v), Goto(v, "apply"),
             Update(v, [c EXCEPT !.job = PlanFor(Net(v)), !.existed = "tap" \in links[v],
                                 !.forwardWas = forward, !.proxyWas = proxy])
      PROVE  PairInv'
  <2> DEFINE n == [c EXCEPT !.job = PlanFor(Net(v)), !.existed = "tap" \in links[v],
                            !.forwardWas = forward, !.proxyWas = proxy]
  <2>1. row[v] # None /\ Alike(c.net, row[v])
    BY <1>0, <1>6 DEF PairInv, Fitting, At, Net
  <2>2. n.net = c.net /\ n.job = PlanFor(c.net) /\ n.op = c.op /\ (n.existed <=> "tap" \in links[v])
    BY <1>0 DEF CallFields, Net
  <2>3. Update(v, n)
    BY <1>6
  <2> HIDE DEF n
  <2>4. pc'[v] = "apply" /\ call'[v] = n
    BY <1>0, <1>6, <2>3, CallEffect DEF NetLabels
  <2> QED BY <1>4, <1>6, <2>1, <2>2, <2>4
<1>7. ASSUME Return(v) PROVE PairInv'
  <2>1. pc'[v] = "idle" /\ ~Creating(v)'
    BY <1>0, <1>7, IdleFields, NoneAssumption DEF Return, Goto, Update, NetTypes, Creating
  <2> QED BY <1>0, <1>2, <2>1, PairEnd
<1> QED BY <1>5, <1>6, <1>7 DEF Select

LEMMA PairApply ==
    ASSUME PairInv, NetInv', NEW v \in Vms, UNCHANGED history, Apply(v)
    PROVE  PairInv'
<1> DEFINE c == call[v]
<1>0. /\ NetInv /\ NetTypes /\ row' = row /\ known' = known /\ pc[v] = "apply" /\ DOMAIN c = CallFields
      /\ c.job \subseteq Resources /\ UNCHANGED <<alone, raced>>
  BY DEF PairInv, NetInv, CallOK, CallTypes, Apply, At, history
<1>1. PICK r \in c.job :
           \/ /\ Skips(v, r)
              /\ Update(v, [call[v] EXCEPT !.job = Rest(v, r)])
              /\ UNCHANGED <<sysctls, attached, pc, faults>>
           \/ /\ ~Skips(v, r) /\ Establish(v, r)
              /\ Update(v, [call[v] EXCEPT !.job = Rest(v, r), !.applied = @ \cup Recorded(r)])
              /\ UNCHANGED <<pc, faults>>
           \/ /\ Goto(v, "undo") /\ UNCHANGED <<sysctls, attached>>
              /\ Update(v, [call[v] EXCEPT !.job = UndoAttempt(v), !.strict = TRUE])
  BY DEF Apply
<1>2. Untouched(v)
  <2>1. \A w \in Vms \ {v} : pc'[w] = pc[w] /\ call'[w] = call[w]
    BY <1>0, <1>1 DEF Goto, Update, NetTypes
  <2>2. \A w \in Vms \ {v} : links'[w] = links[w] /\ address'[w] = address[w] /\ rules'[w] = rules[w]
    BY <1>0, <1>1 DEF Establish, attached, NetTypes
  <2> QED BY <1>0, <2>1, <2>2 DEF Untouched
<1>3. (row[v] # None => Fits(v, row[v]))' /\ (row'[v] = None \/ (row[v] # None /\ Alike(row'[v], row[v])))
  <2>1. \A u \in Vms \ {v} : row[u] # None /\ Apart(v, u)' => Apart(v, u)
    BY <1>0 DEF Apart
  <2> QED BY <1>0, <2>1, SameRows DEF PairInv, Alike
<1>4. /\ \A s \in PlanFor(c.net) \ {"up"} :
           s \in c.job \/ Present(v, s) \/ (s \in {"forward", "proxy"} /\ alone # v)
      /\ "up" \in c.job \/ "up" \in links[v] \/ c.existed
      /\ "tap" \in c.job /\ "tap" \in links[v] => c.existed \/ Creating(v)
      /\ Creating(v) => Fits(v, c.net)
      /\ ~Creating(v) => row[v] # None /\ Alike(c.net, row[v])
  BY <1>0 DEF PairInv, InPlace, Fitting, At, Net
<1>5. ASSUME NEW n, Update(v, n), UNCHANGED pc, n.net = c.net, n.job = Rest(v, r), n.op = c.op,
             n.existed = c.existed, Present(v, r)', \A s \in Resources : Present(v, s) => Present(v, s)',
             links'[v] = links[v] \cup (IF r \in Links THEN {r} ELSE {})
      PROVE  PairInv'
  <2>1. pc'[v] = "apply" /\ call'[v] = n
    BY <1>0, <1>5, UpdateEffect
  <2>2. PlanFor(c.net) \subseteq Resources
    BY DEF PlanFor, HostOnlyPlan, LanPlan, Resources, Links, RuleKinds
  <2>3. \A s \in c.job : s \in {r, "up"} \/ s \in Rest(v, r)
    BY DEF Rest
  <2>4. \A s \in PlanFor(c.net) \ {"up"} :
           s \in n.job \/ Present(v, s)' \/ (s \in {"forward", "proxy"} /\ alone' # v)
    BY <1>0, <1>4, <1>5, <2>2, <2>3
  <2>5. "up" \in n.job \/ "up" \in links'[v] \/ n.existed
    <3>1. CASE "up" \notin c.job
      BY <1>4, <1>5, <3>1
    <3>2. CASE "up" \in c.job /\ r = "up"
      BY <1>5, <3>2 DEF Links
    <3>3. CASE "up" \in c.job /\ r # "up" /\ ~(r = "tap" /\ Skips(v, r))
      BY <1>5, <3>3 DEF Rest
    <3>4. CASE r = "tap" /\ Skips(v, r)
      <4>1. "tap" \in links[v] /\ ~Creating(v)
        BY <3>4 DEF Skips, Present, Links, RuleKinds
      <4> QED BY <1>1, <1>4, <1>5, <3>4, <4>1
    <3> QED BY <3>1, <3>2, <3>3, <3>4
  <2>6. "tap" \in n.job /\ "tap" \in links'[v] => n.existed \/ Creating(v)
    <3>1. "tap" \in n.job => "tap" \in c.job /\ r # "tap"
      BY <1>5 DEF Rest
    <3> QED BY <1>4, <1>5, <3>1
  <2>7. Net(v)' = c.net /\ (Creating(v)' <=> Creating(v)) /\ PlanFor(Net(v))' = PlanFor(c.net)
    BY <1>5, <2>1 DEF Net, Creating, PlanFor
  <2>8. InPlace(v)'
    BY <1>5, <2>1, <2>4, <2>5, <2>6, <2>7 DEF InPlace
  <2>9. PICK net : net = c.net
    OBVIOUS
  <2>10. Creating(v) => Fits(v, net)'
    BY <1>0, <1>4, <2>9 DEF Fits, Apart
  <2>11. Creating(v) => Fits(v, Net(v))'
    BY <2>7, <2>9, <2>10
  <2>12. Fitting(v)'
    BY <1>0, <1>3, <1>4, <2>1, <2>7, <2>11 DEF Fitting, At
  <2> QED BY <1>0, <1>2, <1>3, <2>7, <2>8, <2>12, PairStep
<1>6. CASE /\ Skips(v, r)
           /\ Update(v, [call[v] EXCEPT !.job = Rest(v, r)])
           /\ UNCHANGED <<sysctls, attached, pc, faults>>
  <2> DEFINE n == [c EXCEPT !.job = Rest(v, r)]
  <2>1. n.net = c.net /\ n.job = Rest(v, r) /\ n.op = c.op /\ n.existed = c.existed
    BY <1>0 DEF CallFields
  <2>2. UNCHANGED <<operator, forward, proxy, links, address, rules, pc>> /\ Update(v, n)
    BY <1>6 DEF sysctls, attached
  <2> HIDE DEF n
  <2>3. Net(v)' = Net(v)
    BY <1>0, <2>1, <2>2, UpdateEffect DEF Net
  <2>4. ASSUME NEW s \in Resources PROVE Present(v, s)' <=> Present(v, s)
    BY <2>2, <2>3 DEF Present
  <2>5. Present(v, r) /\ r \in Resources
    BY <1>0, <1>6 DEF Skips
  <2>6. Present(v, r)' /\ \A s \in Resources : Present(v, s) => Present(v, s)'
    BY <2>4, <2>5
  <2>7. r \in Links => r \in links[v]
    BY <2>5 DEF Present, Links, RuleKinds
  <2> QED BY <1>5, <2>1, <2>2, <2>6, <2>7
<1>7. CASE /\ ~Skips(v, r) /\ Establish(v, r)
           /\ Update(v, [call[v] EXCEPT !.job = Rest(v, r), !.applied = @ \cup Recorded(r)])
           /\ UNCHANGED <<pc, faults>>
  <2> DEFINE n == [c EXCEPT !.job = Rest(v, r), !.applied = @ \cup Recorded(r)]
  <2>1. n.net = c.net /\ n.job = Rest(v, r) /\ n.op = c.op /\ n.existed = c.existed
    BY <1>0 DEF CallFields
  <2>2. UNCHANGED pc /\ Update(v, n)
    BY <1>7
  <2> HIDE DEF n
  <2>3. call'[v].net = call[v].net
    BY <1>0, <2>1, <2>2, UpdateEffect
  <2>4. Present(v, r)' /\ \A s \in Resources : Present(v, s) => Present(v, s)'
    BY <1>0, <1>7, <2>3, EstablishedIsPresent
  <2>5. links'[v] = links[v] \cup (IF r \in Links THEN {r} ELSE {})
    BY <1>0, <1>7 DEF Establish, NetTypes
  <2> QED BY <1>5, <2>1, <2>2, <2>4, <2>5
<1>8. CASE Goto(v, "undo") /\ Update(v, [call[v] EXCEPT !.job = UndoAttempt(v), !.strict = TRUE])
  <2>1. pc'[v] = "undo" /\ call'[v].op = c.op
    BY <1>0, <1>8 DEF Goto, Update, NetTypes, CallFields
  <2>2. Creating(v)' <=> Creating(v)
    BY <2>1 DEF Creating
  <2> QED BY <1>0, <1>2, <2>1, <2>2, PairEnd
<1> QED BY <1>1, <1>6, <1>7, <1>8

(* The row is written: that of a creation fits, that of a start keeps its  *)
(* addresses.                                                              *)
LEMMA PairPersist ==
    ASSUME PairInv, NetInv', NEW v \in Vms, UNCHANGED history, Persist(v)
    PROVE  PairInv'
<1> DEFINE c == call[v]
<1>0. /\ NetInv /\ NetTypes /\ pc[v] = "apply" /\ c.net \in Networks /\ DOMAIN c = CallFields
      /\ UNCHANGED <<links, address, rules, known, raced>>
      /\ Creating(v) => Fits(v, c.net)
      /\ ~Creating(v) => row[v] # None /\ Alike(c.net, row[v]) /\ Fits(v, row[v])
  BY DEF PairInv, NetInv, CallOK, CallFlow, CallTypes, Persist, At, Fitting, Net, attached, history
<1>1. /\ \A w \in Vms \ {v} : pc'[w] = pc[w] /\ call'[w] = call[w] /\ row'[w] = row[w]
      /\ pc'[v] \in {"idle", "undo"}
  BY <1>0 DEF Persist, Return, Goto, Update, NetTypes
<1>2. Untouched(v)
  BY <1>0, <1>1 DEF Untouched
<1>3. Creating(v)' => Creating(v)
  BY <1>0, IdleFields, NoneAssumption DEF Persist, Return, Update, NetTypes, Creating, CallFields
<1>4. CASE UNCHANGED row
  BY <1>0, <1>1, <1>2, <1>3, <1>4, PairEnd
<1>5. CASE row' = [row EXCEPT ![v] = Outcome(v)]
  <2>1. PICK net : net = Outcome(v)
    OBVIOUS
  <2>2. row'[v] = net
    BY <1>0, <1>5, <2>1 DEF NetTypes
  <2>3. Alike(net, c.net)
    BY <1>0, <2>1 DEF Outcome, Net, Networks, Alike
  <2>4. Fits(v, net) /\ (~Creating(v) => Alike(net, row[v]))
    BY <1>0, <2>3 DEF Fits, Alike, SameAddresses
  <2>5. Fits(v, net)'
    BY <1>0, <1>1, <2>4 DEF Fits, Apart
  <2>6. (row[v] # None => Fits(v, row[v]))'
    BY <2>2, <2>5
  <2>7. InPlace(v)' /\ Fitting(v)'
    BY <1>1, <2>6 DEF InPlace, Fitting, At
  <2> QED BY <1>0, <1>2, <1>3, <2>2, <2>4, <2>7, PairStep
<1> QED BY <1>4, <1>5 DEF Persist

LEMMA PairRest ==
    ASSUME PairInv, NetInv', NEW v \in Vms, UNCHANGED history,
           Undo(v) \/ Finish(v) \/ Drop(v) \/ Crash(v)
    PROVE  PairInv'
<1>0. NetTypes /\ DOMAIN call[v] = CallFields
  BY DEF PairInv, NetInv, CallOK, CallTypes
<1>1. pc[v] # "idle" /\ pc'[v] \in {"idle", "undo", "drop"}
  BY <1>0 DEF Undo, Finish, Drop, Crash, Return, Goto, NetTypes, At
<1>2. row'[v] = row[v] \/ row'[v] = None
  BY <1>0 DEF Undo, Finish, Drop, Crash, NetTypes
<1>3. \A w \in Vms \ {v} : pc'[w] = pc[w] /\ row'[w] = row[w] /\ (w \in known' <=> w \in known)
  BY <1>0 DEF Undo, Finish, Drop, Crash, Return, Goto, NetTypes
<1>4. /\ \A w \in Vms \ {v} : call'[w] = call[w]
      /\ Creating(v)' => Creating(v)
  <2>1. ASSUME NEW n, Update(v, n), n.op = call[v].op \/ n.op = None
        PROVE  (\A w \in Vms \ {v} : call'[w] = call[w]) /\ (Creating(v)' => Creating(v))
    BY <1>0, <2>1, NoneAssumption DEF Update, NetTypes, Creating
  <2>2. CASE Undo(v)
    <3>1. PICK r \in call[v].job :
             \/ Update(v, [call[v] EXCEPT !.job = @ \ {r}])
             \/ Update(v, [call[v] EXCEPT !.job = GiveUp(v, r), !.failed = TRUE])
      BY <2>2 DEF Undo
    <3>2. CASE Update(v, [call[v] EXCEPT !.job = @ \ {r}])
      <4>1. PICK n : n = [call[v] EXCEPT !.job = @ \ {r}]
        OBVIOUS
      <4>2. n.op = call[v].op
        BY <1>0, <4>1 DEF CallFields
      <4> QED BY <2>1, <3>2, <4>1, <4>2
    <3>3. CASE Update(v, [call[v] EXCEPT !.job = GiveUp(v, r), !.failed = TRUE])
      <4>1. PICK n : n = [call[v] EXCEPT !.job = GiveUp(v, r), !.failed = TRUE]
        OBVIOUS
      <4>2. n.op = call[v].op
        BY <1>0, <4>1 DEF CallFields
      <4> QED BY <2>1, <3>3, <4>1, <4>2
    <3> QED BY <3>1, <3>2, <3>3
  <2>3. CASE UNCHANGED call
    BY <2>3 DEF Creating
  <2>4. CASE Return(v)
    BY <2>1, <2>4, IdleFields DEF Return
  <2> QED BY <2>2, <2>3, <2>4 DEF Finish, Drop, Crash
<1>5. \A w \in Vms \ {v} : links'[w] = links[w] /\ address'[w] = address[w] /\ rules'[w] = rules[w]
  BY <1>0 DEF Undo, Remove, Finish, Drop, Crash, NetTypes, attached
<1>6. Untouched(v)
  BY <1>3, <1>4, <1>5 DEF Untouched
<1> QED BY <1>1, <1>2, <1>4, <1>6, PairEnd

LEMMA PairReboot ==
    ASSUME PairInv, NetInv', Reboot, UNCHANGED history
    PROVE  PairInv'
<1>1. /\ row' = row /\ UNCHANGED <<alone, raced>>
      /\ \A v \in Vms : pc'[v] = "idle" /\ call'[v] = Idle
  BY DEF Reboot, history
<1>2. ASSUME NEW v \in Vms PROVE InPlace(v)' /\ Fitting(v)'
  <2>1. \A u \in Vms \ {v} : row[u] # None /\ Apart(v, u)' => Apart(v, u)
    BY <1>1 DEF Apart
  <2>2. (row[v] # None => Fits(v, row[v]))'
    BY <1>1, <2>1, SameRows DEF PairInv
  <2> QED BY <1>1, <2>2 DEF InPlace, Fitting, At
<1>3. \A v \in Vms : ~Creating(v)'
  BY <1>1, IdleFields, NoneAssumption DEF Creating
<1>4. Histories'
  BY <1>1, <1>3 DEF PairInv, Histories, At
<1> QED BY <1>2, <1>4 DEF PairInv

(* Every step keeps what the calls of two VMs rely on.                     *)
LEMMA PairInvStep ==
    ASSUME PairInv, [Next]_vars
    PROVE  PairInv'
<1>0. NetInv /\ NetInv'
  BY NetInvStep DEF PairInv
<1>1. CASE UNCHANGED vars
  <2>1. UNCHANGED <<operator, forward, proxy, links, address, rules, row, known, pc, call, faults,
                    alone, raced>>
    BY <1>1 DEF vars, sysctls, attached, history
  <2>2. Histories'
    BY <2>1 DEF PairInv, Histories, At, Apart, Creating
  <2>3. ASSUME NEW v \in Vms PROVE InPlace(v)' /\ Fitting(v)'
    <3>1. InPlace(v)'
      BY <2>1, OtherInPlace
    <3>2. \A u \in Vms \ {v} : row[u] # None /\ Apart(v, u)' => Apart(v, u)
      BY <2>1 DEF Apart
    <3>3. Fitting(v)'
      BY <2>1, <3>2, SameRows DEF PairInv
    <3> QED BY <3>1, <3>3
  <2> QED BY <1>0, <2>2, <2>3 DEF PairInv
<1>2. ASSUME NEW v \in Vms, Begin(v),
             \/ InvokeCreate(v) /\ BeginCreate(v)
             \/ (InvokeStart(v) \/ InvokeDelete(v)) /\ UNCHANGED raced
      PROVE  PairInv'
  BY <1>0, <1>2, PairInvoke
<1>3. ASSUME NEW v \in Vms, UNCHANGED history,
             \/ Select(v) \/ Apply(v) \/ Persist(v) \/ Undo(v) \/ Finish(v) \/ Drop(v) \/ Crash(v)
      PROVE  PairInv'
  BY <1>0, <1>3, PairSelect, PairApply, PairPersist, PairRest
<1>4. CASE Reboot /\ UNCHANGED history
  BY <1>0, <1>4, PairReboot
<1> QED BY <1>1, <1>2, <1>3, <1>4 DEF Next

LEMMA PairInvInit ==
    ASSUME Init
    PROVE  PairInv
<1>1. alone = None /\ \A v \in Vms : pc[v] = "idle" /\ row[v] = None /\ call[v] = Idle
  BY DEF Init
<1>2. raced \in [Vms -> SUBSET Vms]
  BY DEF Init
<1>3. \A v \in Vms : InPlace(v) /\ Fitting(v)
  BY <1>1 DEF InPlace, Fitting, At
<1>4. Histories
  BY <1>1, <1>2, IdleFields, NoneAssumption DEF Histories, Creating, At
<1> QED BY <1>3, <1>4, NetInvInit DEF PairInv

(* For any number of VMs and any failures, crashes, reboots and calls at   *)
(* once: when configure reports success every resource of the VM's own is  *)
(* in place, the link up if the call made the TAP, and the shared sysctls  *)
(* are on if no other call was under way.                                  *)
THEOREM SuccessMeansUsable == Spec => []ConfiguredIsUsable
<1>1. ASSUME PairInv PROVE ConfiguredIsUsable
  <2> SUFFICES ASSUME NEW v \in Vms, pc[v] = "apply", call[v].job = {}
               PROVE  /\ Attached(v, Net(v))
                      /\ "up" \in links[v] \/ call[v].existed
                      /\ alone = v => forward /\ (Net(v).mode = "lan" => proxy)
    BY DEF ConfiguredIsUsable, At
  <2>1. /\ \A r \in PlanFor(Net(v)) \ {"up"} : Present(v, r) \/ (r \in {"forward", "proxy"} /\ alone # v)
        /\ "up" \in links[v] \/ call[v].existed
    BY <1>1 DEF PairInv, InPlace, At
  <2>2. {"tap", "addr", "forward", "out", "in", "nat"} \subseteq PlanFor(Net(v)) \ {"up"}
    BY DEF PlanFor, HostOnlyPlan, LanPlan
  <2>3. "tap" \in links[v] /\ {"out", "in", "nat"} \subseteq rules[v]
    BY <2>1, <2>2 DEF Present, Links, RuleKinds
  <2>4. address[v] = Net(v).block
    BY <2>1, <2>2 DEF Present, Links, RuleKinds
  <2>5. alone = v => forward
    BY <2>1, <2>2 DEF Present, Links, RuleKinds
  <2>6. ASSUME Net(v).mode = "lan" PROVE {"route", "neigh"} \subseteq links[v] /\ (alone = v => proxy)
    <3>1. {"route", "neigh", "proxy"} \subseteq PlanFor(Net(v)) \ {"up"}
      BY <2>6 DEF PlanFor, LanPlan
    <3>2. {"route", "neigh"} \subseteq links[v]
      BY <2>1, <3>1 DEF Present, Links, RuleKinds
    <3>3. alone = v => proxy
      BY <2>1, <3>1 DEF Present, Links, RuleKinds
    <3> QED BY <3>2, <3>3
  <2>7. rules[v] \subseteq RuleKinds
    BY <1>1 DEF PairInv, NetInv, NetTypes
  <2>8. Attached(v, Net(v))
    BY <2>3, <2>4, <2>6, <2>7 DEF Attached, RuleKinds
  <2> QED BY <2>1, <2>5, <2>6, <2>8
<1> QED BY <1>1, PairInvInit, PairInvStep, PTL DEF Spec

(* For any number of VMs and calls at once: two routed VMs have two LAN    *)
(* addresses and two host-only VMs two private blocks, unless their        *)
(* creations overlapped; none is on a network of the operator's and no LAN *)
(* address is a reserved one, whatever was down, up, half removed or just  *)
(* rebooted when it was given.                                             *)
THEOREM AddressesAreExclusive == Spec => []ExclusiveAddresses
<1>1. ASSUME PairInv PROVE ExclusiveAddresses
  <2>1. \A v \in Vms : CallTypes(v) /\ CallFlow(v)
    BY <1>1 DEF PairInv, NetInv, CallOK
  <2>2. NetTypeOK
    BY <1>1, <2>1 DEF PairInv, Histories, NetInv, NetTypes, NetTypeOK, CallTypes, CallFlow
  <2>3. \A v \in Vms : row[v] # None => Fits(v, row[v])
    BY <1>1 DEF PairInv, Fitting
  <2> QED BY <2>2, <2>3 DEF ExclusiveAddresses, Fits, Apart
<1> QED BY <1>1, PairInvInit, PairInvStep, PTL DEF Spec
=============================================================================
