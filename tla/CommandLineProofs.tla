------------------------- MODULE CommandLineProofs -------------------------
(***************************************************************************)
(* The call a command makes in the end is the one that was asked for, and  *)
(* was confirmed, for any number of terminals, machines, requests and      *)
(* capacities.                                                             *)
(*                                                                         *)
(* A process carries the stages it still has to take.  What makes the      *)
(* properties true is how each script orders its stages, so the invariant  *)
(* is about the stages that are left: it is shown once of every script,    *)
(* for a process that has just been started, and kept because a step only  *)
(* takes the first stage away.                                             *)
(***************************************************************************)
EXTENDS CommandLine, SequenceTheorems, TLAPS

-----------------------------------------------------------------------------
(* The stages of a script. *)

Kinds ==
  {"need", "needSome", "terminal", "rooted", "elevate", "ask", "askOnTerminal", "confirm",
   "confirmOnTerminal", "preview", "catalog", "load", "check", "changed", "review",
   "running", "probe", "provision", "perform"}
Stages == [do : Kinds, on : SUBSET Fields, quiet : BOOLEAN]

Places(s, kinds) == {i \in 1..Len(s) : s[i].do \in kinds}
Asks(s) == Places(s, {"ask", "askOnTerminal"})
Confirms(s) == Places(s, {"confirm", "confirmOnTerminal"})
Elevates(s) == Places(s, {"elevate"})
AsksLan(s) == {i \in Asks(s) : "lan" \in s[i].on}

(* The call is the last stage, a question is about one field that the      *)
(* command has, and only an edit is reviewed.                              *)
Formed(verb, s) ==
  /\ s \in Seq(Stages) /\ Len(s) \in Nat \ {0}
  /\ \A i \in 1..Len(s) : s[i].do = "perform" <=> i = Len(s)
  /\ \A i \in Asks(s) : \E f \in Accepted(verb) \ {"remote"} : s[i].on = {f}
  /\ verb = "edit" \/ \A i \in 1..Len(s) : s[i].do # "review"

(* The name is neither known nor asked for before the child at place i,    *)
(* which may ask for it.                                                   *)
Nameless(values, s, i) ==
  /\ values["name"] = Unset /\ ~s[i].quiet
  /\ \A j \in Asks(s) : j < i => "name" \notin s[j].on

(* An elevated child is given every field that is set, or may be by then,  *)
(* but for a remote command without the name of a machine.                 *)
Carried(values, s) ==
  \A i \in Elevates(s) : \A f \in Fields \ (s[i].on \cup {"output"}) :
    /\ values[f] = Unset \/ (f = "remote" /\ Nameless(values, s, i))
    /\ \A j \in Asks(s) : j < i => f \notin s[j].on

(* The name is still to be asked for.                                      *)
AsksName(s) == \E i \in Places(s, {"ask"}) : s[i].on = {"name"}

(* The call is made as root.                                               *)
Privileged(root, s) == root \/ Places(s, {"rooted", "elevate"}) # {}

(* A creation has all capacities when it is made.                          *)
Sized(verb, values, s) ==
  verb = "new" => \A c \in Capacities :
    values[c] # Unset \/ \E i \in Places(s, {"need", "ask"}) : c \in s[i].on

(* An edit has looked at the machine before it asks for capacities.        *)
Loaded(verb, seen, s) ==
  verb = "edit" => \A i \in Asks(s) :
    \/ s[i].on \cap Capacities = {}
    \/ seen \in [Capacities -> Nat]
    \/ \E j \in Places(s, {"load"}) : j < i

(* The question of an edit: once, by the process that is not root yet, and *)
(* before it hands over to a child that does not ask.                      *)
EditConfirms(count, s) ==
  \/ count = 1 /\ Confirms(s) = {} /\ \A i \in Elevates(s) : s[i].quiet
  \/ /\ count = 0
     /\ \E k \in Confirms(s) :
          /\ Confirms(s) = {k}
          /\ \A i \in Elevates(s) : s[i].quiet <=> k < i

(* The question of a deletion or a prune that needs no elevation.          *)
RemovalConfirms(count, s) ==
  \/ count = 1 /\ Confirms(s) = {}
  \/ count = 0 /\ \E k \in Confirms(s) : Confirms(s) = {k}

(* The question of a creation whose values were all asked for follows that *)
(* about the network, the last of them.                                    *)
NewConfirms(lan, count, s) ==
  /\ \A i \in Elevates(s) : s[i].quiet
  /\ \/ lan = 0 /\ AsksLan(s) = {}
     \/ /\ lan = 0 /\ count = 0
        /\ \E k \in Confirms(s) : Confirms(s) = {k} /\ AsksLan(s) = {k - 1}
     \/ lan = 1 /\ count = 1 /\ AsksLan(s) = {} /\ Confirms(s) = {}
     \/ lan = 1 /\ count = 0 /\ AsksLan(s) = {} /\ Confirms(s) = {1}

Confirming(verb, a, s) ==
  /\ verb = "edit" => EditConfirms(a["confirm"], s)
  /\ Destroys(verb) /\ a["password"] = 0 => RemovalConfirms(a["confirm"], s)
  /\ verb = "new" => NewConfirms(a["lan"], a["confirm"], s)

-----------------------------------------------------------------------------
(* What is known of a process p of an operator who wants w and has been    *)
(* asked a.                                                                *)

Filled(values) ==
  values = [f \in Fields |-> values[f]] /\ \A f \in Fields : values[f] \in MayHold(f)
ValuesOK(verb, values) ==
  Filled(values) /\ \A f \in Fields \ Accepted(verb) : values[f] = Unset

ProcFields == {"verb", "values", "quiet", "root", "tty", "marker", "seen", "rest"}

ProcOK(p) ==
  /\ DOMAIN p = ProcFields
  /\ p.verb \in Verbs /\ p.quiet \in BOOLEAN /\ p.root \in BOOLEAN /\ p.tty \in BOOLEAN
  /\ ValuesOK(p.verb, p.values)
  /\ Formed(p.verb, p.rest)
  /\ Privileged(p.root, p.rest)
  /\ Sized(p.verb, p.values, p.rest)
  /\ Loaded(p.verb, p.seen, p.rest)

WantOK(w) ==
  /\ DOMAIN w = {"verb", "values", "silent"}
  /\ w.verb \in Verbs /\ Filled(w.values) /\ w.silent \in BOOLEAN

Asked(p, w, a) ==
  p.verb = w.verb /\ (~w.silent => p.tty /\ Confirming(p.verb, a, p.rest))

(* What Altered says of a call, said of the process that will make it: the *)
(* machine of a command that was dropped has been asked for, or will be.   *)
Differing(p, w, a, f) ==
  \/ /\ f = "disk" /\ w.verb = "new"
     /\ \E up \in BOOLEAN : p.values[f] = FlagText(f, w.values[f], up)
  \/ /\ f = "remote" /\ p.values[f] = Unset
     /\ a["name"] > 0 \/ (p.values["name"] = Unset /\ AsksName(p.rest))

Kept(p, w, a) ==
  /\ \A f \in Fields \ {"output"} :
       \/ Meaning(f, p.values[f]) = Meaning(f, w.values[f])
       \/ p.marker /\ Differing(p, w, a, f)
  /\ p.marker => a["password"] > 0
  /\ Carried(p.values, p.rest)

StoresOK ==
  /\ vms \in [Names -> Descriptions \cup {Absent}]
  /\ proc = [t \in Terminals |-> proc[t]] /\ did = [t \in Terminals |-> did[t]]
  /\ want = [t \in Terminals |-> want[t]]
  /\ code \in [Terminals -> Codes]
  /\ asked \in [Terminals -> [Questions -> 0..2]]

TerminalOK(t) ==
  /\ Busy(t) => /\ ProcOK(proc[t]) /\ WantOK(want[t]) /\ Asked(proc[t], want[t], asked[t])
                /\ code[t] = "none" /\ did[t] = Unset
  /\ did[t] # Unset => /\ DOMAIN did[t] = {"verb", "values"}
                       /\ did[t].verb \in Verbs /\ did[t].verb = want[t].verb
                       /\ Filled(did[t].values) /\ WantOK(want[t])

CliInv == StoresOK /\ (\A t \in Terminals : TerminalOK(t)) /\ ConfirmedBeforeChange

Truthful(t) ==
  /\ Busy(t) => Kept(proc[t], want[t], asked[t])
  /\ did[t] # Unset => \A f \in Fields \ {"output"} :
       \/ Meaning(f, did[t].values[f]) = Meaning(f, want[t].values[f])
       \/ asked[t]["password"] > 0 /\ Altered(t, f)
KeptInv == \A t \in Terminals : Truthful(t)

-----------------------------------------------------------------------------
(* Taking the first stage away. *)

LEMMA TailOf ==
    ASSUME NEW s \in Seq(Stages), Len(s) \in Nat \ {0}
    PROVE  /\ Head(s) = s[1] /\ Tail(s) \in Seq(Stages) /\ Len(Tail(s)) = Len(s) - 1
           /\ \A i \in 1..(Len(s) - 1) : Tail(s)[i] = s[i + 1]
BY HeadTailProperties

LEMMA PlacesTail ==
    ASSUME NEW s \in Seq(Stages), Len(s) \in Nat \ {0}, NEW kinds
    PROVE  \A i : i \in Places(Tail(s), kinds) <=> i \in Nat \ {0} /\ i + 1 \in Places(s, kinds)
<1>1. /\ Len(Tail(s)) = Len(s) - 1
      /\ \A i \in 1..(Len(s) - 1) : Tail(s)[i] = s[i + 1]
  BY TailOf
<1> QED BY <1>1 DEF Places

LEMMA FormedTail ==
    ASSUME NEW verb, NEW s, Formed(verb, s), s[1].do # "perform"
    PROVE  Formed(verb, Tail(s))
<1>1. /\ s \in Seq(Stages) /\ Len(s) \in Nat \ {0, 1}
  BY DEF Formed
<1>2. /\ Tail(s) \in Seq(Stages) /\ Len(Tail(s)) = Len(s) - 1
      /\ \A i \in 1..(Len(s) - 1) : Tail(s)[i] = s[i + 1]
  BY <1>1, TailOf
<1> DEFINE u == Tail(s)
<1>3. /\ \A i \in 1..Len(s) : s[i].do = "perform" <=> i = Len(s)
      /\ \A i \in Asks(s) : \E f \in Accepted(verb) \ {"remote"} : s[i].on = {f}
      /\ verb = "edit" \/ \A i \in 1..Len(s) : s[i].do # "review"
  BY DEF Formed
<1>4. \A i \in 1..Len(u) : i + 1 \in 1..Len(s) /\ u[i] = s[i + 1] /\ (i + 1 = Len(s) <=> i = Len(u))
  BY <1>1, <1>2
<1>5. /\ \A i \in 1..Len(u) : u[i].do = "perform" <=> i = Len(u)
      /\ verb = "edit" \/ \A i \in 1..Len(u) : u[i].do # "review"
  BY <1>3, <1>4
<1>6. \A i \in Asks(u) : i + 1 \in Asks(s) /\ u[i] = s[i + 1]
  BY <1>1, <1>2 DEF Asks, Places
<1>7. u \in Seq(Stages) /\ Len(u) \in Nat \ {0}
  BY <1>1, <1>2
<1> HIDE DEF u
<1>8. ASSUME NEW i \in Asks(u) PROVE \E f \in Accepted(verb) \ {"remote"} : u[i].on = {f}
  BY <1>3, <1>6
<1> QED BY <1>5, <1>7, <1>8 DEF Formed, u

LEMMA CapacitiesAre ==
    /\ Capacities = {"disk", "vcpus"}
    /\ Fields = {"name", "disk", "vcpus", "image", "lan", "remote", "policy", "output", "archive"}
BY MinimumAssumption DEF Capacities, Fields, ChosenValues

(* What a step does to the values it leaves behind: nothing, or it answers *)
(* the question it takes away.                                             *)
LEMMA CarriedTail ==
    ASSUME NEW verb, NEW s, Formed(verb, s), NEW values, NEW after, Carried(values, s),
           \A f \in Fields : after[f] = values[f] \/ after[f] = Unset \/ (1 \in Asks(s) /\ f \in s[1].on)
    PROVE  Carried(after, Tail(s))
<1>1. /\ s \in Seq(Stages) /\ Len(s) \in Nat \ {0}
      /\ \A i \in 1..(Len(s) - 1) : Tail(s)[i] = s[i + 1]
      /\ Len(Tail(s)) = Len(s) - 1
  BY TailOf DEF Formed
<1> SUFFICES ASSUME NEW i \in Elevates(Tail(s)), NEW f \in Fields \ (Tail(s)[i].on \cup {"output"})
             PROVE  /\ after[f] = Unset \/ (f = "remote" /\ Nameless(after, Tail(s), i))
                    /\ \A j \in Asks(Tail(s)) : j < i => f \notin Tail(s)[j].on
  BY DEF Carried
<1>2. i \in 1..(Len(s) - 1) /\ i + 1 \in Elevates(s) /\ Tail(s)[i] = s[i + 1]
  BY <1>1 DEF Elevates, Places
<1>3. /\ values[f] = Unset \/ (f = "remote" /\ Nameless(values, s, i + 1))
      /\ \A j \in Asks(s) : j < i + 1 => f \notin s[j].on
  BY <1>2 DEF Carried
<1>4. 1 < i + 1 /\ \A j \in Asks(Tail(s)) : j < i =>
        j + 1 \in Asks(s) /\ Tail(s)[j] = s[j + 1] /\ j + 1 < i + 1
  BY <1>1, <1>2 DEF Asks, Places
<1>5. \A j \in Asks(Tail(s)) : j < i => f \notin Tail(s)[j].on
  BY <1>3, <1>4
<1>6. after[f] = values[f] \/ after[f] = Unset
  BY <1>3, <1>4
<1>7. ASSUME f = "remote", Nameless(values, s, i + 1) PROVE Nameless(after, Tail(s), i)
  <2>1. values["name"] = Unset /\ ~s[i + 1].quiet /\ \A j \in Asks(s) : j < i + 1 => "name" \notin s[j].on
    BY <1>7 DEF Nameless
  <2>2. after["name"] = Unset
    BY <1>4, <2>1, CapacitiesAre
  <2>3. \A j \in Asks(Tail(s)) : j < i => "name" \notin Tail(s)[j].on
    BY <1>4, <2>1
  <2> QED BY <1>2, <2>1, <2>2, <2>3 DEF Nameless
<1> QED BY <1>3, <1>5, <1>6, <1>7

(* A question about the name is taken away by the step that puts it.       *)
LEMMA AsksNameTail ==
    ASSUME NEW verb, NEW s, Formed(verb, s), AsksName(s), ~(s[1].do = "ask" /\ s[1].on = {"name"})
    PROVE  AsksName(Tail(s))
<1>1. s \in Seq(Stages) /\ Len(s) \in Nat \ {0}
  BY DEF Formed
<1>2. PICK i \in Places(s, {"ask"}) : s[i].on = {"name"}
  BY DEF AsksName
<1>3. i # 1 /\ i \in 1..Len(s)
  BY <1>2 DEF Places
<1>4. i - 1 \in Nat \ {0} /\ i - 1 \in 1..(Len(s) - 1) /\ (i - 1) + 1 = i
  BY <1>1, <1>3
<1>5. i - 1 \in Places(Tail(s), {"ask"})
  BY <1>1, <1>2, <1>4, PlacesTail
<1>6. Tail(s)[i - 1] = s[i]
  BY <1>1, <1>4, TailOf
<1> QED BY <1>2, <1>5, <1>6 DEF AsksName

LEMMA PrivilegedTail ==
    ASSUME NEW verb, NEW s, Formed(verb, s), NEW root \in BOOLEAN, Privileged(root, s),
           s[1].do \in {"rooted", "elevate"} => root
    PROVE  Privileged(root, Tail(s))
<1>1. s \in Seq(Stages) /\ Len(s) \in Nat \ {0}
  BY DEF Formed
<1> SUFFICES ASSUME ~root PROVE Places(Tail(s), {"rooted", "elevate"}) # {}
  BY DEF Privileged
<1>2. PICK i \in Places(s, {"rooted", "elevate"}) : i # 1
  BY <1>1 DEF Privileged, Places
<1>3. i - 1 \in Nat \ {0} /\ (i - 1) + 1 = i
  BY <1>1, <1>2 DEF Places
<1>4. i - 1 \in Places(Tail(s), {"rooted", "elevate"})
  BY <1>1, <1>2, <1>3, PlacesTail
<1> QED BY <1>4

LEMMA SizedTail ==
    ASSUME NEW verb, NEW s, Formed(verb, s), NEW values, NEW after, Sized(verb, values, s),
           \A c \in Capacities : values[c] # Unset => after[c] # Unset,
           s[1].do \in {"need", "ask"} => \A c \in s[1].on \cap Capacities : after[c] # Unset
    PROVE  Sized(verb, after, Tail(s))
<1>1. s \in Seq(Stages) /\ Len(s) \in Nat \ {0}
  BY DEF Formed
<1> SUFFICES ASSUME verb = "new", NEW c \in Capacities, after[c] = Unset
             PROVE  \E i \in Places(Tail(s), {"need", "ask"}) : c \in Tail(s)[i].on
  BY DEF Sized
<1>2. PICK i \in Places(s, {"need", "ask"}) : c \in s[i].on
  BY DEF Sized
<1>3. i # 1 /\ i \in 1..Len(s)
  BY <1>2 DEF Places
<1>4. i - 1 \in Nat \ {0} /\ i - 1 \in 1..(Len(s) - 1) /\ (i - 1) + 1 = i
  BY <1>1, <1>3
<1>5. i - 1 \in Places(Tail(s), {"need", "ask"})
  BY <1>1, <1>2, <1>4, PlacesTail
<1>6. Tail(s)[i - 1] = s[i]
  BY <1>1, <1>4, TailOf
<1> QED BY <1>2, <1>5, <1>6

LEMMA LoadedTail ==
    ASSUME NEW verb, NEW s, Formed(verb, s), NEW seen, NEW after, Loaded(verb, seen, s),
           seen \in [Capacities -> Nat] => after \in [Capacities -> Nat],
           s[1].do = "load" => after \in [Capacities -> Nat]
    PROVE  Loaded(verb, after, Tail(s))
<1>1. s \in Seq(Stages) /\ Len(s) \in Nat \ {0}
  BY DEF Formed
<1> SUFFICES ASSUME verb = "edit", NEW i \in Asks(Tail(s)), Tail(s)[i].on \cap Capacities # {},
                    after \notin [Capacities -> Nat]
             PROVE  \E j \in Places(Tail(s), {"load"}) : j < i
  BY DEF Loaded
<1>2. i \in 1..(Len(s) - 1) /\ i + 1 \in Asks(s)
  BY <1>1, TailOf, PlacesTail DEF Asks, Places
<1>3. Tail(s)[i] = s[i + 1]
  BY <1>1, <1>2, TailOf
<1>4. PICK j \in Places(s, {"load"}) : j < i + 1
  BY <1>2, <1>3 DEF Loaded
<1>5. j # 1 /\ j \in 1..Len(s)
  BY <1>4 DEF Places
<1>6. j - 1 \in Nat \ {0} /\ (j - 1) + 1 = j /\ j - 1 < i
  BY <1>1, <1>2, <1>4, <1>5
<1>7. j - 1 \in Places(Tail(s), {"load"})
  BY <1>1, <1>4, <1>6, PlacesTail
<1> QED BY <1>6, <1>7

LEMMA EditTail ==
    ASSUME NEW verb, NEW s, Formed(verb, s), NEW count, NEW after, EditConfirms(count, s),
           after = IF 1 \in Confirms(s) THEN count + 1 ELSE count
    PROVE  EditConfirms(after, Tail(s))
<1>1. s \in Seq(Stages) /\ Len(s) \in Nat \ {0}
  BY DEF Formed
<1>2. /\ \A i : i \in Confirms(Tail(s)) <=> i \in Nat \ {0} /\ i + 1 \in Confirms(s)
  BY <1>1, PlacesTail DEF Confirms
<1>3. /\ Len(Tail(s)) = Len(s) - 1
      /\ \A i \in 1..(Len(s) - 1) : Tail(s)[i] = s[i + 1]
  BY <1>1, TailOf
<1>4. \A i \in Elevates(Tail(s)) : i \in Nat \ {0} /\ i + 1 \in Elevates(s) /\ Tail(s)[i] = s[i + 1]
  BY <1>1, <1>3 DEF Elevates, Places
<1>5. CASE count = 1 /\ Confirms(s) = {} /\ \A i \in Elevates(s) : s[i].quiet
  BY <1>2, <1>4, <1>5 DEF EditConfirms
<1>6. ASSUME count = 0, NEW k \in Confirms(s), Confirms(s) = {k},
             \A i \in Elevates(s) : s[i].quiet <=> k < i
      PROVE  EditConfirms(after, Tail(s))
  <2>1. k \in Nat \ {0}
    BY <1>1, <1>6 DEF Confirms, Places
  <2>2. CASE k = 1
    <3>1. after = 1 /\ Confirms(Tail(s)) = {}
      BY <1>2, <1>6, <2>2
    <3>2. ASSUME NEW i \in Elevates(Tail(s)) PROVE Tail(s)[i].quiet
      <4>1. i \in Nat \ {0} /\ i + 1 \in Elevates(s) /\ Tail(s)[i] = s[i + 1]
        BY <1>4
      <4>2. k < i + 1
        BY <2>2, <4>1
      <4> QED BY <1>6, <4>1, <4>2, Zenon
    <3> QED BY <3>1, <3>2 DEF EditConfirms
  <2>3. CASE k # 1
    <3>1. after = 0 /\ k - 1 \in Confirms(Tail(s)) /\ Confirms(Tail(s)) = {k - 1}
      BY <1>2, <1>6, <2>1, <2>3
    <3>2. ASSUME NEW i \in Elevates(Tail(s)) PROVE Tail(s)[i].quiet <=> k - 1 < i
      <4>1. i \in Nat \ {0} /\ i + 1 \in Elevates(s) /\ Tail(s)[i] = s[i + 1]
        BY <1>4
      <4>2. k < i + 1 <=> k - 1 < i
        BY <2>1, <4>1
      <4> QED BY <1>6, <4>1, <4>2, Zenon
    <3> QED BY <3>1, <3>2 DEF EditConfirms
  <2> QED BY <2>2, <2>3
<1> QED BY <1>5, <1>6 DEF EditConfirms

LEMMA RemovalTail ==
    ASSUME NEW verb, NEW s, Formed(verb, s), NEW count, NEW after, RemovalConfirms(count, s),
           after = IF 1 \in Confirms(s) THEN count + 1 ELSE count
    PROVE  RemovalConfirms(after, Tail(s))
<1>1. s \in Seq(Stages) /\ Len(s) \in Nat \ {0}
  BY DEF Formed
<1>2. \A i : i \in Confirms(Tail(s)) <=> i \in Nat \ {0} /\ i + 1 \in Confirms(s)
  BY <1>1, PlacesTail DEF Confirms
<1>3. CASE count = 1 /\ Confirms(s) = {}
  BY <1>2, <1>3 DEF RemovalConfirms
<1>4. ASSUME count = 0, NEW k \in Confirms(s), Confirms(s) = {k} PROVE RemovalConfirms(after, Tail(s))
  <2>1. k \in Nat \ {0}
    BY <1>1, <1>4 DEF Confirms, Places
  <2>2. CASE k = 1
    BY <1>2, <1>4, <2>2 DEF RemovalConfirms
  <2>3. CASE k # 1
    <3>1. after = 0 /\ k - 1 \in Confirms(Tail(s)) /\ Confirms(Tail(s)) = {k - 1}
      BY <1>2, <1>4, <2>1, <2>3
    <3> QED BY <3>1 DEF RemovalConfirms
  <2> QED BY <2>2, <2>3
<1> QED BY <1>3, <1>4 DEF RemovalConfirms

LEMMA NewTail ==
    ASSUME NEW verb, NEW s, Formed(verb, s), NEW count, NEW after, NEW lan, NEW answered,
           NewConfirms(lan, count, s),
           after = IF 1 \in Confirms(s) THEN count + 1 ELSE count,
           answered = lan \/ (answered = lan + 1 /\ 1 \in AsksLan(s))
    PROVE  NewConfirms(answered, after, Tail(s))
<1> DEFINE u == Tail(s)
<1>1. s \in Seq(Stages) /\ Len(s) \in Nat \ {0}
  BY DEF Formed
<1>2. /\ \A i : i \in Confirms(u) <=> i \in Nat \ {0} /\ i + 1 \in Confirms(s)
      /\ \A i : i \in AsksLan(u) <=> i \in Nat \ {0} /\ i + 1 \in AsksLan(s)
      /\ \A i \in Elevates(u) : i + 1 \in Elevates(s) /\ u[i] = s[i + 1]
  <2>1. \A i : i \in Asks(u) <=> i \in Nat \ {0} /\ i + 1 \in Asks(s)
    BY <1>1, PlacesTail DEF Asks
  <2>2. \A i \in 1..(Len(s) - 1) : u[i] = s[i + 1]
    BY <1>1, TailOf
  <2>3. \A i \in Nat \ {0} : i + 1 \in Asks(s) \cup Elevates(s) => i \in 1..(Len(s) - 1)
    BY <1>1 DEF Asks, Elevates, Places
  <2>4. \A i : i \in AsksLan(u) <=> i \in Nat \ {0} /\ i + 1 \in AsksLan(s)
    BY <2>1, <2>2, <2>3 DEF AsksLan
  <2>5. \A i : i \in Elevates(u) <=> i \in Nat \ {0} /\ i + 1 \in Elevates(s)
    BY <1>1, PlacesTail DEF Elevates
  <2> QED BY <1>1, <2>2, <2>3, <2>4, <2>5, PlacesTail DEF Confirms
<1>3. \A i \in Elevates(u) : u[i].quiet
  BY <1>2 DEF NewConfirms
<1>4. 0 \notin AsksLan(s) /\ Confirms(s) \subseteq Nat \ {0}
  BY <1>1 DEF AsksLan, Asks, Confirms, Places
<1> HIDE DEF u
<1>5. CASE lan = 0 /\ AsksLan(s) = {}
  <2>1. AsksLan(u) = {} /\ answered = 0
    BY <1>2, <1>5
  <2> QED BY <1>3, <2>1 DEF NewConfirms, u
<1>6. ASSUME lan = 0, count = 0, NEW k \in Confirms(s), Confirms(s) = {k}, AsksLan(s) = {k - 1}
      PROVE  NewConfirms(answered, after, u)
  <2>1. k \in Nat \ {0, 1}
    BY <1>4, <1>6
  <2>2. after = 0 /\ k - 1 \in Confirms(u) /\ Confirms(u) = {k - 1}
    BY <1>2, <1>6, <2>1
  <2>3. CASE k = 2
    <3>1. AsksLan(u) = {} /\ Confirms(u) = {1} /\ answered \in {0, 1}
      BY <1>2, <1>6, <2>2, <2>3
    <3> QED BY <1>3, <2>2, <3>1 DEF NewConfirms
  <2>4. CASE k # 2
    <3>1. AsksLan(u) = {(k - 1) - 1} /\ answered = 0
      BY <1>2, <1>6, <2>1, <2>4
    <3> QED BY <1>3, <2>2, <3>1 DEF NewConfirms
  <2> QED BY <2>3, <2>4
<1>7. CASE lan = 1 /\ count = 1 /\ AsksLan(s) = {} /\ Confirms(s) = {}
  <2>1. AsksLan(u) = {} /\ Confirms(u) = {} /\ answered = 1 /\ after = 1
    BY <1>2, <1>7
  <2> QED BY <1>3, <2>1 DEF NewConfirms, u
<1>8. CASE lan = 1 /\ count = 0 /\ AsksLan(s) = {} /\ Confirms(s) = {1}
  <2>1. AsksLan(u) = {} /\ Confirms(u) = {} /\ answered = 1 /\ after = 1
    BY <1>2, <1>8
  <2> QED BY <1>3, <2>1 DEF NewConfirms, u
<1>9. NewConfirms(answered, after, u)
  BY <1>5, <1>6, <1>7, <1>8 DEF NewConfirms, u
<1> QED BY <1>9 DEF u
-----------------------------------------------------------------------------
(* The scripts, one lemma for each of their forms. *)

(* What is shown of every script, for the process that starts with it.     *)
Fresh(verb, values, quiet, s) ==
  /\ Formed(verb, s) /\ Places(s, {"rooted", "elevate"}) # {}
  /\ Sized(verb, values, s) /\ Loaded(verb, Unset, s) /\ Carried(values, s)
  /\ verb = "ssh" /\ ~quiet /\ values["name"] = Unset => AsksName(s)
  /\ quiet /\ verb # "snapshot" => Elevates(s) = {} /\ Confirms(s) = {} /\ AsksLan(s) = {}
  /\ ~quiet /\ verb = "edit" => EditConfirms(0, s)
  /\ ~quiet /\ Destroys(verb) => RemovalConfirms(0, s)
  /\ ~quiet /\ verb = "new" => NewConfirms(0, 0, s)

LEMMA QuietNamed ==
    ASSUME NEW verb \in {"start", "stop"}, NEW values, ValuesOK(verb, values),
           NEW s,
           s = <<Need({"name"}), Rooted, Perform>>
    PROVE  Fresh(verb, values, TRUE, s)
<1>1. Len(s) = 3 /\ 1..Len(s) = {1, 2, 3}
  OBVIOUS
<1>2. s \in Seq(Stages)
  BY CapacitiesAre DEF Need, Terminal, Rooted, Ask, Elevate, Check, Perform, Stage, Stages, Kinds
<1>3. /\ s[1].do = "need" /\ s[2].do = "rooted" /\ s[3].do = "perform"
  BY DEF Need, Terminal, Rooted, Ask, Elevate, Check, Perform, Stage
<1>4. /\ s[1].on = {"name"}
  BY CapacitiesAre DEF Need, Terminal, Rooted, Ask, Elevate, Check, Perform, Stage
<1>5. /\ Asks(s) = {} /\ Elevates(s) = {} /\ Confirms(s) = {}
  BY ONLY <1>1, <1>3 DEF Asks, Elevates, Confirms, Places
<1>6. /\ Places(s, {"load"}) = {} /\ Places(s, {"rooted", "elevate"}) = {2}
      /\ Places(s, {"need", "ask"}) = {1}
  BY ONLY <1>1, <1>3 DEF Places
<1>7. /\ Accepted(verb) = {"name"} /\ \A f \in {"disk", "vcpus", "image", "lan", "remote", "policy", "output", "archive"} : values[f] = Unset
  BY CapacitiesAre DEF ValuesOK, Accepted
<1>8. Formed(verb, s)
  <2>1. \A i \in 1..Len(s) : s[i].do = "perform" <=> i = Len(s)
    BY ONLY <1>1, <1>3
  <2>2. \A i \in Asks(s) : \E f \in Accepted(verb) \ {"remote"} : s[i].on = {f}
    BY ONLY <1>4, <1>5, <1>7
  <2>3. verb = "edit" \/ \A i \in 1..Len(s) : s[i].do # "review"
    BY ONLY <1>1, <1>3
  <2> QED BY ONLY <1>1, <1>2, <2>1, <2>2, <2>3 DEF Formed
<1>9. Carried(values, s)
  BY ONLY <1>5 DEF Carried
<1>10. AsksLan(s) = {}
  BY ONLY <1>4, <1>5 DEF AsksLan
<1>11. Sized(verb, values, s) /\ Loaded(verb, Unset, s)
  BY ONLY <1>4, <1>5, <1>6, CapacitiesAre, verb \in {"start", "stop"} DEF Sized, Loaded
<1> QED BY ONLY verb \in {"start", "stop"}, <1>5, <1>6, <1>8, <1>9, <1>10, <1>11 DEF Fresh, Destroys

LEMMA QuietHome ==
    ASSUME NEW verb \in {"prune", "ls"}, NEW values, ValuesOK(verb, values),
           NEW s,
           s = <<Rooted, Perform>>
    PROVE  Fresh(verb, values, TRUE, s)
<1>1. Len(s) = 2 /\ 1..Len(s) = {1, 2}
  OBVIOUS
<1>2. s \in Seq(Stages)
  BY CapacitiesAre DEF Need, Terminal, Rooted, Ask, Elevate, Check, Perform, Stage, Stages, Kinds
<1>3. /\ s[1].do = "rooted" /\ s[2].do = "perform"
  BY DEF Need, Terminal, Rooted, Ask, Elevate, Check, Perform, Stage
<1>4. TRUE
  BY CapacitiesAre DEF Need, Terminal, Rooted, Ask, Elevate, Check, Perform, Stage
<1>5. /\ Asks(s) = {} /\ Elevates(s) = {} /\ Confirms(s) = {}
  BY ONLY <1>1, <1>3 DEF Asks, Elevates, Confirms, Places
<1>6. /\ Places(s, {"load"}) = {} /\ Places(s, {"rooted", "elevate"}) = {1}
      /\ Places(s, {"need", "ask"}) = {}
  BY ONLY <1>1, <1>3 DEF Places
<1>7. /\ Accepted(verb) = {} /\ \A f \in {"name", "disk", "vcpus", "image", "lan", "remote", "policy", "output", "archive"} : values[f] = Unset
  BY CapacitiesAre DEF ValuesOK, Accepted
<1>8. Formed(verb, s)
  <2>1. \A i \in 1..Len(s) : s[i].do = "perform" <=> i = Len(s)
    BY ONLY <1>1, <1>3
  <2>2. \A i \in Asks(s) : \E f \in Accepted(verb) \ {"remote"} : s[i].on = {f}
    BY ONLY <1>4, <1>5, <1>7
  <2>3. verb = "edit" \/ \A i \in 1..Len(s) : s[i].do # "review"
    BY ONLY <1>1, <1>3
  <2> QED BY ONLY <1>1, <1>2, <2>1, <2>2, <2>3 DEF Formed
<1>9. Carried(values, s)
  BY ONLY <1>5 DEF Carried
<1>10. AsksLan(s) = {}
  BY ONLY <1>4, <1>5 DEF AsksLan
<1>11. Sized(verb, values, s) /\ Loaded(verb, Unset, s)
  BY ONLY <1>4, <1>5, <1>6, CapacitiesAre, verb \in {"prune", "ls"} DEF Sized, Loaded
<1> QED BY ONLY verb \in {"prune", "ls"}, <1>5, <1>6, <1>8, <1>9, <1>10, <1>11 DEF Fresh, Destroys

LEMMA QuietRestore ==
    ASSUME NEW verb \in {"restore"}, NEW values, ValuesOK(verb, values),
           NEW s,
           s = <<Need({"archive"}), Rooted, Perform>>
    PROVE  Fresh(verb, values, TRUE, s)
<1>1. Len(s) = 3 /\ 1..Len(s) = {1, 2, 3}
  OBVIOUS
<1>2. s \in Seq(Stages)
  BY CapacitiesAre DEF Need, Terminal, Rooted, Ask, Elevate, Check, Perform, Stage, Stages, Kinds
<1>3. /\ s[1].do = "need" /\ s[2].do = "rooted" /\ s[3].do = "perform"
  BY DEF Need, Terminal, Rooted, Ask, Elevate, Check, Perform, Stage
<1>4. /\ s[1].on = {"archive"}
  BY CapacitiesAre DEF Need, Terminal, Rooted, Ask, Elevate, Check, Perform, Stage
<1>5. /\ Asks(s) = {} /\ Elevates(s) = {} /\ Confirms(s) = {}
  BY ONLY <1>1, <1>3 DEF Asks, Elevates, Confirms, Places
<1>6. /\ Places(s, {"load"}) = {} /\ Places(s, {"rooted", "elevate"}) = {2}
      /\ Places(s, {"need", "ask"}) = {1}
  BY ONLY <1>1, <1>3 DEF Places
<1>7. /\ Accepted(verb) = {"archive"} /\ \A f \in {"name", "disk", "vcpus", "image", "lan", "remote", "policy", "output"} : values[f] = Unset
  BY CapacitiesAre DEF ValuesOK, Accepted
<1>8. Formed(verb, s)
  <2>1. \A i \in 1..Len(s) : s[i].do = "perform" <=> i = Len(s)
    BY ONLY <1>1, <1>3
  <2>2. \A i \in Asks(s) : \E f \in Accepted(verb) \ {"remote"} : s[i].on = {f}
    BY ONLY <1>4, <1>5, <1>7
  <2>3. verb = "edit" \/ \A i \in 1..Len(s) : s[i].do # "review"
    BY ONLY <1>1, <1>3
  <2> QED BY ONLY <1>1, <1>2, <2>1, <2>2, <2>3 DEF Formed
<1>9. Carried(values, s)
  BY ONLY <1>5 DEF Carried
<1>10. AsksLan(s) = {}
  BY ONLY <1>4, <1>5 DEF AsksLan
<1>11. Sized(verb, values, s) /\ Loaded(verb, Unset, s)
  BY ONLY <1>4, <1>5, <1>6, CapacitiesAre, verb \in {"restore"} DEF Sized, Loaded
<1> QED BY ONLY verb \in {"restore"}, <1>5, <1>6, <1>8, <1>9, <1>10, <1>11 DEF Fresh, Destroys

LEMMA QuietDelete ==
    ASSUME NEW verb \in {"delete"}, NEW values, ValuesOK(verb, values),
           NEW s,
           s = <<Need({"name"}), Rooted, Stage("probe", {}), Perform>>
    PROVE  Fresh(verb, values, TRUE, s)
<1>1. Len(s) = 4 /\ 1..Len(s) = {1, 2, 3, 4}
  OBVIOUS
<1>2. s \in Seq(Stages)
  BY CapacitiesAre DEF Need, Terminal, Rooted, Ask, Elevate, Check, Perform, Stage, Stages, Kinds
<1>3. /\ s[1].do = "need" /\ s[2].do = "rooted" /\ s[3].do = "probe" /\
         s[4].do = "perform"
  BY DEF Need, Terminal, Rooted, Ask, Elevate, Check, Perform, Stage
<1>4. /\ s[1].on = {"name"}
  BY CapacitiesAre DEF Need, Terminal, Rooted, Ask, Elevate, Check, Perform, Stage
<1>5. /\ Asks(s) = {} /\ Elevates(s) = {} /\ Confirms(s) = {}
  BY ONLY <1>1, <1>3 DEF Asks, Elevates, Confirms, Places
<1>6. /\ Places(s, {"load"}) = {} /\ Places(s, {"rooted", "elevate"}) = {2}
      /\ Places(s, {"need", "ask"}) = {1}
  BY ONLY <1>1, <1>3 DEF Places
<1>7. /\ Accepted(verb) = {"name"} /\ \A f \in {"disk", "vcpus", "image", "lan", "remote", "policy", "output", "archive"} : values[f] = Unset
  BY CapacitiesAre DEF ValuesOK, Accepted
<1>8. Formed(verb, s)
  <2>1. \A i \in 1..Len(s) : s[i].do = "perform" <=> i = Len(s)
    BY ONLY <1>1, <1>3
  <2>2. \A i \in Asks(s) : \E f \in Accepted(verb) \ {"remote"} : s[i].on = {f}
    BY ONLY <1>4, <1>5, <1>7
  <2>3. verb = "edit" \/ \A i \in 1..Len(s) : s[i].do # "review"
    BY ONLY <1>1, <1>3
  <2> QED BY ONLY <1>1, <1>2, <2>1, <2>2, <2>3 DEF Formed
<1>9. Carried(values, s)
  BY ONLY <1>5 DEF Carried
<1>10. AsksLan(s) = {}
  BY ONLY <1>4, <1>5 DEF AsksLan
<1>11. Sized(verb, values, s) /\ Loaded(verb, Unset, s)
  BY ONLY <1>4, <1>5, <1>6, CapacitiesAre, verb \in {"delete"} DEF Sized, Loaded
<1> QED BY ONLY verb \in {"delete"}, <1>5, <1>6, <1>8, <1>9, <1>10, <1>11 DEF Fresh, Destroys

LEMMA QuietSsh ==
    ASSUME NEW verb \in {"ssh"}, NEW values, ValuesOK(verb, values),
           NEW s,
           s = <<Need({"name"}), Rooted, Stage("running", {}), Perform>>
    PROVE  Fresh(verb, values, TRUE, s)
<1>1. Len(s) = 4 /\ 1..Len(s) = {1, 2, 3, 4}
  OBVIOUS
<1>2. s \in Seq(Stages)
  BY CapacitiesAre DEF Need, Terminal, Rooted, Ask, Elevate, Check, Perform, Stage, Stages, Kinds
<1>3. /\ s[1].do = "need" /\ s[2].do = "rooted" /\ s[3].do = "running" /\
         s[4].do = "perform"
  BY DEF Need, Terminal, Rooted, Ask, Elevate, Check, Perform, Stage
<1>4. /\ s[1].on = {"name"}
  BY CapacitiesAre DEF Need, Terminal, Rooted, Ask, Elevate, Check, Perform, Stage
<1>5. /\ Asks(s) = {} /\ Elevates(s) = {} /\ Confirms(s) = {}
  BY ONLY <1>1, <1>3 DEF Asks, Elevates, Confirms, Places
<1>6. /\ Places(s, {"load"}) = {} /\ Places(s, {"rooted", "elevate"}) = {2}
      /\ Places(s, {"need", "ask"}) = {1}
  BY ONLY <1>1, <1>3 DEF Places
<1>7. /\ Accepted(verb) = {"name", "remote"} /\ \A f \in {"disk", "vcpus", "image", "lan", "policy", "output", "archive"} : values[f] = Unset
  BY CapacitiesAre DEF ValuesOK, Accepted
<1>8. Formed(verb, s)
  <2>1. \A i \in 1..Len(s) : s[i].do = "perform" <=> i = Len(s)
    BY ONLY <1>1, <1>3
  <2>2. \A i \in Asks(s) : \E f \in Accepted(verb) \ {"remote"} : s[i].on = {f}
    BY ONLY <1>4, <1>5, <1>7
  <2>3. verb = "edit" \/ \A i \in 1..Len(s) : s[i].do # "review"
    BY ONLY <1>1, <1>3
  <2> QED BY ONLY <1>1, <1>2, <2>1, <2>2, <2>3 DEF Formed
<1>9. Carried(values, s)
  BY ONLY <1>5 DEF Carried
<1>10. AsksLan(s) = {}
  BY ONLY <1>4, <1>5 DEF AsksLan
<1>11. Sized(verb, values, s) /\ Loaded(verb, Unset, s)
  BY ONLY <1>4, <1>5, <1>6, CapacitiesAre, verb \in {"ssh"} DEF Sized, Loaded
<1> QED BY ONLY verb \in {"ssh"}, <1>5, <1>6, <1>8, <1>9, <1>10, <1>11 DEF Fresh, Destroys

LEMMA QuietEdit ==
    ASSUME NEW verb \in {"edit"}, NEW values, ValuesOK(verb, values),
           NEW s,
           s = <<Need({"name"}), Stage("needSome", Capacities), Rooted,
                 Stage("load", {}), Check({}), Stage("changed", {}), Perform>>
    PROVE  Fresh(verb, values, TRUE, s)
<1>1. Len(s) = 7 /\ 1..Len(s) = {1, 2, 3, 4, 5, 6, 7}
  OBVIOUS
<1>2. s \in Seq(Stages)
  BY CapacitiesAre DEF Need, Terminal, Rooted, Ask, Elevate, Check, Perform, Stage, Stages, Kinds
<1>3. /\ s[1].do = "need" /\ s[2].do = "needSome" /\ s[3].do = "rooted" /\
         s[4].do = "load" /\ s[5].do = "check" /\ s[6].do = "changed" /\
         s[7].do = "perform"
  BY DEF Need, Terminal, Rooted, Ask, Elevate, Check, Perform, Stage
<1>4. /\ s[1].on = {"name"}
  BY CapacitiesAre DEF Need, Terminal, Rooted, Ask, Elevate, Check, Perform, Stage
<1>5. /\ Asks(s) = {} /\ Elevates(s) = {} /\ Confirms(s) = {}
  BY ONLY <1>1, <1>3 DEF Asks, Elevates, Confirms, Places
<1>6. /\ Places(s, {"load"}) = {4} /\ Places(s, {"rooted", "elevate"}) = {3}
      /\ Places(s, {"need", "ask"}) = {1}
  BY ONLY <1>1, <1>3 DEF Places
<1>7. /\ Accepted(verb) = {"name", "disk", "vcpus"} /\ \A f \in {"image", "lan", "remote", "policy", "output", "archive"} : values[f] = Unset
  BY CapacitiesAre DEF ValuesOK, Accepted
<1>8. Formed(verb, s)
  <2>1. \A i \in 1..Len(s) : s[i].do = "perform" <=> i = Len(s)
    BY ONLY <1>1, <1>3
  <2>2. \A i \in Asks(s) : \E f \in Accepted(verb) \ {"remote"} : s[i].on = {f}
    BY ONLY <1>4, <1>5, <1>7
  <2>3. verb = "edit" \/ \A i \in 1..Len(s) : s[i].do # "review"
    BY ONLY verb \in {"edit"}
  <2> QED BY ONLY <1>1, <1>2, <2>1, <2>2, <2>3 DEF Formed
<1>9. Carried(values, s)
  BY ONLY <1>5 DEF Carried
<1>10. AsksLan(s) = {}
  BY ONLY <1>4, <1>5 DEF AsksLan
<1>11. Sized(verb, values, s) /\ Loaded(verb, Unset, s)
  BY ONLY <1>4, <1>5, <1>6, CapacitiesAre, verb \in {"edit"} DEF Sized, Loaded
<1> QED BY ONLY verb \in {"edit"}, <1>5, <1>6, <1>8, <1>9, <1>10, <1>11 DEF Fresh, Destroys

LEMMA QuietNew ==
    ASSUME NEW verb \in {"new"}, NEW values, ValuesOK(verb, values),
           NEW s,
           s = (<<Need({"name", "image"} \cup Capacities), Rooted>>
                 \o <<Stage("catalog", {})>>)
                 \o <<Check({}), Stage("provision", {}), Perform>>
    PROVE  Fresh(verb, values, TRUE, s)
<1>1. Len(s) = 6 /\ 1..Len(s) = {1, 2, 3, 4, 5, 6}
  OBVIOUS
<1>2. s \in Seq(Stages)
  BY CapacitiesAre DEF Need, Terminal, Rooted, Ask, Elevate, Check, Perform, Stage, Stages, Kinds
<1>3. /\ s[1].do = "need" /\ s[2].do = "rooted" /\ s[3].do = "catalog" /\
         s[4].do = "check" /\ s[5].do = "provision" /\ s[6].do = "perform"
  BY DEF Need, Terminal, Rooted, Ask, Elevate, Check, Perform, Stage
<1>4. /\ s[1].on = {"name", "image", "disk", "vcpus"}
  BY CapacitiesAre DEF Need, Terminal, Rooted, Ask, Elevate, Check, Perform, Stage
<1>5. /\ Asks(s) = {} /\ Elevates(s) = {} /\ Confirms(s) = {}
  BY ONLY <1>1, <1>3 DEF Asks, Elevates, Confirms, Places
<1>6. /\ Places(s, {"load"}) = {} /\ Places(s, {"rooted", "elevate"}) = {2}
      /\ Places(s, {"need", "ask"}) = {1}
  BY ONLY <1>1, <1>3 DEF Places
<1>7. /\ Accepted(verb) = {"name", "image", "lan", "disk", "vcpus"} /\ \A f \in {"remote", "policy", "output", "archive"} : values[f] = Unset
  BY CapacitiesAre DEF ValuesOK, Accepted
<1>8. Formed(verb, s)
  <2>1. \A i \in 1..Len(s) : s[i].do = "perform" <=> i = Len(s)
    BY ONLY <1>1, <1>3
  <2>2. \A i \in Asks(s) : \E f \in Accepted(verb) \ {"remote"} : s[i].on = {f}
    BY ONLY <1>4, <1>5, <1>7
  <2>3. verb = "edit" \/ \A i \in 1..Len(s) : s[i].do # "review"
    BY ONLY <1>1, <1>3
  <2> QED BY ONLY <1>1, <1>2, <2>1, <2>2, <2>3 DEF Formed
<1>9. Carried(values, s)
  BY ONLY <1>5 DEF Carried
<1>10. AsksLan(s) = {}
  BY ONLY <1>4, <1>5 DEF AsksLan
<1>11. Sized(verb, values, s) /\ Loaded(verb, Unset, s)
  BY ONLY <1>4, <1>5, <1>6, CapacitiesAre, verb \in {"new"} DEF Sized, Loaded
<1> QED BY ONLY verb \in {"new"}, <1>5, <1>6, <1>8, <1>9, <1>10, <1>11 DEF Fresh, Destroys

LEMMA TrustedNew ==
    ASSUME NEW verb \in {"new"}, NEW values, ValuesOK(verb, values),
           NEW s,
           s = <<Need({"name", "image"} \cup Capacities), Rooted>>
                 \o <<Check({}), Stage("provision", {}), Perform>>
    PROVE  Fresh(verb, values, TRUE, s)
<1>1. Len(s) = 5 /\ 1..Len(s) = {1, 2, 3, 4, 5}
  OBVIOUS
<1>2. s \in Seq(Stages)
  BY CapacitiesAre DEF Need, Terminal, Rooted, Ask, Elevate, Check, Perform, Stage, Stages, Kinds
<1>3. /\ s[1].do = "need" /\ s[2].do = "rooted" /\ s[3].do = "check" /\
         s[4].do = "provision" /\ s[5].do = "perform"
  BY DEF Need, Terminal, Rooted, Ask, Elevate, Check, Perform, Stage
<1>4. /\ s[1].on = {"name", "image", "disk", "vcpus"}
  BY CapacitiesAre DEF Need, Terminal, Rooted, Ask, Elevate, Check, Perform, Stage
<1>5. /\ Asks(s) = {} /\ Elevates(s) = {} /\ Confirms(s) = {}
  BY ONLY <1>1, <1>3 DEF Asks, Elevates, Confirms, Places
<1>6. /\ Places(s, {"load"}) = {} /\ Places(s, {"rooted", "elevate"}) = {2}
      /\ Places(s, {"need", "ask"}) = {1}
  BY ONLY <1>1, <1>3 DEF Places
<1>7. /\ Accepted(verb) = {"name", "image", "lan", "disk", "vcpus"} /\ \A f \in {"remote", "policy", "output", "archive"} : values[f] = Unset
  BY CapacitiesAre DEF ValuesOK, Accepted
<1>8. Formed(verb, s)
  <2>1. \A i \in 1..Len(s) : s[i].do = "perform" <=> i = Len(s)
    BY ONLY <1>1, <1>3
  <2>2. \A i \in Asks(s) : \E f \in Accepted(verb) \ {"remote"} : s[i].on = {f}
    BY ONLY <1>4, <1>5, <1>7
  <2>3. verb = "edit" \/ \A i \in 1..Len(s) : s[i].do # "review"
    BY ONLY <1>1, <1>3
  <2> QED BY ONLY <1>1, <1>2, <2>1, <2>2, <2>3 DEF Formed
<1>9. Carried(values, s)
  BY ONLY <1>5 DEF Carried
<1>10. AsksLan(s) = {}
  BY ONLY <1>4, <1>5 DEF AsksLan
<1>11. Sized(verb, values, s) /\ Loaded(verb, Unset, s)
  BY ONLY <1>4, <1>5, <1>6, CapacitiesAre, verb \in {"new"} DEF Sized, Loaded
<1> QED BY ONLY verb \in {"new"}, <1>5, <1>6, <1>8, <1>9, <1>10, <1>11 DEF Fresh, Destroys

LEMMA NamedSwitch ==
    ASSUME NEW verb \in {"start", "stop"}, NEW values, ValuesOK(verb, values),
           NEW s,
           s = <<Elevate({"name"}, TRUE), Perform>>
    PROVE  Fresh(verb, values, FALSE, s)
<1>1. Len(s) = 2 /\ 1..Len(s) = {1, 2}
  OBVIOUS
<1>2. s \in Seq(Stages)
  BY CapacitiesAre DEF Need, Terminal, Rooted, Ask, Elevate, Check, Perform, Stage, Stages, Kinds
<1>3. /\ s[1].do = "elevate" /\ s[2].do = "perform"
  BY DEF Need, Terminal, Rooted, Ask, Elevate, Check, Perform, Stage
<1>4. /\ s[1].on = {"name"} /\ s[1].quiet = TRUE
  BY CapacitiesAre DEF Need, Terminal, Rooted, Ask, Elevate, Check, Perform, Stage
<1>5. /\ Asks(s) = {} /\ Elevates(s) = {1} /\ Confirms(s) = {}
  BY ONLY <1>1, <1>3 DEF Asks, Elevates, Confirms, Places
<1>6. /\ Places(s, {"load"}) = {} /\ Places(s, {"rooted", "elevate"}) = {1}
      /\ Places(s, {"need", "ask"}) = {}
  BY ONLY <1>1, <1>3 DEF Places
<1>7. /\ Accepted(verb) = {"name"} /\ \A f \in {"disk", "vcpus", "image", "lan", "remote", "policy", "output", "archive"} : values[f] = Unset
  BY CapacitiesAre DEF ValuesOK, Accepted
<1>8. Formed(verb, s)
  <2>1. \A i \in 1..Len(s) : s[i].do = "perform" <=> i = Len(s)
    BY ONLY <1>1, <1>3
  <2>2. \A i \in Asks(s) : \E f \in Accepted(verb) \ {"remote"} : s[i].on = {f}
    BY ONLY <1>4, <1>5, <1>7
  <2>3. verb = "edit" \/ \A i \in 1..Len(s) : s[i].do # "review"
    BY ONLY <1>1, <1>3
  <2> QED BY ONLY <1>1, <1>2, <2>1, <2>2, <2>3 DEF Formed
<1>9. Carried(values, s)
  BY ONLY <1>4, <1>5, <1>7, CapacitiesAre DEF Carried
<1>10. AsksLan(s) = {}
  BY ONLY <1>4, <1>5 DEF AsksLan
<1>11. Sized(verb, values, s) /\ Loaded(verb, Unset, s)
  BY ONLY <1>4, <1>5, <1>6, CapacitiesAre, verb \in {"start", "stop"} DEF Sized, Loaded
<1> QED BY ONLY verb \in {"start", "stop"}, <1>5, <1>6, <1>8, <1>9, <1>10, <1>11 DEF Fresh, Destroys

LEMMA SelectedSwitch ==
    ASSUME NEW verb \in {"start", "stop"}, NEW values, ValuesOK(verb, values),
           values["name"] = Unset,
           NEW s,
           s = <<Elevate({}, FALSE), Terminal, Ask("name")>>
                 \o <<Elevate({"name"}, TRUE), Perform>>
    PROVE  Fresh(verb, values, FALSE, s)
<1>1. Len(s) = 5 /\ 1..Len(s) = {1, 2, 3, 4, 5}
  OBVIOUS
<1>2. s \in Seq(Stages)
  BY CapacitiesAre DEF Need, Terminal, Rooted, Ask, Elevate, Check, Perform, Stage, Stages, Kinds
<1>3. /\ s[1].do = "elevate" /\ s[2].do = "terminal" /\ s[3].do = "ask" /\
         s[4].do = "elevate" /\ s[5].do = "perform"
  BY DEF Need, Terminal, Rooted, Ask, Elevate, Check, Perform, Stage
<1>4. /\ s[1].on = {} /\ s[3].on = {"name"} /\ s[4].on = {"name"} /\
         s[1].quiet = FALSE /\ s[4].quiet = TRUE
  BY CapacitiesAre DEF Need, Terminal, Rooted, Ask, Elevate, Check, Perform, Stage
<1>5. /\ Asks(s) = {3} /\ Elevates(s) = {1, 4} /\ Confirms(s) = {}
  BY ONLY <1>1, <1>3 DEF Asks, Elevates, Confirms, Places
<1>6. /\ Places(s, {"load"}) = {} /\ Places(s, {"rooted", "elevate"}) = {1, 4}
      /\ Places(s, {"need", "ask"}) = {3}
  BY ONLY <1>1, <1>3 DEF Places
<1>7. /\ Accepted(verb) = {"name"} /\ \A f \in {"disk", "vcpus", "image", "lan", "remote", "policy", "output", "archive"} : values[f] = Unset
  BY CapacitiesAre DEF ValuesOK, Accepted
<1>8. Formed(verb, s)
  <2>1. \A i \in 1..Len(s) : s[i].do = "perform" <=> i = Len(s)
    BY ONLY <1>1, <1>3
  <2>2. \A i \in Asks(s) : \E f \in Accepted(verb) \ {"remote"} : s[i].on = {f}
    BY ONLY <1>4, <1>5, <1>7
  <2>3. verb = "edit" \/ \A i \in 1..Len(s) : s[i].do # "review"
    BY ONLY <1>1, <1>3
  <2> QED BY ONLY <1>1, <1>2, <2>1, <2>2, <2>3 DEF Formed
<1>9. Carried(values, s)
  BY ONLY <1>4, <1>5, <1>7, CapacitiesAre, values["name"] = Unset DEF Carried
<1>10. AsksLan(s) = {}
  BY ONLY <1>4, <1>5 DEF AsksLan
<1>11. Sized(verb, values, s) /\ Loaded(verb, Unset, s)
  BY ONLY <1>4, <1>5, <1>6, CapacitiesAre, verb \in {"start", "stop"} DEF Sized, Loaded
<1> QED BY ONLY verb \in {"start", "stop"}, <1>5, <1>6, <1>8, <1>9, <1>10, <1>11 DEF Fresh, Destroys

LEMMA NamedDelete ==
    ASSUME NEW verb \in {"delete"}, NEW values, ValuesOK(verb, values),
           NEW s,
           s = <<Elevate({"name"}, TRUE), Stage("confirmOnTerminal", {}),
                 Stage("probe", {}), Perform>>
    PROVE  Fresh(verb, values, FALSE, s)
<1>1. Len(s) = 4 /\ 1..Len(s) = {1, 2, 3, 4}
  OBVIOUS
<1>2. s \in Seq(Stages)
  BY CapacitiesAre DEF Need, Terminal, Rooted, Ask, Elevate, Check, Perform, Stage, Stages, Kinds
<1>3. /\ s[1].do = "elevate" /\ s[2].do = "confirmOnTerminal" /\ s[3].do = "probe" /\
         s[4].do = "perform"
  BY DEF Need, Terminal, Rooted, Ask, Elevate, Check, Perform, Stage
<1>4. /\ s[1].on = {"name"} /\ s[1].quiet = TRUE
  BY CapacitiesAre DEF Need, Terminal, Rooted, Ask, Elevate, Check, Perform, Stage
<1>5. /\ Asks(s) = {} /\ Elevates(s) = {1} /\ Confirms(s) = {2}
  BY ONLY <1>1, <1>3 DEF Asks, Elevates, Confirms, Places
<1>6. /\ Places(s, {"load"}) = {} /\ Places(s, {"rooted", "elevate"}) = {1}
      /\ Places(s, {"need", "ask"}) = {}
  BY ONLY <1>1, <1>3 DEF Places
<1>7. /\ Accepted(verb) = {"name"} /\ \A f \in {"disk", "vcpus", "image", "lan", "remote", "policy", "output", "archive"} : values[f] = Unset
  BY CapacitiesAre DEF ValuesOK, Accepted
<1>8. Formed(verb, s)
  <2>1. \A i \in 1..Len(s) : s[i].do = "perform" <=> i = Len(s)
    BY ONLY <1>1, <1>3
  <2>2. \A i \in Asks(s) : \E f \in Accepted(verb) \ {"remote"} : s[i].on = {f}
    BY ONLY <1>4, <1>5, <1>7
  <2>3. verb = "edit" \/ \A i \in 1..Len(s) : s[i].do # "review"
    BY ONLY <1>1, <1>3
  <2> QED BY ONLY <1>1, <1>2, <2>1, <2>2, <2>3 DEF Formed
<1>9. Carried(values, s)
  BY ONLY <1>4, <1>5, <1>7, CapacitiesAre DEF Carried
<1>10. AsksLan(s) = {}
  BY ONLY <1>4, <1>5 DEF AsksLan
<1>11. Sized(verb, values, s) /\ Loaded(verb, Unset, s)
  BY ONLY <1>4, <1>5, <1>6, CapacitiesAre, verb \in {"delete"} DEF Sized, Loaded
<1>12. RemovalConfirms(0, s)
  BY ONLY <1>4, <1>5, <1>10 DEF RemovalConfirms
<1> QED BY ONLY verb \in {"delete"}, <1>5, <1>6, <1>8, <1>9, <1>10, <1>11, <1>12 DEF Fresh, Destroys

LEMMA SelectedDelete ==
    ASSUME NEW verb \in {"delete"}, NEW values, ValuesOK(verb, values),
           values["name"] = Unset,
           NEW s,
           s = <<Elevate({}, FALSE), Terminal, Ask("name")>>
                 \o <<Elevate({"name"}, TRUE), Stage("confirmOnTerminal", {}),
                      Stage("probe", {}), Perform>>
    PROVE  Fresh(verb, values, FALSE, s)
<1>1. Len(s) = 7 /\ 1..Len(s) = {1, 2, 3, 4, 5, 6, 7}
  OBVIOUS
<1>2. s \in Seq(Stages)
  BY CapacitiesAre DEF Need, Terminal, Rooted, Ask, Elevate, Check, Perform, Stage, Stages, Kinds
<1>3. /\ s[1].do = "elevate" /\ s[2].do = "terminal" /\ s[3].do = "ask" /\
         s[4].do = "elevate" /\ s[5].do = "confirmOnTerminal" /\ s[6].do = "probe" /\
         s[7].do = "perform"
  BY DEF Need, Terminal, Rooted, Ask, Elevate, Check, Perform, Stage
<1>4. /\ s[1].on = {} /\ s[3].on = {"name"} /\ s[4].on = {"name"} /\
         s[1].quiet = FALSE /\ s[4].quiet = TRUE
  BY CapacitiesAre DEF Need, Terminal, Rooted, Ask, Elevate, Check, Perform, Stage
<1>5. /\ Asks(s) = {3} /\ Elevates(s) = {1, 4} /\ Confirms(s) = {5}
  BY ONLY <1>1, <1>3 DEF Asks, Elevates, Confirms, Places
<1>6. /\ Places(s, {"load"}) = {} /\ Places(s, {"rooted", "elevate"}) = {1, 4}
      /\ Places(s, {"need", "ask"}) = {3}
  BY ONLY <1>1, <1>3 DEF Places
<1>7. /\ Accepted(verb) = {"name"} /\ \A f \in {"disk", "vcpus", "image", "lan", "remote", "policy", "output", "archive"} : values[f] = Unset
  BY CapacitiesAre DEF ValuesOK, Accepted
<1>8. Formed(verb, s)
  <2>1. \A i \in 1..Len(s) : s[i].do = "perform" <=> i = Len(s)
    BY ONLY <1>1, <1>3
  <2>2. \A i \in Asks(s) : \E f \in Accepted(verb) \ {"remote"} : s[i].on = {f}
    BY ONLY <1>4, <1>5, <1>7
  <2>3. verb = "edit" \/ \A i \in 1..Len(s) : s[i].do # "review"
    BY ONLY <1>1, <1>3
  <2> QED BY ONLY <1>1, <1>2, <2>1, <2>2, <2>3 DEF Formed
<1>9. Carried(values, s)
  BY ONLY <1>4, <1>5, <1>7, CapacitiesAre, values["name"] = Unset DEF Carried
<1>10. AsksLan(s) = {}
  BY ONLY <1>4, <1>5 DEF AsksLan
<1>11. Sized(verb, values, s) /\ Loaded(verb, Unset, s)
  BY ONLY <1>4, <1>5, <1>6, CapacitiesAre, verb \in {"delete"} DEF Sized, Loaded
<1>12. RemovalConfirms(0, s)
  BY ONLY <1>4, <1>5, <1>10 DEF RemovalConfirms
<1> QED BY ONLY verb \in {"delete"}, <1>5, <1>6, <1>8, <1>9, <1>10, <1>11, <1>12 DEF Fresh, Destroys

LEMMA AskedPrune ==
    ASSUME NEW verb \in {"prune"}, NEW values, ValuesOK(verb, values),
           NEW s,
           s = <<Elevate({}, TRUE), Stage("preview", {}), Stage("confirm", {}),
                 Perform>>
    PROVE  Fresh(verb, values, FALSE, s)
<1>1. Len(s) = 4 /\ 1..Len(s) = {1, 2, 3, 4}
  OBVIOUS
<1>2. s \in Seq(Stages)
  BY CapacitiesAre DEF Need, Terminal, Rooted, Ask, Elevate, Check, Perform, Stage, Stages, Kinds
<1>3. /\ s[1].do = "elevate" /\ s[2].do = "preview" /\ s[3].do = "confirm" /\
         s[4].do = "perform"
  BY DEF Need, Terminal, Rooted, Ask, Elevate, Check, Perform, Stage
<1>4. /\ s[1].on = {} /\ s[1].quiet = TRUE
  BY CapacitiesAre DEF Need, Terminal, Rooted, Ask, Elevate, Check, Perform, Stage
<1>5. /\ Asks(s) = {} /\ Elevates(s) = {1} /\ Confirms(s) = {3}
  BY ONLY <1>1, <1>3 DEF Asks, Elevates, Confirms, Places
<1>6. /\ Places(s, {"load"}) = {} /\ Places(s, {"rooted", "elevate"}) = {1}
      /\ Places(s, {"need", "ask"}) = {}
  BY ONLY <1>1, <1>3 DEF Places
<1>7. /\ Accepted(verb) = {} /\ \A f \in {"name", "disk", "vcpus", "image", "lan", "remote", "policy", "output", "archive"} : values[f] = Unset
  BY CapacitiesAre DEF ValuesOK, Accepted
<1>8. Formed(verb, s)
  <2>1. \A i \in 1..Len(s) : s[i].do = "perform" <=> i = Len(s)
    BY ONLY <1>1, <1>3
  <2>2. \A i \in Asks(s) : \E f \in Accepted(verb) \ {"remote"} : s[i].on = {f}
    BY ONLY <1>4, <1>5, <1>7
  <2>3. verb = "edit" \/ \A i \in 1..Len(s) : s[i].do # "review"
    BY ONLY <1>1, <1>3
  <2> QED BY ONLY <1>1, <1>2, <2>1, <2>2, <2>3 DEF Formed
<1>9. Carried(values, s)
  BY ONLY <1>4, <1>5, <1>7, CapacitiesAre DEF Carried
<1>10. AsksLan(s) = {}
  BY ONLY <1>4, <1>5 DEF AsksLan
<1>11. Sized(verb, values, s) /\ Loaded(verb, Unset, s)
  BY ONLY <1>4, <1>5, <1>6, CapacitiesAre, verb \in {"prune"} DEF Sized, Loaded
<1>12. RemovalConfirms(0, s)
  BY ONLY <1>4, <1>5, <1>10 DEF RemovalConfirms
<1> QED BY ONLY verb \in {"prune"}, <1>5, <1>6, <1>8, <1>9, <1>10, <1>11, <1>12 DEF Fresh, Destroys

LEMMA Listing ==
    ASSUME NEW verb \in {"ls"}, NEW values, ValuesOK(verb, values),
           NEW s,
           s = <<Elevate({}, FALSE), Perform>>
    PROVE  Fresh(verb, values, FALSE, s)
<1>1. Len(s) = 2 /\ 1..Len(s) = {1, 2}
  OBVIOUS
<1>2. s \in Seq(Stages)
  BY CapacitiesAre DEF Need, Terminal, Rooted, Ask, Elevate, Check, Perform, Stage, Stages, Kinds
<1>3. /\ s[1].do = "elevate" /\ s[2].do = "perform"
  BY DEF Need, Terminal, Rooted, Ask, Elevate, Check, Perform, Stage
<1>4. /\ s[1].on = {} /\ s[1].quiet = FALSE
  BY CapacitiesAre DEF Need, Terminal, Rooted, Ask, Elevate, Check, Perform, Stage
<1>5. /\ Asks(s) = {} /\ Elevates(s) = {1} /\ Confirms(s) = {}
  BY ONLY <1>1, <1>3 DEF Asks, Elevates, Confirms, Places
<1>6. /\ Places(s, {"load"}) = {} /\ Places(s, {"rooted", "elevate"}) = {1}
      /\ Places(s, {"need", "ask"}) = {}
  BY ONLY <1>1, <1>3 DEF Places
<1>7. /\ Accepted(verb) = {} /\ \A f \in {"name", "disk", "vcpus", "image", "lan", "remote", "policy", "output", "archive"} : values[f] = Unset
  BY CapacitiesAre DEF ValuesOK, Accepted
<1>8. Formed(verb, s)
  <2>1. \A i \in 1..Len(s) : s[i].do = "perform" <=> i = Len(s)
    BY ONLY <1>1, <1>3
  <2>2. \A i \in Asks(s) : \E f \in Accepted(verb) \ {"remote"} : s[i].on = {f}
    BY ONLY <1>4, <1>5, <1>7
  <2>3. verb = "edit" \/ \A i \in 1..Len(s) : s[i].do # "review"
    BY ONLY <1>1, <1>3
  <2> QED BY ONLY <1>1, <1>2, <2>1, <2>2, <2>3 DEF Formed
<1>9. Carried(values, s)
  BY ONLY <1>4, <1>5, <1>7, CapacitiesAre DEF Carried
<1>10. AsksLan(s) = {}
  BY ONLY <1>4, <1>5 DEF AsksLan
<1>11. Sized(verb, values, s) /\ Loaded(verb, Unset, s)
  BY ONLY <1>4, <1>5, <1>6, CapacitiesAre, verb \in {"ls"} DEF Sized, Loaded
<1> QED BY ONLY verb \in {"ls"}, <1>5, <1>6, <1>8, <1>9, <1>10, <1>11 DEF Fresh, Destroys

LEMMA NamedSnapshot ==
    ASSUME NEW verb \in {"snapshot"}, NEW values, ValuesOK(verb, values),
           NEW s,
           s = <<Ask("policy"), Elevate({"name", "output", "policy"}, FALSE),
                 Stage("askOnTerminal", {"output"}), Perform>>
    PROVE  Fresh(verb, values, FALSE, s)
<1>1. Len(s) = 4 /\ 1..Len(s) = {1, 2, 3, 4}
  OBVIOUS
<1>2. s \in Seq(Stages)
  BY CapacitiesAre DEF Need, Terminal, Rooted, Ask, Elevate, Check, Perform, Stage, Stages, Kinds
<1>3. /\ s[1].do = "ask" /\ s[2].do = "elevate" /\ s[3].do = "askOnTerminal" /\
         s[4].do = "perform"
  BY DEF Need, Terminal, Rooted, Ask, Elevate, Check, Perform, Stage
<1>4. /\ s[1].on = {"policy"} /\ s[2].on = {"name", "output", "policy"} /\
         s[3].on = {"output"} /\ s[2].quiet = FALSE
  BY CapacitiesAre DEF Need, Terminal, Rooted, Ask, Elevate, Check, Perform, Stage
<1>5. /\ Asks(s) = {1, 3} /\ Elevates(s) = {2} /\ Confirms(s) = {}
  BY ONLY <1>1, <1>3 DEF Asks, Elevates, Confirms, Places
<1>6. /\ Places(s, {"load"}) = {} /\ Places(s, {"rooted", "elevate"}) = {2}
      /\ Places(s, {"need", "ask"}) = {1}
  BY ONLY <1>1, <1>3 DEF Places
<1>7. /\ Accepted(verb) = {"name", "policy", "output"} /\ \A f \in {"disk", "vcpus", "image", "lan", "remote", "archive"} : values[f] = Unset
  BY CapacitiesAre DEF ValuesOK, Accepted
<1>8. Formed(verb, s)
  <2>1. \A i \in 1..Len(s) : s[i].do = "perform" <=> i = Len(s)
    BY ONLY <1>1, <1>3
  <2>2. \A i \in Asks(s) : \E f \in Accepted(verb) \ {"remote"} : s[i].on = {f}
    BY ONLY <1>4, <1>5, <1>7
  <2>3. verb = "edit" \/ \A i \in 1..Len(s) : s[i].do # "review"
    BY ONLY <1>1, <1>3
  <2> QED BY ONLY <1>1, <1>2, <2>1, <2>2, <2>3 DEF Formed
<1>9. Carried(values, s)
  BY ONLY <1>4, <1>5, <1>7, CapacitiesAre DEF Carried
<1>10. AsksLan(s) = {}
  BY ONLY <1>4, <1>5 DEF AsksLan
<1>11. Sized(verb, values, s) /\ Loaded(verb, Unset, s)
  BY ONLY <1>4, <1>5, <1>6, CapacitiesAre, verb \in {"snapshot"} DEF Sized, Loaded
<1> QED BY ONLY verb \in {"snapshot"}, <1>5, <1>6, <1>8, <1>9, <1>10, <1>11 DEF Fresh, Destroys

LEMMA SelectedSnapshot ==
    ASSUME NEW verb \in {"snapshot"}, NEW values, ValuesOK(verb, values),
           values["name"] = Unset,
           NEW s,
           s = <<Terminal, Elevate({"policy"}, FALSE), Ask("name")>>
                 \o <<Ask("policy"), Elevate({"name", "output", "policy"}, FALSE),
                      Stage("askOnTerminal", {"output"}), Perform>>
    PROVE  Fresh(verb, values, FALSE, s)
<1>1. Len(s) = 7 /\ 1..Len(s) = {1, 2, 3, 4, 5, 6, 7}
  OBVIOUS
<1>2. s \in Seq(Stages)
  BY CapacitiesAre DEF Need, Terminal, Rooted, Ask, Elevate, Check, Perform, Stage, Stages, Kinds
<1>3. /\ s[1].do = "terminal" /\ s[2].do = "elevate" /\ s[3].do = "ask" /\
         s[4].do = "ask" /\ s[5].do = "elevate" /\ s[6].do = "askOnTerminal" /\
         s[7].do = "perform"
  BY DEF Need, Terminal, Rooted, Ask, Elevate, Check, Perform, Stage
<1>4. /\ s[2].on = {"policy"} /\ s[3].on = {"name"} /\ s[4].on = {"policy"} /\
         s[5].on = {"name", "output", "policy"} /\ s[6].on = {"output"} /\
         s[2].quiet = FALSE /\ s[5].quiet = FALSE
  BY CapacitiesAre DEF Need, Terminal, Rooted, Ask, Elevate, Check, Perform, Stage
<1>5. /\ Asks(s) = {3, 4, 6} /\ Elevates(s) = {2, 5} /\ Confirms(s) = {}
  BY ONLY <1>1, <1>3 DEF Asks, Elevates, Confirms, Places
<1>6. /\ Places(s, {"load"}) = {} /\ Places(s, {"rooted", "elevate"}) = {2, 5}
      /\ Places(s, {"need", "ask"}) = {3, 4}
  BY ONLY <1>1, <1>3 DEF Places
<1>7. /\ Accepted(verb) = {"name", "policy", "output"} /\ \A f \in {"disk", "vcpus", "image", "lan", "remote", "archive"} : values[f] = Unset
  BY CapacitiesAre DEF ValuesOK, Accepted
<1>8. Formed(verb, s)
  <2>1. \A i \in 1..Len(s) : s[i].do = "perform" <=> i = Len(s)
    BY ONLY <1>1, <1>3
  <2>2. \A i \in Asks(s) : \E f \in Accepted(verb) \ {"remote"} : s[i].on = {f}
    BY ONLY <1>4, <1>5, <1>7
  <2>3. verb = "edit" \/ \A i \in 1..Len(s) : s[i].do # "review"
    BY ONLY <1>1, <1>3
  <2> QED BY ONLY <1>1, <1>2, <2>1, <2>2, <2>3 DEF Formed
<1>9. Carried(values, s)
  BY ONLY <1>4, <1>5, <1>7, CapacitiesAre, values["name"] = Unset DEF Carried
<1>10. AsksLan(s) = {}
  BY ONLY <1>4, <1>5 DEF AsksLan
<1>11. Sized(verb, values, s) /\ Loaded(verb, Unset, s)
  BY ONLY <1>4, <1>5, <1>6, CapacitiesAre, verb \in {"snapshot"} DEF Sized, Loaded
<1> QED BY ONLY verb \in {"snapshot"}, <1>5, <1>6, <1>8, <1>9, <1>10, <1>11 DEF Fresh, Destroys

LEMMA NamedRestore ==
    ASSUME NEW verb \in {"restore"}, NEW values, ValuesOK(verb, values),
           NEW s,
           s = <<Elevate({"archive"}, FALSE), Ask("archive"), Perform>>
    PROVE  Fresh(verb, values, FALSE, s)
<1>1. Len(s) = 3 /\ 1..Len(s) = {1, 2, 3}
  OBVIOUS
<1>2. s \in Seq(Stages)
  BY CapacitiesAre DEF Need, Terminal, Rooted, Ask, Elevate, Check, Perform, Stage, Stages, Kinds
<1>3. /\ s[1].do = "elevate" /\ s[2].do = "ask" /\ s[3].do = "perform"
  BY DEF Need, Terminal, Rooted, Ask, Elevate, Check, Perform, Stage
<1>4. /\ s[1].on = {"archive"} /\ s[2].on = {"archive"} /\ s[1].quiet = FALSE
  BY CapacitiesAre DEF Need, Terminal, Rooted, Ask, Elevate, Check, Perform, Stage
<1>5. /\ Asks(s) = {2} /\ Elevates(s) = {1} /\ Confirms(s) = {}
  BY ONLY <1>1, <1>3 DEF Asks, Elevates, Confirms, Places
<1>6. /\ Places(s, {"load"}) = {} /\ Places(s, {"rooted", "elevate"}) = {1}
      /\ Places(s, {"need", "ask"}) = {2}
  BY ONLY <1>1, <1>3 DEF Places
<1>7. /\ Accepted(verb) = {"archive"} /\ \A f \in {"name", "disk", "vcpus", "image", "lan", "remote", "policy", "output"} : values[f] = Unset
  BY CapacitiesAre DEF ValuesOK, Accepted
<1>8. Formed(verb, s)
  <2>1. \A i \in 1..Len(s) : s[i].do = "perform" <=> i = Len(s)
    BY ONLY <1>1, <1>3
  <2>2. \A i \in Asks(s) : \E f \in Accepted(verb) \ {"remote"} : s[i].on = {f}
    BY ONLY <1>4, <1>5, <1>7
  <2>3. verb = "edit" \/ \A i \in 1..Len(s) : s[i].do # "review"
    BY ONLY <1>1, <1>3
  <2> QED BY ONLY <1>1, <1>2, <2>1, <2>2, <2>3 DEF Formed
<1>9. Carried(values, s)
  BY ONLY <1>4, <1>5, <1>7, CapacitiesAre DEF Carried
<1>10. AsksLan(s) = {}
  BY ONLY <1>4, <1>5 DEF AsksLan
<1>11. Sized(verb, values, s) /\ Loaded(verb, Unset, s)
  BY ONLY <1>4, <1>5, <1>6, CapacitiesAre, verb \in {"restore"} DEF Sized, Loaded
<1> QED BY ONLY verb \in {"restore"}, <1>5, <1>6, <1>8, <1>9, <1>10, <1>11 DEF Fresh, Destroys

LEMMA AskedRestore ==
    ASSUME NEW verb \in {"restore"}, NEW values, ValuesOK(verb, values),
           NEW s,
           s = <<Terminal>>
                 \o <<Elevate({"archive"}, FALSE), Ask("archive"), Perform>>
    PROVE  Fresh(verb, values, FALSE, s)
<1>1. Len(s) = 4 /\ 1..Len(s) = {1, 2, 3, 4}
  OBVIOUS
<1>2. s \in Seq(Stages)
  BY CapacitiesAre DEF Need, Terminal, Rooted, Ask, Elevate, Check, Perform, Stage, Stages, Kinds
<1>3. /\ s[1].do = "terminal" /\ s[2].do = "elevate" /\ s[3].do = "ask" /\
         s[4].do = "perform"
  BY DEF Need, Terminal, Rooted, Ask, Elevate, Check, Perform, Stage
<1>4. /\ s[2].on = {"archive"} /\ s[3].on = {"archive"} /\ s[2].quiet = FALSE
  BY CapacitiesAre DEF Need, Terminal, Rooted, Ask, Elevate, Check, Perform, Stage
<1>5. /\ Asks(s) = {3} /\ Elevates(s) = {2} /\ Confirms(s) = {}
  BY ONLY <1>1, <1>3 DEF Asks, Elevates, Confirms, Places
<1>6. /\ Places(s, {"load"}) = {} /\ Places(s, {"rooted", "elevate"}) = {2}
      /\ Places(s, {"need", "ask"}) = {3}
  BY ONLY <1>1, <1>3 DEF Places
<1>7. /\ Accepted(verb) = {"archive"} /\ \A f \in {"name", "disk", "vcpus", "image", "lan", "remote", "policy", "output"} : values[f] = Unset
  BY CapacitiesAre DEF ValuesOK, Accepted
<1>8. Formed(verb, s)
  <2>1. \A i \in 1..Len(s) : s[i].do = "perform" <=> i = Len(s)
    BY ONLY <1>1, <1>3
  <2>2. \A i \in Asks(s) : \E f \in Accepted(verb) \ {"remote"} : s[i].on = {f}
    BY ONLY <1>4, <1>5, <1>7
  <2>3. verb = "edit" \/ \A i \in 1..Len(s) : s[i].do # "review"
    BY ONLY <1>1, <1>3
  <2> QED BY ONLY <1>1, <1>2, <2>1, <2>2, <2>3 DEF Formed
<1>9. Carried(values, s)
  BY ONLY <1>4, <1>5, <1>7, CapacitiesAre DEF Carried
<1>10. AsksLan(s) = {}
  BY ONLY <1>4, <1>5 DEF AsksLan
<1>11. Sized(verb, values, s) /\ Loaded(verb, Unset, s)
  BY ONLY <1>4, <1>5, <1>6, CapacitiesAre, verb \in {"restore"} DEF Sized, Loaded
<1> QED BY ONLY verb \in {"restore"}, <1>5, <1>6, <1>8, <1>9, <1>10, <1>11 DEF Fresh, Destroys

LEMMA RemoteSsh ==
    ASSUME NEW verb \in {"ssh"}, NEW values, ValuesOK(verb, values),
           values["name"] # Unset,
           NEW s,
           s = <<Elevate({"name", "remote"}, TRUE), Stage("running", {}), Perform>>
    PROVE  Fresh(verb, values, FALSE, s)
<1>1. Len(s) = 3 /\ 1..Len(s) = {1, 2, 3}
  OBVIOUS
<1>2. s \in Seq(Stages)
  BY CapacitiesAre DEF Need, Terminal, Rooted, Ask, Elevate, Check, Perform, Stage, Stages, Kinds
<1>3. /\ s[1].do = "elevate" /\ s[2].do = "running" /\ s[3].do = "perform"
  BY DEF Need, Terminal, Rooted, Ask, Elevate, Check, Perform, Stage
<1>4. /\ s[1].on = {"name", "remote"} /\ s[1].quiet = TRUE
  BY CapacitiesAre DEF Need, Terminal, Rooted, Ask, Elevate, Check, Perform, Stage
<1>5. /\ Asks(s) = {} /\ Elevates(s) = {1} /\ Confirms(s) = {}
  BY ONLY <1>1, <1>3 DEF Asks, Elevates, Confirms, Places
<1>6. /\ Places(s, {"load"}) = {} /\ Places(s, {"rooted", "elevate"}) = {1}
      /\ Places(s, {"need", "ask"}) = {}
  BY ONLY <1>1, <1>3 DEF Places
<1>7. /\ Accepted(verb) = {"name", "remote"} /\ \A f \in {"disk", "vcpus", "image", "lan", "policy", "output", "archive"} : values[f] = Unset
  BY CapacitiesAre DEF ValuesOK, Accepted
<1>8. Formed(verb, s)
  <2>1. \A i \in 1..Len(s) : s[i].do = "perform" <=> i = Len(s)
    BY ONLY <1>1, <1>3
  <2>2. \A i \in Asks(s) : \E f \in Accepted(verb) \ {"remote"} : s[i].on = {f}
    BY ONLY <1>4, <1>5, <1>7
  <2>3. verb = "edit" \/ \A i \in 1..Len(s) : s[i].do # "review"
    BY ONLY <1>1, <1>3
  <2> QED BY ONLY <1>1, <1>2, <2>1, <2>2, <2>3 DEF Formed
<1>9. Carried(values, s)
  BY ONLY <1>4, <1>5, <1>7, CapacitiesAre DEF Carried
<1>10. AsksLan(s) = {}
  BY ONLY <1>4, <1>5 DEF AsksLan
<1>11. Sized(verb, values, s) /\ Loaded(verb, Unset, s)
  BY ONLY <1>4, <1>5, <1>6, CapacitiesAre, verb \in {"ssh"} DEF Sized, Loaded
<1> QED BY ONLY verb \in {"ssh"}, values["name"] # Unset, <1>5, <1>6, <1>8, <1>9, <1>10, <1>11 DEF Fresh, Destroys

LEMMA ShellSsh ==
    ASSUME NEW verb \in {"ssh"}, NEW values, ValuesOK(verb, values),
           values["name"] # Unset,
           NEW s,
           s = <<Terminal>>
                 \o <<Elevate({"name", "remote"}, TRUE), Stage("running", {}), Perform>>
    PROVE  Fresh(verb, values, FALSE, s)
<1>1. Len(s) = 4 /\ 1..Len(s) = {1, 2, 3, 4}
  OBVIOUS
<1>2. s \in Seq(Stages)
  BY CapacitiesAre DEF Need, Terminal, Rooted, Ask, Elevate, Check, Perform, Stage, Stages, Kinds
<1>3. /\ s[1].do = "terminal" /\ s[2].do = "elevate" /\ s[3].do = "running" /\
         s[4].do = "perform"
  BY DEF Need, Terminal, Rooted, Ask, Elevate, Check, Perform, Stage
<1>4. /\ s[2].on = {"name", "remote"} /\ s[2].quiet = TRUE
  BY CapacitiesAre DEF Need, Terminal, Rooted, Ask, Elevate, Check, Perform, Stage
<1>5. /\ Asks(s) = {} /\ Elevates(s) = {2} /\ Confirms(s) = {}
  BY ONLY <1>1, <1>3 DEF Asks, Elevates, Confirms, Places
<1>6. /\ Places(s, {"load"}) = {} /\ Places(s, {"rooted", "elevate"}) = {2}
      /\ Places(s, {"need", "ask"}) = {}
  BY ONLY <1>1, <1>3 DEF Places
<1>7. /\ Accepted(verb) = {"name", "remote"} /\ \A f \in {"disk", "vcpus", "image", "lan", "policy", "output", "archive"} : values[f] = Unset
  BY CapacitiesAre DEF ValuesOK, Accepted
<1>8. Formed(verb, s)
  <2>1. \A i \in 1..Len(s) : s[i].do = "perform" <=> i = Len(s)
    BY ONLY <1>1, <1>3
  <2>2. \A i \in Asks(s) : \E f \in Accepted(verb) \ {"remote"} : s[i].on = {f}
    BY ONLY <1>4, <1>5, <1>7
  <2>3. verb = "edit" \/ \A i \in 1..Len(s) : s[i].do # "review"
    BY ONLY <1>1, <1>3
  <2> QED BY ONLY <1>1, <1>2, <2>1, <2>2, <2>3 DEF Formed
<1>9. Carried(values, s)
  BY ONLY <1>4, <1>5, <1>7, CapacitiesAre DEF Carried
<1>10. AsksLan(s) = {}
  BY ONLY <1>4, <1>5 DEF AsksLan
<1>11. Sized(verb, values, s) /\ Loaded(verb, Unset, s)
  BY ONLY <1>4, <1>5, <1>6, CapacitiesAre, verb \in {"ssh"} DEF Sized, Loaded
<1> QED BY ONLY verb \in {"ssh"}, values["name"] # Unset, <1>5, <1>6, <1>8, <1>9, <1>10, <1>11 DEF Fresh, Destroys

LEMMA SelectedSsh ==
    ASSUME NEW verb \in {"ssh"}, NEW values, ValuesOK(verb, values),
           values["name"] = Unset,
           NEW s,
           s = <<Elevate({}, FALSE), Terminal, Ask("name")>>
                 \o <<Elevate({"name", "remote"}, TRUE), Stage("running", {}), Perform>>
    PROVE  Fresh(verb, values, FALSE, s)
<1>1. Len(s) = 6 /\ 1..Len(s) = {1, 2, 3, 4, 5, 6}
  OBVIOUS
<1>2. s \in Seq(Stages)
  BY CapacitiesAre DEF Need, Terminal, Rooted, Ask, Elevate, Check, Perform, Stage, Stages, Kinds
<1>3. /\ s[1].do = "elevate" /\ s[2].do = "terminal" /\ s[3].do = "ask" /\
         s[4].do = "elevate" /\ s[5].do = "running" /\ s[6].do = "perform"
  BY DEF Need, Terminal, Rooted, Ask, Elevate, Check, Perform, Stage
<1>4. /\ s[1].on = {} /\ s[3].on = {"name"} /\ s[4].on = {"name", "remote"} /\
         s[1].quiet = FALSE /\ s[4].quiet = TRUE
  BY CapacitiesAre DEF Need, Terminal, Rooted, Ask, Elevate, Check, Perform, Stage
<1>5. /\ Asks(s) = {3} /\ Elevates(s) = {1, 4} /\ Confirms(s) = {}
  BY ONLY <1>1, <1>3 DEF Asks, Elevates, Confirms, Places
<1>6. /\ Places(s, {"load"}) = {} /\ Places(s, {"rooted", "elevate"}) = {1, 4}
      /\ Places(s, {"need", "ask"}) = {3}
  BY ONLY <1>1, <1>3 DEF Places
<1>7. /\ Accepted(verb) = {"name", "remote"} /\ \A f \in {"disk", "vcpus", "image", "lan", "policy", "output", "archive"} : values[f] = Unset
  BY CapacitiesAre DEF ValuesOK, Accepted
<1>8. Formed(verb, s)
  <2>1. \A i \in 1..Len(s) : s[i].do = "perform" <=> i = Len(s)
    BY ONLY <1>1, <1>3
  <2>2. \A i \in Asks(s) : \E f \in Accepted(verb) \ {"remote"} : s[i].on = {f}
    BY ONLY <1>4, <1>5, <1>7
  <2>3. verb = "edit" \/ \A i \in 1..Len(s) : s[i].do # "review"
    BY ONLY <1>1, <1>3
  <2> QED BY ONLY <1>1, <1>2, <2>1, <2>2, <2>3 DEF Formed
<1>9. Carried(values, s)
  BY ONLY <1>4, <1>5, <1>7, CapacitiesAre, values["name"] = Unset DEF Carried, Nameless
<1>10. AsksLan(s) = {}
  BY ONLY <1>4, <1>5 DEF AsksLan
<1>11. Sized(verb, values, s) /\ Loaded(verb, Unset, s)
  BY ONLY <1>4, <1>5, <1>6, CapacitiesAre, verb \in {"ssh"} DEF Sized, Loaded
<1>12. AsksName(s)
  <2>1. 3 \in Places(s, {"ask"})
    BY ONLY <1>1, <1>3 DEF Places
  <2> QED BY ONLY <1>4, <2>1 DEF AsksName
<1> QED BY ONLY verb \in {"ssh"}, <1>12, <1>5, <1>6, <1>8, <1>9, <1>10, <1>11 DEF Fresh, Destroys

LEMMA NamedEdit ==
    ASSUME NEW verb \in {"edit"}, NEW values, ValuesOK(verb, values),
           NEW s,
           s = (<<Stage("load", {}), Check({}), Terminal>>
                 \o <<Ask("disk"), Ask("vcpus")>>)
                 \o <<Check({"disk"}), Stage("review", {}), Stage("confirm", {}),
                      Elevate({"name"} \cup Capacities, TRUE), Perform>>
    PROVE  Fresh(verb, values, FALSE, s)
<1>1. Len(s) = 10 /\ 1..Len(s) = {1, 2, 3, 4, 5, 6, 7, 8, 9, 10}
  OBVIOUS
<1>2. s \in Seq(Stages)
  BY CapacitiesAre DEF Need, Terminal, Rooted, Ask, Elevate, Check, Perform, Stage, Stages, Kinds
<1>3. /\ s[1].do = "load" /\ s[2].do = "check" /\ s[3].do = "terminal" /\
         s[4].do = "ask" /\ s[5].do = "ask" /\ s[6].do = "check" /\
         s[7].do = "review" /\ s[8].do = "confirm" /\ s[9].do = "elevate" /\
         s[10].do = "perform"
  BY DEF Need, Terminal, Rooted, Ask, Elevate, Check, Perform, Stage
<1>4. /\ s[4].on = {"disk"} /\ s[5].on = {"vcpus"} /\
         s[9].on = {"name", "disk", "vcpus"} /\ s[9].quiet = TRUE
  BY CapacitiesAre DEF Need, Terminal, Rooted, Ask, Elevate, Check, Perform, Stage
<1>5. /\ Asks(s) = {4, 5} /\ Elevates(s) = {9} /\ Confirms(s) = {8}
  BY ONLY <1>1, <1>3 DEF Asks, Elevates, Confirms, Places
<1>6. /\ Places(s, {"load"}) = {1} /\ Places(s, {"rooted", "elevate"}) = {9}
      /\ Places(s, {"need", "ask"}) = {4, 5}
  BY ONLY <1>1, <1>3 DEF Places
<1>7. /\ Accepted(verb) = {"name", "disk", "vcpus"} /\ \A f \in {"image", "lan", "remote", "policy", "output", "archive"} : values[f] = Unset
  BY CapacitiesAre DEF ValuesOK, Accepted
<1>8. Formed(verb, s)
  <2>1. \A i \in 1..Len(s) : s[i].do = "perform" <=> i = Len(s)
    BY ONLY <1>1, <1>3
  <2>2. \A i \in Asks(s) : \E f \in Accepted(verb) \ {"remote"} : s[i].on = {f}
    BY ONLY <1>4, <1>5, <1>7
  <2>3. verb = "edit" \/ \A i \in 1..Len(s) : s[i].do # "review"
    BY ONLY verb \in {"edit"}
  <2> QED BY ONLY <1>1, <1>2, <2>1, <2>2, <2>3 DEF Formed
<1>9. Carried(values, s)
  BY ONLY <1>4, <1>5, <1>7, CapacitiesAre DEF Carried
<1>10. AsksLan(s) = {}
  BY ONLY <1>4, <1>5 DEF AsksLan
<1>11. Sized(verb, values, s) /\ Loaded(verb, Unset, s)
  BY ONLY <1>4, <1>5, <1>6, CapacitiesAre, verb \in {"edit"} DEF Sized, Loaded
<1>12. EditConfirms(0, s)
  BY ONLY <1>4, <1>5, <1>10 DEF EditConfirms
<1> QED BY ONLY verb \in {"edit"}, <1>5, <1>6, <1>8, <1>9, <1>10, <1>11, <1>12 DEF Fresh, Destroys

LEMMA SelectedEdit ==
    ASSUME NEW verb \in {"edit"}, NEW values, ValuesOK(verb, values),
           values["name"] = Unset,
           NEW s,
           s = ((<<Elevate(Capacities, FALSE), Terminal, Ask("name")>>
                 \o <<Stage("load", {}), Check({}), Terminal>>)
                 \o <<Ask("disk"), Ask("vcpus")>>)
                 \o <<Check({"disk"}), Stage("review", {}), Stage("confirm", {}),
                      Elevate({"name"} \cup Capacities, TRUE), Perform>>
    PROVE  Fresh(verb, values, FALSE, s)
<1>1. Len(s) = 13 /\ 1..Len(s) = {1, 2, 3, 4, 5, 6, 7, 8, 9, 10, 11, 12, 13}
  OBVIOUS
<1>2. s \in Seq(Stages)
  BY CapacitiesAre DEF Need, Terminal, Rooted, Ask, Elevate, Check, Perform, Stage, Stages, Kinds
<1>3. /\ s[1].do = "elevate" /\ s[2].do = "terminal" /\ s[3].do = "ask" /\
         s[4].do = "load" /\ s[5].do = "check" /\ s[6].do = "terminal" /\
         s[7].do = "ask" /\ s[8].do = "ask" /\ s[9].do = "check" /\
         s[10].do = "review" /\ s[11].do = "confirm" /\ s[12].do = "elevate" /\
         s[13].do = "perform"
  BY DEF Need, Terminal, Rooted, Ask, Elevate, Check, Perform, Stage
<1>4. /\ s[1].on = {"disk", "vcpus"} /\ s[3].on = {"name"} /\ s[7].on = {"disk"} /\
         s[8].on = {"vcpus"} /\ s[12].on = {"name", "disk", "vcpus"} /\
         s[1].quiet = FALSE /\ s[12].quiet = TRUE
  BY CapacitiesAre DEF Need, Terminal, Rooted, Ask, Elevate, Check, Perform, Stage
<1>5. /\ Asks(s) = {3, 7, 8} /\ Elevates(s) = {1, 12} /\ Confirms(s) = {11}
  BY ONLY <1>1, <1>3 DEF Asks, Elevates, Confirms, Places
<1>6. /\ Places(s, {"load"}) = {4} /\ Places(s, {"rooted", "elevate"}) = {1, 12}
      /\ Places(s, {"need", "ask"}) = {3, 7, 8}
  BY ONLY <1>1, <1>3 DEF Places
<1>7. /\ Accepted(verb) = {"name", "disk", "vcpus"} /\ \A f \in {"image", "lan", "remote", "policy", "output", "archive"} : values[f] = Unset
  BY CapacitiesAre DEF ValuesOK, Accepted
<1>8. Formed(verb, s)
  <2>1. \A i \in 1..Len(s) : s[i].do = "perform" <=> i = Len(s)
    BY ONLY <1>1, <1>3
  <2>2. \A i \in Asks(s) : \E f \in Accepted(verb) \ {"remote"} : s[i].on = {f}
    BY ONLY <1>4, <1>5, <1>7
  <2>3. verb = "edit" \/ \A i \in 1..Len(s) : s[i].do # "review"
    BY ONLY verb \in {"edit"}
  <2> QED BY ONLY <1>1, <1>2, <2>1, <2>2, <2>3 DEF Formed
<1>9. Carried(values, s)
  BY ONLY <1>4, <1>5, <1>7, CapacitiesAre, values["name"] = Unset DEF Carried
<1>10. AsksLan(s) = {}
  BY ONLY <1>4, <1>5 DEF AsksLan
<1>11. Sized(verb, values, s) /\ Loaded(verb, Unset, s)
  BY ONLY <1>4, <1>5, <1>6, CapacitiesAre, verb \in {"edit"} DEF Sized, Loaded
<1>12. EditConfirms(0, s)
  BY ONLY <1>4, <1>5, <1>10 DEF EditConfirms
<1> QED BY ONLY verb \in {"edit"}, <1>5, <1>6, <1>8, <1>9, <1>10, <1>11, <1>12 DEF Fresh, Destroys

LEMMA ExplicitNew ==
    ASSUME NEW verb \in {"new"}, NEW values, ValuesOK(verb, values),
           NEW s,
           s = ((((<<Need({"name"})>>
                 \o <<Stage("catalog", {}), Ask("name"), Ask("image")>>)
                 \o <<Ask("disk"), Ask("vcpus")>>)
                 \o <<Check({})>>)
                 \o <<>>)
                 \o <<Elevate({"name", "image", "lan"} \cup Capacities, TRUE),
                      Stage("provision", {}), Perform>>
    PROVE  Fresh(verb, values, FALSE, s)
<1>1. Len(s) = 10 /\ 1..Len(s) = {1, 2, 3, 4, 5, 6, 7, 8, 9, 10}
  OBVIOUS
<1>2. s \in Seq(Stages)
  BY CapacitiesAre DEF Need, Terminal, Rooted, Ask, Elevate, Check, Perform, Stage, Stages, Kinds
<1>3. /\ s[1].do = "need" /\ s[2].do = "catalog" /\ s[3].do = "ask" /\
         s[4].do = "ask" /\ s[5].do = "ask" /\ s[6].do = "ask" /\ s[7].do = "check" /\
         s[8].do = "elevate" /\ s[9].do = "provision" /\ s[10].do = "perform"
  BY DEF Need, Terminal, Rooted, Ask, Elevate, Check, Perform, Stage
<1>4. /\ s[1].on = {"name"} /\ s[3].on = {"name"} /\ s[4].on = {"image"} /\
         s[5].on = {"disk"} /\ s[6].on = {"vcpus"} /\
         s[8].on = {"name", "image", "lan", "disk", "vcpus"} /\ s[8].quiet = TRUE
  BY CapacitiesAre DEF Need, Terminal, Rooted, Ask, Elevate, Check, Perform, Stage
<1>5. /\ Asks(s) = {3, 4, 5, 6} /\ Elevates(s) = {8} /\ Confirms(s) = {}
  BY ONLY <1>1, <1>3 DEF Asks, Elevates, Confirms, Places
<1>6. /\ Places(s, {"load"}) = {} /\ Places(s, {"rooted", "elevate"}) = {8}
      /\ Places(s, {"need", "ask"}) = {1, 3, 4, 5, 6}
  BY ONLY <1>1, <1>3 DEF Places
<1>7. /\ Accepted(verb) = {"name", "image", "lan", "disk", "vcpus"} /\ \A f \in {"remote", "policy", "output", "archive"} : values[f] = Unset
  BY CapacitiesAre DEF ValuesOK, Accepted
<1>8. Formed(verb, s)
  <2>1. \A i \in 1..Len(s) : s[i].do = "perform" <=> i = Len(s)
    BY ONLY <1>1, <1>3
  <2>2. \A i \in Asks(s) : \E f \in Accepted(verb) \ {"remote"} : s[i].on = {f}
    BY ONLY <1>4, <1>5, <1>7
  <2>3. verb = "edit" \/ \A i \in 1..Len(s) : s[i].do # "review"
    BY ONLY <1>1, <1>3
  <2> QED BY ONLY <1>1, <1>2, <2>1, <2>2, <2>3 DEF Formed
<1>9. Carried(values, s)
  BY ONLY <1>4, <1>5, <1>7, CapacitiesAre DEF Carried
<1>10. AsksLan(s) = {}
  BY ONLY <1>4, <1>5 DEF AsksLan
<1>11. Sized(verb, values, s) /\ Loaded(verb, Unset, s)
  BY ONLY <1>4, <1>5, <1>6, CapacitiesAre, verb \in {"new"} DEF Sized, Loaded
<1>12. NewConfirms(0, 0, s)
  BY ONLY <1>4, <1>5, <1>10 DEF NewConfirms
<1> QED BY ONLY verb \in {"new"}, <1>5, <1>6, <1>8, <1>9, <1>10, <1>11, <1>12 DEF Fresh, Destroys

LEMMA AskedNew ==
    ASSUME NEW verb \in {"new"}, NEW values, ValuesOK(verb, values),
           NEW s,
           s = ((((<<Terminal>>
                 \o <<Stage("catalog", {}), Ask("name"), Ask("image")>>)
                 \o <<Ask("disk"), Ask("vcpus")>>)
                 \o <<Check({})>>)
                 \o <<Ask("lan"), Stage("confirm", {})>>)
                 \o <<Elevate({"name", "image", "lan"} \cup Capacities, TRUE),
                      Stage("provision", {}), Perform>>
    PROVE  Fresh(verb, values, FALSE, s)
<1>1. Len(s) = 12 /\ 1..Len(s) = {1, 2, 3, 4, 5, 6, 7, 8, 9, 10, 11, 12}
  OBVIOUS
<1>2. s \in Seq(Stages)
  BY CapacitiesAre DEF Need, Terminal, Rooted, Ask, Elevate, Check, Perform, Stage, Stages, Kinds
<1>3. /\ s[1].do = "terminal" /\ s[2].do = "catalog" /\ s[3].do = "ask" /\
         s[4].do = "ask" /\ s[5].do = "ask" /\ s[6].do = "ask" /\ s[7].do = "check" /\
         s[8].do = "ask" /\ s[9].do = "confirm" /\ s[10].do = "elevate" /\
         s[11].do = "provision" /\ s[12].do = "perform"
  BY DEF Need, Terminal, Rooted, Ask, Elevate, Check, Perform, Stage
<1>4. /\ s[3].on = {"name"} /\ s[4].on = {"image"} /\ s[5].on = {"disk"} /\
         s[6].on = {"vcpus"} /\ s[8].on = {"lan"} /\
         s[10].on = {"name", "image", "lan", "disk", "vcpus"} /\ s[10].quiet = TRUE
  BY CapacitiesAre DEF Need, Terminal, Rooted, Ask, Elevate, Check, Perform, Stage
<1>5. /\ Asks(s) = {3, 4, 5, 6, 8} /\ Elevates(s) = {10} /\ Confirms(s) = {9}
  BY ONLY <1>1, <1>3 DEF Asks, Elevates, Confirms, Places
<1>6. /\ Places(s, {"load"}) = {} /\ Places(s, {"rooted", "elevate"}) = {10}
      /\ Places(s, {"need", "ask"}) = {3, 4, 5, 6, 8}
  BY ONLY <1>1, <1>3 DEF Places
<1>7. /\ Accepted(verb) = {"name", "image", "lan", "disk", "vcpus"} /\ \A f \in {"remote", "policy", "output", "archive"} : values[f] = Unset
  BY CapacitiesAre DEF ValuesOK, Accepted
<1>8. Formed(verb, s)
  <2>1. \A i \in 1..Len(s) : s[i].do = "perform" <=> i = Len(s)
    BY ONLY <1>1, <1>3
  <2>2. \A i \in Asks(s) : \E f \in Accepted(verb) \ {"remote"} : s[i].on = {f}
    BY ONLY <1>4, <1>5, <1>7
  <2>3. verb = "edit" \/ \A i \in 1..Len(s) : s[i].do # "review"
    BY ONLY <1>1, <1>3
  <2> QED BY ONLY <1>1, <1>2, <2>1, <2>2, <2>3 DEF Formed
<1>9. Carried(values, s)
  BY ONLY <1>4, <1>5, <1>7, CapacitiesAre DEF Carried
<1>10. AsksLan(s) = {8}
  BY ONLY <1>4, <1>5 DEF AsksLan
<1>11. Sized(verb, values, s) /\ Loaded(verb, Unset, s)
  BY ONLY <1>4, <1>5, <1>6, CapacitiesAre, verb \in {"new"} DEF Sized, Loaded
<1>12. NewConfirms(0, 0, s)
  BY ONLY <1>4, <1>5, <1>10 DEF NewConfirms
<1> QED BY ONLY verb \in {"new"}, <1>5, <1>6, <1>8, <1>9, <1>10, <1>11, <1>12 DEF Fresh, Destroys
LEMMA EmptyJoin ==
    \A a, b, c, d : /\ <<>> \o <<a, b>> = <<a, b>> /\ <<>> \o <<a, b, c>> = <<a, b, c>>
                   /\ <<>> \o <<a, b, c, d>> = <<a, b, c, d>> /\ <<a, b>> \o <<>> = <<a, b>>
OBVIOUS

(* Every script has one of these forms.                                    *)
LEMMA FreshScript ==
    ASSUME NEW r, r.verb \in Verbs, r.quiet \in BOOLEAN, ValuesOK(r.verb, r.values), NEW marker \in BOOLEAN
    PROVE  Fresh(r.verb, r.values, r.quiet, Script(r, marker))
<1> DEFINE s == Script(r, marker)
<1>1. ASSUME r.verb \in {"start", "stop"} PROVE Fresh(r.verb, r.values, r.quiet, s)
  <2>1. s = StartScript(r)
    BY <1>1 DEF Script, StartScript, StopScript
  <2>2. ASSUME r.quiet = TRUE PROVE Fresh(r.verb, r.values, r.quiet, s)
    <3>1. s = <<Need({"name"}), Rooted, Perform>>
      BY <2>1, <2>2 DEF StartScript, SelectAfter, Given
    <3> HIDE DEF s
    <3> QED BY <1>1, <2>2, <3>1, QuietNamed
  <2>3. ASSUME r.quiet = FALSE, r.values["name"] # Unset PROVE Fresh(r.verb, r.values, r.quiet, s)
    <3>1. s = <<Elevate({"name"}, TRUE), Perform>>
      BY <2>1, <2>3, EmptyJoin DEF StartScript, SelectAfter, Given
    <3> HIDE DEF s
    <3> QED BY <1>1, <2>3, <3>1, NamedSwitch
  <2>4. ASSUME r.quiet = FALSE, r.values["name"] = Unset PROVE Fresh(r.verb, r.values, r.quiet, s)
    <3>1. s = <<Elevate({}, FALSE), Terminal, Ask("name")>>
                \o <<Elevate({"name"}, TRUE), Perform>>
      BY <2>1, <2>4 DEF StartScript, SelectAfter, Given
    <3> HIDE DEF s
    <3> QED BY <1>1, <2>4, <3>1, SelectedSwitch
  <2> HIDE DEF s
  <2> QED BY <2>2, <2>3, <2>4
<1>2. ASSUME r.verb \in {"delete"} PROVE Fresh(r.verb, r.values, r.quiet, s)
  <2>1. s = DeleteScript(r)
    BY <1>2 DEF Script
  <2>2. ASSUME r.quiet = TRUE PROVE Fresh(r.verb, r.values, r.quiet, s)
    <3>1. s = <<Need({"name"}), Rooted, Stage("probe", {}), Perform>>
      BY <2>1, <2>2 DEF DeleteScript, SelectAfter, Given
    <3> HIDE DEF s
    <3> QED BY <1>2, <2>2, <3>1, QuietDelete
  <2>3. ASSUME r.quiet = FALSE, r.values["name"] # Unset PROVE Fresh(r.verb, r.values, r.quiet, s)
    <3>1. s = <<Elevate({"name"}, TRUE), Stage("confirmOnTerminal", {}),
                     Stage("probe", {}), Perform>>
      BY <2>1, <2>3, EmptyJoin DEF DeleteScript, SelectAfter, Given
    <3> HIDE DEF s
    <3> QED BY <1>2, <2>3, <3>1, NamedDelete
  <2>4. ASSUME r.quiet = FALSE, r.values["name"] = Unset PROVE Fresh(r.verb, r.values, r.quiet, s)
    <3>1. s = <<Elevate({}, FALSE), Terminal, Ask("name")>>
                \o <<Elevate({"name"}, TRUE), Stage("confirmOnTerminal", {}),
                     Stage("probe", {}), Perform>>
      BY <2>1, <2>4 DEF DeleteScript, SelectAfter, Given
    <3> HIDE DEF s
    <3> QED BY <1>2, <2>4, <3>1, SelectedDelete
  <2> HIDE DEF s
  <2> QED BY <2>2, <2>3, <2>4
<1>3. ASSUME r.verb \in {"prune"} PROVE Fresh(r.verb, r.values, r.quiet, s)
  <2>1. s = PruneScript(r)
    BY <1>3 DEF Script
  <2>2. ASSUME r.quiet = TRUE PROVE Fresh(r.verb, r.values, r.quiet, s)
    <3>1. s = <<Rooted, Perform>>
      BY <2>1, <2>2 DEF PruneScript
    <3> HIDE DEF s
    <3> QED BY <1>3, <2>2, <3>1, QuietHome
  <2>3. ASSUME r.quiet = FALSE PROVE Fresh(r.verb, r.values, r.quiet, s)
    <3>1. s = <<Elevate({}, TRUE), Stage("preview", {}), Stage("confirm", {}), Perform>>
      BY <2>1, <2>3 DEF PruneScript
    <3> HIDE DEF s
    <3> QED BY <1>3, <2>3, <3>1, AskedPrune
  <2> HIDE DEF s
  <2> QED BY <2>2, <2>3
<1>4. ASSUME r.verb \in {"ls"} PROVE Fresh(r.verb, r.values, r.quiet, s)
  <2>1. s = LsScript(r)
    BY <1>4 DEF Script
  <2>2. ASSUME r.quiet = TRUE PROVE Fresh(r.verb, r.values, r.quiet, s)
    <3>1. s = <<Rooted, Perform>>
      BY <2>1, <2>2 DEF LsScript
    <3> HIDE DEF s
    <3> QED BY <1>4, <2>2, <3>1, QuietHome
  <2>3. ASSUME r.quiet = FALSE PROVE Fresh(r.verb, r.values, r.quiet, s)
    <3>1. s = <<Elevate({}, FALSE), Perform>>
      BY <2>1, <2>3 DEF LsScript
    <3> HIDE DEF s
    <3> QED BY <1>4, <2>3, <3>1, Listing
  <2> HIDE DEF s
  <2> QED BY <2>2, <2>3
<1>5. ASSUME r.verb \in {"restore"} PROVE Fresh(r.verb, r.values, r.quiet, s)
  <2>1. s = RestoreScript(r)
    BY <1>5 DEF Script
  <2>2. ASSUME r.quiet = TRUE PROVE Fresh(r.verb, r.values, r.quiet, s)
    <3>1. s = <<Need({"archive"}), Rooted, Perform>>
      BY <2>1, <2>2 DEF RestoreScript, Given
    <3> HIDE DEF s
    <3> QED BY <1>5, <2>2, <3>1, QuietRestore
  <2>3. ASSUME r.quiet = FALSE, r.values["archive"] # Unset PROVE Fresh(r.verb, r.values, r.quiet, s)
    <3>1. s = <<Elevate({"archive"}, FALSE), Ask("archive"), Perform>>
      BY <2>1, <2>3, EmptyJoin DEF RestoreScript, Given
    <3> HIDE DEF s
    <3> QED BY <1>5, <2>3, <3>1, NamedRestore
  <2>4. ASSUME r.quiet = FALSE, r.values["archive"] = Unset PROVE Fresh(r.verb, r.values, r.quiet, s)
    <3>1. s = <<Terminal>>
                \o <<Elevate({"archive"}, FALSE), Ask("archive"), Perform>>
      BY <2>1, <2>4 DEF RestoreScript, Given
    <3> HIDE DEF s
    <3> QED BY <1>5, <2>4, <3>1, AskedRestore
  <2> HIDE DEF s
  <2> QED BY <2>2, <2>3, <2>4
<1>6. ASSUME r.verb \in {"ssh"} PROVE Fresh(r.verb, r.values, r.quiet, s)
  <2>1. s = SshScript(r)
    BY <1>6 DEF Script
  <2>2. ASSUME r.quiet = TRUE PROVE Fresh(r.verb, r.values, r.quiet, s)
    <3>1. s = <<Need({"name"}), Rooted, Stage("running", {}), Perform>>
      BY <2>1, <2>2 DEF SshScript, SelectAfter, Given
    <3> HIDE DEF s
    <3> QED BY <1>6, <2>2, <3>1, QuietSsh
  <2>3. ASSUME r.quiet = FALSE, r.values["name"] # Unset, r.values["remote"] # Unset PROVE Fresh(r.verb, r.values, r.quiet, s)
    <3>1. s = <<Elevate({"name", "remote"}, TRUE), Stage("running", {}), Perform>>
      BY <2>1, <2>3, EmptyJoin DEF SshScript, SelectAfter, Given
    <3> HIDE DEF s
    <3> QED BY <1>6, <2>3, <3>1, RemoteSsh
  <2>4. ASSUME r.quiet = FALSE, r.values["name"] # Unset, r.values["remote"] = Unset PROVE Fresh(r.verb, r.values, r.quiet, s)
    <3>1. s = <<Terminal>>
                \o <<Elevate({"name", "remote"}, TRUE), Stage("running", {}), Perform>>
      BY <2>1, <2>4 DEF SshScript, SelectAfter, Given
    <3> HIDE DEF s
    <3> QED BY <1>6, <2>4, <3>1, ShellSsh
  <2>5. ASSUME r.quiet = FALSE, r.values["name"] = Unset PROVE Fresh(r.verb, r.values, r.quiet, s)
    <3>1. s = <<Elevate({}, FALSE), Terminal, Ask("name")>>
                \o <<Elevate({"name", "remote"}, TRUE), Stage("running", {}), Perform>>
      BY <2>1, <2>5 DEF SshScript, SelectAfter, Given
    <3> HIDE DEF s
    <3> QED BY <1>6, <2>5, <3>1, SelectedSsh
  <2> HIDE DEF s
  <2> QED BY <2>2, <2>3, <2>4, <2>5
<1>7. ASSUME r.verb \in {"edit"} PROVE Fresh(r.verb, r.values, r.quiet, s)
  <2>1. s = EditScript(r)
    BY <1>7 DEF Script
  <2>2. ASSUME r.quiet = TRUE PROVE Fresh(r.verb, r.values, r.quiet, s)
    <3>1. s = <<Need({"name"}), Stage("needSome", Capacities), Rooted,
                Stage("load", {}), Check({}), Stage("changed", {}), Perform>>
      BY <2>1, <2>2 DEF EditScript, AskCapacities, SelectAfter, Given
    <3> HIDE DEF s
    <3> QED BY <1>7, <2>2, <3>1, QuietEdit
  <2>3. ASSUME r.quiet = FALSE, r.values["name"] # Unset PROVE Fresh(r.verb, r.values, r.quiet, s)
    <3>1. s = (<<Stage("load", {}), Check({}), Terminal>>
                \o <<Ask("disk"), Ask("vcpus")>>)
                \o <<Check({"disk"}), Stage("review", {}), Stage("confirm", {}),
                     Elevate({"name"} \cup Capacities, TRUE), Perform>>
      BY <2>1, <2>3, EmptyJoin DEF EditScript, AskCapacities, SelectAfter, Given
    <3> HIDE DEF s
    <3> QED BY <1>7, <2>3, <3>1, NamedEdit
  <2>4. ASSUME r.quiet = FALSE, r.values["name"] = Unset PROVE Fresh(r.verb, r.values, r.quiet, s)
    <3>1. s = ((<<Elevate(Capacities, FALSE), Terminal, Ask("name")>>
                \o <<Stage("load", {}), Check({}), Terminal>>)
                \o <<Ask("disk"), Ask("vcpus")>>)
                \o <<Check({"disk"}), Stage("review", {}), Stage("confirm", {}),
                     Elevate({"name"} \cup Capacities, TRUE), Perform>>
      BY <2>1, <2>4 DEF EditScript, AskCapacities, SelectAfter, Given
    <3> HIDE DEF s
    <3> QED BY <1>7, <2>4, <3>1, SelectedEdit
  <2> HIDE DEF s
  <2> QED BY <2>2, <2>3, <2>4
<1>8. ASSUME r.verb \in {"new"} PROVE Fresh(r.verb, r.values, r.quiet, s)
  <2>1. s = NewScript(r, marker)
    BY <1>8 DEF Script
  <2>2. ASSUME r.quiet = TRUE, marker = TRUE PROVE Fresh(r.verb, r.values, r.quiet, s)
    <3>1. s = <<Need({"name", "image"} \cup Capacities), Rooted>>
                \o <<Check({}), Stage("provision", {}), Perform>>
      BY <2>1, <2>2, EmptyJoin DEF NewScript, QuietNewScript, AskCapacities
    <3> HIDE DEF s
    <3> QED BY <1>8, <2>2, <3>1, TrustedNew
  <2>3. ASSUME r.quiet = TRUE, marker = FALSE PROVE Fresh(r.verb, r.values, r.quiet, s)
    <3>1. s = (<<Need({"name", "image"} \cup Capacities), Rooted>>
                \o <<Stage("catalog", {})>>)
                \o <<Check({}), Stage("provision", {}), Perform>>
      BY <2>1, <2>3 DEF NewScript, QuietNewScript, AskCapacities
    <3> HIDE DEF s
    <3> QED BY <1>8, <2>3, <3>1, QuietNew
  <2>4. ASSUME r.quiet = FALSE, \E f \in Fields : Given(r, f) PROVE Fresh(r.verb, r.values, r.quiet, s)
    <3>1. s = ((((<<Need({"name"})>>
                \o <<Stage("catalog", {}), Ask("name"), Ask("image")>>)
                \o <<Ask("disk"), Ask("vcpus")>>)
                \o <<Check({})>>)
                \o <<>>)
                \o <<Elevate({"name", "image", "lan"} \cup Capacities, TRUE),
                     Stage("provision", {}), Perform>>
      BY <2>1, <2>4 DEF NewScript, QuietNewScript, AskCapacities
    <3> HIDE DEF s
    <3> QED BY <1>8, <2>4, <3>1, ExplicitNew
  <2>5. ASSUME r.quiet = FALSE, ~\E f \in Fields : Given(r, f) PROVE Fresh(r.verb, r.values, r.quiet, s)
    <3>1. s = ((((<<Terminal>>
                \o <<Stage("catalog", {}), Ask("name"), Ask("image")>>)
                \o <<Ask("disk"), Ask("vcpus")>>)
                \o <<Check({})>>)
                \o <<Ask("lan"), Stage("confirm", {})>>)
                \o <<Elevate({"name", "image", "lan"} \cup Capacities, TRUE),
                     Stage("provision", {}), Perform>>
      BY <2>1, <2>5 DEF NewScript, QuietNewScript, AskCapacities
    <3> HIDE DEF s
    <3> QED BY <1>8, <2>5, <3>1, AskedNew
  <2> HIDE DEF s
  <2> QED BY <2>2, <2>3, <2>4, <2>5
<1>9. ASSUME r.verb \in {"snapshot"} PROVE Fresh(r.verb, r.values, r.quiet, s)
  <2>1. s = SnapshotScript(r)
    BY <1>9 DEF Script
  <2>2. ASSUME r.values["name"] # Unset PROVE Fresh(r.verb, r.values, FALSE, s)
    <3>1. s = <<Ask("policy"), Elevate({"name", "output", "policy"}, FALSE),
                Stage("askOnTerminal", {"output"}), Perform>>
      BY <2>1, <2>2, EmptyJoin DEF SnapshotScript, Given
    <3> HIDE DEF s
    <3> QED BY <1>9, <2>2, <3>1, NamedSnapshot
  <2>3. ASSUME r.values["name"] = Unset PROVE Fresh(r.verb, r.values, FALSE, s)
    <3>1. s = <<Terminal, Elevate({"policy"}, FALSE), Ask("name")>>
                \o <<Ask("policy"), Elevate({"name", "output", "policy"}, FALSE),
                     Stage("askOnTerminal", {"output"}), Perform>>
      BY <2>1, <2>3 DEF SnapshotScript, Given
    <3> HIDE DEF s
    <3> QED BY <1>9, <2>3, <3>1, SelectedSnapshot
  <2> HIDE DEF s
  <2> QED BY <1>9, <2>2, <2>3 DEF Fresh, Destroys
<1> HIDE DEF s
<1>10. Fresh(r.verb, r.values, r.quiet, s)
  BY <1>1, <1>2, <1>3, <1>4, <1>5, <1>6, <1>7, <1>8, <1>9 DEF Verbs
<1> QED BY <1>10 DEF s
-----------------------------------------------------------------------------
(* Processes that start, and processes that go on. *)

LEMMA Started ==
    ASSUME NEW r, r.verb \in Verbs, r.quiet \in BOOLEAN, ValuesOK(r.verb, r.values),
           NEW root \in BOOLEAN, NEW tty \in BOOLEAN, NEW marker \in BOOLEAN,
           NEW q, q = Process(r, root, tty, marker)
    PROVE  /\ ProcOK(q) /\ Fresh(r.verb, r.values, r.quiet, q.rest)
           /\ q.verb = r.verb /\ q.values = r.values /\ q.quiet = r.quiet
           /\ q.root = root /\ q.tty = tty /\ q.marker = marker
<1>1. /\ DOMAIN q = ProcFields /\ q.verb = r.verb /\ q.values = r.values /\ q.quiet = r.quiet
      /\ q.root = root /\ q.tty = tty /\ q.marker = marker /\ q.seen = Unset /\ q.rest = Script(r, marker)
  BY DEF Process, ProcFields
<1>2. Fresh(r.verb, r.values, r.quiet, q.rest)
  BY <1>1, FreshScript
<1>3. ProcOK(q)
  BY <1>1, <1>2 DEF ProcOK, Fresh, Privileged
<1> QED BY <1>1, <1>2, <1>3

LEMMA ProcMoves ==
    ASSUME NEW p, ProcOK(p), NEW q, DOMAIN q = ProcFields,
           q.verb = p.verb, q.quiet = p.quiet, q.root = p.root, q.tty = p.tty, q.rest = Tail(p.rest),
           ValuesOK(q.verb, q.values),
           p.rest[1].do # "perform",
           p.rest[1].do \in {"rooted", "elevate"} => p.root,
           p.verb = "new" => \A c \in Capacities :
             p.values[c] # Unset \/ (p.rest[1].do \in {"need", "ask"} /\ c \in p.rest[1].on)
               => q.values[c] # Unset,
           p.seen \in [Capacities -> Nat] => q.seen \in [Capacities -> Nat],
           p.rest[1].do = "load" => q.seen \in [Capacities -> Nat]
    PROVE  ProcOK(q)
<1> DEFINE s == p.rest
<1>1. /\ Formed(p.verb, s) /\ Privileged(p.root, s) /\ Sized(p.verb, p.values, s)
      /\ Loaded(p.verb, p.seen, s) /\ p.root \in BOOLEAN
  BY DEF ProcOK
<1>2. Formed(p.verb, Tail(s))
  BY <1>1, FormedTail
<1>3. Privileged(p.root, Tail(s))
  BY <1>1, PrivilegedTail
<1>4. Sized(p.verb, q.values, Tail(s))
  <2>1. CASE p.verb = "new"
    BY <1>1, <2>1, SizedTail
  <2>2. CASE p.verb # "new"
    BY <2>2 DEF Sized
  <2> QED BY <2>1, <2>2
<1>5. Loaded(p.verb, q.seen, Tail(s))
  BY <1>1, LoadedTail
<1> QED BY <1>2, <1>3, <1>4, <1>5 DEF ProcOK

LEMMA AskedMoves ==
    ASSUME NEW p, ProcOK(p), NEW w, NEW a, Asked(p, w, a),
           NEW q, q.verb = p.verb, q.tty = p.tty, q.rest = Tail(p.rest),
           NEW v, v.verb = w.verb, v.silent = w.silent,
           NEW b, b["password"] = a["password"],
           p.tty => b["confirm"] = IF 1 \in Confirms(p.rest) THEN a["confirm"] + 1 ELSE a["confirm"],
           b["lan"] = a["lan"] \/ (b["lan"] = a["lan"] + 1 /\ 1 \in AsksLan(p.rest))
    PROVE  Asked(q, v, b)
<1> DEFINE s == p.rest
<1>1. q.verb = v.verb /\ Formed(p.verb, s)
  BY DEF Asked, ProcOK
<1>2. ASSUME ~w.silent PROVE q.tty /\ Confirming(q.verb, b, q.rest)
  <2>1. /\ p.tty /\ Confirming(p.verb, a, s)
        /\ b["confirm"] = IF 1 \in Confirms(s) THEN a["confirm"] + 1 ELSE a["confirm"]
    BY <1>2 DEF Asked
  <2>2. p.verb = "edit" => EditConfirms(b["confirm"], Tail(s))
    BY <1>1, <2>1, EditTail DEF Confirming
  <2>3. Destroys(p.verb) /\ b["password"] = 0 => RemovalConfirms(b["confirm"], Tail(s))
    BY <1>1, <2>1, RemovalTail DEF Confirming
  <2>4. p.verb = "new" => NewConfirms(b["lan"], b["confirm"], Tail(s))
    BY <1>1, <2>1, NewTail DEF Confirming
  <2> QED BY <2>1, <2>2, <2>3, <2>4 DEF Confirming
<1> QED BY <1>1, <1>2 DEF Asked

LEMMA KeptMoves ==
    ASSUME NEW p, ProcOK(p), NEW w, NEW a, Kept(p, w, a),
           NEW q, q.verb = p.verb, q.marker = p.marker, q.rest = Tail(p.rest), NEW v, v.verb = w.verb, NEW b,
           a["password"] > 0 => b["password"] > 0,
           a["name"] > 0 => b["name"] > 0,
           q.values["name"] = p.values["name"] \/ b["name"] > 0,
           p.rest[1].do = "ask" /\ p.rest[1].on = {"name"} => p.values["name"] # Unset \/ b["name"] > 0,
           \A f \in Fields : \/ q.values[f] = p.values[f] \/ q.values[f] = Unset
                             \/ 1 \in Asks(p.rest) /\ f \in p.rest[1].on,
           \A f \in Fields \ {"output"} :
             \/ q.values[f] = p.values[f] /\ v.values[f] = w.values[f]
             \/ Meaning(f, q.values[f]) = Meaning(f, v.values[f])
    PROVE  Kept(q, v, b)
<1>1. Formed(p.verb, p.rest) /\ Carried(p.values, p.rest)
  BY DEF ProcOK, Kept
<1>2. Carried(q.values, Tail(p.rest))
  BY <1>1, CarriedTail
<1>3. ASSUME NEW f \in Fields \ {"output"}, q.values[f] = p.values[f], v.values[f] = w.values[f],
             Differing(p, w, a, f)
      PROVE  Differing(q, v, b, f)
  <2>1. CASE f = "remote"
    <3>1. p.values[f] = Unset /\ (a["name"] > 0 \/ (p.values["name"] = Unset /\ AsksName(p.rest)))
      BY <1>3, <2>1 DEF Differing
    <3>2. ASSUME ~(b["name"] > 0) PROVE q.values["name"] = Unset /\ AsksName(q.rest)
      <4>1. p.values["name"] = Unset /\ AsksName(p.rest)
        BY <3>1, <3>2
      <4> QED BY <1>1, <3>2, <4>1, AsksNameTail
    <3> QED BY <1>3, <2>1, <3>1, <3>2 DEF Differing
  <2>2. CASE f # "remote"
    BY <1>3, <2>2 DEF Differing
  <2> QED BY <2>1, <2>2
<1>4. ASSUME NEW f \in Fields \ {"output"}
      PROVE  Meaning(f, q.values[f]) = Meaning(f, v.values[f]) \/ (q.marker /\ Differing(q, v, b, f))
  <2>1. Meaning(f, p.values[f]) = Meaning(f, w.values[f]) \/ (p.marker /\ Differing(p, w, a, f))
    BY DEF Kept
  <2> QED BY <1>3, <2>1
<1>5. q.marker => b["password"] > 0
  BY DEF Kept
<1> QED BY <1>2, <1>4, <1>5 DEF Kept
-----------------------------------------------------------------------------
(* Steps. *)

(* ConfirmedBeforeChange of one terminal.                                  *)
Confirmed(t) ==
  /\ did[t] # Unset
  /\ ~want[t].silent
  /\ \/ want[t].verb = "edit"
     \/ want[t].verb = "new" /\ asked[t]["lan"] = 1
     \/ Destroys(want[t].verb) /\ asked[t]["password"] = 0
  => asked[t]["confirm"] = 1

(* A step changes what belongs to its terminal.                            *)
Others(t) ==
  /\ proc' = [u \in Terminals |-> IF u = t THEN proc'[t] ELSE proc[u]]
  /\ code' = [u \in Terminals |-> IF u = t THEN code'[t] ELSE code[u]]
  /\ did' = [u \in Terminals |-> IF u = t THEN did'[t] ELSE did[u]]
  /\ want' = [u \in Terminals |-> IF u = t THEN want'[t] ELSE want[u]]
  /\ asked' = [u \in Terminals |-> IF u = t THEN asked'[t] ELSE asked[u]]

(* What every step of t keeps.                                             *)
Keeps(t) ==
  /\ Others(t) /\ StoresOK' /\ TerminalOK(t)' /\ Confirmed(t)'
  /\ Truthful(t) => Truthful(t)'

LEMMA KeepsInvariant ==
    ASSUME CliInv, NEW t \in Terminals, Keeps(t)
    PROVE  CliInv' /\ (KeptInv => KeptInv')
<1>1. \A u \in Terminals \ {t} : /\ proc'[u] = proc[u] /\ code'[u] = code[u] /\ did'[u] = did[u]
                                 /\ want'[u] = want[u] /\ asked'[u] = asked[u]
  BY DEF Keeps, Others
<1>2. \A u \in Terminals : TerminalOK(u)'
  BY <1>1 DEF Keeps, CliInv, TerminalOK, Busy
<1>3. \A u \in Terminals : Confirmed(u)
  BY DEF CliInv, ConfirmedBeforeChange, Confirmed
<1>4. \A u \in Terminals : Confirmed(u)'
  BY <1>1, <1>3 DEF Keeps, Confirmed
<1>5. ConfirmedBeforeChange'
  BY <1>4 DEF ConfirmedBeforeChange, Confirmed
<1>6. ASSUME KeptInv PROVE KeptInv'
  BY <1>1, <1>6 DEF Keeps, KeptInv, Truthful, Busy, Altered
<1> QED BY <1>2, <1>5, <1>6 DEF Keeps, CliInv

(* The process goes on as q.                                               *)
LEMMA MoveKeeps ==
    ASSUME CliInv, NEW t \in Terminals, Busy(t), Others(t), UNCHANGED <<vms, code, did>>,
           ProcOK(proc'[t]), WantOK(want'[t]), Asked(proc'[t], want'[t], asked'[t]),
           asked'[t] \in [Questions -> 0..2],
           Kept(proc[t], want[t], asked[t]) => Kept(proc'[t], want'[t], asked'[t])
    PROVE  Keeps(t)
<1>1. did[t] = Unset /\ code[t] = "none"
  BY DEF CliInv, TerminalOK
<1>2. StoresOK'
  BY DEF CliInv, StoresOK, Others
<1>3. TerminalOK(t)'
  BY <1>1 DEF TerminalOK
<1>4. Confirmed(t)' /\ (Truthful(t) => Truthful(t)')
  BY <1>1 DEF Confirmed, Truthful
<1> QED BY <1>2, <1>3, <1>4 DEF Keeps

(* The process ends without a call.                                        *)
LEMMA ExitKeeps ==
    ASSUME CliInv, NEW t \in Terminals, Busy(t), NEW c \in Codes, Exit(t, c), UNCHANGED <<vms, did, want>>,
           asked' = [u \in Terminals |-> IF u = t THEN asked'[t] ELSE asked[u]],
           asked'[t] \in [Questions -> 0..2]
    PROVE  Keeps(t)
<1>1. did[t] = Unset
  BY DEF CliInv, TerminalOK
<1>2. Others(t)
  BY DEF CliInv, StoresOK, Others, Exit
<1>3. StoresOK'
  BY <1>2 DEF CliInv, StoresOK, Others, Exit
<1>4. proc'[t] = Idle
  BY DEF Exit, CliInv, StoresOK
<1>5. TerminalOK(t)' /\ Confirmed(t)' /\ Truthful(t)'
  BY <1>1, <1>4 DEF TerminalOK, Confirmed, Truthful, Busy
<1> QED BY <1>2, <1>3, <1>5 DEF Keeps

LEMMA RefuseKeeps ==
    ASSUME CliInv, NEW t \in Terminals, Busy(t), Refuse(t)
    PROVE  Keeps(t)
<1>1. Exit(t, "failed") /\ UNCHANGED <<vms, did, want, asked>>
  BY DEF Refuse, ghosts
<1>2. asked' = [u \in Terminals |-> IF u = t THEN asked'[t] ELSE asked[u]] /\ asked'[t] \in [Questions -> 0..2]
  BY <1>1 DEF CliInv, StoresOK
<1> QED BY <1>1, <1>2, ExitKeeps DEF Codes

(* The process takes its next stage and keeps its values.                  *)
LEMMA PassKeeps ==
    ASSUME CliInv, NEW t \in Terminals, Busy(t), Pass(t),
           Head(proc[t].rest).do \notin {"perform", "load", "confirm"},
           Head(proc[t].rest).do = "confirmOnTerminal" => ~proc[t].tty,
           Head(proc[t].rest).do \in {"rooted", "elevate"} => proc[t].root,
           Head(proc[t].rest).do \in {"need", "ask"} =>
             \A f \in Head(proc[t].rest).on : proc[t].values[f] # Unset
    PROVE  Keeps(t)
<1> DEFINE p == proc[t]
           q == [p EXCEPT !.rest = Tail(p.rest)]
<1>1. /\ ProcOK(p) /\ WantOK(want[t]) /\ Asked(p, want[t], asked[t])
  BY DEF CliInv, TerminalOK
<1>2. /\ DOMAIN q = ProcFields /\ q.verb = p.verb /\ q.quiet = p.quiet /\ q.root = p.root /\ q.tty = p.tty
      /\ q.marker = p.marker /\ q.rest = Tail(p.rest) /\ q.values = p.values /\ q.seen = p.seen
  BY <1>1 DEF ProcOK, ProcFields
<1>3. Head(p.rest) = p.rest[1]
  BY <1>1, TailOf DEF ProcOK, Formed
<1>4. /\ proc' = [proc EXCEPT ![t] = q] /\ UNCHANGED <<vms, code, did, want, asked>>
  BY DEF Pass, Goon, Continue, ghosts
<1> HIDE DEF q
<1>5. proc'[t] = q /\ Others(t) /\ asked'[t] \in [Questions -> 0..2]
  BY <1>4 DEF CliInv, StoresOK, Others
<1>6. ProcOK(q)
  BY <1>1, <1>2, <1>3, ProcMoves DEF ProcOK
<1>7. p.tty => 1 \notin Confirms(p.rest)
  BY <1>3 DEF Confirms, Places
<1>8. Asked(q, want[t], asked[t])
  BY <1>1, <1>2, <1>7, AskedMoves
<1>9. ASSUME Kept(p, want[t], asked[t]) PROVE Kept(q, want[t], asked[t])
  <2>1. p.rest[1].do = "ask" /\ p.rest[1].on = {"name"} => p.values["name"] # Unset
    BY <1>3
  <2> QED BY <1>1, <1>2, <1>9, <2>1, KeptMoves
<1> QED BY <1>1, <1>4, <1>5, <1>6, <1>8, <1>9, MoveKeeps

(* The stages that pass, refuse or end the command.                        *)
LEMMA SimpleKeeps ==
    ASSUME CliInv, NEW t \in Terminals,
           \/ NeedStage(t) \/ NeedSomeStage(t) \/ TerminalStage(t) \/ RootedStage(t)
           \/ PreviewStage(t) \/ CatalogStage(t) \/ CheckStage(t) \/ ChangedStage(t)
           \/ RunningStage(t) \/ ProbeStage(t) \/ ProvisionStage(t)
    PROVE  Keeps(t)
<1>1. Busy(t)
  BY DEF Busy, NeedStage, NeedSomeStage, TerminalStage, RootedStage, PreviewStage, CatalogStage,
         CheckStage, ChangedStage, RunningStage, ProbeStage, ProvisionStage, At
<1>2. asked = [u \in Terminals |-> IF u = t THEN asked[t] ELSE asked[u]] /\ asked[t] \in [Questions -> 0..2]
  BY DEF CliInv, StoresOK
<1>3. CASE Refuse(t)
  BY <1>1, <1>3, RefuseKeeps
<1>4. CASE Exit(t, "ok") /\ UNCHANGED <<vms, ghosts, typed>>
  BY <1>1, <1>2, <1>4, ExitKeeps DEF Codes, ghosts
<1>5. CASE Exit(t, "cancelled") /\ UNCHANGED <<vms, ghosts, typed>>
  BY <1>1, <1>2, <1>5, ExitKeeps DEF Codes, ghosts
<1>6. CASE Pass(t) /\ NeedStage(t) /\ \A f \in NowOn(t) : proc[t].values[f] # Unset
  BY <1>1, <1>6, PassKeeps DEF NeedStage, At, NowOn
<1>7. CASE Pass(t) /\ RootedStage(t) /\ proc[t].root
  BY <1>1, <1>7, PassKeeps DEF RootedStage, At
<1>8. CASE /\ Pass(t)
           /\ Head(proc[t].rest).do \in {"needSome", "terminal", "preview", "catalog", "check", "changed",
                                         "running", "probe", "provision"}
  BY <1>1, <1>8, PassKeeps
<1> QED BY <1>3, <1>4, <1>5, <1>6, <1>7, <1>8
        DEF NeedStage, NeedSomeStage, TerminalStage, RootedStage, PreviewStage, CatalogStage, CheckStage,
            ChangedStage, RunningStage, ProbeStage, ProvisionStage, At

LEMMA PutDoes ==
    ASSUME CliInv, NEW t \in Terminals, NEW x \in Questions, Put(t, x)
    PROVE  /\ asked' = [u \in Terminals |-> IF u = t THEN asked'[t] ELSE asked[u]]
           /\ asked'[t] \in [Questions -> 0..2]
           /\ \A y \in Questions \ {x} : asked'[t][y] = asked[t][y]
           /\ asked'[t][x] # 0 /\ (asked[t][x] = 0 => asked'[t][x] = 1)
           /\ asked[t][x] # 2 => asked'[t][x] = asked[t][x] + 1
           /\ asked[t][x] = 2 => asked'[t][x] = 2
<1> DEFINE n == IF asked[t][x] = 2 THEN 2 ELSE asked[t][x] + 1
           b == [asked[t] EXCEPT ![x] = n]
<1>1. asked \in [Terminals -> [Questions -> 0..2]] /\ asked[t] \in [Questions -> 0..2]
  BY DEF CliInv, StoresOK
<1>2. n \in 0..2 /\ n # 0 /\ (asked[t][x] = 0 => n = 1) /\ (asked[t][x] # 2 => n = asked[t][x] + 1)
      /\ (asked[t][x] = 2 => n = 2)
  BY <1>1
<1>3. asked' = [asked EXCEPT ![t] = b]
  BY DEF Put
<1> HIDE DEF n
<1>4. b \in [Questions -> 0..2] /\ b[x] = n /\ \A y \in Questions \ {x} : b[y] = asked[t][y]
  BY <1>1, <1>2
<1> HIDE DEF b
<1> QED BY <1>1, <1>2, <1>3, <1>4

LEMMA ConfirmationKeeps ==
    ASSUME CliInv, NEW t \in Terminals, Busy(t), Confirmation(t), proc[t].tty,
           Head(proc[t].rest).do \in {"confirm", "confirmOnTerminal"}
    PROVE  Keeps(t)
<1> DEFINE p == proc[t]
           q == [p EXCEPT !.rest = Tail(p.rest)]
<1>1. /\ ProcOK(p) /\ WantOK(want[t]) /\ Asked(p, want[t], asked[t])
  BY DEF CliInv, TerminalOK
<1>2. /\ DOMAIN q = ProcFields /\ q.verb = p.verb /\ q.quiet = p.quiet /\ q.root = p.root /\ q.tty = p.tty
      /\ q.marker = p.marker /\ q.rest = Tail(p.rest) /\ q.values = p.values /\ q.seen = p.seen
  BY <1>1 DEF ProcOK, ProcFields
<1>3. Head(p.rest) = p.rest[1] /\ Len(p.rest) \in Nat \ {0}
  BY <1>1, TailOf DEF ProcOK, Formed
<1>4. Put(t, "confirm") /\ UNCHANGED <<vms, did, want>> /\ "confirm" \in Questions
  BY DEF Confirmation, Questions
<1>5. /\ asked' = [u \in Terminals |-> IF u = t THEN asked'[t] ELSE asked[u]]
      /\ asked'[t] \in [Questions -> 0..2]
      /\ \A y \in Questions \ {"confirm"} : asked'[t][y] = asked[t][y]
      /\ asked[t]["confirm"] # 2 => asked'[t]["confirm"] = asked[t]["confirm"] + 1
  BY <1>4, PutDoes
<1>6. CASE Exit(t, "cancelled")
  BY <1>4, <1>5, <1>6, ExitKeeps DEF Codes
<1>7. CASE Goon(t) /\ UNCHANGED code
  <2>1. proc' = [proc EXCEPT ![t] = q]
    BY <1>7 DEF Goon, Continue
  <2> HIDE DEF q
  <2>2. proc'[t] = q /\ Others(t) /\ want'[t] = want[t]
    BY <1>4, <1>5, <1>7, <2>1 DEF CliInv, StoresOK, Others
  <2>3. ProcOK(q)
    BY <1>1, <1>2, <1>3, ProcMoves DEF ProcOK
  <2>4. 1 \in Confirms(p.rest) /\ 1 \notin Elevates(p.rest)
    BY <1>3 DEF Confirms, Elevates, Places
  <2>5. Asked(q, want[t], asked'[t])
    <3>1. asked'[t]["password"] = asked[t]["password"] /\ asked'[t]["lan"] = asked[t]["lan"]
      BY <1>5 DEF Questions, Fields, ChosenValues
    <3>2. CASE asked[t]["confirm"] # 2
      BY <1>1, <1>2, <1>5, <2>4, <3>1, <3>2, AskedMoves
    <3>3. CASE asked[t]["confirm"] = 2
      <4>1. /\ ~EditConfirms(asked[t]["confirm"], p.rest) /\ ~RemovalConfirms(asked[t]["confirm"], p.rest)
        BY <3>3 DEF EditConfirms, RemovalConfirms
      <4>2. ASSUME NewConfirms(asked[t]["lan"], asked[t]["confirm"], p.rest)
            PROVE  NewConfirms(asked'[t]["lan"], asked'[t]["confirm"], q.rest)
        <5>1. asked[t]["lan"] = 0 /\ AsksLan(p.rest) = {}
          BY <3>3, <4>2 DEF NewConfirms
        <5>2. NewConfirms(asked[t]["lan"], 0, p.rest)
          BY <4>2, <5>1 DEF NewConfirms
        <5>3. NewConfirms(asked[t]["lan"], 1, q.rest)
          BY <1>1, <1>2, <2>4, <5>2, NewTail DEF ProcOK
        <5> QED BY <3>1, <5>1, <5>3 DEF NewConfirms
      <4> QED BY <1>1, <1>2, <3>1, <4>1, <4>2 DEF Asked, Confirming
    <3> QED BY <3>2, <3>3
  <2>6. ASSUME Kept(p, want[t], asked[t]) PROVE Kept(q, want[t], asked'[t])
    <3>1. asked'[t]["password"] = asked[t]["password"] /\ asked'[t]["name"] = asked[t]["name"]
      BY <1>5, CapacitiesAre DEF Questions
    <3>2. p.rest[1].do # "ask"
      BY <1>3
    <3> QED BY <1>1, <1>2, <2>6, <3>1, <3>2, KeptMoves
  <2> QED BY <1>1, <1>4, <1>5, <1>7, <2>2, <2>3, <2>5, <2>6, MoveKeeps
<1> QED BY <1>6, <1>7 DEF Confirmation

LEMMA ConfirmKeeps ==
    ASSUME CliInv, NEW t \in Terminals, ConfirmStage(t) \/ ConfirmOnTerminalStage(t)
    PROVE  Keeps(t)
<1>1. Busy(t) /\ Head(proc[t].rest).do \in {"confirm", "confirmOnTerminal"}
  BY DEF Busy, ConfirmStage, ConfirmOnTerminalStage, At
<1>2. CASE proc[t].tty /\ Confirmation(t)
  BY <1>1, <1>2, ConfirmationKeeps
<1>3. CASE Refuse(t)
  BY <1>1, <1>3, RefuseKeeps
<1>4. CASE ~proc[t].tty /\ Head(proc[t].rest).do = "confirmOnTerminal" /\ Pass(t)
  BY <1>1, <1>4, PassKeeps
<1> QED BY <1>2, <1>3, <1>4 DEF ConfirmStage, ConfirmOnTerminalStage, At

-----------------------------------------------------------------------------
(* Questions about values. *)

LEMMA AcceptedFields ==
    ASSUME NEW verb \in Verbs
    PROVE  Accepted(verb) \subseteq Fields
BY CapacitiesAre DEF Accepted, Verbs, Fields, ChosenValues

LEMMA OffersFit ==
    ASSUME NEW p, p.verb \in Verbs, NEW f \in Accepted(p.verb) \ {"remote"}, NEW a \in Offers(p, f),
           f \in Capacities /\ p.verb = "edit" => p.seen \in [Capacities -> Nat]
    PROVE  /\ a \in MayHold(f) /\ a # Unset
           /\ p.verb = "new" /\ f = "disk" => a \in Sizes
<1>1. Unset \notin Nat \cup Names /\ Unset \notin {"image", "yes", "no", "preserve", "regenerate", "folder"}
  BY UnsetAssumption
<1>2. Capacities = {"disk", "vcpus"} /\ f \in Fields
  BY CapacitiesAre, AcceptedFields
<1>3. CASE f \in Capacities /\ p.verb # "edit"
  BY <1>1, <1>2, <1>3, SizesAssumption DEF Offers, MayHold
<1>4. CASE f \in Capacities /\ p.verb = "edit"
  <2>1. p.seen[f] \in Nat
    BY <1>4
  <2>2. \A up \in BOOLEAN : FlagText(f, p.seen[f], up) \in Nat
    BY <2>1 DEF FlagText
  <2>3. a \in Sizes \cup {p.seen[f]} \cup {FlagText(f, p.seen[f], up) : up \in BOOLEAN}
    BY <1>2, <1>4 DEF Offers
  <2>4. a \in Nat
    BY <2>1, <2>2, <2>3, SizesAssumption
  <2> QED BY <1>1, <1>4, <2>4 DEF MayHold
<1>5. CASE f = "name"
  <2>1. a \in Names
    BY <1>2, <1>5 DEF Offers, Running, Machines
  <2> QED BY <1>1, <1>2, <1>5, <2>1 DEF MayHold, Words
<1>6. CASE f = "archive"
  <2>1. a \in Names
    BY <1>2, <1>6 DEF Offers
  <2> QED BY <1>1, <1>2, <1>6, <2>1 DEF MayHold, Words
<1>7. CASE f \in {"image", "lan", "policy", "output"}
  <2>1. a \in {"image", "yes", "no", "preserve", "regenerate", "folder"}
    BY <1>2, <1>7 DEF Offers
  <2> QED BY <1>1, <1>2, <1>7, <2>1 DEF MayHold, Words
<1> QED BY <1>2, <1>3, <1>4, <1>5, <1>6, <1>7 DEF Fields, ChosenValues

LEMMA AnswerKeeps ==
    ASSUME CliInv, NEW t \in Terminals, Busy(t), NEW f, Answer(t, f), proc[t].values[f] = Unset,
           Head(proc[t].rest).do \in {"ask", "askOnTerminal"}, f \in Head(proc[t].rest).on
    PROVE  Keeps(t)
<1> DEFINE p == proc[t]
<1>1. /\ ProcOK(p) /\ WantOK(want[t]) /\ Asked(p, want[t], asked[t])
  BY DEF CliInv, TerminalOK
<1>2. /\ Head(p.rest) = p.rest[1] /\ Len(p.rest) \in Nat \ {0} /\ Formed(p.verb, p.rest) /\ p.verb \in Verbs
      /\ Loaded(p.verb, p.seen, p.rest) /\ ValuesOK(p.verb, p.values)
  BY <1>1, TailOf DEF ProcOK, Formed
<1>3. 1 \in Asks(p.rest) /\ 1 \notin Confirms(p.rest)
  BY <1>2 DEF Asks, Confirms, Places
<1>4. PICK g \in Accepted(p.verb) \ {"remote"} : p.rest[1].on = {g}
  BY <1>2, <1>3 DEF Formed
<1>5. f = g /\ p.rest[1].on = {f} /\ f \in Accepted(p.verb) \ {"remote"}
  BY <1>2, <1>4
<1>6. f \in Fields /\ f \in Questions /\ f \notin {"confirm", "password"}
  BY <1>2, <1>5, AcceptedFields, CapacitiesAre DEF Questions, Fields, ChosenValues
<1>7. f \in Capacities /\ p.verb = "edit" => p.seen \in [Capacities -> Nat]
  <2>1. \A j \in Places(p.rest, {"load"}) : ~(j < 1)
    BY <1>2 DEF Places
  <2> QED BY <1>2, <1>3, <1>5, <2>1 DEF Loaded
<1>8. Put(t, f) /\ UNCHANGED <<vms, did>>
  BY DEF Answer
<1>9. /\ asked' = [u \in Terminals |-> IF u = t THEN asked'[t] ELSE asked[u]]
      /\ asked'[t] \in [Questions -> 0..2]
      /\ \A y \in Questions \ {f} : asked'[t][y] = asked[t][y]
      /\ asked[t][f] # 2 => asked'[t][f] = asked[t][f] + 1
      /\ asked[t][f] = 2 => asked'[t][f] = 2
  BY <1>6, <1>8, PutDoes
<1>10. CASE Exit(t, "cancelled") /\ UNCHANGED want
  BY <1>8, <1>9, <1>10, ExitKeeps DEF Codes
<1>11. ASSUME NEW a \in Offers(p, f), Continue(t, [p EXCEPT !.values[f] = a]),
              want' = [want EXCEPT ![t].values[f] = a], UNCHANGED code
       PROVE  Keeps(t)
  <2> DEFINE vals == [p.values EXCEPT ![f] = a]
             wvals == [want[t].values EXCEPT ![f] = a]
             w == [want[t] EXCEPT !.values = wvals]
             q == [[p EXCEPT !.values = vals] EXCEPT !.rest = Tail(p.rest)]
  <2>1. a \in MayHold(f) /\ a # Unset /\ (p.verb = "new" /\ f = "disk" => a \in Sizes)
    BY <1>2, <1>5, <1>7, <1>11, OffersFit
  <2>2. /\ DOMAIN q = ProcFields /\ q.verb = p.verb /\ q.quiet = p.quiet /\ q.root = p.root /\ q.tty = p.tty
        /\ q.marker = p.marker /\ q.rest = Tail(p.rest) /\ q.values = vals /\ q.seen = p.seen
    BY <1>1 DEF ProcOK, ProcFields
  <2>3. DOMAIN w = {"verb", "values", "silent"} /\ w.verb = want[t].verb /\ w.silent = want[t].silent /\ w.values = wvals
    BY <1>1 DEF WantOK
  <2>4. proc' = [proc EXCEPT ![t] = q]
    <3>1. [p EXCEPT !.values[f] = a].rest = p.rest
      BY <1>1 DEF ProcOK, ProcFields
    <3> QED BY <1>11, <3>1 DEF Continue
  <2>5. want' = [want EXCEPT ![t] = w]
    BY <1>11
  <2>6. vals = [p.values EXCEPT ![f] = a] /\ wvals = [want[t].values EXCEPT ![f] = a]
    OBVIOUS
  <2> HIDE DEF vals, wvals, w, q
  <2>7. /\ Filled(vals) /\ vals[f] = a /\ \A h \in Fields \ {f} : vals[h] = p.values[h]
        /\ Filled(wvals) /\ wvals[f] = a /\ \A h \in Fields \ {f} : wvals[h] = want[t].values[h]
    <3>1. Filled(p.values) /\ Filled(want[t].values)
      BY <1>1, <1>2 DEF ValuesOK, WantOK
    <3>2. /\ vals = [h \in Fields |-> IF h = f THEN a ELSE p.values[h]]
          /\ wvals = [h \in Fields |-> IF h = f THEN a ELSE want[t].values[h]]
      BY <2>6, <3>1 DEF Filled
    <3>3. /\ vals[f] = a /\ \A h \in Fields \ {f} : vals[h] = p.values[h]
          /\ wvals[f] = a /\ \A h \in Fields \ {f} : wvals[h] = want[t].values[h]
      BY <1>6, <3>2
    <3>4. Filled(vals) /\ Filled(wvals)
      BY <1>6, <2>1, <3>1, <3>2, <3>3 DEF Filled
    <3> QED BY <3>3, <3>4
  <2>8. proc'[t] = q /\ want'[t] = w /\ Others(t)
    BY <1>8, <1>9, <1>11, <2>4, <2>5 DEF CliInv, StoresOK, Others
  <2>9. ValuesOK(q.verb, q.values)
    BY <1>2, <1>5, <2>2, <2>7 DEF ValuesOK
  <2>10. ProcOK(q)
    <3>1. \A c \in Capacities : p.values[c] # Unset \/ c \in p.rest[1].on => q.values[c] # Unset
      BY <1>5, <1>6, <2>1, <2>2, <2>7 DEF Fields
    <3> QED BY <1>1, <1>2, <2>2, <2>9, <3>1, ProcMoves
  <2>11. Asked(q, w, asked'[t])
    <3>1. "confirm" \in Questions \ {f} /\ "password" \in Questions \ {f} /\ "lan" \in Questions
      BY <1>6 DEF Questions, Fields, ChosenValues
    <3>2. asked'[t]["password"] = asked[t]["password"] /\ asked'[t]["confirm"] = asked[t]["confirm"]
      BY <1>9, <3>1
    <3>3. asked'[t]["lan"] = asked[t]["lan"] \/ (asked'[t]["lan"] = asked[t]["lan"] + 1 /\ 1 \in AsksLan(p.rest))
      <4>1. CASE f = "lan"
        BY <1>3, <1>5, <1>9, <4>1 DEF AsksLan
      <4>2. CASE f # "lan"
        BY <1>9, <3>1, <4>2
      <4> QED BY <4>1, <4>2
    <3> QED BY <1>1, <1>3, <2>2, <2>3, <3>2, <3>3, AskedMoves
  <2>12. WantOK(w)
    BY <1>1, <2>3, <2>7 DEF WantOK
  <2>13. ASSUME Kept(p, want[t], asked[t]) PROVE Kept(q, w, asked'[t])
    <3>1. \A h \in Fields \ {"output"} :
            \/ q.values[h] = p.values[h] /\ w.values[h] = want[t].values[h]
            \/ Meaning(h, q.values[h]) = Meaning(h, w.values[h])
      BY <1>6, <2>2, <2>3, <2>7
    <3>2. \A h \in Fields : q.values[h] = p.values[h] \/ (1 \in Asks(p.rest) /\ h \in p.rest[1].on)
      BY <1>3, <1>5, <2>2, <2>7
    <3>3. asked'[t]["password"] = asked[t]["password"]
      BY <1>6, <1>9, CapacitiesAre DEF Questions
    <3>4. /\ asked[t]["name"] > 0 => asked'[t]["name"] > 0
          /\ f = "name" => asked'[t]["name"] > 0
      <4>1. "name" \in Questions /\ asked[t]["name"] \in 0..2
        BY CapacitiesAre DEF Questions, CliInv, StoresOK
      <4>2. CASE f = "name"
        BY <1>9, <4>1, <4>2
      <4>3. CASE f # "name"
        BY <1>9, <4>1, <4>3
      <4> QED BY <4>2, <4>3
    <3>5. q.values["name"] = p.values["name"] \/ asked'[t]["name"] > 0
      BY <2>2, <2>7, <3>4, CapacitiesAre
    <3>6. p.rest[1].do = "ask" /\ p.rest[1].on = {"name"} => asked'[t]["name"] > 0
      BY <1>5, <3>4
    <3> QED BY <1>1, <2>2, <2>3, <2>13, <3>1, <3>2, <3>3, <3>4, <3>5, <3>6, KeptMoves
  <2> QED BY <1>8, <1>9, <1>11, <2>8, <2>10, <2>11, <2>12, <2>13, MoveKeeps
<1> QED BY <1>10, <1>11 DEF Answer

LEMMA AskKeeps ==
    ASSUME CliInv, NEW t \in Terminals, AskStage(t) \/ AskOnTerminalStage(t)
    PROVE  Keeps(t)
<1>1. Busy(t) /\ Head(proc[t].rest).do \in {"ask", "askOnTerminal"}
  BY DEF Busy, AskStage, AskOnTerminalStage, At
<1>2. PICK f \in Head(proc[t].rest).on :
        \/ Refuse(t)
        \/ Pass(t) /\ proc[t].values[f] # Unset
        \/ Pass(t) /\ Head(proc[t].rest).do = "askOnTerminal"
        \/ Answer(t, f) /\ proc[t].values[f] = Unset
  BY DEF AskStage, AskOnTerminalStage, At, NowOn
<1>3. CASE Refuse(t)
  BY <1>1, <1>3, RefuseKeeps
<1>4. CASE Pass(t) /\ Head(proc[t].rest).do = "askOnTerminal"
  BY <1>1, <1>4, PassKeeps
<1>5. CASE Pass(t) /\ proc[t].values[f] # Unset /\ Head(proc[t].rest).do = "ask"
  <2>1. Formed(proc[t].verb, proc[t].rest) /\ Head(proc[t].rest) = proc[t].rest[1] /\ Len(proc[t].rest) \in Nat \ {0}
    BY <1>1, TailOf DEF CliInv, TerminalOK, ProcOK, Formed
  <2>2. 1 \in Asks(proc[t].rest)
    BY <1>5, <2>1 DEF Asks, Places
  <2>3. PICK g : proc[t].rest[1].on = {g}
    BY <2>1, <2>2 DEF Formed
  <2>4. \A h \in Head(proc[t].rest).on : proc[t].values[h] # Unset
    BY <1>2, <1>5, <2>1, <2>3
  <2> QED BY <1>1, <1>5, <2>4, PassKeeps
<1>6. CASE Answer(t, f) /\ proc[t].values[f] = Unset
  BY <1>1, <1>2, <1>6, AnswerKeeps
<1> QED BY <1>1, <1>2, <1>3, <1>4, <1>5, <1>6

-----------------------------------------------------------------------------
(* Editing. *)

LEMMA LoadKeeps ==
    ASSUME CliInv, NEW t \in Terminals, LoadStage(t)
    PROVE  Keeps(t)
<1> DEFINE p == proc[t]
           n == p.values["name"]
           caps == vms[n].caps
           q == [[p EXCEPT !.seen = caps] EXCEPT !.rest = Tail(p.rest)]
<1>1. Busy(t) /\ Head(p.rest).do = "load"
  BY DEF Busy, LoadStage, At
<1>2. /\ ProcOK(p) /\ WantOK(want[t]) /\ Asked(p, want[t], asked[t])
  BY <1>1 DEF CliInv, TerminalOK
<1>3. Head(p.rest) = p.rest[1] /\ ValuesOK(p.verb, p.values)
  BY <1>2, TailOf DEF ProcOK, Formed
<1>4. CASE Refuse(t)
  BY <1>1, <1>4, RefuseKeeps
<1>5. CASE /\ n \in Machines
           /\ Continue(t, [p EXCEPT !.seen = caps])
           /\ UNCHANGED <<vms, code, ghosts, typed>>
  <2>1. caps \in [Capacities -> Nat]
    BY <1>5 DEF CliInv, StoresOK, Machines, Descriptions
  <2>2. /\ DOMAIN q = ProcFields /\ q.verb = p.verb /\ q.quiet = p.quiet /\ q.root = p.root /\ q.tty = p.tty
        /\ q.marker = p.marker /\ q.rest = Tail(p.rest) /\ q.values = p.values /\ q.seen = caps
    BY <1>2 DEF ProcOK, ProcFields
  <2>3. proc' = [proc EXCEPT ![t] = q] /\ UNCHANGED <<vms, code, did, want, asked>>
    <3>1. [p EXCEPT !.seen = caps].rest = p.rest
      BY <1>2 DEF ProcOK, ProcFields
    <3> QED BY <1>5, <3>1 DEF Continue, ghosts
  <2> HIDE DEF q, caps
  <2>4. proc'[t] = q /\ Others(t) /\ asked'[t] \in [Questions -> 0..2]
    BY <2>3 DEF CliInv, StoresOK, Others
  <2>5. ProcOK(q)
    BY <1>1, <1>2, <1>3, <2>1, <2>2, ProcMoves
  <2>6. 1 \notin Confirms(p.rest)
    BY <1>1, <1>3 DEF Confirms, Places
  <2>7. Asked(q, want[t], asked[t])
    BY <1>2, <2>2, <2>6, AskedMoves
  <2>8. ASSUME Kept(p, want[t], asked[t]) PROVE Kept(q, want[t], asked[t])
    <3>1. p.rest[1].do # "ask"
      BY <1>1, <1>3
    <3> QED BY <1>2, <2>2, <2>8, <3>1, KeptMoves
  <2> QED BY <1>1, <1>2, <2>3, <2>4, <2>5, <2>7, <2>8, MoveKeeps
<1> QED BY <1>4, <1>5 DEF LoadStage

LEMMA ReviewKeeps ==
    ASSUME CliInv, NEW t \in Terminals, ReviewStage(t)
    PROVE  Keeps(t)
<1> DEFINE p == proc[t]
           vals == ChangeFlags(p)
           wvals == [f \in Fields |-> IF f \in Capacities /\ want[t].values[f] = p.seen[f]
                                      THEN Unset ELSE want[t].values[f]]
           w == [want[t] EXCEPT !.values = wvals]
           q == [[p EXCEPT !.values = vals] EXCEPT !.rest = Tail(p.rest)]
<1>1. Busy(t) /\ Head(p.rest).do = "review"
  BY DEF Busy, ReviewStage, At
<1>2. /\ ProcOK(p) /\ WantOK(want[t]) /\ Asked(p, want[t], asked[t])
  BY <1>1 DEF CliInv, TerminalOK
<1>3. /\ Head(p.rest) = p.rest[1] /\ Len(p.rest) \in Nat \ {0} /\ ValuesOK(p.verb, p.values)
      /\ p.verb = "edit" \/ \A i \in 1..Len(p.rest) : p.rest[i].do # "review"
  BY <1>2, TailOf DEF ProcOK, Formed
<1>4. p.verb = "edit" /\ 1 \notin Confirms(p.rest)
  BY <1>1, <1>3 DEF Confirms, Places
<1>5. CASE Refuse(t)
  BY <1>1, <1>5, RefuseKeeps
<1>6. CASE /\ Continue(t, [p EXCEPT !.values = vals])
           /\ want' = [want EXCEPT ![t].values = wvals]
           /\ UNCHANGED <<vms, code, did, asked, typed>>
  <2>1. /\ DOMAIN q = ProcFields /\ q.verb = p.verb /\ q.quiet = p.quiet /\ q.root = p.root /\ q.tty = p.tty
        /\ q.marker = p.marker /\ q.rest = Tail(p.rest) /\ q.values = vals /\ q.seen = p.seen
    BY <1>2 DEF ProcOK, ProcFields
  <2>2. DOMAIN w = {"verb", "values", "silent"} /\ w.verb = want[t].verb /\ w.silent = want[t].silent /\ w.values = wvals
    BY <1>2 DEF WantOK
  <2>3. proc' = [proc EXCEPT ![t] = q] /\ want' = [want EXCEPT ![t] = w]
    <3>1. [p EXCEPT !.values = vals].rest = p.rest
      BY <1>2 DEF ProcOK, ProcFields
    <3> QED BY <1>6, <3>1 DEF Continue
  <2>4. /\ vals = [f \in Fields |-> vals[f]] /\ wvals = [f \in Fields |-> wvals[f]]
        /\ \A f \in Fields : vals[f] = IF f \in Capacities /\ ~Differs(p, f) THEN Unset ELSE p.values[f]
        /\ \A f \in Fields : wvals[f] = IF f \in Capacities /\ want[t].values[f] = p.seen[f]
                                        THEN Unset ELSE want[t].values[f]
    BY DEF ChangeFlags
  <2> HIDE DEF vals, wvals, w, q
  <2>5. proc'[t] = q /\ want'[t] = w /\ Others(t) /\ asked'[t] \in [Questions -> 0..2]
    BY <1>6, <2>3 DEF CliInv, StoresOK, Others
  <2>6. \A f \in Fields : vals[f] \in {Unset, p.values[f]} /\ wvals[f] \in {Unset, want[t].values[f]}
    BY <2>4
  <2>7. \A f \in Fields : Unset \in MayHold(f)
    BY DEF MayHold, Words
  <2>8. Filled(vals) /\ Filled(wvals) /\ ValuesOK(q.verb, q.values)
    BY <1>2, <1>3, <2>1, <2>4, <2>6, <2>7 DEF Filled, ValuesOK, WantOK
  <2>9. ProcOK(q)
    BY <1>1, <1>2, <1>3, <1>4, <2>1, <2>8, ProcMoves
  <2>10. Asked(q, w, asked[t])
    BY <1>2, <1>4, <2>1, <2>2, AskedMoves
  <2>11. WantOK(w)
    BY <1>2, <2>2, <2>8 DEF WantOK
  <2>12. ASSUME Kept(p, want[t], asked[t]) PROVE Kept(q, w, asked[t])
    <3>1. ASSUME NEW f \in Fields \ {"output"}
          PROVE  \/ q.values[f] = p.values[f] /\ w.values[f] = want[t].values[f]
                 \/ Meaning(f, q.values[f]) = Meaning(f, w.values[f])
      <4>1. CASE f \in Capacities
        <5>1. ~Differing(p, want[t], asked[t], f)
          BY <1>2, <1>4, <4>1, CapacitiesAre DEF Differing, Asked
        <5>2. p.values[f] = want[t].values[f]
          BY <2>12, <4>1, <5>1, CapacitiesAre DEF Kept, Meaning
        <5>3. vals[f] = wvals[f]
          BY <2>4, <4>1, <5>2 DEF Differs
        <5> QED BY <2>1, <2>2, <5>3
      <4>2. CASE f \notin Capacities
        BY <2>1, <2>2, <2>4, <4>2
      <4> QED BY <4>1, <4>2
    <3>2. q.values["name"] = p.values["name"] /\ p.rest[1].do # "ask"
      BY <1>1, <1>3, <2>1, <2>4, CapacitiesAre
    <3> QED BY <1>2, <1>4, <2>1, <2>2, <2>6, <2>12, <3>1, <3>2, KeptMoves
  <2> QED BY <1>1, <1>6, <2>5, <2>9, <2>10, <2>11, <2>12, MoveKeeps
<1> QED BY <1>5, <1>6 DEF ReviewStage

-----------------------------------------------------------------------------
(* Elevation. *)

LEMMA FlagValueFits ==
    ASSUME NEW verb, NEW f \in Fields, NEW v \in MayHold(f), NEW up \in BOOLEAN
    PROVE  /\ FlagValue(verb, f, v, up) \in MayHold(f)
           /\ v = Unset => FlagValue(verb, f, v, up) = Unset
           /\ \/ Meaning(f, FlagValue(verb, f, v, up)) = Meaning(f, v)
              \/ verb = "new" /\ f = "disk" /\ FlagValue(verb, f, v, up) = FlagText(f, v, up)
<1>1. Unset \in MayHold(f) /\ Capacities = {"disk", "vcpus"}
  BY CapacitiesAre DEF MayHold, Words
<1>2. CASE v = Unset
  BY <1>1, <1>2 DEF FlagValue
<1>3. CASE v # Unset /\ f = "lan"
  BY <1>1, <1>3 DEF FlagValue, Meaning
<1>4. CASE v # Unset /\ f # "lan" /\ f # "disk"
  BY <1>1, <1>4 DEF FlagValue, FlagText, Meaning
<1>5. CASE v # Unset /\ f = "disk"
  <2>1. v \in Nat
    BY <1>1, <1>5 DEF MayHold
  <2>2. FlagText(f, v, up) \in Nat
    BY <2>1 DEF FlagText
  <2> QED BY <1>1, <1>5, <2>1, <2>2 DEF FlagValue, Meaning, MayHold
<1> QED BY <1>2, <1>3, <1>4, <1>5

(* A child that starts where its parent elevated.                          *)
LEMMA ChildAsks ==
    ASSUME NEW p, ProcOK(p), NEW w, NEW a, Asked(p, w, a), 1 \in Elevates(p.rest),
           NEW q, NEW values, Fresh(p.verb, values, p.rest[1].quiet, q.rest),
           q.verb = p.verb, q.tty = p.tty, p.rest[1].quiet \in BOOLEAN,
           NEW b, b["password"] # 0, b["confirm"] = a["confirm"], b["lan"] = a["lan"]
    PROVE  Asked(q, w, b)
<1> DEFINE s == p.rest
           quiet == s[1].quiet
<1>1. ASSUME ~w.silent PROVE Confirming(q.verb, b, q.rest)
  <2>1. Confirming(p.verb, a, s)
    BY <1>1 DEF Asked
  <2>2. ASSUME p.verb = "edit" PROVE EditConfirms(b["confirm"], q.rest)
    <3>1. CASE a["confirm"] = 1 /\ Confirms(s) = {} /\ \A i \in Elevates(s) : s[i].quiet
      <4>1. quiet
        BY <3>1
      <4>2. Elevates(q.rest) = {} /\ Confirms(q.rest) = {}
        BY <2>2, <4>1 DEF Fresh
      <4> QED BY <3>1, <4>2 DEF EditConfirms
    <3>2. ASSUME a["confirm"] = 0, NEW k \in Confirms(s), \A i \in Elevates(s) : s[i].quiet <=> k < i
          PROVE  EditConfirms(b["confirm"], q.rest)
      <4>1. ~(k < 1)
        BY <3>2 DEF Confirms, Places
      <4>2. ~quiet
        BY <3>2, <4>1, Zenon
      <4> QED BY <2>2, <3>2, <4>2 DEF Fresh
    <3> QED BY <2>1, <2>2, <3>1, <3>2 DEF Confirming, EditConfirms
  <2>3. ASSUME p.verb = "new" PROVE NewConfirms(b["lan"], b["confirm"], q.rest)
    <3>1. NewConfirms(a["lan"], a["confirm"], s) /\ quiet
      BY <2>1, <2>3 DEF Confirming, NewConfirms
    <3>2. Elevates(q.rest) = {} /\ Confirms(q.rest) = {} /\ AsksLan(q.rest) = {}
      BY <2>3, <3>1 DEF Fresh
    <3>3. 1 \notin Confirms(s)
      BY DEF Confirms, Elevates, Places
    <3> QED BY <3>1, <3>2, <3>3 DEF NewConfirms
  <2> QED BY <2>2, <2>3 DEF Confirming
<1> QED BY <1>1 DEF Asked

LEMMA ChildKeeps ==
    ASSUME NEW p, ProcOK(p), ~p.marker, NEW w, w.verb = p.verb, NEW a, Kept(p, w, a),
           1 \in Elevates(p.rest), NEW up \in BOOLEAN, p.rest[1].quiet \in BOOLEAN,
           NEW q, q.verb = p.verb, q.marker = TRUE, Fresh(p.verb, q.values, p.rest[1].quiet, q.rest),
           \A f \in Fields : q.values[f] = IF f \in p.rest[1].on
                                           THEN FlagValue(p.verb, f, p.values[f], up) ELSE Unset,
           NEW b, b["password"] > 0
    PROVE  Kept(q, w, b)
<1>1. /\ \A f \in Fields \ {"output"} : Meaning(f, p.values[f]) = Meaning(f, w.values[f])
      /\ Carried(p.values, p.rest)
  BY DEF Kept
<1>2. \A f \in Fields : p.values[f] \in MayHold(f)
  BY DEF ProcOK, ValuesOK, Filled
<1>3. ASSUME NEW f \in Fields \ {"output"}
      PROVE  Meaning(f, q.values[f]) = Meaning(f, w.values[f]) \/ Differing(q, w, b, f)
  <2>1. Meaning(f, p.values[f]) = Meaning(f, w.values[f])
    BY <1>1
  <2>2. CASE f \in p.rest[1].on
    <3>1. q.values[f] = FlagValue(p.verb, f, p.values[f], up)
      BY <2>2
    <3>2. \/ Meaning(f, q.values[f]) = Meaning(f, p.values[f])
          \/ p.verb = "new" /\ f = "disk" /\ q.values[f] = FlagText(f, p.values[f], up)
      BY <1>2, <3>1, FlagValueFits
    <3>3. f = "disk" => p.values[f] = w.values[f]
      BY <2>1 DEF Meaning
    <3> QED BY <2>1, <3>2, <3>3 DEF Differing
  <2>3. CASE f \notin p.rest[1].on /\ p.values[f] = Unset
    <3>1. q.values[f] = p.values[f]
      BY <2>3
    <3> QED BY <2>1, <3>1
  <2>4. CASE f \notin p.rest[1].on /\ p.values[f] # Unset
    <3>1. f = "remote" /\ p.values["name"] = Unset /\ ~p.rest[1].quiet
      BY <1>1, <2>4 DEF Carried, Nameless
    <3>2. p.verb = "ssh"
      BY <2>4, <3>1, CapacitiesAre DEF ProcOK, ValuesOK, Accepted, Verbs
    <3>3. q.values["name"] = Unset /\ q.values["remote"] = Unset
      <4>1. "name" \in Fields /\ "remote" \in Fields
        BY CapacitiesAre
      <4>2. FlagValue(p.verb, "name", p.values["name"], up) = Unset
        BY <1>2, <3>1, <4>1, FlagValueFits
      <4> QED BY <2>4, <3>1, <4>1, <4>2
    <3>4. AsksName(q.rest)
      BY <3>1, <3>2, <3>3 DEF Fresh
    <3> QED BY <3>1, <3>3, <3>4 DEF Differing
  <2> QED BY <2>2, <2>3, <2>4
<1>4. Carried(q.values, q.rest)
  BY DEF Fresh
<1> QED BY <1>3, <1>4 DEF Kept

LEMMA ElevateKeeps ==
    ASSUME CliInv, NEW t \in Terminals, ElevateStage(t)
    PROVE  Keeps(t)
<1> DEFINE p == proc[t]
<1>1. Busy(t) /\ Head(p.rest).do = "elevate"
  BY DEF Busy, ElevateStage, At
<1>2. /\ ProcOK(p) /\ WantOK(want[t]) /\ Asked(p, want[t], asked[t])
  BY <1>1 DEF CliInv, TerminalOK
<1>3. /\ Head(p.rest) = p.rest[1] /\ Len(p.rest) \in Nat \ {0} /\ p.rest[1] \in Stages
      /\ p.verb \in Verbs /\ p.tty \in BOOLEAN
  BY <1>2, TailOf DEF ProcOK, Formed
<1>4. 1 \in Elevates(p.rest) /\ p.rest[1].quiet \in BOOLEAN
  BY <1>1, <1>3 DEF Elevates, Places, Stages
<1>5. CASE Refuse(t)
  BY <1>1, <1>5, RefuseKeeps
<1>6. CASE p.root /\ Pass(t)
  BY <1>1, <1>6, PassKeeps
<1>7. CASE ~p.marker /\ Put(t, "password") /\ UNCHANGED <<vms, did, want, typed>>
  <2>1. "password" \in Questions /\ "confirm" \in Questions \ {"password"} /\ "lan" \in Questions \ {"password"}
    BY CapacitiesAre DEF Questions
  <2>2. /\ asked' = [u \in Terminals |-> IF u = t THEN asked'[t] ELSE asked[u]]
        /\ asked'[t] \in [Questions -> 0..2]
        /\ \A y \in Questions \ {"password"} : asked'[t][y] = asked[t][y]
        /\ asked'[t]["password"] # 0
    BY <1>7, <2>1, PutDoes
  <2>3. CASE Exit(t, "failed")
    BY <1>1, <1>7, <2>2, <2>3, ExitKeeps DEF Codes
  <2>4. ASSUME NEW w \in ChildValues(p, NowOn(t)), NEW root \in BOOLEAN, UNCHANGED code,
               proc' = [proc EXCEPT ![t] =
                          Process([verb |-> p.verb, values |-> w, quiet |-> Head(p.rest).quiet], root, p.tty, TRUE)]
        PROVE  Keeps(t)
    <3> DEFINE r == [verb |-> p.verb, values |-> w, quiet |-> p.rest[1].quiet]
               q == Process(r, root, p.tty, TRUE)
    <3>1. PICK up \in BOOLEAN :
            w = [f \in Fields |-> IF f \in p.rest[1].on THEN FlagValue(p.verb, f, p.values[f], up) ELSE Unset]
      BY <1>3, <2>4 DEF ChildValues, NowOn
    <3>2. \A f \in Fields : w[f] = IF f \in p.rest[1].on
                                   THEN FlagValue(p.verb, f, p.values[f], up) ELSE Unset
      BY <3>1
    <3>3. ValuesOK(p.verb, w)
      <4>1. /\ \A f \in Fields : p.values[f] \in MayHold(f)
            /\ \A f \in Fields \ Accepted(p.verb) : p.values[f] = Unset
        BY <1>2 DEF ProcOK, ValuesOK, Filled
      <4>2. \A f \in Fields : w[f] \in MayHold(f) /\ (p.values[f] = Unset => w[f] = Unset)
        <5>1. \A f \in Fields : Unset \in MayHold(f)
          BY DEF MayHold, Words
        <5>2. ASSUME NEW f \in Fields PROVE w[f] \in MayHold(f) /\ (p.values[f] = Unset => w[f] = Unset)
          BY <3>2, <4>1, <5>1, FlagValueFits
        <5> QED BY <5>2
      <4>3. w = [f \in Fields |-> w[f]]
        BY <3>1
      <4> QED BY <4>1, <4>2, <4>3 DEF ValuesOK, Filled
    <3>4. r.verb = p.verb /\ r.values = w /\ r.quiet = p.rest[1].quiet
      OBVIOUS
    <3>5. proc' = [proc EXCEPT ![t] = q]
      BY <1>3, <2>4
    <3>6. q = Process(r, root, p.tty, TRUE)
      OBVIOUS
    <3> HIDE DEF r, q
    <3>7. /\ ProcOK(q) /\ Fresh(p.verb, q.values, p.rest[1].quiet, q.rest)
          /\ q.verb = p.verb /\ q.values = w /\ q.tty = p.tty /\ q.marker = TRUE
      <4>1. r.verb \in Verbs /\ r.quiet \in BOOLEAN /\ ValuesOK(r.verb, r.values)
        BY <1>3, <1>4, <3>3, <3>4
      <4>2. /\ ProcOK(q) /\ Fresh(r.verb, r.values, r.quiet, q.rest)
            /\ q.verb = r.verb /\ q.values = r.values /\ q.tty = p.tty /\ q.marker = TRUE
        <5> DEFINE marker == TRUE
                   tty == p.tty
        <5>1. marker \in BOOLEAN /\ tty \in BOOLEAN /\ q = Process(r, root, tty, marker)
          BY <1>3, <3>6
        <5> HIDE DEF marker, tty
        <5>2. /\ ProcOK(q) /\ Fresh(r.verb, r.values, r.quiet, q.rest)
              /\ q.verb = r.verb /\ q.values = r.values /\ q.tty = tty /\ q.marker = marker
          BY ONLY <4>1, <5>1, root \in BOOLEAN, Started
        <5> QED BY <5>2 DEF tty, marker
      <4> QED BY <3>4, <4>2
    <3>8. proc'[t] = q /\ want'[t] = want[t] /\ Others(t)
      BY <1>7, <2>2, <2>4, <3>5 DEF CliInv, StoresOK, Others
    <3>9. Asked(q, want[t], asked'[t])
      <4>1. asked'[t]["confirm"] = asked[t]["confirm"] /\ asked'[t]["lan"] = asked[t]["lan"]
        BY <2>1, <2>2
      <4> QED BY <1>2, <1>4, <2>2, <3>7, <4>1, ChildAsks
    <3>10. ASSUME Kept(p, want[t], asked[t]) PROVE Kept(q, want[t], asked'[t])
      <4>1. want[t].verb = p.verb /\ asked'[t]["password"] > 0
        BY <1>2, <2>1, <2>2 DEF Asked
      <4> QED BY <1>2, <1>4, <1>7, <3>2, <3>7, <3>10, <4>1, ChildKeeps
    <3> QED BY <1>1, <1>2, <1>7, <2>2, <2>4, <3>7, <3>8, <3>9, <3>10, MoveKeeps
  <2> QED BY <1>1, <1>3, <1>7, <2>3, <2>4, <1>5, <1>6 DEF ElevateStage
<1> QED BY <1>5, <1>6, <1>7 DEF ElevateStage, MayElevate

-----------------------------------------------------------------------------
(* The SDK call. *)

LEMMA LastStage ==
    ASSUME NEW p, ProcOK(p), Head(p.rest).do = "perform"
    PROVE  /\ Confirms(p.rest) = {} /\ Places(p.rest, {"need", "ask"}) = {} /\ ~AsksName(p.rest)
           /\ Places(p.rest, {"rooted", "elevate"}) = {}
<1>1. /\ p.rest \in Seq(Stages) /\ Len(p.rest) \in Nat \ {0} /\ Head(p.rest) = p.rest[1]
      /\ \A i \in 1..Len(p.rest) : p.rest[i].do = "perform" <=> i = Len(p.rest)
  BY TailOf DEF ProcOK, Formed
<1>2. p.rest[1].do = "perform" /\ 1 \in 1..Len(p.rest)
  BY <1>1
<1>3. Len(p.rest) = 1
  BY ONLY <1>1, <1>2
<1> QED BY ONLY <1>1, <1>2, <1>3 DEF Confirms, Places, AsksName

LEMMA CalledKeeps ==
    ASSUME CliInv, NEW t \in Terminals, Busy(t), NEW c \in {"ok", "failed"}, Called(t, c), Head(proc[t].rest).do = "perform",
           vms' \in [Names -> Descriptions \cup {Absent}]
    PROVE  Keeps(t)
<1> DEFINE p == proc[t]
           d == [verb |-> p.verb, values |-> p.values]
<1>1. /\ ProcOK(p) /\ WantOK(want[t]) /\ Asked(p, want[t], asked[t])
  BY DEF CliInv, TerminalOK
<1>2. DOMAIN d = {"verb", "values"} /\ d.verb = p.verb /\ d.values = p.values
  OBVIOUS
<1>3. did' = [did EXCEPT ![t] = d]
  BY DEF Called
<1> HIDE DEF d
<1>4. Exit(t, c) /\ UNCHANGED <<want, asked>>
  BY DEF Called
<1>5. /\ proc'[t] = Idle /\ did'[t] = d /\ Others(t) /\ StoresOK'
  BY <1>3, <1>4 DEF CliInv, StoresOK, Others, Exit, Codes
<1>6. /\ p.verb \in Verbs /\ p.verb = want[t].verb /\ Filled(p.values)
  BY <1>1 DEF ProcOK, Asked, ValuesOK
<1>7. TerminalOK(t)'
  BY <1>1, <1>2, <1>4, <1>5, <1>6 DEF TerminalOK, Busy
<1>8. Confirmed(t)'
  <2>1. Confirms(p.rest) = {}
    BY <1>1, LastStage
  <2>2. ASSUME ~want[t].silent,
               \/ want[t].verb = "edit"
               \/ want[t].verb = "new" /\ asked[t]["lan"] = 1
               \/ Destroys(want[t].verb) /\ asked[t]["password"] = 0
        PROVE  asked[t]["confirm"] = 1
    <3>1. Confirming(p.verb, asked[t], p.rest)
      BY <1>1, <2>2 DEF Asked
    <3> QED BY <1>6, <2>1, <2>2, <3>1 DEF Confirming, EditConfirms, RemovalConfirms, NewConfirms
  <2> QED BY <1>4, <2>2 DEF Confirmed
<1>9. ASSUME Kept(p, want[t], asked[t]) PROVE Truthful(t)'
  <2>1. ASSUME NEW f \in Fields \ {"output"}, Differing(p, want[t], asked[t], f)
        PROVE  Altered(t, f)'
    <3>1. did'[t].values[f] = p.values[f] /\ want' = want /\ asked' = asked /\ ~AsksName(p.rest)
      BY <1>1, <1>2, <1>4, <1>5, LastStage
    <3> QED BY <2>1, <3>1 DEF Differing, Altered
  <2>2. ASSUME NEW f \in Fields \ {"output"}
        PROVE  \/ Meaning(f, p.values[f]) = Meaning(f, want[t].values[f])
               \/ asked[t]["password"] > 0 /\ Altered(t, f)'
    BY <1>9, <2>1 DEF Kept
  <2> QED BY <1>2, <1>4, <1>5, <2>2 DEF Truthful, Busy
<1>10. Truthful(t) => Kept(p, want[t], asked[t])
  BY DEF Truthful
<1> QED BY <1>5, <1>7, <1>8, <1>9, <1>10 DEF Keeps

LEMMA OutcomesFit ==
    ASSUME CliInv, NEW t \in Terminals, Busy(t), Head(proc[t].rest).do = "perform",
           proc[t].verb \notin {"prune", "ls"}, NEW n,
           NEW v \in Outcomes(proc[t], n) \cup Remains(proc[t], n)
    PROVE  v \in Descriptions \cup {Absent}
<1> DEFINE p == proc[t]
<1>1. ProcOK(p) /\ vms \in [Names -> Descriptions \cup {Absent}]
  BY DEF CliInv, TerminalOK, StoresOK
<1>2. p.verb \in {"start", "stop", "delete", "snapshot", "ssh", "edit", "new", "restore"}
  BY <1>1 DEF ProcOK, Verbs
<1>3. /\ \A m \in Machines : vms[m] \in Descriptions
      /\ Running \subseteq Machines /\ Stopped \subseteq Machines /\ Sound \subseteq Machines
  BY <1>1 DEF Machines, Running, Stopped, Sound
<1>4. /\ \A f \in Fields : p.values[f] \in MayHold(f)
      /\ Sized(p.verb, p.values, p.rest) /\ Places(p.rest, {"need", "ask"}) = {}
  BY <1>1, LastStage DEF ProcOK, ValuesOK, Filled
<1>5. \A c \in Capacities : p.values[c] \in Nat \cup {Unset}
  BY <1>4, CapacitiesAre DEF MayHold
<1>6. ASSUME NEW state \in {"stopped", "running", "broken"}, NEW from \in SUBSET Machines,
             v \in Become(n, state, from)
      PROVE  v \in Descriptions
  BY <1>3, <1>6 DEF Become, Descriptions
<1>7. CASE p.verb \in {"start", "stop", "delete"}
  BY <1>3, <1>6, <1>7 DEF Outcomes, Remains, StartCall, StopCall, DeleteCall
<1>8. CASE p.verb \in {"snapshot", "ssh"}
  BY <1>3, <1>8 DEF Outcomes, Remains, SnapshotCall, SessionCall
<1>9. CASE p.verb = "edit"
  <2>1. PICK m \in Stopped :
          v = [vms[m] EXCEPT !.caps = [c \in Capacities |-> IF p.values[c] = Unset THEN vms[m].caps[c] ELSE p.values[c]]]
    BY <1>9 DEF Outcomes, Remains, EditCall
  <2>2. vms[m] \in Descriptions
    BY <1>3
  <2>3. [c \in Capacities |-> IF p.values[c] = Unset THEN vms[m].caps[c] ELSE p.values[c]] \in [Capacities -> Nat]
    BY <1>5, <2>2 DEF Descriptions
  <2> QED BY <2>1, <2>2, <2>3 DEF Descriptions
<1>10. CASE p.verb = "new"
  <2>1. \A c \in Capacities : p.values[c] \in Nat
    BY <1>4, <1>5, <1>10 DEF Sized
  <2>2. \A state \in {"stopped", "broken"} : Requested(p.values, state) \in Descriptions
    BY <2>1 DEF Requested, Descriptions
  <2>3. \/ v \in {Requested(p.values, "stopped"), Requested(p.values, "broken")}
        \/ \E m \in Sound : v = vms[m]
    BY <1>10 DEF Outcomes, Remains, NewCall
  <2> QED BY <1>3, <2>2, <2>3
<1>11. CASE p.verb = "restore"
  <2>1. v = [state |-> "stopped", caps |-> Minimum]
    BY <1>11 DEF Outcomes, Remains, RestoreCall
  <2> QED BY <2>1, MinimumAssumption DEF Descriptions, Capacities
<1> QED BY <1>2, <1>7, <1>8, <1>9, <1>10, <1>11

LEMMA PerformKeeps ==
    ASSUME CliInv, NEW t \in Terminals, HomeStage(t) \/ MachineStage(t)
    PROVE  Keeps(t)
<1>1. Busy(t) /\ Head(proc[t].rest).do = "perform"
  BY DEF Busy, HomeStage, MachineStage, At
<1>2. vms \in [Names -> Descriptions \cup {Absent}]
  BY DEF CliInv, StoresOK
<1>3. ASSUME NEW c \in {"ok", "failed"}, Called(t, c), UNCHANGED vms PROVE Keeps(t)
  BY <1>1, <1>2, <1>3, CalledKeeps
<1>4. ASSUME proc[t].verb \notin {"prune", "ls"}, NEW n,
             NEW v \in Outcomes(proc[t], n) \cup Remains(proc[t], n),
             vms' = [vms EXCEPT ![n] = v], NEW c \in {"ok", "failed"}, Called(t, c)
      PROVE  Keeps(t)
  <2>1. v \in Descriptions \cup {Absent}
    BY <1>1, <1>4, OutcomesFit
  <2>2. vms' \in [Names -> Descriptions \cup {Absent}]
    BY <1>2, <1>4, <2>1
  <2> QED BY <1>1, <1>4, <2>2, CalledKeeps
<1> QED BY <1>3, <1>4 DEF HomeStage, MachineStage

-----------------------------------------------------------------------------
(* A command is typed. *)

LEMMA InvokeKeeps ==
    ASSUME CliInv, NEW t \in Terminals, NEW r \in Requests[t], NEW who \in Operators, Invoke(t, r, who)
    PROVE  Keeps(t)
<1> DEFINE w == [verb |-> r.verb, values |-> r.values, silent |-> r.quiet \/ ~who.tty]
           a == [x \in Questions |-> 0]
           q == Process(r, who.root, who.tty, FALSE)
<1>1. /\ r.verb \in Verbs /\ r.quiet \in BOOLEAN /\ ValuesOK(r.verb, r.values)
      /\ who.root \in BOOLEAN /\ who.tty \in BOOLEAN
  BY RequestsAssumption, OperatorsAssumption DEF ValuesOK, Filled
<1>2. /\ ProcOK(q) /\ Fresh(r.verb, r.values, r.quiet, q.rest)
      /\ q.verb = r.verb /\ q.values = r.values /\ q.tty = who.tty /\ q.marker = FALSE
  <2> DEFINE marker == FALSE
             root == who.root
             tty == who.tty
  <2>1. marker \in BOOLEAN /\ root \in BOOLEAN /\ tty \in BOOLEAN
    BY <1>1
  <2>2. q = Process(r, root, tty, marker)
    OBVIOUS
  <2> HIDE DEF marker, root, tty, q
  <2>3. r.verb \in Verbs /\ r.quiet \in BOOLEAN /\ ValuesOK(r.verb, r.values)
    BY <1>1
  <2>4. /\ ProcOK(q) /\ Fresh(r.verb, r.values, r.quiet, q.rest)
        /\ q.verb = r.verb /\ q.values = r.values /\ q.tty = tty /\ q.marker = marker
    BY ONLY <2>1, <2>2, <2>3, Started
  <2> QED BY <2>4 DEF tty, marker
<1>3. /\ DOMAIN w = {"verb", "values", "silent"} /\ w.verb = r.verb /\ w.values = r.values
      /\ w.silent \in BOOLEAN /\ (~w.silent => ~r.quiet /\ who.tty)
  BY <1>1
<1>4. /\ a \in [Questions -> 0..2] /\ a["confirm"] = 0 /\ a["password"] = 0 /\ a["lan"] = 0
  BY CapacitiesAre DEF Questions
<1>5. /\ proc' = [proc EXCEPT ![t] = q] /\ code' = [code EXCEPT ![t] = "none"]
      /\ did' = [did EXCEPT ![t] = Unset] /\ want' = [want EXCEPT ![t] = w]
      /\ asked' = [asked EXCEPT ![t] = a] /\ UNCHANGED vms
  BY DEF Invoke
<1> HIDE DEF w, a, q
<1>6. /\ proc'[t] = q /\ code'[t] = "none" /\ did'[t] = Unset /\ want'[t] = w /\ asked'[t] = a
      /\ Others(t) /\ StoresOK'
  BY <1>4, <1>5 DEF CliInv, StoresOK, Others, Codes
<1>7. WantOK(w) /\ Asked(q, w, a)
  <2>1. WantOK(w)
    BY <1>1, <1>3 DEF WantOK, ValuesOK
  <2>2. ASSUME ~w.silent PROVE q.tty /\ Confirming(q.verb, a, q.rest)
    BY <1>2, <1>3, <1>4, <2>2 DEF Fresh, Confirming
  <2> QED BY <1>2, <1>3, <2>1, <2>2 DEF Asked
<1>8. TerminalOK(t)' /\ Confirmed(t)'
  BY <1>2, <1>6, <1>7 DEF TerminalOK, Confirmed
<1>9. Kept(q, w, a)
  BY <1>2, <1>3 DEF Kept, Fresh
<1> QED BY <1>6, <1>8, <1>9 DEF Keeps, Truthful

-----------------------------------------------------------------------------
(* The invariant. *)

LEMMA InitInv ==
    ASSUME Init
    PROVE  CliInv /\ KeptInv
<1>1. StoresOK
  BY HomesAssumption DEF Init, StoresOK, Codes
<1>2. \A t \in Terminals : proc[t] = Idle /\ did[t] = Unset
  BY DEF Init
<1> QED BY <1>1, <1>2 DEF CliInv, KeptInv, TerminalOK, Truthful, ConfirmedBeforeChange, Busy

LEMMA StepKeeps ==
    ASSUME CliInv, NEW t \in Terminals, Step(t)
    PROVE  Keeps(t)
BY SimpleKeeps, ElevateKeeps, AskKeeps, ConfirmKeeps, LoadKeeps, ReviewKeeps, PerformKeeps DEF Step

LEMMA NextInv ==
    ASSUME CliInv, [Next]_vars
    PROVE  CliInv' /\ (KeptInv => KeptInv')
<1>1. ASSUME NEW t \in Terminals, Step(t) PROVE CliInv' /\ (KeptInv => KeptInv')
  BY <1>1, StepKeeps, KeepsInvariant
<1>2. ASSUME NEW t \in Terminals, NEW r \in Requests[t], NEW who \in Operators, Invoke(t, r, who)
      PROVE  CliInv' /\ (KeptInv => KeptInv')
  BY <1>2, InvokeKeeps, KeepsInvariant
<1>3. CASE UNCHANGED vars
  BY <1>3 DEF vars, CliInv, KeptInv, StoresOK, TerminalOK, Truthful, ConfirmedBeforeChange, Busy, Altered
<1> QED BY <1>1, <1>2, <1>3 DEF Next

(* At a terminal, an edit, a creation whose values were all answered, and  *)
(* a deletion or a prune that needed no elevation have been confirmed by   *)
(* the time their SDK call is made: in edit, new, delete and prune the     *)
(* question comes before the call, and neither the child that an edit or a *)
(* creation starts nor any other terminal can get around it.               *)
THEOREM ChangesAreConfirmed == Spec => []ConfirmedBeforeChange
<1>1. Init => CliInv
  BY InitInv
<1>2. CliInv /\ [Next]_vars => CliInv'
  BY NextInv
<1>3. CliInv => ConfirmedBeforeChange
  BY DEF CliInv
<1> QED BY <1>1, <1>2, <1>3, PTL DEF Spec

LEMMA TypesAre ==
    ASSUME CliInv
    PROVE  CliTypeOK
<1>1. \A n \in Names : vms[n] = Absent \/ (/\ vms[n].state \in {"stopped", "running", "broken"}
                                           /\ \A c \in Capacities : vms[n].caps[c] \in Nat)
  BY DEF CliInv, StoresOK, Descriptions
<1>2. ASSUME NEW t \in Terminals
      PROVE  /\ code[t] \in Codes /\ asked[t] \in [Questions -> 0..2]
             /\ did[t] # Unset => did[t].verb \in Verbs
  BY DEF CliInv, StoresOK, TerminalOK
<1>3. ASSUME NEW t \in Terminals, Busy(t)
      PROVE  /\ proc[t].verb \in Verbs /\ DOMAIN proc[t].values = Fields
             /\ proc[t].rest # <<>> /\ code[t] = "none"
  <2>1. ProcOK(proc[t]) /\ code[t] = "none"
    BY <1>3 DEF CliInv, TerminalOK
  <2>2. Len(proc[t].rest) # 0
    BY <2>1 DEF ProcOK, Formed
  <2> QED BY <2>1, <2>2 DEF ProcOK, ValuesOK, Filled
<1> QED BY <1>1, <1>2, <1>3 DEF CliTypeOK

(* The SDK call a command makes in the end is the one that was asked for,  *)
(* through any number of elevations, whatever is typed and answered: the   *)
(* arguments of every elevated child (start, stop, delete, snapshot,       *)
(* restore, ssh, edit and new) carry it.  What format_gb_flag rounds is    *)
(* the disk of a creation and no other capacity, to a tenth next to it,    *)
(* and once; what the selector of ssh loses is the remote command, and     *)
(* only if the machine was not named.                                      *)
THEOREM RequestsSurviveElevation == Spec => []ElevationKeepsTheRequest
<1>1. Init => CliInv /\ KeptInv
  BY InitInv
<1>2. CliInv /\ KeptInv /\ [Next]_vars => (CliInv /\ KeptInv)'
  BY NextInv
<1>3. CliInv /\ KeptInv => ElevationKeepsTheRequest
  BY TypesAre DEF CliInv, KeptInv, TerminalOK, Truthful, ElevationKeepsTheRequest
<1> QED BY <1>1, <1>2, <1>3, PTL DEF Spec

-----------------------------------------------------------------------------
(* Steps that change a machine. *)

(* The call of terminal t, well or not, on machine n.                      *)
Calls(t, n, v) ==
  /\ Busy(t) /\ Head(proc[t].rest).do = "perform" /\ proc[t].verb \notin {"prune", "ls"}
  /\ n = proc[t].values[IF proc[t].verb = "restore" THEN "archive" ELSE "name"]
  /\ v \in Outcomes(proc[t], n) \cup Remains(proc[t], n) /\ vms' = [vms EXCEPT ![n] = v]
  /\ \E c \in {"ok", "failed"} : Called(t, c)

LEMMA OnlyCallsChange ==
    ASSUME CliInv, [Next]_vars, NEW n \in Names, vms'[n] # vms[n]
    PROVE  \E t \in Terminals : \E v : Calls(t, n, v) /\ vms'[n] = v
<1>1. PICK t \in Terminals : MachineStage(t) /\ ~UNCHANGED vms
  <2>1. \A t \in Terminals : Refuse(t) \/ Pass(t) => UNCHANGED vms
    BY DEF Refuse, Pass
  <2> QED BY <2>1 DEF Next, Step, vars, Invoke, NeedStage, NeedSomeStage, TerminalStage, RootedStage,
             ElevateStage, AskStage, AskOnTerminalStage, Answer, ConfirmStage, ConfirmOnTerminalStage,
             Confirmation, PreviewStage, CatalogStage, LoadStage, CheckStage, ChangedStage, ReviewStage,
             RunningStage, ProbeStage, ProvisionStage, HomeStage
<1> DEFINE m == proc[t].values[IF proc[t].verb = "restore" THEN "archive" ELSE "name"]
<1>2. PICK v \in Outcomes(proc[t], m) \cup Remains(proc[t], m) :
        vms' = [vms EXCEPT ![m] = v] /\ \E c \in {"ok", "failed"} : Called(t, c)
  BY <1>1 DEF MachineStage
<1>3. n = m /\ vms'[n] = v
  BY <1>2 DEF CliInv, StoresOK
<1> QED BY <1>1, <1>2, <1>3 DEF Calls, MachineStage, At, Busy

(* What an edit makes of a machine.                                        *)
LEMMA EditEffects ==
    ASSUME CliInv, NEW t \in Terminals, NEW n \in Names, NEW v, Calls(t, n, v), proc[t].verb = "edit"
    PROVE  \A c \in Capacities : v.caps[c] # vms[n].caps[c] => proc[t].values[c] = v.caps[c]
<1> DEFINE p == proc[t]
           caps == [c \in Capacities |-> IF p.values[c] = Unset THEN vms[n].caps[c] ELSE p.values[c]]
<1>1. v \in EditCall(n, p.values)
  BY DEF Calls, Outcomes, Remains
<1>2. n \in Stopped /\ v = [vms[n] EXCEPT !.caps = caps]
  BY <1>1 DEF EditCall
<1>3. vms[n] \in Descriptions
  BY <1>2 DEF CliInv, StoresOK, Stopped, Machines
<1>4. v.caps = caps
  BY <1>2, <1>3 DEF Descriptions
<1> QED BY <1>4

(* A machine is only changed by a process that is root, in the call an     *)
(* operator asked for by the machine's name or its archive, whether that   *)
(* succeeds or fails half-way; and an edit changes the capacities its      *)
(* review showed, to the values it showed.  What load_targets saw may be   *)
(* stale by then; the call does not rely on it.                            *)
THEOREM OnlyWhatWasAsked == Spec => ChangesOnlyWhatWasAsked
<1> DEFINE A == \A n \in Names : vms'[n] # vms[n] =>
       \E t \in Terminals :
         /\ did'[t] # did[t]
         /\ proc[t].root
         /\ n \in {want[t].values["name"], want[t].values["archive"]}
         /\ want[t].verb = "edit" =>
              \A c \in Capacities :
                vms'[n].caps[c] # vms[n].caps[c] => want[t].values[c] = vms'[n].caps[c]
<1>1. Init => CliInv /\ KeptInv
  BY InitInv
<1>2. CliInv /\ KeptInv /\ [Next]_vars => (CliInv /\ KeptInv)'
  BY NextInv
<1>3. CliInv /\ KeptInv /\ [Next]_vars => A
  <2> SUFFICES ASSUME CliInv, KeptInv, [Next]_vars, NEW n \in Names, vms'[n] # vms[n]
               PROVE  \E t \in Terminals :
                        /\ did'[t] # did[t]
                        /\ proc[t].root
                        /\ n \in {want[t].values["name"], want[t].values["archive"]}
                        /\ want[t].verb = "edit" =>
                             \A c \in Capacities :
                               vms'[n].caps[c] # vms[n].caps[c] => want[t].values[c] = vms'[n].caps[c]
    OBVIOUS
  <2>1. PICK t \in Terminals : Calls(t, n, vms'[n])
    BY OnlyCallsChange
  <2> DEFINE p == proc[t]
             d == [verb |-> p.verb, values |-> p.values]
  <2>2. p.verb = "edit" => \A c \in Capacities : vms'[n].caps[c] # vms[n].caps[c] => p.values[c] = vms'[n].caps[c]
    BY <2>1, EditEffects
  <2>3. ProcOK(p) /\ p.verb = want[t].verb /\ did[t] = Unset /\ Kept(p, want[t], asked[t])
    BY <2>1 DEF Calls, CliInv, KeptInv, TerminalOK, Truthful, Asked
  <2>4. did'[t] # did[t]
    <3>1. did'[t] = d
      BY <2>1 DEF Calls, Called, CliInv, StoresOK
    <3>2. \A f \in Fields : p.values[f] \in Texts
      BY <2>3 DEF ProcOK, ValuesOK, Filled, MayHold, Texts, Words
    <3>3. p.values \in [Fields -> Texts] /\ p.verb \in Verbs
      BY <2>3, <3>2 DEF ProcOK, ValuesOK, Filled
    <3>4. d \in [verb : Verbs, values : [Fields -> Texts]]
      BY <3>3
    <3> QED BY <2>3, <3>1, <3>4, UnsetAssumption
  <2>5. p.root
    BY <2>1, <2>3, LastStage DEF Calls, ProcOK, Privileged
  <2>6. \A f \in {"name", "archive"} : p.values[f] = want[t].values[f]
    BY <2>3, CapacitiesAre DEF Kept, Meaning, Differing
  <2>7. p.verb = "edit" => \A c \in Capacities : p.values[c] = want[t].values[c]
    BY <2>3, CapacitiesAre DEF Kept, Meaning, Differing
  <2>8. n \in {want[t].values["name"], want[t].values["archive"]}
    BY <2>1, <2>6 DEF Calls
  <2> QED BY <2>2, <2>3, <2>4, <2>5, <2>7, <2>8
<1> QED BY <1>1, <1>2, <1>3, PTL DEF Spec, ChangesOnlyWhatWasAsked

=============================================================================
