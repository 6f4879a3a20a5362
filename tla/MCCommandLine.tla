--------------------------- MODULE MCCommandLine ---------------------------
(* A home with two machines, an operator at a desk who may type anything,  *)
(* and a script at another terminal that changes a machine meanwhile.      *)
EXTENDS CommandLine

Typed(verb, quiet, given) ==
  [verb |-> verb, quiet |-> quiet,
   values |-> [f \in Fields |-> IF f \in DOMAIN given THEN given[f] ELSE Unset]]

Bare == [image |-> Unset]
On == [name |-> "web"]
Whole(disk) == [name |-> "web", image |-> "image", disk |-> disk, vcpus |-> 2]

\* every verb, with and without its values, with and without --non-interactive
DeskCommands ==
  UNION {
    {Typed(v, q, g) : v \in {"start", "stop", "delete", "ssh"}, q \in BOOLEAN, g \in {Bare, On}},
    {Typed("ssh", q, g) : q \in BOOLEAN, g \in {[name |-> "web", remote |-> "uname"], [remote |-> "uname"]}},
    {Typed(v, q, Bare) : v \in {"prune", "ls", "restore"}, q \in BOOLEAN},
    {Typed("restore", q, [archive |-> "web"]) : q \in BOOLEAN},
    {Typed("snapshot", FALSE, g) : g \in {Bare, On, [policy |-> "preserve"]}},
    {Typed("edit", q, g) : q \in BOOLEAN, g \in {Bare, On, [disk |-> 7], [name |-> "web", disk |-> 7]}},
    {Typed("new", q, g) : q \in BOOLEAN, g \in {Bare, Whole(7), Whole(8)}}}

ScriptCommands ==
  {Typed(v, TRUE, On) : v \in {"start", "stop", "delete"}}
    \cup {Typed("edit", TRUE, [name |-> "web", disk |-> 8, vcpus |-> 6]), Typed("new", TRUE, Whole(8))}

MCRequests == [t \in Terminals |-> IF t = "desk" THEN DeskCommands ELSE ScriptCommands]

MCMinimum == [disk |-> 4, vcpus |-> 2]
Machine(state, disk) == [state |-> state, caps |-> [disk |-> disk, vcpus |-> 4]]
\* the disk of the last one is smaller than what its filesystem is thought to need
Homes ==
  {[web |-> Machine("stopped", 6), db |-> Machine("running", 6)],
   [web |-> Machine("running", 6), db |-> Machine("stopped", 3)],
   [web |-> Absent, db |-> Absent]}

Everyone == [root : BOOLEAN, tty : BOOLEAN]
=============================================================================
