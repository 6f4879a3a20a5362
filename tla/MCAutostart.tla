---------------------------- MODULE MCAutostart ----------------------------
(* Instances of Autostart: two homes whose paths differ in one separator.  *)
EXTENDS Autostart

\* /a-b and /a/b.
DashHome == <<47, 97, 45, 98>>
NestedHome == <<47, 97, 47, 98>>

TwoHomes == {DashHome, NestedHome}

TwoNames == <<"db", "web">>

BesideEachOther == [h \in TwoHomes |-> IF h = DashHome THEN {"db", "web"} ELSE {"db"}]

Ask(fields, enabled, max) == [fields |-> fields, enabled |-> enabled, max |-> max]

Both == {"enabled", "attempts"}

Enter(kind, home, name, request, root, interactive) ==
    [kind |-> kind, home |-> home, name |-> name, request |-> request,
     root |-> root, interactive |-> interactive]

(* As a user and as root, with and without a terminal, name and flags.     *)
TwoHomeInvocations ==
    {Enter("add", DashHome, "db", Ask(Both, TRUE, 2), FALSE, TRUE),
     Enter("add", DashHome, "web", Ask(Both, TRUE, 1), TRUE, FALSE),
     Enter("add", DashHome, NoName, Ask(Both, FALSE, 1), TRUE, TRUE),
     Enter("edit", DashHome, "db", Ask({}, TRUE, 1), TRUE, TRUE),
     Enter("edit", DashHome, "db", Ask({"enabled"}, FALSE, 0), TRUE, FALSE),
     Enter("edit", DashHome, "db", Ask({"attempts"}, FALSE, 0), TRUE, FALSE),
     Enter("rm", DashHome, "db", Ask({}, FALSE, 0), TRUE, FALSE),
     Enter("add", NestedHome, "db", Ask(Both, TRUE, 1), TRUE, FALSE),
     Enter("rm", NestedHome, NoName, Ask({}, FALSE, 0), FALSE, TRUE)}
=============================================================================
