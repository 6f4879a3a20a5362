----------------------------- MODULE MCRootDisk -----------------------------
(* Instances of RootDisk: sizes on and off a block boundary, images with   *)
(* and without what the SDK would write.                                   *)
EXTENDS RootDisk

Tree(known) == [p \in Paths |-> IF p \in DOMAIN known THEN known[p] ELSE Absent]
Dir == Node("directory", "default", << >>)
File(data) == Node("regular", "default", data)
Link == Node("symlink", "default", << >>)

Usual == [p \in {"root", "etc", "etc/ssh", "etc/systemd", "etc/systemd/network"} |-> Dir]

Bare == Tree(Usual)

Furnished == [Bare EXCEPT
    !["root/.ssh"] = Dir, !["authorized_keys"] = File(<<"old key">>),
    ![Private("rsa")] = File(<<"shipped">>), ![Public("rsa")] = File(<<"shipped">>),
    !["10-taumaru.network"] = File(<<"other">>), !["resolv.conf"] = Link]

Cloned == [Furnished EXCEPT !["authorized_keys"] = File(<<"old key", "new key">>),
                            !["resolv.conf"] = File(<<"other">>)]

LinkedHome == [Bare EXCEPT !["root"] = Link]
LinkedKeys == [Furnished EXCEPT !["authorized_keys"] = Link]
HalfPair == [Bare EXCEPT ![Public("rsa")] = File(<<"shipped">>)]

AllImages == {Bare, Furnished, Cloned, LinkedHome, LinkedKeys, HalfPair}

UnitEdits == {[path |-> "10-taumaru.network", node |-> Absent],
              [path |-> "resolv.conf", node |-> Link]}
=============================================================================
