------------------------------ MODULE DiskLease ------------------------------
(***************************************************************************)
(* What the runtime disk of a MicroVM promises, whoever asks for it: the   *)
(* root disk is reached only through an attachment, the attachment cannot  *)
(* be pulled from under an open descriptor, and the disk keeps its length  *)
(* as long as it is attached.  Removing the file is allowed at any time:   *)
(* open descriptors keep what they opened.                                 *)
(***************************************************************************)
CONSTANTS
    Users,   \* processes that can open the disk
    Lengths, \* lengths of the disk
    Absent   \* no disk

VARIABLES
    length,    \* length of the root disk, or Absent
    attached,  \* is it mapped for use
    users      \* processes that have it open

leaseVars == <<length, attached, users>>

LeaseInit == length \in Lengths /\ attached = FALSE /\ users = {}

Attach == length # Absent /\ ~attached /\ attached' = TRUE /\ UNCHANGED <<length, users>>

Detach == attached /\ users = {} /\ attached' = FALSE /\ UNCHANGED <<length, users>>

Open(p) == attached /\ users' = users \cup {p} /\ UNCHANGED <<length, attached>>

Close(p) == p \in users /\ users' = users \ {p} /\ UNCHANGED <<length, attached>>

Resize == /\ length # Absent /\ ~attached /\ users = {}
          /\ length' \in Lengths
          /\ UNCHANGED <<attached, users>>

Remove == length' = Absent /\ UNCHANGED <<attached, users>>

PowerLoss == attached' = FALSE /\ users' = {} /\ UNCHANGED length

LeaseNext ==
    \/ Attach \/ Detach \/ Resize \/ Remove \/ PowerLoss
    \/ \E p \in Users : Open(p) \/ Close(p)

LeaseSpec == LeaseInit /\ [][LeaseNext]_leaseVars
=============================================================================
