------------------------------ MODULE MCCapture ------------------------------
EXTENDS Capture

(* Both policies, and every fault at any command.                          *)
AnyPolicy == {"preserve", "regenerate"}
AnyFault == {"io", "cancel", "crash", "reboot"}

==============================================================================
