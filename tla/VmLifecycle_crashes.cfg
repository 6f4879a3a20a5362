CONSTANTS
    c1 = c1
    c2 = c2
    p1 = p1
    p2 = p2
    q1 = q1
    q2 = q2
    None = None
    Clients <- TwoClients
    Pids <- TwoPids
    Processes <- TwoProcesses
    ProcessOf <- Apart
    Sizes = {1, 2}
    Ops = {"start", "stop", "update", "snapshot"}
    Faults = {"crash", "reboot"}

SPECIFICATION Spec
SYMMETRY Symmetry

INVARIANT SingleWriter
INVARIANT MapperMatchesDisk
PROPERTY ImplementsLease
