CONSTANTS
    c1 = c1
    c2 = c2
    p1 = p1
    p2 = p2
    q1 = q1
    q2 = q2
    None = None
    Clients <- TwoClients
    Pids <- TwoPids
    Processes <- TwoProcesses
    ProcessOf <- Apart
    Sizes = {1, 2, 3}
    Ops = {"start", "stop", "update", "snapshot"}
    Faults = {"host", "launcher"}

SPECIFICATION Spec
SYMMETRY Symmetry
INVARIANT StoppedCopyHasNoWriter
INVARIANT RunningMachineIsRecorded
INVARIANT DivergedDiskIsUnmapped
