CONSTANTS
    c1 = c1
    c2 = c2
    p1 = p1
    p2 = p2
    q1 = q1
    q2 = q2
    None = None
    Clients <- TwoClients
    Pids <- TwoPids
    Processes <- TwoProcesses
    ProcessOf <- Together
    Sizes = {1, 2}
    Ops = {"start", "stop", "update", "delete", "configure_network"}
    Faults = {}

SPECIFICATION FairSpec

INVARIANT RunningMachineIsRecorded
PROPERTY DeleteRefusesRunning
PROPERTY LifecycleReleased
