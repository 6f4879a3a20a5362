CONSTANTS
    v1 = v1
    v2 = v2
    None = None
    Vms = {v1, v2}
    Modes <- BothModes
    Pool <- Blocks4
    OperatorNets <- Wide
    Uplink <- Lan8
    ScanWindow = 3
    Exact = {8}
    ExactLan = {33, 36}
    Operator <- SysctlsOff
    NetOps = {"create", "start", "delete"}
    FaultBudget = 2
    NetFaults = {"command", "db", "crash", "reboot", "overlap"}

SYMMETRY Either

SPECIFICATION Spec

INVARIANT NothingIsLeftBehind
INVARIANT ExclusiveAddresses
 
CHECK_DEADLOCK FALSE
