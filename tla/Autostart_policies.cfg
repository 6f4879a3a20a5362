CONSTANT Clients = {c1, c2}
CONSTANT Homes <- TwoHomes
CONSTANT RootHome <- NestedHome
CONSTANT NameOrder <- TwoNames
CONSTANT Created <- BesideEachOther
CONSTANT Invocations <- TwoHomeInvocations
CONSTANT MaxAutostartAttempts = 2
CONSTANT MaxCommands = 2
CONSTANT MaxBoots = 1
CONSTANT MaxMachineIds = 3
CONSTANT MaxChanges = 2
CONSTANT FaultBudget = 1
SPECIFICATION FairSpec
INVARIANT PolicyFollowsMachine
INVARIANT SyncedOnSuccess
PROPERTY BootReachesEveryMachine
CHECK_DEADLOCK FALSE
