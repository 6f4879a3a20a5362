CONSTANTS
    k1 = k1
    None = None
    Names = {"restored", "created"}
    Kernels = {k1}
    KernelOf <- SharedKernel
    Installed <- KernelOrNot
    ProvOps <- RestoreBesideCreate
    ProvFaults = {"io", "db", "cancel", "crash", "reboot"}
    ProvBudget = 3

SPECIFICATION FairSpec
INVARIANT LeftoversAreJournalled
PROPERTY OnlyDeletionDestroys
PROPERTY PublishesWholeMachines
PROPERTY FailedCallLeavesNothing
PROPERTY JournalsAreReconciled
