CONSTANTS
    k1 = k1
    None = None
    Names = {"vm"}
    Kernels = {k1}
    KernelOf <- SharedKernel
    Installed <- KernelOrNot
    ProvOps <- BothOnOneName
    ProvFaults = {"reboot"}
    ProvBudget = 1

SPECIFICATION Spec

PROPERTY OnlyDeletionDestroys
