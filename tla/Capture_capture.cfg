SPECIFICATION Spec
CONSTANTS
    Policies <- AnyPolicy
    CaptureFaults <- AnyFault
    CaptureBudget = 2
    MaxWrites = 3
    Foreign = Foreign
    None = None
INVARIANT NothingDangles
INVARIANT ArchiveIsOneMoment
PROPERTY ReturnsThawed
PROPERTY CleanReturn
PROPERTY PublishesSafely
