CONSTANT Block = 2
CONSTANT Sizes = {4, 6, 7, 9}
CONSTANT ImageSize = 4
CONSTANT Images <- AllImages
CONSTANT KeyTypes = {"ed25519", "rsa"}
CONSTANT GuestEdits <- UnitEdits
CONSTANT MaxCalls = 5
CONSTANT FaultBudget = 2
SPECIFICATION Spec
INVARIANT NothingTruncated
INVARIANT UpdateIsAllOrNothing
INVARIANT CleanUpdateSucceeds
PROPERTY RecordedGuestIsPrepared
CHECK_DEADLOCK FALSE
