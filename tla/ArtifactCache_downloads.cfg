CONSTANTS
    c1 = c1
    c2 = c2
    q1 = q1
    image = image
    firecracker = firecracker
    firectl = firectl
    None = None
    Clients <- TwoClients
    Members <- AllMembers
    KindOf <- Kinds
    Requests <- Packages
    PruneOrder <- PrunableOrder
    Needs <- ImageAndBinaries
    Processes = {q1}
    ProcessOf <- OneProcess
    Releases <- TwoReleases
    Vms = {"vm"}
    Ops <- DownloadBesideAll
    Faults = {"cancel", "net", "db", "fs", "crash", "republish"}
    Damages = {None}

SPECIFICATION FairSpec
INVARIANT PublishedIsVerified
INVARIANT RecordedIsIntactOrAbsent
PROPERTY ReportedIsVerified
PROPERTY CancelEndsDownloads
