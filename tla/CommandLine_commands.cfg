SPECIFICATION FairSpec
CONSTANTS
  Terminals = {"desk", "cron"}
  Names = {"web", "db"}
  RemoteCommands = {"uname"}
  Requests <- MCRequests
  Operators <- Everyone
  InitialMachines <- Homes
  Sizes = {3, 7}
  Minimum <- MCMinimum
  MaxCommands = 2
  Unset = Unset
  Absent = Absent
  Idle = Idle
INVARIANT ElevationKeepsTheRequest
INVARIANT ConfirmedBeforeChange
PROPERTY ChangesOnlyWhatWasAsked
PROPERTY CommandsReturn
CHECK_DEADLOCK FALSE
