SPECIFICATION Spec
CONSTANTS
  r1 = r1
  r2 = r2
  Request <- MCRequest
  CmdName <- MCCmdName
  Spelling <- MCSpelling
  Path <- MCPath
  Base <- MCBase
  Text <- MCText
  Content <- MCContent
  malformed = malformed
  Malformed = malformed
  Askpass <- MCAskpass
  Machines <- MCMachines
INVARIANTS
  UpdateTypeOK
  OthersKept
  AskpassGone
  PanicNeedsLast
  PulledIsLoaded
  RunsLoaded
  LogsKept
  HashTellsApart
CHECK_DEADLOCK FALSE
