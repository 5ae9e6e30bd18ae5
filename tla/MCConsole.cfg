SPECIFICATION FairSpec
CONSTANTS
  dm = dm
  so = so
  s1 = s1
  s2 = s2
  Users = {dm, so}
  Shelters = {s1, s2}
  NoUser = NoUser
  NoShelter = NoShelter
  MayWrite = {dm}
  Scope <- MCScope
  IdleMax = 1
  AbsoluteMax = 2
  StepUpMax = 1
  MaxAttempts = 2
  LockBase = 1
  LockCap = 1
  MaxFailures = 2
  MaxChecks = 2
INVARIANTS
  CommandIffSession
PROPERTIES
  WritesConfirmed
  ForeignFormOnlyDeferred
  ExpiredSessionEnds
