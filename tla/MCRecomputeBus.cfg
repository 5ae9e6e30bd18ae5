SPECIFICATION FairSpec
CONSTANTS
  Keys = {k1, k2, k3}
  Triggers = {"scheduled"}
  MaxConcurrent = 2
  NoTask = NoTask
INVARIANTS
  MutualExclusion
  NoLostRequest
PROPERTIES
  EveryRequestServed
  SettlesWhenQuiet
  ServiceKept
