SPECIFICATION FairSpec
CONSTANTS
  Hazards = {flood, landslide}
  Granted = {"risk"}
  MaxComputes = 1
  MaxReports = 1
  Ceiling = 7
INVARIANTS
  StateHonest
PROPERTIES
  Reconnects
  LossRefetched
