SPECIFICATION FairBulletinsSpec
CONSTANTS
  States = {1, 2}
  Home = 1
  Recency <- MCRecency
  Window <- MCWindow
  IssuedWindow = 3
  FeedMax = 2
  Seeded <- MCSeeded
  FirstId = 3
  EventIds = {5}
  MaxIssued = 1
  MaxReports = 3
  MaxGap = 1
INVARIANTS
  IssuedAgeTrue
PROPERTIES
  WarnedStateListed
  CitizenIdFresh
