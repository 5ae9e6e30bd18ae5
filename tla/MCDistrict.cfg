SPECIFICATION DistrictSpec
CONSTANTS
  States = {"ut", "tn"}
  Home = "ut"
  Hazards = {"flood", "cyclone"}
  Primary <- MCPrimary
  Zones = {1, 2}
  Shelters = {1, 2, 3}
  Register <- MCRegister
  Base <- MCBase
  Ground <- MCGround
  Clocks <- MCClocks
  Blocking = {"flood"}
  People <- MCPeople
  Merit <- MCMerit
  Distance <- MCDistance
  RoadZone = 1
  MaxPlanned = 2
  MaxSplit = 2
  PerStaff = 3
  Forms <- MCForms
INVARIANTS
  PlanFits
  PlanServesQueue
