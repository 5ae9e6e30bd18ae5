SPECIFICATION Spec
CONSTANTS
  N = 3
  Shelters = {s1, s2, s3}
  MaxShelters = 2
  MaxPeople = 2
  MaxCapacity = 2
SYMMETRY ShelterSymmetry
CHECK_DEADLOCK FALSE
INVARIANTS
  CapacityRespected
  EveryoneAccounted
  
PROPERTY Allocates
