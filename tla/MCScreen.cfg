SPECIFICATION FairSpec
CONSTANTS
  e1 = e1
  Events = {e1}
  BuildPhotos = {}
  HeroSlides = 2
  ReducedMotion = FALSE
  MaxLoads = 1
INVARIANTS
  PhotosAttributed
PROPERTIES
  
  
  DrawerCatchesUp
