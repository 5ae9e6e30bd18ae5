SPECIFICATION FairSurfaceSpec
CONSTANTS
  Sources = {"weather", "quake"}
  Carriers = {"weather", "quake"}
  Local = {"weather"}
  Jobs = {1, 2}
  Cadence <- MCCadence
  StaleAfter <- MCStaleAfter
  MaxReadings <- MCReadings
PROPERTIES
  MeasurementHolds
  ModelTakesBack
  
