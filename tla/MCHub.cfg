SPECIFICATION FairSpec
CONSTANTS
  Processes = {api, worker}
  Clients = {c1}
  Topics = {"risk"}
  PublicTopics = {"risk"}
  OutboxLimit = 1
  ClientHashable = TRUE
  MaxEvents = 3
  MaxOutages = 1
  Nowhere = Nowhere
INVARIANTS
  InOrderOnce
  
PROPERTIES
  OutboxDrains
  
  
