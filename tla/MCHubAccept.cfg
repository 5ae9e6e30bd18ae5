SPECIFICATION FairSpec
CONSTANTS
  Processes = {api, worker}
  Clients = {c1}
  Topics = {"risk"}
  PublicTopics = {"risk"}
  OutboxLimit = 2
  ClientHashable = FALSE
  MaxEvents = 1
  MaxOutages = 1
  Nowhere = Nowhere
PROPERTY AcceptedIsRegistered
