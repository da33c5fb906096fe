SPECIFICATION FairSpec
CONSTANTS
  Nets <- MCNets
  TTL = 3
  Sizes = {1, 65495, 65496}
  MaxRequests <- MCMaxRequests
  MaxLogins <- MCMaxLogins
  Overridden = {"host1", "host2"}
  None = None
INVARIANTS JourneyTypeOK OneCopy Intact RequestsArrive
PROPERTIES JourneyEnds
CHECK_DEADLOCK FALSE
