CONSTANTS
  c1 = c1  c2 = c2
  a1 = a1  a2 = a2  a3 = a3
  rc1 = rc1  rc2 = rc2  ra1 = ra1  ra2 = ra2  ra3 = ra3
  u1 = u1
  User = {u1}
  AP = {a1, a2, a3}
  CR = {c1, c2}
  RID = {rc1, rc2, ra1, ra2, ra3, norid}
  NoRID = norid
  NoAP = noap
  None = none
  APRID <- MCAPRID
  CRRID <- MCCRRID
  HomeCR <- MCHomeCR
  ApToCr <- MCApToCr
  ManagedCR = {c1, c2}
  Relay <- NoRelay
  LocalMapping <- NoLocalMapping
  MaxActivations = 2
  MaxMarks = 2
  MaxAlerts = 1
  MaxLost = 0
  Packet = {k1}
  TTL = 3
  NextHop <- MCNextHop
  RIDSpaces <- MCRIDSpaces
  AccessNeighbors <- MCAccessNeighbors
SPECIFICATION DataFairSpec
CHECK_DEADLOCK FALSE
INVARIANTS DataTypeOK PlacedUsersReachable 
PROPERTIES EveryPacketEnds
