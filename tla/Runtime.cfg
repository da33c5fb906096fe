CONSTANTS
  r = r  a = a
  rAcc = rAcc  rTwice = rTwice  rCore = rCore  aIf = aIf  aCore = aCore
  mgmt = mgmt  sw = sw  core = core
  Node = {r, a}
  Iface = {rAcc, rTwice, rCore, aIf, aCore}
  NodeOf <- MCNodeOf
  App = {a}
  Switch = {mgmt, sw}
  Link = {core}
  Wiring <- MCWiring
  Groups <- MCGroups
  Lossy = {core}
  Slow = {core}
  Uses <- MCUses
  Capacity = 1
  Sends <- MCSends
  flood = flood
  Dst = {aIf, rAcc, rTwice, flood}
  NoFrame = NoFrame
  Drivers = {"run", "awaited", "script"}
  MaxSignals = 1
SPECIFICATION FairSpec
CHECK_DEADLOCK FALSE
INVARIANTS TypeOK Isolated Ordered NoFrameLost StoppedIsQuiet CleanWithoutSignal
PROPERTIES ShutdownEnds SendsEnd
