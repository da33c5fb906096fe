CONSTANTS
  p1 = p1  r1 = r1  r2 = r2  t1 = t1  t2 = t2
  Peer = {p1}
  Target = {r1, r2}
  Runner = {t1, t2}
  Plans <- MCPlans
  TargetTest <- MCTargetTest
  Packets = 2
  Enough = 2
  Processes = {"node", "deploy", "tap"}
  MaxStarts = 2
  MaxFrames = 2
SYMMETRY RunnerSymmetry
SPECIFICATION DeviceSpec
CHECK_DEADLOCK FALSE
INVARIANTS TypeOK SendsCounted TalliesAgree
PROPERTIES CountersOnlyGrow
