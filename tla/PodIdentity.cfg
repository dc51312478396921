SPECIFICATION FairSpec
CONSTANTS
  p1 = p1
  p2 = p2
  n1 = n1
  Names = {p1, p2}
  Nodes = {n1}
  InitialSources = {"uid", "node"}
  MaxUid = 2
  MaxTroubles = 1
INVARIANTS TypeOK NoEventLost
PROPERTIES PodsIdentified
