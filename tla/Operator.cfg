SPECIFICATION FairSpec
CONSTANTS
  w1 = w1
  w2 = w2
  c1 = c1
  Workers = {w1, w2}
  Clusters = {c1}
  Kinds = {"plain", "own", "bad"}
  Groups = 1
  MaxVersion = 2
  MaxTroubles = 1
INVARIANTS TypeOK OneWorkerPerKey NeverBlind ObjectsBeforeSets
PROPERTIES ConfigNeverRollsBack ClustersSettle
CHECK_DEADLOCK FALSE
