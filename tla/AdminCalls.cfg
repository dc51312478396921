SPECIFICATION Spec
CONSTANTS
  w1 = w1
  w2 = w2
  c1 = c1
  c2 = c2
  z = z
  placements = placements
  Workers = {w1, w2}
  Clusters = {c1, c2}
  Kinds = {placements}
  Zones = {z}
  UseProxy = FALSE
  MaxEdits = 1
  MaxRetries = 1
SYMMETRY WorkerSymmetry
INVARIANTS TypeOK NoMapRace RightClient
PROPERTIES OwnDataOnly Implements
