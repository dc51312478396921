SPECIFICATION FairSpec
CONSTANTS
  NumSets = 1
  SpecIndex <- InOrder
  Replicas = 1
  OnDelete = TRUE
  MaxTemplate = 2
  ParallelValues = {1}
  Created = TRUE
  User = "orderly"
  MaxEdits = 4
  MaxCallErrors = 0
PROPERTY RolloutsEnd
CHECK_DEADLOCK FALSE
