SPECIFICATION FairSpec
CONSTANTS
  NumSets = 2
  SpecIndex <- Reversed
  Replicas = 1
  OnDelete = FALSE
  MaxTemplate = 1
  ParallelValues = {1}
  Created = FALSE
  User = "careful"
  MaxEdits = 0
  MaxCallErrors = 0
PROPERTY AllSetsCreated
