SPECIFICATION FairSpec
CONSTANTS
  NumSets = 2
  SpecIndex <- InOrder
  Replicas = 1
  OnDelete = FALSE
  MaxTemplate = 2
  ParallelValues = {1}
  Created = FALSE
  User = "careful"
  MaxEdits = 3
  MaxCallErrors = 1
INVARIANTS TypeOK
PROPERTIES OneSetAtATime RemovedMeansProcessed UpdatesAtOnce AnnotationsRemoved AllSetsCreated
