SPECIFICATION FairSpec
CONSTANTS
  NumSets = 1
  SpecIndex <- InOrder
  Replicas = 2
  OnDelete = TRUE
  MaxTemplate = 2
  ParallelValues = {0,1}
  Created = TRUE
  User = "orderly"
  MaxEdits = 3
  MaxCallErrors = 0
PROPERTIES OnlyWhenAnnotated NoAnnotationLost RolloutsEnd
