SPECIFICATION FairSpec
CONSTANTS
  a = a
  b = b
  Groups = {a}
  MaxInstances = 3
  MaxUid = 2
  InitialInstances = 2
  Strategies = {TRUE, FALSE}
  UseUID = FALSE
  PatientUser = TRUE
  MaxSpecChanges = 1
  MaxRollouts = 1
  MaxPodFailures = 1
  MaxCallErrors = 1
PROPERTIES Converges BootstrappingEnds ResizesAreAnnotated AnnotatedUntilResized
