SPECIFICATION Spec
CONSTANTS
  a = a
  b = b
  Groups = {a}
  MaxInstances = 3
  MaxUid = 1
  InitialInstances = 1
  Strategies = {FALSE}
  UseUID = TRUE
  PatientUser = FALSE
  MaxSpecChanges = 2
  MaxRollouts = 0
  MaxPodFailures = 0
  MaxCallErrors = 0
INVARIANT PlacedPodsKept
CHECK_DEADLOCK FALSE
