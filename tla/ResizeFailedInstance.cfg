SPECIFICATION FairSpec
CONSTANTS
  a = a
  b = b
  Groups = {a}
  MaxInstances = 2
  MaxUid = 2
  InitialInstances = 1
  Strategies = {FALSE}
  UseUID = TRUE
  PatientUser = TRUE
  MaxSpecChanges = 0
  MaxRollouts = 0
  MaxPodFailures = 1
  MaxCallErrors = 0
PROPERTY FailedInstancesReplaced
CHECK_DEADLOCK FALSE
