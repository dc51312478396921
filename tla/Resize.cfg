SPECIFICATION Spec
CONSTANTS
  a = a
  b = b
  Groups = {a, b}
  MaxInstances = 2
  MaxUid = 2
  InitialInstances = 1
  Strategies = {FALSE}
  UseUID = TRUE
  PatientUser = TRUE
  MaxSpecChanges = 2
  MaxRollouts = 1
  MaxPodFailures = 1
  MaxCallErrors = 1
SYMMETRY GroupSymmetry
INVARIANTS TypeOK PlacedPodsKept GroupsKeepAnInstance SeenIsCurrent
PROPERTIES OneChangeAtATime NeverBelowPlacement ResizesSafely
