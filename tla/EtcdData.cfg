SPECIFICATION FairSpec
CONSTANTS
  ns1 = ns1
  ns2 = ns2
  Namespaces = {ns1, ns2}
  ReadyEndpoint = TRUE
  MaxEdits = 2
  MaxCallErrors = 2
INVARIANTS TypeOK DataProtected
PROPERTIES PlacementRemovedOnRequest NamespacesRemovedOnRequest NamespacesReconciled DeletionEnds
CHECK_DEADLOCK FALSE
