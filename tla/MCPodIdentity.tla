--------------------------- MODULE MCPodIdentity ---------------------------
(***************************************************************************)
(* An instance of PodIdentity for TLC, with two pods and a node.           *)
(***************************************************************************)
EXTENDS PodIdentity

CONSTANTS p1, p2, n1

=============================================================================
