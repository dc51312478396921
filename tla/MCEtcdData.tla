----------------------------- MODULE MCEtcdData -----------------------------
(***************************************************************************)
(* An instance of EtcdData for TLC, with two namespaces.                   *)
(***************************************************************************)
EXTENDS EtcdData

CONSTANTS ns1, ns2

=============================================================================
