------------------------- MODULE MCProviderSignals -------------------------
(***************************************************************************)
(* An instance of ProviderSignals for TLC: two Jenkins jobs, and pods of   *)
(* one name in two namespaces.                                             *)
(***************************************************************************)
EXTENDS ProviderSignals

CONSTANTS r1

MCPod == {[name |-> "web", place |-> "blue"], [name |-> "web", place |-> "green"]}
=============================================================================
