--------------------------- MODULE MCAgentConsumer ---------------------------
(***************************************************************************)
(* Instances of AgentConsumer for TLC.                                     *)
(***************************************************************************)
EXTENDS AgentConsumer, TLC

Symmetry == Permutations(Msgs)
=============================================================================
