------------------------------- MODULE MCShared -------------------------------
(***************************************************************************)
(* What the agents share through Redis: the halt, by HaltControl with two  *)
(* agents, and the models and the budget, by LlmGateway with two calls of  *)
(* one LLMClient, as the two loops of the position monitor make them.      *)
(* The two share no state, so that a behaviour is one of them, chosen at   *)
(* the start; the other stays at a first state.                            *)
(***************************************************************************)
EXTENDS HaltControl, LlmGateway

CONSTANTS orchestrator, executor, monitor, k1, k2, paid, g1, f1, l1, r1, none

VARIABLE which
allVars == <<haltVars, vars, which>>

MCFallbacks == <<g1, f1>>
OneClient(c) == monitor

MCInit ==
  /\ HaltInit /\ Init
  /\ which \in {"halt", "llm"}
  /\ which # "llm" => mode = "auto"

MCNext ==
  \/ which = "halt" /\ HaltNext /\ UNCHANGED <<vars, which>>
  \/ which = "llm" /\ Next /\ UNCHANGED <<haltVars, which>>

MCSpec == MCInit /\ [][MCNext]_allVars
=============================================================================
