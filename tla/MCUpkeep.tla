------------------------------ MODULE MCUpkeep ------------------------------
(***************************************************************************)
(* ConfigTuning and Sysop share no state, so that their interleavings add  *)
(* nothing: a behaviour is one of either, chosen at the start, and what    *)
(* the other one is about stays as it was.                                 *)
(***************************************************************************)
EXTENDS ConfigTuning, Sysop

VARIABLE which
allVars == <<vars, sysopVars, which>>

MCInit ==
  /\ ConfigInit /\ SysopInit
  /\ which \in {"config", "sysop"}
  /\ IF which = "config" THEN mode = "free" ELSE live = None

ConfigMoves == which = "config" /\ ConfigNext /\ UNCHANGED <<sysopVars, which>>
SysopMoves == which = "sysop" /\ SysopNext /\ UNCHANGED <<vars, which>>
MCNext == ConfigMoves \/ SysopMoves

\* Requests end, the risk manager runs, and SysopFair, over the whole state.
MCFair ==
  /\ \A f \in Forms : WF_allVars(which = "config" /\ RequestStep(f) /\ UNCHANGED <<sysopVars, which>>)
  /\ WF_allVars(which = "config" /\ RiskManagerStep /\ UNCHANGED <<sysopVars, which>>)
  /\ WF_allVars(which = "sysop" /\ LoopStep /\ UNCHANGED <<vars, which>>)
  /\ \A c \in Clicks : WF_allVars(which = "sysop" /\ FixStep(c) /\ UNCHANGED <<vars, which>>)
  /\ \A p \in Prints : WF_allVars(which = "sysop" /\ HourPasses(p) /\ UNCHANGED <<vars, which>>)

MCSpec == MCInit /\ [][MCNext]_allVars /\ MCFair

=============================================================================
