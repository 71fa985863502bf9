------------------------------ MODULE MCLearning ------------------------------
(***************************************************************************)
(* Hindsight with three proposals, of which the second is not traded, and  *)
(* SeedJob.  They share no state, so that a behaviour is one of either,    *)
(* chosen at the start; the other one stays at its first state.            *)
(***************************************************************************)
EXTENDS Hindsight, SeedJob

VARIABLE which
allVars == <<vars, seedVars, which>>

MCTraded == {1, 3}

MCInit == Init /\ SeedInit /\ which \in {"hindsight", "seed"}

MCNext ==
  \/ which = "hindsight" /\ Next /\ UNCHANGED <<seedVars, which>>
  \/ which = "seed" /\ SeedNext /\ UNCHANGED <<vars, which>>

\* FairSpec's fairness, over the whole state.
MCSpec ==
  /\ MCInit /\ [][MCNext]_allVars
  /\ WF_allVars(which = "hindsight" /\ CycleStep /\ UNCHANGED <<seedVars, which>>)
=============================================================================
