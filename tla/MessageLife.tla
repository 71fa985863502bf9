----------------------------- MODULE MessageLife -----------------------------
(***************************************************************************)
(* What the bus and the consume loop promise of one message, with no       *)
(* stream, group, batch or dead-letter queue in sight: a message is in one *)
(* place at a time, a handled message is finished for good, and a message  *)
(* that left the waiting line because the agent was interrupted does not   *)
(* come back.  AgentConsumer implements it (Life, in that module) when one *)
(* replay runs at a time and no message is handed on twice.                *)
(***************************************************************************)
CONSTANT Msgs

VARIABLE place

Places == {"unsent", "waiting", "working", "handled", "dead", "stranded", "missed"}

TypeOK == place \in [Msgs -> Places]

Init == place = [m \in Msgs |-> "unsent"]

Move(m, from, to) ==
  /\ place[m] = from
  /\ place' = [place EXCEPT ![m] = to]

Send(m)   == Move(m, "unsent", "waiting")
Begin(m)  == Move(m, "waiting", "working")
Finish(m) == Move(m, "working", "handled")
Again(m)  == Move(m, "working", "waiting")
Bury(m)   == Move(m, "working", "dead")
Revive(m) == Move(m, "dead", "waiting")

MoveAll(S, from, to) ==
  /\ \A m \in S : place[m] \in from
  /\ place' = [m \in Msgs |-> IF m \in S THEN to ELSE place[m]]

\* The consumer dies or is halted: the whole batch goes with it.
Strand(S) == MoveAll(S, {"waiting", "working"}, "stranded")

\* The group is created behind the messages sent so far.
Miss(S) == MoveAll(S, {"waiting"}, "missed")

Next ==
  \/ \E m \in Msgs : Send(m) \/ Begin(m) \/ Finish(m) \/ Again(m) \/ Bury(m) \/ Revive(m)
  \/ \E S \in SUBSET Msgs : Strand(S) \/ Miss(S)

Spec == Init /\ [][Next]_place
=============================================================================
