-------------------------- MODULE MCGraphRetention --------------------------
(* GraphRetention with an event of two edges, one of them possibly from      *)
(* before the index; an event that has been deleted before, with or without  *)
(* an edge left over; and one of the historian, of long ago and without      *)
(* edges.                                                                    *)
EXTENDS GraphRetention

CONSTANTS e1, o1, h1, k1, k2, k3

MCSrc == [k \in Edges |-> IF k = k3 THEN o1 ELSE e1]

\* The entity of k1 is an alias of that of k2.
MCCanonical == [k \in Edges |-> IF k = k1 THEN k2 ELSE k]

MCInit == GraphInit /\ o1 \notin nodes

MCNext ==
  /\ GraphNext
  /\ dated'[o1] = dated[o1] /\ dated'[h1] \in {"unseen", "ancient"}

\* GraphFairSpec's fairness.
MCSpec == MCInit /\ [][MCNext]_graphVars /\ WF_graphVars(JanitorStep)
=============================================================================
