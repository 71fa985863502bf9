--------------------------- MODULE GraphRetention ---------------------------
(***************************************************************************)
(* The knowledge graph in Redis (core/graph.py) under its writers and the  *)
(* janitor (agents/janitor.py).  An event is a node; an edge is a document *)
(* of its own and, since the index was introduced, a member of its         *)
(* source's edgeidx set.  Readers walk the whole keyspace until the        *)
(* janitor has set graph:edgeidx_ready, and trust the sets from then on.   *)
(* The janitor deletes aged events with their edges, edges whose event is  *)
(* gone, and adds the edges it finds to the sets.  The dashboard's dedup   *)
(* pass (dashboard/routes/graph.py) merges the entities that are aliases,  *)
(* and moves their edges to the canonical entity's.                        *)
(***************************************************************************)
EXTENDS Naturals, FiniteSets

CONSTANTS
  Events,
  Edges,
  Src,        \* the event an edge starts from
  Canonical,  \* the edge each one becomes when the entity it leads to is merged
  Legacy,     \* edges there may be from before the index
  SweepCap,   \* graph_event_delete_cap_per_run
  ScanCap,    \* graph_edge_scan_cap_per_run
  MaxGraphFaults   \* bound of the model: failed calls and restarts

ASSUME GraphAssumption ==
  /\ Src \in [Edges -> Events] /\ Canonical \in [Edges -> Edges]
  /\ \A k \in Edges : Src[Canonical[k]] = Src[k]
  /\ Legacy \subseteq Edges
  /\ IsFiniteSet(Edges) /\ {SweepCap, ScanCap} \subseteq Nat \ {0} /\ MaxGraphFaults \in Nat

VARIABLES
  nodes,    \* the events in the graph
  dated,    \* how long ago each event happened, by its timestamp
  impact,   \* the events with a measured price impact
  edges,    \* edge:* documents
  index,    \* the edges in the edgeidx set of their source
  ready,    \* graph:edgeidx_ready
  todo,     \* the edges an ingestion still has to write
  adding,   \* edges written whose SADD is next
  janitor,
  dedup,    \* whether graph:dedup:status says running, and the task's progress
  graphFaults,
  skipped   \* ghost: edges written whose SADD failed, or was not tried

graphVars == <<nodes, dated, impact, edges, index, ready, todo, adding, janitor, dedup,
               graphFaults, skipped>>

\* Younger than graph_event_retention_days, than the longer retention of measured
\* events, or than neither.
Dates == {"recent", "aged", "ancient"}
Rest == [pc |-> "rest"]
EdgesOf(e) == {k \in Edges : Src[k] = e}

GraphTypeOK ==
  /\ nodes \subseteq Events /\ impact \subseteq nodes
  /\ dated \in [Events -> Dates \cup {"unseen"}]
  /\ {edges, index, todo, adding, skipped} \subseteq SUBSET Edges
  /\ ready \in BOOLEAN /\ graphFaults \in 0 .. MaxGraphFaults
  /\ janitor.pc \in {"rest", "events", "impact", "members", "edges", "node", "pass", "write"}
  /\ dedup \in [says : BOOLEAN, pc : {"none", "scan", "set", "delete"}, edges : SUBSET Edges]

\* Old versions left edges without an index entry, some of them without an event.
GraphInit ==
  /\ edges \in SUBSET Legacy
  /\ nodes \in SUBSET {Src[k] : k \in edges}
  /\ dated = [e \in Events |-> IF e \in {Src[k] : k \in edges} THEN "recent" ELSE "unseen"]
  /\ impact = {} /\ index = {} /\ ready = FALSE
  /\ todo = {} /\ adding = {} /\ janitor = Rest
  /\ dedup = [says |-> FALSE, pc |-> "none", edges |-> {}]
  /\ graphFaults = 0 /\ skipped = {}

GraphFault == graphFaults < MaxGraphFaults /\ graphFaults' = graphFaults + 1

-----------------------------------------------------------------------------
(***************************************************************************)
(* Writers.                                                                *)
(***************************************************************************)
\* The ingestion writes the event first, then its edges one after the other.
Ingest(e) ==
  /\ dated[e] = "unseen" /\ todo = {} /\ adding = {}
  /\ nodes' = nodes \cup {e} /\ dated' = [dated EXCEPT ![e] = "recent"]
  /\ todo' = EdgesOf(e)
  /\ UNCHANGED <<impact, edges, index, ready, adding, janitor, graphFaults, skipped, dedup>>

SetEdge(k) ==
  /\ k \in todo /\ adding = {}
  /\ edges' = edges \cup {k}
  /\ todo' = todo \ {k} /\ adding' = {k}
  /\ UNCHANGED <<nodes, dated, impact, index, ready, janitor, graphFaults, skipped, dedup>>

AddToIndex(k) ==
  /\ k \in adding
  /\ index' = index \cup {k}
  /\ adding' = {} /\ skipped' = skipped \ {k}
  /\ UNCHANGED <<nodes, dated, impact, edges, ready, todo, janitor, graphFaults, dedup>>

\* Redis fails or the agent stops: the signal comes again as another event.
IngestFails ==
  /\ todo # {} \/ adding # {}
  /\ GraphFault
  /\ todo' = {} /\ adding' = {} /\ skipped' = skipped \cup adding
  /\ UNCHANGED <<nodes, dated, impact, edges, index, ready, janitor, dedup>>

\* The historian's events carry the date of what happened, not of their writing.
Seed(e, d) ==
  /\ dated[e] = "unseen" /\ EdgesOf(e) = {}
  /\ nodes' = nodes \cup {e} /\ dated' = [dated EXCEPT ![e] = d]
  /\ UNCHANGED <<impact, edges, index, ready, todo, adding, janitor, graphFaults, skipped, dedup>>

\* The oracle's figures need the node.
Measure(e) ==
  /\ e \in nodes \ impact
  /\ impact' = impact \cup {e}
  /\ UNCHANGED <<nodes, dated, edges, index, ready, todo, adding, janitor, graphFaults,
                 skipped, dedup>>

\* What a reader finds: a set's members, or the keys of the whole keyspace.
Neighbors(e) == {k \in edges : Src[k] = e /\ (ready => k \in index)}

\* No ingestion lasts for months.
GrowOlder(e) ==
  /\ dated[e] \in {"recent", "aged"}
  /\ (todo \cup adding) \cap EdgesOf(e) = {}
  /\ dated' = [dated EXCEPT ![e] = IF @ = "recent" THEN "aged" ELSE "ancient"]
  /\ UNCHANGED <<nodes, impact, edges, index, ready, todo, adding, janitor, graphFaults,
                 skipped, dedup>>

-----------------------------------------------------------------------------
(***************************************************************************)
(* The janitor's sweep of events: for each aged one it reads the impact,   *)
(* then the index set, deletes those edges, then the set and the node.     *)
(***************************************************************************)
JanitorGoes(pc) == janitor' = [janitor EXCEPT !.pc = pc]

StartSweep ==
  /\ janitor.pc = "rest"
  /\ janitor' = [pc |-> "events", kept |-> {}, deleted |-> 0]
  /\ UNCHANGED <<nodes, dated, impact, edges, index, ready, todo, adding, graphFaults, skipped,
                 dedup>>

SweepEvent(e) ==
  /\ janitor.pc = "events" /\ janitor.deleted < SweepCap
  /\ e \in nodes \ janitor.kept /\ dated[e] \in {"aged", "ancient"}
  /\ janitor' = [pc |-> "impact", kept |-> janitor.kept, deleted |-> janitor.deleted,
                 event |-> e, had |-> {}]
  /\ UNCHANGED <<nodes, dated, impact, edges, index, ready, todo, adding, graphFaults, skipped,
                 dedup>>

KeepsFor == {"recent", "aged"}

ReadImpact ==
  /\ janitor.pc = "impact"
  /\ IF janitor.event \in impact /\ dated[janitor.event] \in KeepsFor
     THEN janitor' = [pc |-> "events", deleted |-> janitor.deleted,
                      kept |-> janitor.kept \cup {janitor.event}]
     ELSE JanitorGoes("members")
  /\ UNCHANGED <<nodes, dated, impact, edges, index, ready, todo, adding, graphFaults, skipped,
                 dedup>>

ReadMembers ==
  /\ janitor.pc = "members"
  /\ janitor' = [janitor EXCEPT !.pc = "edges", !.had = index \cap EdgesOf(janitor.event)]
  /\ UNCHANGED <<nodes, dated, impact, edges, index, ready, todo, adding, graphFaults, skipped,
                 dedup>>

DeleteEdges ==
  /\ janitor.pc = "edges"
  /\ edges' = edges \ janitor.had
  /\ JanitorGoes("node")
  /\ UNCHANGED <<nodes, dated, impact, index, ready, todo, adding, graphFaults, skipped, dedup>>

DeleteNode ==
  /\ janitor.pc = "node"
  /\ nodes' = nodes \ {janitor.event} /\ impact' = impact \ {janitor.event}
  /\ index' = index \ EdgesOf(janitor.event)
  /\ janitor' = [pc |-> "events", kept |-> janitor.kept, deleted |-> janitor.deleted + 1]
  /\ UNCHANGED <<dated, edges, ready, todo, adding, graphFaults, skipped, dedup>>

\* An error while reading or deleting: the event is left for another run.
SweepFails ==
  /\ janitor.pc \in {"impact", "members", "edges", "node"}
  /\ GraphFault
  /\ janitor' = [pc |-> "events", deleted |-> janitor.deleted,
                 kept |-> janitor.kept \cup {janitor.event}]
  /\ UNCHANGED <<nodes, dated, impact, edges, index, ready, todo, adding, skipped, dedup>>

\* Every pass scans from the start and stops at the cap; which edges come first is up to
\* the key table.  SCAN returns what was there all along; edges written meanwhile may be
\* missed.  A search that fails ends the sweep of events as well.
Swept == \A e \in nodes \ janitor.kept : dated[e] = "recent"

StartPass ==
  /\ janitor.pc = "events"
  /\ \/ (Swept \/ janitor.deleted >= SweepCap) /\ UNCHANGED graphFaults
     \/ GraphFault
  /\ \E keys \in SUBSET edges :
       /\ Cardinality(keys) = ScanCap \/ (keys = edges /\ Cardinality(edges) < ScanCap)
       /\ janitor' = [pc |-> "pass", keys |-> keys, complete |-> Cardinality(keys) < ScanCap]
  /\ UNCHANGED <<nodes, dated, impact, edges, index, ready, todo, adding, skipped, dedup>>

-----------------------------------------------------------------------------
(***************************************************************************)
(* The pass over the edges, in pipelined batches: each batch is an edge    *)
(* here.                                                                   *)
(***************************************************************************)
InPass(k, pc) == janitor.pc = pc /\ k \in janitor.keys
Passed(k, complete) ==
  janitor' = [pc |-> "pass", keys |-> janitor.keys \ {k}, complete |-> complete]

\* Broken variant of CheckOrphan: orphans are looked for until the index is ready.
CheckOrphanOnce(k) ==
  /\ InPass(k, "pass")
  /\ janitor' = [pc |-> "write", edge |-> k, orphan |-> Src[k] \notin nodes /\ ~ ready,
                 keys |-> janitor.keys, complete |-> janitor.complete]
  /\ UNCHANGED <<nodes, dated, impact, edges, index, ready, todo, adding, graphFaults, skipped,
                 dedup>>

CheckOrphan(k) ==
  /\ InPass(k, "pass")
  /\ janitor' = [pc |-> "write", edge |-> k, orphan |-> Src[k] \notin nodes,
                 keys |-> janitor.keys, complete |-> janitor.complete]
  /\ UNCHANGED <<nodes, dated, impact, edges, index, ready, todo, adding, graphFaults, skipped,
                 dedup>>

WriteBatch ==
  /\ janitor.pc = "write"
  /\ IF janitor.orphan
     THEN /\ edges' = edges \ {janitor.edge}
          /\ index' = index \ {janitor.edge}
          /\ UNCHANGED skipped
     ELSE /\ index' = index \cup {janitor.edge}
          /\ skipped' = skipped \ {janitor.edge}
          /\ UNCHANGED edges
  /\ Passed(janitor.edge, janitor.complete)
  /\ UNCHANGED <<nodes, dated, impact, ready, todo, adding, graphFaults, dedup>>

\* Broken variant of BatchFails: the pass still counts as complete.
BatchStillComplete ==
  /\ janitor.pc = "write"
  /\ GraphFault
  /\ Passed(janitor.edge, janitor.complete)
  /\ UNCHANGED <<nodes, dated, impact, edges, index, ready, todo, adding, skipped, dedup>>

\* The connection fails in a batch, which makes the pass incomplete ...
BatchFails ==
  /\ janitor.pc = "write"
  /\ GraphFault
  /\ Passed(janitor.edge, FALSE)
  /\ UNCHANGED <<nodes, dated, impact, edges, index, ready, todo, adding, skipped, dedup>>

\* ... but the error of one command within it is not looked at.
CommandFails ==
  /\ janitor.pc = "write"
  /\ GraphFault
  /\ Passed(janitor.edge, janitor.complete)
  /\ skipped' = IF janitor.edge \in index THEN skipped ELSE skipped \cup {janitor.edge}
  /\ UNCHANGED <<nodes, dated, impact, edges, index, ready, todo, adding, dedup>>

EndPass ==
  /\ janitor.pc = "pass" /\ janitor.keys = {}
  /\ ready' = (ready \/ janitor.complete)
  /\ janitor' = Rest
  /\ UNCHANGED <<nodes, dated, impact, edges, index, todo, adding, graphFaults, skipped, dedup>>

JanitorStops ==
  /\ janitor.pc # "rest"
  /\ GraphFault
  /\ janitor' = Rest
  /\ UNCHANGED <<nodes, dated, impact, edges, index, ready, todo, adding, skipped, dedup>>

-----------------------------------------------------------------------------
(***************************************************************************)
(* The dedup pass, one task at a time (a bound of the model): it walks the *)
(* edges, writes each one that leads to an alias under its new key, and    *)
(* deletes the old one.                                                    *)
(***************************************************************************)
Dedup(pc, ks) == dedup' = [dedup EXCEPT !.pc = pc, !.edges = ks]

StartDedup ==
  /\ ~ dedup.says /\ dedup.pc = "none"
  /\ dedup' = [says |-> TRUE, pc |-> "scan", edges |-> {}]
  /\ UNCHANGED <<nodes, dated, impact, edges, index, ready, todo, adding, janitor, graphFaults,
                 skipped>>

RewriteRead(k) ==
  /\ dedup.pc = "scan" /\ k \in edges /\ Canonical[k] # k
  /\ Dedup("set", {k})
  /\ UNCHANGED <<nodes, dated, impact, edges, index, ready, todo, adding, janitor, graphFaults,
                 skipped>>

Moved == {Canonical[k] : k \in dedup.edges}

\* The document is written without upsert_edge, and so without the index.
RewriteSet ==
  /\ dedup.pc = "set"
  /\ edges' = edges \cup Moved /\ skipped' = skipped \cup Moved
  /\ Dedup("delete", dedup.edges)
  /\ UNCHANGED <<nodes, dated, impact, index, ready, todo, adding, janitor, graphFaults>>

RewriteDelete ==
  /\ dedup.pc = "delete"
  /\ edges' = edges \ dedup.edges
  /\ Dedup("scan", {})
  /\ UNCHANGED <<nodes, dated, impact, index, ready, todo, adding, janitor, graphFaults, skipped>>

\* A merge that fails is counted, and the next one tried.
RewriteFails ==
  /\ dedup.pc \in {"set", "delete"}
  /\ GraphFault
  /\ Dedup("scan", {})
  /\ UNCHANGED <<nodes, dated, impact, edges, index, ready, todo, adding, janitor, skipped>>

EndDedup ==
  /\ dedup.pc = "scan"
  /\ dedup' = [says |-> FALSE, pc |-> "none", edges |-> {}]
  /\ UNCHANGED <<nodes, dated, impact, edges, index, ready, todo, adding, janitor, graphFaults,
                 skipped>>

\* The task goes with the dashboard, and the status goes on saying that it runs.
DedupStops ==
  /\ dedup.pc # "none"
  /\ GraphFault
  /\ Dedup("none", {})
  /\ UNCHANGED <<nodes, dated, impact, edges, index, ready, todo, adding, janitor, skipped>>

ResetDedup ==
  /\ dedup.says
  /\ dedup' = [dedup EXCEPT !.says = FALSE]
  /\ UNCHANGED <<nodes, dated, impact, edges, index, ready, todo, adding, janitor, graphFaults,
                 skipped>>

-----------------------------------------------------------------------------
JanitorStep ==
  \/ StartSweep \/ ReadImpact \/ ReadMembers \/ DeleteEdges \/ DeleteNode
  \/ StartPass \/ WriteBatch \/ EndPass
  \/ \E e \in Events : SweepEvent(e)
  \/ \E k \in Edges : CheckOrphan(k)

GraphNext ==
  \/ \E e \in Events :
       \/ Ingest(e) \/ Measure(e) \/ GrowOlder(e)
       \/ \E d \in Dates : Seed(e, d)
  \/ \E k \in Edges : SetEdge(k) \/ AddToIndex(k)
  \/ IngestFails
  \/ \E k \in Edges : RewriteRead(k)
  \/ StartDedup \/ RewriteSet \/ RewriteDelete \/ RewriteFails \/ EndDedup \/ DedupStops
  \/ ResetDedup
  \/ JanitorStep \/ SweepFails \/ BatchFails \/ CommandFails \/ JanitorStops

GraphSpec == GraphInit /\ [][GraphNext]_graphVars

\* The janitor's loop sweeps again and again; nothing is assumed of the writers.
GraphFairSpec == GraphSpec /\ WF_graphVars(JanitorStep)

\* Once the flag is set a reader of the index sets misses no edge: what it misses is
\* about to be added, or its SADD failed or was left out by the dedup pass (graph.py:62,
\* "Set by the janitor once a full edge pass has backfilled edgeidx:* for every existing
\* edge").
IndexComplete ==
  \A e \in Events : EdgesOf(e) \cap edges \subseteq Neighbors(e) \cup adding \cup skipped

\* An edge whose event is gone goes as well, indexed or not, once a pass takes all the
\* edges there are (janitor.py:251-253, "an edge whose src event no longer exists is
\* deleted").  A pass begins at the start of the keyspace, so that what is behind its cap
\* waits until there is less before it.
Orphan(k) == k \in edges /\ Src[k] \notin nodes

OrphansSwept ==
  <>[](Cardinality(edges) <= ScanCap) => \A k \in Edges : Orphan(k) ~> ~ Orphan(k)

\* janitor.py:10-11, "Every sweep is bounded per run so a huge backlog is drained over
\* several cycles".
BacklogDrained == \A k \in Edges : Orphan(k) ~> ~ Orphan(k)
=============================================================================
