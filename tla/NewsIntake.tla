------------------------------ MODULE NewsIntake ------------------------------
(***************************************************************************)
(* How a story becomes an event of the knowledge graph: the scraper's      *)
(* source loops (plata/agents/scraper/runner.py) look for duplicates       *)
(* (dedup.py), archive and publish a story; graph ingestion                *)
(* (plata/agents/graph_ingestion.py) asks a model what it says, writes the *)
(* event node, its entities and edges (core/graph.py), marks the archive   *)
(* row and publishes the enriched event.                                   *)
(*                                                                         *)
(* A story stands for what its url and title hash to.  Every write is a    *)
(* step of its own, and a failure leaves the earlier ones in place.        *)
(***************************************************************************)
EXTENDS Naturals, Sequences, FiniteSets

CONSTANTS
  Stories,
  Loops,     \* the source loops, tasks of one process
  Loose,     \* those whose stories are compared with similar ones as well
  Similar,   \* pairs of stories that overlap enough to count as one
  MaxNodes,  \* bound of the model: event nodes
  MaxFetches, \* bound of the model: stories fetched, repeats included
  MaxFaults  \* bound of the model: failed calls and killed handlers

ASSUME IntakeAssumption ==
  /\ Loose \subseteq Loops /\ Similar \subseteq Stories \X Stories
  /\ {MaxNodes, MaxFetches, MaxFaults} \subseteq Nat

VARIABLES
  hashes,   \* dedup hashes: stories some loop has recorded
  prints,   \* stories with a fingerprint of the last hours
  loop,     \* per source loop, the story in hand and what is next
  archived, \* signal archive: stories with a row of their own
  raw,      \* raw_signals, not yet taken
  sent,     \* ghost: what each loop has published
  ing,      \* graph ingestion's handler
  graph,    \* event nodes: the story of each
  linked,   \* nodes with their entities and edges
  marked,   \* per archive row marked as ingested, its node
  enriched, \* enriched_events, not yet taken
  letters,  \* raw signals in the dead-letter queue
  nfetches,
  nfaults

intake == <<hashes, prints, loop, archived, sent, nfetches>>
nodes  == <<graph, linked, marked>>
ivars  == <<intake, raw, ing, nodes, enriched, letters, nfaults>>

Idle == [pc |-> "idle"]
Event == [id : 0 .. MaxNodes, again : BOOLEAN]  \* id 0: an ulid no node has

IntakeTypeOK ==
  /\ hashes \subseteq Stories /\ prints \subseteq Stories /\ archived \subseteq Stories
  /\ \A l \in Loops :
       loop[l] = Idle \/ /\ loop[l].s \in Stories
                         /\ loop[l].pc \in {"hash", "store", "compare", "archive",
                                            "duplicate", "publish"}
  /\ raw \in Seq(Stories) /\ letters \subseteq Stories
  /\ sent \in [Loops \X Stories -> Nat]
  /\ ing = Idle \/ /\ ing.s \in Stories /\ ing.id \in 0 .. Len(graph)
                   /\ ing.pc \in {"extract", "write", "link", "mark", "publish"}
  /\ graph \in Seq(Stories) /\ Len(graph) <= MaxNodes
  /\ linked \subseteq DOMAIN graph /\ marked \in [Stories -> 0 .. MaxNodes]
  /\ enriched \in Seq(Event)
  /\ nfetches \in 0 .. MaxFetches /\ nfaults \in 0 .. MaxFaults

IntakeInit ==
  /\ hashes = {} /\ prints = {} /\ archived = {} /\ letters = {}
  /\ loop = [l \in Loops |-> Idle]
  /\ raw = <<>> /\ enriched = <<>>
  /\ sent = [p \in Loops \X Stories |-> 0]
  /\ ing = Idle
  /\ graph = <<>> /\ linked = {} /\ marked = [s \in Stories |-> 0]
  /\ nfetches = 0 /\ nfaults = 0

Fault == nfaults < MaxFaults /\ nfaults' = nfaults + 1

-----------------------------------------------------------------------------
(***************************************************************************)
(* A source loop, one story of a poll at a time.                           *)
(***************************************************************************)
Goes(l, pc) == loop' = [loop EXCEPT ![l].pc = pc]
Ends(l)     == loop' = [loop EXCEPT ![l] = Idle]
Has(l, pc)  == loop[l] # Idle /\ loop[l].pc = pc
rest        == <<raw, ing, nodes, enriched, letters>>

Fetch(l, s) ==
  /\ loop[l] = Idle /\ nfetches < MaxFetches
  /\ nfetches' = nfetches + 1
  /\ loop' = [loop EXCEPT ![l] = [pc |-> "hash", s |-> s]]
  /\ UNCHANGED <<hashes, prints, archived, sent, rest, nfaults>>

\* Broken variant of LooksNew: the hash is not looked up.
LooksNewAlways(l) == TRUE

\* The hash is read, and written in a second call when it was not there.
LooksNew(l) == loop[l].s \notin hashes

ReadHash(l) ==
  /\ Has(l, "hash")
  /\ Goes(l, IF LooksNew(l) THEN "store" ELSE "duplicate")
  /\ UNCHANGED <<hashes, prints, archived, sent, nfetches, rest, nfaults>>

StoreHash(l) ==
  /\ Has(l, "store")
  /\ hashes' = hashes \cup {loop[l].s}
  /\ Goes(l, IF l \in Loose THEN "compare" ELSE "archive")
  /\ UNCHANGED <<prints, archived, sent, nfetches, rest, nfaults>>

\* Overlap of names and nearness of titles; the story's own print is stored
\* whatever comes out, and whatever becomes of the story.
Compare(l) ==
  /\ Has(l, "compare")
  /\ Goes(l, IF \E t \in prints : <<loop[l].s, t>> \in Similar THEN "duplicate" ELSE "archive")
  /\ prints' = prints \cup {loop[l].s}
  /\ UNCHANGED <<hashes, archived, sent, nfetches, rest, nfaults>>

ArchiveDuplicate(l) ==
  /\ Has(l, "duplicate")
  /\ Ends(l)
  /\ UNCHANGED <<hashes, prints, archived, sent, nfetches, rest, nfaults>>

Archive(l) ==
  /\ Has(l, "archive")
  /\ archived' = archived \cup {loop[l].s}
  /\ Goes(l, "publish")
  /\ UNCHANGED <<hashes, prints, sent, nfetches, rest, nfaults>>

\* Looks like an injection, or the operator's filter drops it.
Discard(l) ==
  /\ Has(l, "publish")
  /\ Ends(l)
  /\ UNCHANGED <<hashes, prints, archived, sent, nfetches, rest, nfaults>>

PublishRaw(l) ==
  /\ Has(l, "publish")
  /\ raw' = Append(raw, loop[l].s)
  /\ sent' = [sent EXCEPT ![<<l, loop[l].s>>] = @ + 1]
  /\ Ends(l)
  /\ UNCHANGED <<hashes, prints, archived, nfetches, ing, nodes, enriched, letters, nfaults>>

\* The database or Redis fails: the poll is over, and the hash stays recorded.
PollFails(l) ==
  /\ loop[l] # Idle
  /\ Fault
  /\ Ends(l)
  /\ UNCHANGED <<hashes, prints, archived, sent, nfetches, rest>>

-----------------------------------------------------------------------------
(***************************************************************************)
(* Graph ingestion.                                                        *)
(***************************************************************************)
Ingesting(pc) == ing # Idle /\ ing.pc = pc
IngGoes(pc)   == ing' = [ing EXCEPT !.pc = pc]

TakeRaw ==
  /\ ing = Idle /\ raw # <<>>
  /\ ing' = [pc |-> "extract", s |-> Head(raw), id |-> 0]
  /\ raw' = Tail(raw)
  /\ UNCHANGED <<intake, nodes, enriched, letters, nfaults>>

Extract ==
  /\ Ingesting("extract")
  /\ IngGoes("write")
  /\ UNCHANGED <<intake, raw, nodes, enriched, letters, nfaults>>

\* Broken variant of AfterLimit: the story is queued again.
AfterLimitAgain == ing' = Idle /\ raw' = Append(raw, ing.s)

\* An empty summary, or the embedding of the summary is rate limited: the story is
\* given up.
AfterLimit == ing' = Idle /\ raw' = raw

GiveUpStory ==
  /\ Ingesting("write")
  /\ AfterLimit
  /\ UNCHANGED <<intake, nodes, enriched, letters, nfaults>>

\* Broken variant of AfterWrite: the row is marked first.
AfterWriteMark == "mark"

\* The row is marked after the entities and edges are in.
AfterWrite == "link"

\* Every run writes a node under a new ulid.
WriteEvent ==
  /\ Ingesting("write") /\ Len(graph) < MaxNodes
  /\ graph' = Append(graph, ing.s)
  /\ ing' = [ing EXCEPT !.pc = AfterWrite, !.id = Len(graph) + 1]
  /\ UNCHANGED <<intake, raw, linked, marked, enriched, letters, nfaults>>

Link ==
  /\ Ingesting("link")
  /\ linked' = linked \cup {ing.id}
  /\ IngGoes("mark")
  /\ UNCHANGED <<intake, raw, graph, marked, enriched, letters, nfaults>>

MarkIngested ==
  /\ Ingesting("mark")
  /\ marked' = [marked EXCEPT ![ing.s] = ing.id]
  /\ IngGoes("publish")
  /\ UNCHANGED <<intake, raw, graph, linked, enriched, letters, nfaults>>

NewEvent == [id |-> ing.id, again |-> FALSE]

PublishEvent ==
  /\ Ingesting("publish")
  /\ enriched' = Append(enriched, NewEvent)
  /\ ing' = Idle
  /\ UNCHANGED <<intake, raw, nodes, letters, nfaults>>

IngestFails ==
  /\ ing # Idle
  /\ Fault
  /\ ing' = Idle
  /\ letters' = letters \cup {ing.s}
  /\ UNCHANGED <<intake, raw, nodes, enriched>>

ReplayRaw(s) ==
  /\ s \in letters
  /\ letters' = letters \ {s}
  /\ raw' = Append(raw, s)
  /\ UNCHANGED <<intake, ing, nodes, enriched, nfaults>>

-----------------------------------------------------------------------------
IngestStep ==
  TakeRaw \/ Extract \/ GiveUpStory \/ WriteEvent \/ Link \/ MarkIngested \/ PublishEvent

LoopStep(l) ==
  \/ \E s \in Stories : Fetch(l, s)
  \/ ReadHash(l) \/ StoreHash(l) \/ Compare(l) \/ ArchiveDuplicate(l) \/ Archive(l)
  \/ Discard(l) \/ PublishRaw(l) \/ PollFails(l)

IntakeNext ==
  \/ \E l \in Loops : LoopStep(l)
  \/ IngestStep \/ IngestFails
  \/ \E s \in letters : ReplayRaw(s)

\* A loop does not broadcast a story again (dedup.py:185-187, "a literal re-broadcast
\* of the same article still dups"): it was recorded before it was published, and
\* each loop stores before it polls again.  Two loops may still publish one story
\* between them.
NoRebroadcast == \A p \in DOMAIN sent : sent[p] <= 1

\* A story marked as ingested has its row in the archive, and the node it names is
\* in the graph with its entities and edges, and tells the same story, whatever
\* failed and was replayed before (graph_ingestion.py:190-197).
MarkedIsLinked ==
  \A s \in Stories :
    marked[s] # 0 => s \in archived /\ marked[s] \in linked /\ graph[marked[s]] = s
=============================================================================
