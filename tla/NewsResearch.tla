----------------------------- MODULE NewsResearch -----------------------------
(***************************************************************************)
(* What becomes of an enriched event: the strategist screens it, asks a    *)
(* model and the council, keeps to the quota and the budget of its horizon *)
(* and publishes a proposal (plata/agents/strategist.py, council.py); or   *)
(* it asks the historian for precedents, who publishes the event again     *)
(* (plata/agents/historian.py).  Composed with NewsIntake.                 *)
(*                                                                         *)
(* A bucket holds Target positions of one share each, which is what        *)
(* remaining money over free slots comes to.                               *)
(***************************************************************************)
EXTENDS NewsIntake

CONSTANTS
  Buckets,     \* horizons
  MaxPerDay,   \* horizon_<bucket>_daily_count
  Target,      \* horizon_<bucket>_target_concurrent
  ResearchCap  \* research_max_per_day

ASSUME ResearchAssumption == {MaxPerDay, Target, ResearchCap} \subseteq Nat

VARIABLES
  strat,     \* the strategist's handler
  returned,  \* enriched events in its dead-letter queue
  count,     \* horizon:count:<day>:<bucket>
  published, \* ghost: proposals of the day, per bucket
  waiting,   \* proposals on their way to the ledger, per bucket
  open,      \* trades the ledger has open, per bucket
  bare,      \* proposals and trades whose row was not written: no bucket is theirs
  blind,     \* ghost: buckets used without sight of all that was in them
  missing,   \* events dropped because the graph does not have them
  requests,  \* historian_research_requests, not yet taken
  hist,      \* the historian's handler
  seen,      \* historian:research:seen:*
  asked,     \* ghost: per event, times the historian's model was asked
  today      \* historian:research:daily:<day>

quotas == <<count, published>>
books  == <<waiting, open, bare, blind>>
svars  == <<strat, returned, quotas, books, missing>>
hvars  == <<requests, hist, seen, asked, today>>
vars   == <<ivars, svars, hvars>>

TypeOK ==
  /\ IntakeTypeOK
  /\ strat = Idle \/ /\ strat.e \in Event
                     /\ strat.pc \in {"screen", "ask", "council", "quota", "size",
                                      "count", "publish", "done"}
                     /\ strat.pc \in {"quota", "size", "count", "publish"} => strat.b \in Buckets
  /\ returned \subseteq Event /\ missing \subseteq Event
  /\ {count, published, waiting, open, bare} \subseteq [Buckets -> Nat]
  /\ blind \subseteq Buckets
  /\ requests \in Seq(1 .. MaxNodes) /\ seen \subseteq 1 .. MaxNodes
  /\ hist = Idle \/ /\ hist.id \in 1 .. MaxNodes
                    /\ hist.pc \in {"check", "ask", "replay"}
  /\ asked \in [1 .. MaxNodes -> Nat] /\ today \in 0 .. ResearchCap + nfaults

Init ==
  /\ IntakeInit
  /\ strat = Idle /\ returned = {} /\ missing = {}
  /\ count = [b \in Buckets |-> 0] /\ published = count
  /\ waiting = count /\ open = count /\ bare = count /\ blind = {}
  /\ requests = <<>> /\ hist = Idle /\ seen = {}
  /\ asked = [id \in 1 .. MaxNodes |-> 0] /\ today = 0

-----------------------------------------------------------------------------
(***************************************************************************)
(* The strategist.                                                         *)
(***************************************************************************)
Thinks(pc)   == strat # Idle /\ strat.pc = pc
Moves(pc)    == strat' = [strat EXCEPT !.pc = pc]
strategistOf == <<intake, raw, ing, nodes, letters>>

TakeEvent ==
  /\ strat = Idle /\ enriched # <<>>
  /\ strat' = [pc |-> "screen", e |-> Head(enriched)]
  /\ enriched' = Tail(enriched)
  /\ UNCHANGED <<strategistOf, nfaults, returned, quotas, books, missing, hvars>>

\* Below the threshold: a drop is recorded.
TooWeak ==
  /\ Thinks("screen")
  /\ strat' = Idle
  /\ UNCHANGED <<strategistOf, enriched, nfaults, returned, quotas, books, missing, hvars>>

InGraph(e) == e.id # 0
LookUp ==
  /\ Thinks("screen")
  /\ IF InGraph(strat.e)
     THEN Moves("ask") /\ UNCHANGED missing
     ELSE strat' = Idle /\ missing' = missing \cup {strat.e}
  /\ UNCHANGED <<strategistOf, enriched, nfaults, returned, quotas, books, hvars>>

\* The model sees no trade; when it lacks precedents, the historian is asked for
\* some, except about an event he has published again.
MayResearch(e) == ~ e.again
NoTrade ==
  /\ Thinks("ask")
  /\ Moves("done")
  /\ requests' \in {requests} \cup
       (IF MayResearch(strat.e) THEN {Append(requests, strat.e.id)} ELSE {})
  /\ UNCHANGED <<strategistOf, enriched, nfaults, returned, quotas, books, missing,
                 hist, seen, asked, today>>

\* Conviction too low to publish: no record.
Unconvinced ==
  /\ Thinks("ask")
  /\ strat' = Idle
  /\ UNCHANGED <<strategistOf, enriched, nfaults, returned, quotas, books, missing, hvars>>

Convinced ==
  /\ Thinks("ask")
  /\ Moves("council")
  /\ UNCHANGED <<strategistOf, enriched, nfaults, returned, quotas, books, missing, hvars>>

\* The council blocks, or changes the conviction, or is not asked or not heard in time.
Verdicts == {"blocked", "heard", "silent"}
Council ==
  /\ Thinks("council")
  /\ \E verdict \in Verdicts, b \in Buckets :
       strat' = IF verdict = "blocked" THEN Idle
                ELSE [pc |-> "quota", e |-> strat.e, b |-> b]
  /\ UNCHANGED <<strategistOf, enriched, nfaults, returned, quotas, books, missing, hvars>>

\* Broken variant of HasQuota: an off-by-one.
HasQuotaOneMore(b) == count[b] <= MaxPerDay

\* When Redis does not answer, the quota reads 0 of 999.
HasQuota(b) == count[b] < MaxPerDay

CheckQuota ==
  /\ Thinks("quota")
  /\ \/ /\ strat' = IF HasQuota(strat.b) THEN [strat EXCEPT !.pc = "size"] ELSE Idle
        /\ UNCHANGED <<nfaults, blind>>
     \/ /\ Fault
        /\ Moves("size")
        /\ blind' = blind \cup {strat.b}
  /\ UNCHANGED <<strategistOf, enriched, returned, quotas, waiting, open, bare, missing,
                 hvars>>

\* Broken variant of HasRoom: an off-by-one.
HasRoomOneMore(b) == open[b] <= Target

\* What the ledger has open in the bucket, by the rows of the proposals: a trade without
\* one is in no bucket.  A database that does not answer has none.
\* Without equity, or when a share is too small, there is no size.
HasRoom(b) == open[b] < Target

Size ==
  /\ Thinks("size")
  /\ \/ /\ strat' = IF HasRoom(strat.b) THEN [strat EXCEPT !.pc = "count"] ELSE Idle
        /\ blind' = IF waiting[strat.b] + bare[strat.b] > 0
                    THEN blind \cup {strat.b} ELSE blind
        /\ UNCHANGED nfaults
     \/ strat' = Idle /\ UNCHANGED <<nfaults, blind>>
     \/ /\ Fault
        /\ Moves("count")
        /\ blind' = blind \cup {strat.b}
  /\ UNCHANGED <<strategistOf, enriched, returned, quotas, waiting, open, bare, missing,
                 hvars>>

\* The counter goes up before the proposal goes out; an error is passed over.
Count ==
  /\ Thinks("count")
  /\ Moves("publish")
  /\ \/ count' = [count EXCEPT ![strat.b] = @ + 1] /\ UNCHANGED <<nfaults, blind>>
     \/ Fault /\ blind' = blind \cup {strat.b} /\ UNCHANGED count
  /\ UNCHANGED <<strategistOf, enriched, returned, published, waiting, open, bare, missing,
                 hvars>>

\* The proposal goes out, then record_published writes its row with the bucket in it; an
\* insert that fails is passed over.
PublishProposal ==
  /\ Thinks("publish")
  /\ Moves("done")
  /\ published' = [published EXCEPT ![strat.b] = @ + 1]
  /\ \/ waiting' = [waiting EXCEPT ![strat.b] = @ + 1] /\ UNCHANGED <<nfaults, bare>>
     \/ Fault /\ bare' = [bare EXCEPT ![strat.b] = @ + 1] /\ UNCHANGED waiting
  /\ UNCHANGED <<strategistOf, enriched, returned, count, open, blind, missing, hvars>>

Finish ==
  /\ Thinks("done")
  /\ strat' = Idle
  /\ UNCHANGED <<strategistOf, enriched, nfaults, returned, quotas, books, missing, hvars>>

\* The handler fails, also after its work is done (AgentConsumer): a dead letter.
StrategistFails ==
  /\ strat # Idle
  /\ Fault
  /\ strat' = Idle
  /\ returned' = returned \cup {strat.e}
  /\ UNCHANGED <<strategistOf, enriched, quotas, books, missing, hvars>>

ReplayEvent(e) ==
  /\ e \in returned
  /\ returned' = returned \ {e}
  /\ enriched' = Append(enriched, e)
  /\ UNCHANGED <<strategistOf, nfaults, strat, quotas, books, missing, hvars>>

\* The rest of the pipeline opens or turns down what was proposed, and closes it.
LedgerMoves(b) ==
  /\ \/ /\ waiting[b] > 0
        /\ waiting' = [waiting EXCEPT ![b] = @ - 1]
        /\ open' \in {open, [open EXCEPT ![b] = @ + 1]}
        /\ UNCHANGED bare
     \/ open[b] > 0 /\ open' = [open EXCEPT ![b] = @ - 1] /\ UNCHANGED <<waiting, bare>>
     \/ bare[b] > 0 /\ bare' = [bare EXCEPT ![b] = @ - 1] /\ UNCHANGED <<waiting, open>>
  /\ UNCHANGED <<ivars, strat, returned, quotas, blind, missing, hvars>>

-----------------------------------------------------------------------------
(***************************************************************************)
(* The historian's research loop.                                          *)
(***************************************************************************)
Studies(pc) == hist # Idle /\ hist.pc = pc
historianOf == <<intake, raw, ing, nodes, letters, svars>>

TakeRequest ==
  /\ hist = Idle /\ requests # <<>>
  /\ hist' = [pc |-> "check", id |-> Head(requests)]
  /\ requests' = Tail(requests)
  /\ UNCHANGED <<historianOf, enriched, nfaults, seen, asked, today>>

\* Broken variant of Known: the seen key is not looked at.
KnownUnlessCapped(id) == today >= ResearchCap

Known(id) == today >= ResearchCap \/ id \in seen

\* The event is marked as seen for a week, and counted, before the model is asked.
\* When the day's count cannot be read it is taken to be 0.
Claims ==
  /\ seen' = seen \cup {hist.id}
  /\ today' = today + 1
  /\ hist' = [hist EXCEPT !.pc = "ask"]

Claim ==
  /\ Studies("check")
  /\ \/ Known(hist.id) /\ hist' = Idle /\ UNCHANGED <<seen, today, nfaults>>
     \/ ~ Known(hist.id) /\ Claims /\ UNCHANGED nfaults
     \/ today >= ResearchCap /\ hist.id \notin seen /\ Claims /\ Fault
  /\ UNCHANGED <<historianOf, enriched, requests, asked>>

\* The precedents found are written to the graph; nodes no story here refers to.
Study ==
  /\ Studies("ask")
  /\ asked' = [asked EXCEPT ![hist.id] = @ + 1]
  /\ hist' = [hist EXCEPT !.pc = "replay"]
  /\ UNCHANGED <<historianOf, enriched, nfaults, requests, seen, today>>

\* The replay is built without an ulid, so it gets a new one.
Republish ==
  /\ Studies("replay")
  /\ enriched' = Append(enriched, [id |-> 0, again |-> TRUE])
  /\ hist' = Idle
  /\ UNCHANGED <<historianOf, nfaults, requests, seen, asked, today>>

\* Whatever fails, between the mark and the count as well, the request is
\* acknowledged, and the event stays marked as seen.
StudyFails ==
  /\ hist # Idle
  /\ Fault
  /\ hist' = Idle
  /\ seen' \in {seen} \cup
       (IF hist.pc = "check" /\ ~ Known(hist.id) THEN {seen \cup {hist.id}} ELSE {})
  /\ UNCHANGED <<historianOf, enriched, requests, asked, today>>

\* The keys of the day begin anew; a proposal between its check and its publication
\* is checked or counted on one day and goes out on the next.
CountsAnew(buckets) ==
  /\ count' = [b \in Buckets |-> IF b \in buckets THEN 0 ELSE count[b]]
  /\ published' = [b \in Buckets |-> IF b \in buckets THEN 0 ELSE published[b]]
  /\ blind' = IF strat # Idle /\ strat.pc \in {"size", "count", "publish"}
              THEN blind \cup ({strat.b} \cap buckets) ELSE blind

Midnight ==
  /\ CountsAnew(Buckets)
  /\ today' = 0
  /\ UNCHANGED <<ivars, strat, returned, waiting, open, bare, missing,
                 requests, hist, seen, asked>>

\* The operator's reset deletes the counters, one key after the other.
ResetCount(b) ==
  /\ CountsAnew({b})
  /\ UNCHANGED <<ivars, strat, returned, waiting, open, bare, missing, hvars>>

-----------------------------------------------------------------------------
StrategistStep ==
  \/ TakeEvent \/ TooWeak \/ LookUp \/ NoTrade \/ Unconvinced \/ Convinced \/ Council
  \/ CheckQuota \/ Size \/ Count \/ PublishProposal \/ Finish

HistorianStep == TakeRequest \/ Claim \/ Study \/ Republish

Next ==
  \/ IntakeNext /\ UNCHANGED <<svars, hvars>>
  \/ StrategistStep \/ StrategistFails
  \/ HistorianStep \/ StudyFails
  \/ \E e \in returned : ReplayEvent(e)
  \/ \E b \in Buckets : LedgerMoves(b) \/ ResetCount(b)
  \/ Midnight

\* The agents run and their calls have timeouts; nobody promises news or replays.
FairSpec ==
  /\ Init /\ [][Next]_vars
  /\ WF_vars(IngestStep /\ UNCHANGED <<svars, hvars>>)
  /\ WF_vars(StrategistStep) /\ WF_vars(HistorianStep)

-----------------------------------------------------------------------------
(***************************************************************************)
(* Properties.                                                             *)
(***************************************************************************)

\* The day's proposals of a bucket, or those since the operator's reset, stay within its
\* quota (strategist.py:134-137, "so we don't flood one horizon") as long as the counter
\* could be read and written and neither midnight nor the reset came in between.
QuotaHolds ==
  \A b \in Buckets : published[b] > MaxPerDay => b \in blind

Held(b) == open[b] + waiting[b] + bare[b]

\* A bucket is overfilled only when a proposal was sized while another was on its way to
\* the ledger or had no row, or without the ledger.
RoomWhenSighted == \A b \in Buckets : Held(b) > Target => b \in blind

\* strategist.py:157-158, "so we never exceed the bucket's allotted cap".
NeverOverfilled == \A b \in Buckets : Held(b) <= Target

\* One event costs the historian's model one call within the week, however often
\* the request for it is made (historian.py:397, "don't research the same event
\* twice").
ResearchedOnce == \A id \in DOMAIN asked : asked[id] <= 1

\* What the historian publishes again is evaluated by the strategist (historian.py,
\* "so the strategist re-evaluates with the now-richer analog pool").
ReplayEvaluated == \A e \in missing : ~ e.again

\* News in the pipeline is worked off: no exchange between strategist and historian
\* goes on for ever.
Busy ==
  \/ raw # <<>> \/ enriched # <<>> \/ requests # <<>>
  \/ ing # Idle \/ strat # Idle \/ hist # Idle
NewsSettles == Busy ~> ~ Busy
=============================================================================
