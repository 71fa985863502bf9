# Plata in TLA+

Plata is a set of asyncio agents that turn news into trades. They share three
stores (Redis streams and hashes, Postgres tables, the venue's order book) and no
lock: whatever one of them reads may be different when it acts on it. The modules
here model the parts where that matters, TLC checks them on small instances, and
TLAPS proves their invariants for every instance.

Sources are named relative to `src/plata/`. `PROJECT.json` maps every definition to
the lines it stands for, lists the hazards with the properties that watch them, and
gives for each property of a run a plausible bug that the property catches (the
"broken variant" definitions in the modules).

## 1. The system

```
 sources -> scraper -> raw_signals -> graph_ingestion -> enriched_events -> strategist
    (rss, reddit, telegram, ...)             |               |                 |
                            knowledge graph -+  historian <- research requests +
                       (janitor, dedup page)                                   |
                                                                      trading_proposals
                                                                               |
  operators (telegram, dashboard) <- approval store <-> risk_manager  <--------+
                                                             |
                                                      approved_trades
                                                             |
  venue <---------------------- executor --> trade ledger <--+-- reviewer <- trade_closures
                                                  |                               ^
                                          position_monitor, dashboard, reset -----+
 orchestrator, dashboard, telegram, LLM budget -> system:state, system:halt -> all agents
 every agent -> LLM gateway -> providers          risk_config <- settings, tuning, bot, reset
 post-mortem: past proposals -> lessons           sysop: detectors -> findings -> fixes
```

| component | its state | operations | hard behaviour | what makes it correct |
|---|---|---|---|---|
| bus (`core/bus.py`) | streams, consumer groups, pending lists, dead-letter streams, channels | publish, consume, ack, to_dlq, trim, publish_channel, subscribe | reads new entries only, so neither a restart nor a read whose reply was lost returns to pending ones; pub/sub forgets | nothing acknowledged without a fate |
| agent base and supervisor (`agents/base.py`, `entrypoints.py`) | loop position, halted flag, in-flight message | consume loop, failure recording, requeue, halt subscriber, restart, shutdown | kill, cancellation, and exceptions inside the except block | each message handled once or recorded |
| dead letters (`dashboard/routes/dlq.py`) | replay tasks | replay, clear | add and delete are two calls; tasks die with the dashboard | a replay hands one copy on |
| scraper duplicates (`agents/scraper/dedup.py`, `runner.py`) | hashes, fingerprints, archive | three checks, record, archive, publish | each check is a read and a write with awaits between | no story published twice by a loop |
| scraper sources (`sources/reddit.py`, `telegram_user.py`) | rotation, refusals, join status, session | poll, log in, join, ingest | refusals, rate limits, cut-off polls, edits of the list under way | no source or channel is left out |
| scraper control (`agents/scraper/runner.py`, `routes/workflow.py`, `news.py`) | status and owner per source | poll, cancel, resume, toggle, forced run, watchdog | five writers of one hash, one of which leaves the owner out | cancellations hold, halts stop, sources return |
| graph ingestion (`agents/graph_ingestion.py`, `core/graph.py`) | event nodes, edges, archive marks | extract, write, link, mark, publish | each write separate, requeue and replay repeat them | a marked row has its linked node |
| knowledge graph upkeep (`agents/janitor.py`, `routes/graph.py`) | index sets, ready flag | sweeps, backfill, dedup | writers and sweep interleave, scans are capped | readers of the index miss no edge |
| strategist, council (`agents/strategist.py`, `council.py`) | daily counters per horizon | event to proposal | quota and room read before and counted after model calls | quota and bucket target respected |
| historian (`agents/historian.py`) | seen keys, daily count, seed status | research, re-publication, seed job | request loops, seen set before the call, resumed jobs | one research per event, no batch left out |
| risk manager (`agents/risk_manager.py`) | one handler, its copy of the configuration | guards, sizing, approval, decision | decides on a ledger that lags behind its own decisions; fails open | cap and one-position guard when it saw everything |
| approval (`hitl/approval_store.py`, `telegram_bot.py`) | pending requests | create, resolve, await | answer before the subscription, two answers, timeout | no large trade without an approval |
| executor (`agents/executor.py`) | one handler, venue, ledger | order, fallback, insert | crash between order and insert; ambiguous timeout | orders and ledger correspond |
| proposals table (`core/proposals.py`) | a state per proposal | record, update | late unconditional overwrites | turned down means not traded |
| position monitor (`agents/position_monitor.py`) | two loops per start, suggestions | thresholds, off-track and event checks, adjustments | publishes closures until the exit shows; asks a model in between; bare tasks that outlive a crash or end unnoticed | stops close while a loop lives |
| reviewer (`agents/reviewer.py`) | ledger exits, tuning counter | write exit, judge, propose a tweak | unconditional update on duplicate closures | a closed trade settles |
| dashboard trade pages and reset (`routes/trades.py`, `proposals.py`, `controls.py`) | - | close, decide, resubmit, reset | look, then publish | as above |
| kill switch, orchestrator (`agents/orchestrator.py`, `dashboard/app.py`) | `system:state`, each agent's flag | kill, resume, watchers | a stored state and a lossy channel must agree | agents follow the state |
| LLM gateway (`core/llm.py`) | mode, pins, marks, day's counter | choose, walk, rescue, fall back, bill | mode changes, marks and failed reads under way, several calls at once, on one client too | free stays free, the cap ends the day, the counter is what was billed |
| configuration and tuning (`routes/risk_config.py`, `tuning.py`) | versioned rows, live hash | save, apply, delete, sweep | two stores, no lock, a subscriber that may not listen or be cut off | newest row is live and gets used |
| post-mortem (`agents/postmortem.py`) | marks in a row's extras | cycle, lesson, save | crash before the save, merges of the same column | one lesson per checkpoint |
| sysop (`agents/sysop.py`, `routes/sysop.py`) | findings, the hour's fingerprints | detect, file, fix, dismiss | fixes fail half-way, people act meanwhile | one automatic fix an hour, troubles answered |
| oracle, backtest, improver, researcher, sampler, pages | - | | they read, and write what only they read | not modelled |

`PROJECT.json` lists all components with their status and the reason where one is
left out or modelled in part.

## 2. Plan

Written, in this order: the consumer (everything rests on it), the path from proposal
to trade, the kill switch, the scraper under it, the life of a position; then the LLM
gateway, the way of a story to a proposal with the historian's loop, what the sources
keep between polls, the post-mortem and the seed job, the graph's index, the
configuration and the sysop.

What would come next:

1. More theorems about what no run states yet: what of `NewsIntake` a restart leaves
   behind in the hash and archive, and which session the listener reads with. The types
   of `TelegramListener` need a fact about `SelectSeq` the provers do not have
   (section 6).
2. Milestone interpolation and the sizing of a position as pure functions against a
   reference definition.
3. The guards of the risk manager that are one nondeterministic rejection here
   (sector cap, cooldown, event and category guards), each with what it reads.

Abstract specifications: `MessageLife` is one, and is checked; "the newest row is
live" is stated as an invariant (`LiveIsLatest`) rather than as a module.

## 3. The modules

**AgentConsumer** models one stream, its group and the one agent that reads it.
The stream is a log whose indices are the Redis ids; `cursor` is the group's
last-delivered id, `pos` what the iterator in memory has yielded, `pel` the pending
list. `pc` follows `_consume_loop`: `HandleOk`, `HandleFail`, `RecordFailure`,
`Requeue`, and the `finally` block as `AckStep`. `dying` is the state in which that
block runs with an exception pending. A read may be carried out and its reply be lost
(`Poll` with the disturbance `reply`): the loop reads on behind the batch. `happened`
records the kinds of disturbance that took place, so that a property can say which of
them it tolerates. Abstracted: payloads (a message and its retry counter remain), the activity feed,
the sleep durations. The agents modelled below take this loop as given: they take a
message, handle it, or fail and leave a dead letter that somebody may replay.

**MessageLife** is the abstract life of a message; `AgentConsumer!LifeSpec` is the
refinement, through the newest entry of each message.

**ApprovalStore** is the request, its status and the three calls of `resolve`.
**TradePipeline** extends it: strategist's publication, the risk manager's
handler (`Guard`, `Size`, `Request`, `Listen`, `Timeout`, `Approve`, ...), the
executor's (`TakeDecision`, `PlaceOrder`, `InsertLedger`, ...), the table and the
resubmit. Two awaits of one handler are two actions. Money is counted in units.
The variable `blind` is true once a size was fixed that the ledger did not show as
it is; it separates what the guards promise from what they cannot know.

**HaltControl** has `system:state`, the flag and the inbox of each agent, the
two-call commands of the dashboard and the automatic halts. `apart` collects the
agents that got a message of their own, boot while a command is on its way, or
miss one between reading the state and subscribing; `muddled` is set when two
writers of the state overlap. **SourceControl** extends it with one source and the
scraper's loops, also those a crash leaves behind, and the loop a failed call ends; with
the workflow page, the two sweeps, and the news page, which looks at the status and then
writes it (`pressed`) without the owner. `cancel` remembers the user's last word and on
which page it was given.

**RedditSource** is what one source keeps from poll to poll: the offset of its
rotation, the refusals per subreddit with their expiry, the posts it has seen. A
counter that cannot be read counts for none, one that cannot be written stays. A
subreddit has one post; `cut` holds those whose poll broke off after it had marked
them. **TelegramListener** is the other source with a state: people log in, log out
and edit the list in one process, the listener reads the session through a cache,
joins channel by channel, waits out floods and ingests what is joined in another.
Signing in and storing the session are two awaits (`signed`); a session belongs to an
account (`owner`), and membership in a channel to an account too.

**NewsIntake** takes a story through the three duplicate checks, archive and
publication of a source loop (`pc` of `loop`), and through graph ingestion (`ing`),
write by write. **NewsResearch** extends it with the strategist's handler (`strat`),
the quota and the books of a horizon, and the historian's (`hist`). Similarity is a
constant relation on stories; what the model, the council and the analog search say is
chosen. A proposal whose row was not written is in its bucket unseen (`bare`). The
counters begin anew at midnight and when the operator resets them. `blind` holds the
buckets used without sight of all that was in them, or across such a new beginning.

**LlmGateway** has one record per call: where it is, which model it asks, what it was
told by the mode it read, which is "paid" when the read fails (`ModeRead`). The mode, the
pins and the marks on models are shared by all, `self.model` by the calls of one client.
A paid answer costs one unit; `spent` is the day's counter, `billed` what the providers
count, `served` what agents got. Nothing takes the last two back, so what the counter
does not show is kept apart, by reason (`missed`): wiped by a boot of the dashboard, an
answer without usage, a failing counter, or charged as another model's because a call of
the same client had replaced `self.model`; `phantom` says that a free answer was charged
for the same reason.

**PositionLifecycle** has the exit of each trade, the monitor and the two loops each of
its starts makes (`watch`), the suggestion rows, a dashboard request (`click`), the reset,
the closure stream and the reviewer. A crash of the monitor's run leaves its loops going
and a restart makes two more; a failed read of the configuration ends a periodic loop for
good (`LoopEnds`). A threshold is a price in `hit`; which threshold does not matter. The
verdict and the graph edge of the reviewer are left out, so its handler is the update
with a failure before or after it. A suggestion is "decided" once it was executed or
rejected. The look for a suggestion that waits never stops a loop, see the finding on
`OneSuggestion`; so it is no step of the model.

**Hindsight** is the post-mortem: ages, the window of the oldest rows, the
checkpoints a cycle found due, the lessons it wrote and the marks it saves once per
proposal, beside another process's merge of the same column and the janitor. A traded
proposal has its price in the ledger; another has one only while its symbol is sampled
(`priced`), and without one its checkpoint is passed over, in every cycle (`NoPrice`).
**SeedJob** is the historian's seed: tasks that read and write one status hash, a page
that starts them and looks at that hash first.

**GraphRetention** has the event nodes, the edges as documents and as members of the
index sets, the flag that tells readers to trust the sets, and the janitor's sweeps
call by call, beside ingestion, the alias merge and the dedup pass. A pass starts at the
beginning of the keyspace every time and stops at its cap (`StartPass`).

**ConfigTuning** is one key of the configuration: rows, live value, the requests under
way (`form`), the tweak of the reviewer, the risk manager's copy and its subscription,
whose connection may be lost with what is announced meanwhile (`linked`). `mixed` is set
when the last write met another, had no row or broke off; `untold` when a change was made
the risk manager was not told of. **Sysop** is its loop over the nine detectors, the
findings with their fixes and the people on its page; `Troubles` says which of the ills
may come up.

The `MC...` modules name model values, relations and amounts. Four of them
(`MCShared`, `MCServices`, `MCUpkeep`, `MCLearning`) put two modules that share no
state into one run: their interleavings would add nothing, so a behaviour is one of
either, chosen in the first state, and the other one stays as it began.

## 4. The runs

| run | question | bounds |
|---|---|---|
| `consumer` | what does the stream lose, strand, repeat? (`NothingLost`, `StrandedOnlyByInterruption`, `HandledOnce`) | 2 messages, 1 retry, batches of 2, 1 replay task, 2 disturbances of 10 kinds, 3 entries |
| `consumer_life` | does the consumer implement `MessageLife`, is every entry settled? (`LifeSpec`, `EventuallySettled`) | as above, replays one by one, 5 kinds of which 1 happens |
| `pipeline` | do cap, guard, approval, orders and ledger hold together? (`CapWhenSighted`, `OnePerSymbolWhenSighted`, `HumanApproved`, `TradedOnce`, `OrdersOnTheBooks`) | 2 proposals of 2 units on 2 symbols, account of 3, threshold 1, 1 disturbance of 5 kinds |
| `pipeline_resubmit` | do the dashboard's rewrites and clones respect the outcome, does every proposal get its turn? (`TurnedDownNotTraded`, `EveryProposalConsidered`) | a proposal and its clone on the other side, a kill |
| `shared` | do the agents follow the state (`AgentsAgree`)? What is asked of models, answered and billed (`FreeStaysFree`, `WithinBudget`, `BooksMatch`)? | orchestrator and executor, 2 requests at once, 3 commands, 1 death or lost connection; or 2 calls of one client, 5 models, 2 attempts, retries and rounds, a budget of 2, 2 failures or events |
| `source` | cancellations, halts, the return of a source (`CancelHolds`, `SourceComesBack`) | the scraper, 1 request beside the watchdog and a button of the news page, 2 commands, 1 cancellation of either page, 1 fault |
| `news` | duplicates, graph, quota, research, and does the exchange of strategist and historian end? (`NoRebroadcast`, `MarkedIsLinked`, `QuotaHolds`, `RoomWhenSighted`, `ResearchedOnce`, `NewsSettles`) | 2 similar stories, 2 loops of which one has the looser layers, 2 nodes, 2 fetches, 1 fault, 1 bucket with a quota, a target and a research cap of 1, any number of midnights and resets |
| `services` | does the rotation leave a subreddit out (`EveryPostHandedOn`)? What the listener joins and leaves (`ChannelsJoined`, `RemovedGoesQuiet`) | 3 subreddits, 2 to a poll, quarantine at 2, 2 seen, 2 troubles; or 2 channels of which Telegram refuses one, 2 accounts, 1 page, 2 edits, 2 logins, 1 fault |
| `positions` | settled exits, stops (`ClosedSettles`, `StopCloses`) | 1 trade, 2 monitors, 1 request, 1 waiting closure, 1 suggestion, 1 failure |
| `learning` | lessons (`LessonOnce`, `ReviewedInWindow`) and seed batches (`EveryBatchTried`) | 3 proposals of which 1 has no trade, a window of 2, 2 checkpoints, 3 lessons a cycle, 1 merge, 1 fault; or 2 tasks, 2 batches, 3 starts, 2 crashes |
| `graph` | does a reader of the index miss an edge, do orphans go? (`IndexComplete`, `OrphansSwept`) | 3 events, 3 edges of which 2 may be older than the index and one an orphan from the start, 1 deletion a sweep, passes of 2 edges, 1 fault |
| `upkeep` | rows, live value and copy (`LiveIsLatest`, `CopyCatchesUp`); fixes (`AutoOncePerHour`, `LimitAnswered`) | 2 values, 2 requests, 1 row kept, 2 writes, 1 fault; or the troubles "unpublished" and "limited", 1 click, 1 fault |

Why these are enough. Every race modelled is between two parties over one object,
and each bound leaves room for both and for one failure in between: two messages
are needed to strand a batch, three entries to requeue one, two proposals to
overlap two decisions, an account of three to fit one of them and not both, two
monitors to have one that a crash left behind, two accounts to leave the rows of another,
three edges to have one more than a pass takes, two similar stories in two loops to pass
each other's checks, three proposals to fall out of a window of two, two paid answers to
meet a budget. A second trade or a third message repeats the same pattern beside it; for the
invariants the proofs of section 6 say so. TLC reports that every action fires.

What the bounds leave open, and must be known:

* `graph` has the orphan of one event from the start, and another that never has an edge
  and is of long ago: an event stands for what one sweep deletes.
* In `Sysop` an hour does not pass in the middle of a fix, and only the troubles named
  in the configuration come up; the other detectors are in the model and find nothing.
* One page at a time in `TelegramListener`, one dedup task in `GraphRetention`, one press
  at a time on the news page in `SourceControl`; the lists of subreddits and the alias
  relation do not change.
* What a property excepts is in its comment, and each exception is the code's: it is
  there because the behaviour behind it is one the module has. Where a document promises
  the property without the exception, the next section has the finding.

Deadlock is checked in `news`. In the other runs it is off, because a bounded instance
comes to rest: all commands are given, all messages read.

### What the code's own words say otherwise

Modelling met disagreements between comments or documents and the code; `findings` in
`PROJECT.json` quotes each. Those with a formula can be seen by checking it: it stands
in its module, unchecked, or is a checked property without the exception it makes.

| what happens | to see it |
|---|---|
| a read whose reply is lost leaves its batch behind | `ResumesCleanly` in `consumer` |
| a failure whose reporter or dead-letter write raises is acknowledged and recorded nowhere | `FailureRecorded` in `consumer` |
| the cap on open notional counts the ledger only, and two decisions pass before the first insert | `HardCap` in `pipeline`, without disturbances |
| an override with "skip risk_manager" also sends the clone to the risk manager | `OverrideSkipsRisk` in `pipeline_resubmit` |
| the automatic halt for a dead agent is addressed to the dead agent | `DeadAgentHalts` in `shared` |
| a halt signs the user's cancellations over to the system, and the resume clears them | `CancelSurvivesResume` in `source` |
| a poll under way, or the watchdog, undoes a halt pressed on either page | `HaltedUntilResumed` in `source` |
| a failed call outside the poll's `try` ends the loop of a source for good | `SourceComesBack` with an `Alone` that lets the loop have ended |
| a channel Telegram refuses keeps those listed behind it from being joined | `ChannelsJoined` without `Unhindered` |
| after a login with another account the rows of the first one stand, and its channels are not joined | `EveryListedJoined` in `services` |
| a connection error counts as a success and credits the others' refusals | the action `Unreachable` of `RedditSource` |
| a poll cut off has marked its posts as seen | `EveryPostHandedOn` without `cut` |
| a look for a waiting suggestion that finds one raises, and a second is written | `OneSuggestion` in `positions` with two rows |
| the monitor's periodic loop ends with one failed read, and a hit stop is not closed | `StopAlwaysCloses` in `positions` |
| a free answer is charged at the paid price when another call shares the client | `FreeIsFree` in `shared` |
| a boot of the dashboard wipes the day's counter, and an answer without usage is not counted | `DailyBudgetHolds` in `shared` |
| the free models run out at the last attempt: the rescue is chosen and not made | `RescueIsMade` in `shared` |
| in auto mode a call ends without the paid model when the mode cannot be read, or after three other errors | `AutoTriesPaid` in `shared` |
| what the historian publishes again gets a new ulid and is dropped as unknown | `ReplayEvaluated` in `news` |
| a proposal on its way, or one whose row was not written, is not in its bucket | `NeverOverfilled` in `news` |
| a change announced while the risk manager does not listen is not loaded | `EditsTakeEffect` in `upkeep` |
| two detectors of the sysop count a column that does not exist and find nothing | `NoProposals`, `SignalToProposalGap` |
| a fix claims pending entries of a group that does not exist | the action has no effect in `Sysop` |
| a fix of the list of those that "cannot incur cost" turns the paid model on | `SetLlmModeAuto` with `LlmGateway!MayRescue` |
| a fix lowers a threshold under a key nobody reads | the action has no effect in `Sysop` |
| a proposal behind 2000 older rows is never reviewed | `EveryProposalReviewed` in `learning` |
| a dropped proposal whose symbol has no open position is never reviewed | `DroppedReviewed` in `learning` |
| a resumed seed does not keep its counters | the counters are not in `SeedJob`; its batches are resumed |
| an edge moved by an alias merge is not in the index until the next pass | `IndexComplete` without `skipped` |
| orphans behind the cap of a pass are never looked at | `BacklogDrained` in `graph` |

## 5. Fairness

Weak fairness is assumed only of what the asyncio scheduler and the supervisor run
for ever and whose awaits time out. Nothing is assumed of people, prices, events,
news, replays or the failing of anything: an operator may never answer.

* `consumer_life`: the consume loop. `pipeline_resubmit`: the steps of the risk manager
  and the executor; the approval wait ends after half an hour.
* `source`: the scraper's current poll loop and the health watchdog.
* `services`: the runner's next poll (`PollStep`) and the expiry of a refusal after a day
  (`FailsExpire`); the listener's loop, the expiry of its credential cache
  (`CacheExpires`), the end of a flood wait (`FloodEnds`) and the write of a message's
  counter (`WriteCount`).
* `news`: the handlers of graph ingestion, strategist and historian.
* `positions`: each periodic loop as long as it has not ended, for nobody starts one that
  has (`StopCloses` excepts it as `Unwatched`); the monitor's start and its restart by the
  supervisor; and the reviewer. Fairness covers loop and handler as a whole, so a round
  goes on but what it decides stays open; the bound on waiting closures only delays a
  publisher until the reviewer took one.
* `learning`: the post-mortem's cycle. A checkpoint that fails does so `MaxFaults` times
  at most; a missing price is no failure and may last. Nothing is assumed of seed jobs,
  whose property is an invariant.
* `graph`: the janitor. `upkeep`: a request that began and the risk manager's tasks, the
  subscription's return after a lost connection among them; the sysop's loop, a fix under
  way, and the hour (`HourPasses`).
* `shared`, `consumer`, `pipeline`: none, their properties are invariants.

Redis is taken to answer but for the counted faults, and the system to be running: a
halt stops the monitor's loop and the consumers, which is `HaltControl`'s and
`AgentConsumer`'s matter.

## 6. Proofs

Each theorem is about all values of the constants, from the module's `...Assumption`
alone, which TLC evaluates in every run. The assumptions say that bounds and limits are
naturals and little more. Most invariants are not inductive; what has to be added is the
interesting part.

**AgentConsumerProofs** (limits are naturals, the batches not empty, finitely many replay
tasks). `TypeCorrect`; `NothingLostAlways`: unless the task is cancelled or the except
block raises, what is acknowledged was handled, dead-lettered or requeued;
`StrandedAlways`: an entry is pending for ever only after an interruption. `IInv` adds
what the loop relies on: past its idle point the entry in its hands is pending (`InHand`),
so is the rest of the batch (`BatchPending`); the `finally` block is reached with the fate
decided (`Decided`) or with a disturbance on record (`DyingDisturbed`); halts are on record
(`HaltedDisturbed`); without a group nothing was delivered (`Fresh`); and a read skips only
what a trim removed (`SkippedTrimmed`). `HandledOnceAlways` rests on `OnceInv`: until
something happens that may double it, a message is in one place, a live entry, a waiting
letter, or done. The finiteness of the replay tasks makes the letters countable.
`LifeRefined` is the refinement of `MessageLife`. It assumes `Gentle`: of the
disturbances, those that kill the agent, halt it, fail an acknowledgement, lose the reply
of a read or clear the dead letters, and one replay task. The others cut a handler short,
double a message or remove an entry, which `MessageLife` rightly has no step for. The
mapping looks at the newest entry of a message; `LifeInv` says where that entry is on its
way (`Course`) and that a waiting letter's message is dead. `AttemptsBoundedAlways` bounds the calls of
`handle()`: at most `MaxRetries + 1` for a message, and as many again for each replay. The
count is of pairs of an entry and a value of its counter: a publication or a replay grants
`MaxRetries + 1` of them, a requeue hands the rest on, and taking the entry spends one
(`Afforded`). This property is in no run.

**TradePipelineProofs** (amounts are naturals, a proposal asks for something).
`PipelineTypeCorrect`. `HumanApprovedAlways`: the invariant follows the answer through the
risk manager: a "yes" it heard was granted for the very proposal in its hands
(`YesIsGranted`), a large trade gets as far as `approving` only with it (`LargeIsGranted`),
and a clone that publishes a decision is an override (`OnlyOverrides`).
`OrdersAlwaysBooked` is inductive together with the types. `TradedOnceAlways` and
`NeverTradedOnceDown`: a proposal is in one place on its way (`Places`), was decided once
(`DecidedOnce`), and is over when turned down (`DownIsOver`). `OnePerSymbolAlways`
(`SightedInv`): as long as every size was fixed in sight of the ledger, a symbol has one
position open or one on its way. `CapAlways`: under the same condition the open notional
stays within the account's baseline; the invariant keeps room for the decision on its way
and for the size just fixed. The total is a fold over the set of open trades. That it
exists, does not depend on the order and can be split at any element is induction over
the size of the set, which the library's theorems do not give here; it is argued by the
least size at which it would fail (`TotalsExist`, `TotalsAgree`, `TotalSplits`).

**SourceControlProofs** proves of `HaltControl` its types and `FlagsAgree`: as long as no
two writers of the state overlap, whatever is still to arrive at an agent (its inbox, the
requests' second calls) ends with the word the state has, so that an agent that has read
everything follows the state. Of `SourceControl`: its types and `CancelStands`: while a
cancellation stands clean, no loop is past the look that would have seen it, no sweep is
about to clear and no button of the news page about to write. Of `RedditSource`: its
types, with a bound on the quarantine counter: a refusal is counted beyond the limit only
for a read of the counter that failed (`OverrunsAreTroubles`), and
`SeenAlwaysAccountedFor`: what is marked as seen was handed on, is held by the poll, or
was held by one that broke off, the safety half of `EveryPostHandedOn`. Of
`TelegramListener`: `JoinedWasJoined`, for which the word "joined" is followed from the
join through the listener's hands to the row, and from a row through a message's counter
back to it. No run checks these; they are stated in their modules as
`OverrunsAreTroubles`, `SeenIsAccountedFor` and `JoinedIsMember`.

**PositionLifecycleProofs**: `PositionTypeCorrect` and `ClosedTradesSettle`, for any
number of monitors a crash left behind. Whoever publishes a closure or writes an exit had
the trade in hand (`WatchInv`, `LoopEffect`), so that one that nobody holds stays as it is.

**LlmGatewayProofs**: `GatewayTypeCorrect`, `AnswersWithinBudget`, `CounterIsTheBill` and
`FreeCallsStayFree`, for any sharing of clients among the calls. Three steps of a
call and the boot of the dashboard touch the books (`BooksChange`): an answer adds to the
bill what it adds to the counter and to what is missed, and a boot moves the counter over
to what is missed; an answer is handed back when the counter, itself included, is below
the cap. `FreeCallsStayFree` follows a call's model from
the refresh on: as long as no other call of its client set `self.model` to the paid one,
it is a free one, and no walk, retry or fallback of the call leaves the free models.

**NewsResearchProofs**: the types; `NeverRebroadcast`: past its second call a story in hand
is recorded, and what was sent has its hash; `MarksAreLinked`: the node of the story in
hand is written before it is linked and linked before it is marked; `QuotaKept` and
`RoomKept`: the handler in hand keeps the room it saw, unless its bucket is `blind`, as it
is once the size was fixed with a proposal in it that is on its way or has no row, or once
the counters began anew behind the check; `ResearchedOnceAlways`: what was asked is seen,
and the request in hand is seen and not asked.

**LearningProofs**: `LessonOnceAlways`: what neither the row nor the running cycle knows as
done was written as often as something broke at most, a lesson whose answer was lost
among it; one save is outstanding at a time. `NoBatchLeftOut`: the only task alive and the
status have every batch before their place asked for. `HindsightTypeCorrect` includes the
cap on the lessons of a cycle; `SeedTypeCorrect`.

**UpkeepProofs**: `LatestIsLive`: a request that began alone has a version above all, then
its row is the newest, then the hash has its value; and the janitor keeps the newest row,
since some row of any end of the table has the newest version (`HasNewest`).
`OncePerHour`: a fix that ran, or is about to, has its fingerprint among those of the hour.
`IndexCompleteAlways`: a pass that still counts as complete has every edge it has not
indexed before it (`PassCovers`), and what the sweep takes out of an event's set it has
deleted before (`SweepCovers`), since ingestion writes edges of recent events only
(`FreshIngest`) and the sweep is at aged ones (`AgedSweep`). `ConfigTypeCorrect`,
`SysopTypeCorrect`, `GraphTypeCorrect`.

Every invariant and every action property a run checks, and the refinement, is a theorem.
Only model-checked are the liveness properties, with everything that rests on fairness or
ENABLED, which the proof system does not reason about: `EventuallySettled`,
`EveryProposalConsidered`, `SourceComesBack`, `ChannelsJoined`, `RemovedGoesQuiet`,
`StopCloses`, `EveryPostHandedOn`, `NewsSettles`, `CopyCatchesUp`, `LimitAnswered`,
`ReviewedInWindow`, `OrphansSwept`. Not proved either are the types of `TelegramListener`:
its lists are filtered with `SelectSeq`, of whose definition the provers know nothing, so
that nothing can be said of the result. No module uses RECURSIVE operators, which the
provers cannot handle.

Proving found two places where a module was wrong. `AgentConsumer!PlaceOfEntry` had
overlapping cases, of which a CASE may choose either, so that the mapping was not one. And
`ReportRaises` did not cover the warning a first requeue captures (`agents/base.py:214`),
which may raise after the entry was requeued and before it is acknowledged.

## 7. Not modelled

Vector search, embeddings, prompts and verdicts (external and without a protocol),
rendering and sessions, parsing and sanitizing of texts, and the floating-point statistics
of the oracle and the backtest. The improver, the researcher and the trade sampler read
what others keep and write reports only they read. The deletion of rows by age is modelled
where others depend on those rows (post-mortem, configuration, graph) and not elsewhere.

External services are reduced to what the code distinguishes: a venue took an order,
refused it, or raised after taking it; a model answered, failed or ran out of quota; a
database call succeeded or raised; Telegram joined, refused or asked to wait.
