--------------------------- MODULE PositionLifecycle ---------------------------
(***************************************************************************)
(* How an open position is watched and closed: the two loops each start of *)
(* plata/agents/position_monitor.py makes, the adjustments they suggest or *)
(* apply, the dashboard's decide, manual close and reset                   *)
(* (plata/dashboard/routes/proposals.py, trades.py, controls.py), and the  *)
(* reviewer (plata/agents/reviewer.py), which alone writes an exit into    *)
(* the ledger, the reset apart.                                            *)
(*                                                                         *)
(* Everyone looks whether the trade is open, does something slow (a model, *)
(* a ticker) and publishes a closure; nobody looks again.  Trades come     *)
(* from TradePipeline and are open to begin with.                          *)
(***************************************************************************)
EXTENDS Naturals, Sequences, FiniteSets

CONSTANTS
  Trades,
  MaxMonitors, \* bound of the model: PositionMonitor objects alive in one process
  Clicks,      \* concurrent decide and manual-close requests
  MaxPending,  \* bound of the model: closures waiting for the reviewer
  MaxRows,     \* bound of the model: adjustment rows
  MaxFaults    \* bound of the model: failed calls and handlers, crashes, kills

ASSUME PositionAssumption ==
  MaxMonitors \in Nat /\ MaxPending \in Nat /\ MaxRows \in Nat /\ MaxFaults \in Nat

VARIABLES
  exit,     \* per trade: "open" or the reason in the ledger
  hit,      \* trades whose price is known and calls for a close
  monitor,  \* the agent task: "up", or "down" until it is started again
  watch,    \* per loop of a monitor: the rows it read, and where it is
  rows,     \* the adjustment rows of the proposals table
  click,    \* the dashboard's requests
  reset,    \* the reset request: the rows it read, and where it is
  pending,  \* trade_closures, what the reviewer's group has not taken
  review,   \* the closure the reviewer's handler has, or Nothing
  dead,     \* closures in the dead-letter queue
  nfaults

vars == <<exit, hit, monitor, watch, rows, click, reset, pending, review, dead, nfaults>>

Monitors == 1 .. MaxMonitors
Periodic == {<<m, "periodic">> : m \in Monitors}
Events   == {<<m, "event">> : m \in Monitors}
Loops    == Periodic \cup Events
Reasons == {"monitor", "user"}   \* the loops' own, or a person's through the dashboard
Closure == [t : Trades, reason : Reasons]
Sorts   == {"event", "offtrack"}   \* adjustment_kind
Row     == [t : Trades, kind : Sorts,
            state : {"adjustment_suggested", "decided"}]   \* decided: executed or rejected
NoRow   == 0
Idle    == [pc |-> "idle"]
Off     == [pc |-> "off", todo |-> {}]
Ready   == [pc |-> "idle", todo |-> {}]
Ended   == [pc |-> "ended", todo |-> {}]
Nothing == [t |-> "none", reason |-> "none"]   \* the reviewer is waiting

TypeOK ==
  /\ exit \in [Trades -> {"open"} \cup Reasons]
  /\ hit \subseteq Trades
  /\ monitor \in {"up", "down"}
  /\ \A k \in Loops :
       /\ watch[k].todo \subseteq Trades
       /\ watch[k].pc \in {"off", "ended", "idle", "scanning", "asking", "applying"}
       /\ watch[k].pc \in {"asking", "applying"} =>
            watch[k].t \in Trades /\ watch[k].kind \in Sorts
  /\ rows \in Seq(Row) /\ Len(rows) <= MaxRows
  /\ \A c \in Clicks :
       \/ click[c] = Idle
       \/ /\ click[c].pc \in {"looking", "publishing", "noting"}
          /\ click[c].t \in Trades /\ click[c].row \in 0 .. Len(rows)
  /\ reset.rows \subseteq Trades /\ reset.pc \in {"idle", "marking", "publishing"}
  /\ pending \in Seq(Closure) /\ Len(pending) <= MaxPending
  /\ review \in Closure \cup {Nothing}
  /\ dead \subseteq Closure
  /\ nfaults \in 0 .. MaxFaults

Init ==
  /\ exit = [t \in Trades |-> "open"]
  /\ hit = {}
  /\ monitor = "down"
  /\ watch = [k \in Loops |-> Off]
  /\ rows = <<>>
  /\ click = [c \in Clicks |-> Idle]
  /\ reset = [pc |-> "idle", rows |-> {}]
  /\ pending = <<>> /\ review = Nothing /\ dead = {}
  /\ nfaults = 0

Publish(t, reason) ==
  /\ Len(pending) < MaxPending
  /\ pending' = Append(pending, [t |-> t, reason |-> reason])

\* Prices move, rules are set, time passes.
Move(t) ==
  /\ hit' = IF t \in hit THEN hit \ {t} ELSE hit \cup {t}
  /\ UNCHANGED <<exit, monitor, watch, rows, click, reset, pending, review, dead, nfaults>>

-----------------------------------------------------------------------------
(***************************************************************************)
(* The position monitor.                                                   *)
(***************************************************************************)

\* A container starts the monitor, and _supervise makes a new one after a crash of its run:
\* setup creates the two tasks, bare.
StartMonitor(m) ==
  /\ monitor = "down"
  /\ \A k \in Loops : watch[k] = Off <=> k[1] >= m
  /\ monitor' = "up"
  /\ watch' = [k \in Loops |-> IF k[1] = m THEN Ready ELSE watch[k]]
  /\ UNCHANGED <<exit, hit, rows, click, reset, pending, review, dead, nfaults>>

\* Its halt subscriber raises, and the run with it; the loops go on.
MonitorCrashes ==
  /\ monitor = "up"
  /\ nfaults < MaxFaults
  /\ nfaults' = nfaults + 1
  /\ monitor' = "down"
  /\ UNCHANGED <<exit, hit, watch, rows, click, reset, pending, review, dead>>

MonitorKilled ==
  /\ nfaults < MaxFaults
  /\ nfaults' = nfaults + 1
  /\ monitor' = "down"
  /\ watch' = [k \in Loops |-> Off]
  /\ UNCHANGED <<exit, hit, rows, click, reset, pending, review, dead>>

\* The read of risk_config before a round, or the number made of its interval, is outside
\* the try of the periodic loop: one that fails ends the task for good.
LoopEnds(k) ==
  /\ watch[k].pc = "idle"
  /\ nfaults < MaxFaults
  /\ nfaults' = nfaults + 1
  /\ watch' = [watch EXCEPT ![k] = Ended]
  /\ UNCHANGED <<exit, hit, monitor, rows, click, reset, pending, review, dead>>

OpenTrades == {t \in Trades : exit[t] = "open"}

HasSuggestion(t) ==
  \E i \in DOMAIN rows : rows[i].t = t /\ rows[i].state = "adjustment_suggested"

\* Broken variant of Watched: a trade somebody is to decide about is left alone.
WatchedUndecided == {t \in OpenTrades : ~ HasSuggestion(t)}

Watched == OpenTrades

\* _check_all_open reads every open trade, _handle_event those the event touches.
Scan(k) ==
  /\ watch[k].pc = "idle"
  /\ \E targets \in IF k \in Periodic THEN {Watched} ELSE SUBSET Watched :
       /\ targets # {}
       /\ watch' = [watch EXCEPT ![k] = [pc |-> "scanning", todo |-> targets]]
  /\ UNCHANGED <<exit, hit, monitor, rows, click, reset, pending, review, dead, nfaults>>

\* The loop is through with t.
Done(k, t) ==
  LET todo == watch[k].todo \ {t} IN
  watch' = [watch EXCEPT ![k] = [pc |-> IF todo = {} THEN "idle" ELSE "scanning", todo |-> todo]]

\* A rule, the stop loss, the take profit or the maximum age, by the price of now
\* and the row of the scan; at every round until the reviewer wrote the exit.
CloseAtThreshold(k, t) ==
  /\ watch[k].pc = "scanning" /\ t \in watch[k].todo
  /\ t \in hit
  /\ Publish(t, "monitor")
  /\ Done(k, t)
  /\ UNCHANGED <<exit, hit, monitor, rows, click, reset, review, dead, nfaults>>

\* Untracked, on track, drifting, or off track within the cooldown.
LeaveAlone(k, t) ==
  /\ watch[k].pc = "scanning" /\ t \in watch[k].todo
  /\ t \notin hit
  /\ Done(k, t)
  /\ UNCHANGED <<exit, hit, monitor, rows, click, reset, pending, review, dead, nfaults>>

\* A read or the publication fails: the round goes on with the next trade, the event ends.
CheckFails(k, t) ==
  /\ watch[k].pc = "scanning" /\ t \in watch[k].todo
  /\ nfaults < MaxFaults
  /\ nfaults' = nfaults + 1
  /\ IF k \in Periodic THEN Done(k, t) ELSE watch' = [watch EXCEPT ![k] = Ready]
  /\ UNCHANGED <<exit, hit, monitor, rows, click, reset, pending, review, dead>>

Ask(k, t, kind) ==
  /\ watch[k].pc = "scanning" /\ t \in watch[k].todo
  /\ watch' = [watch EXCEPT ![k] =
                 [pc |-> "asking", todo |-> watch[k].todo, t |-> t, kind |-> kind]]
  /\ UNCHANGED <<exit, hit, monitor, rows, click, reset, pending, review, dead, nfaults>>

\* _event_llm: no look for a suggestion that waits.
AskAboutEvent(k, t) == Ask(k, t, "event")

\* _offtrack_llm looks for a suggestion that waits, among the newest fifty, and never stops
\* for one: the line that logs it reads a column Proposal does not have, and the except
\* around the look, there for a failed query, goes on to ask.
AskOffTrack(k, t) == t \notin hit /\ Ask(k, t, "offtrack")

\* The model says hold, fails, or the row cannot be written.
Hold(k) ==
  /\ watch[k].pc = "asking"
  /\ Done(k, watch[k].t)
  /\ UNCHANGED <<exit, hit, monitor, rows, click, reset, pending, review, dead, nfaults>>

RowState(auto) == IF auto THEN "decided" ELSE "adjustment_suggested"

\* _record_adjustment: the row says executed before anything is; only a close goes on.
RecordAdjustment(k) ==
  /\ watch[k].pc = "asking"
  /\ Len(rows) < MaxRows
  /\ \E auto \in BOOLEAN, close \in BOOLEAN :
       /\ rows' = Append(rows, [t |-> watch[k].t, kind |-> watch[k].kind,
                                state |-> RowState(auto)])
       /\ IF auto /\ close THEN watch' = [watch EXCEPT ![k].pc = "applying"]
          ELSE Done(k, watch[k].t)
  /\ UNCHANGED <<exit, hit, monitor, click, reset, pending, review, dead, nfaults>>

\* _apply_adjustment: without a price nothing is published.
ApplyAdjustment(k) ==
  /\ watch[k].pc = "applying"
  /\ Publish(watch[k].t, "monitor") \/ UNCHANGED pending
  /\ Done(k, watch[k].t)
  /\ UNCHANGED <<exit, hit, monitor, rows, click, reset, review, dead, nfaults>>

-----------------------------------------------------------------------------
(***************************************************************************)
(* The dashboard.                                                          *)
(***************************************************************************)

Set(c, pc) == click' = [click EXCEPT ![c].pc = pc]

\* decide, on a row that is a suggestion.
DecideApprove(c, i) ==
  /\ click[c] = Idle
  /\ rows[i].state = "adjustment_suggested"
  /\ click' = [click EXCEPT ![c] = [pc |-> "looking", t |-> rows[i].t, row |-> i]]
  /\ UNCHANGED <<exit, hit, monitor, watch, rows, reset, pending, review, dead, nfaults>>

\* update_state of a second request may come in between: it is overwritten.
DecideReject(i) ==
  /\ rows[i].state = "adjustment_suggested"
  /\ rows' = [rows EXCEPT ![i].state = "decided"]
  /\ UNCHANGED <<exit, hit, monitor, watch, click, reset, pending, review, dead, nfaults>>

\* The close button of a trade.
ManualClose(c, t) ==
  /\ click[c] = Idle
  /\ click' = [click EXCEPT ![c] = [pc |-> "looking", t |-> t, row |-> NoRow]]
  /\ UNCHANGED <<exit, hit, monitor, watch, rows, reset, pending, review, dead, nfaults>>

\* Broken variant of StillOpen: the exit price is not looked at.
StillOpenAlways(t) == TRUE

StillOpen(t) == exit[t] = "open"

Look(c) ==
  /\ click[c].pc = "looking"
  /\ StillOpen(click[c].t)
  /\ Set(c, "publishing")
  /\ UNCHANGED <<exit, hit, monitor, watch, rows, reset, pending, review, dead, nfaults>>

\* update_state at the end of decide; the close button has no row.
Note(c) ==
  /\ rows' = IF click[c].row = NoRow THEN rows
             ELSE [rows EXCEPT ![click[c].row].state = "decided"]
  /\ click' = [click EXCEPT ![c] = Idle]

\* The trade is closed, or no price is known.
Refuse(c) ==
  /\ \/ click[c].pc = "looking" /\ ~ StillOpen(click[c].t)
     \/ click[c].pc = "publishing"
  /\ Note(c)
  /\ UNCHANGED <<exit, hit, monitor, watch, reset, pending, review, dead, nfaults>>

PublishManual(c) ==
  /\ click[c].pc = "publishing"
  /\ Publish(click[c].t, "user")
  /\ Set(c, "noting")
  /\ UNCHANGED <<exit, hit, monitor, watch, rows, reset, review, dead, nfaults>>

\* A scale_up publishes a proposal, which is TradePipeline's.
ScaleUp(c) ==
  /\ click[c].pc = "publishing" /\ click[c].row # NoRow
  /\ Set(c, "noting")
  /\ UNCHANGED <<exit, hit, monitor, watch, rows, reset, pending, review, dead, nfaults>>

\* "executed"; "rejected" when the message to the dashboard cannot be sent.
NoteDecided(c) ==
  /\ click[c].pc = "noting"
  /\ Note(c)
  /\ UNCHANGED <<exit, hit, monitor, watch, reset, pending, review, dead, nfaults>>

\* The reset reads the open trades, looks up a mark for each, and commits.
ResetRead ==
  /\ reset.pc = "idle" /\ OpenTrades # {}
  /\ reset' = [pc |-> "marking", rows |-> OpenTrades]
  /\ UNCHANGED <<exit, hit, monitor, watch, rows, click, pending, review, dead, nfaults>>

ResetCommit ==
  /\ reset.pc = "marking"
  /\ exit' = [t \in Trades |-> IF t \in reset.rows THEN "user" ELSE exit[t]]
  /\ reset' = [reset EXCEPT !.pc = "publishing"]
  /\ UNCHANGED <<hit, monitor, watch, rows, click, pending, review, dead, nfaults>>

\* A closure that cannot be published is skipped.
ResetPublish(t) ==
  /\ reset.pc = "publishing" /\ t \in reset.rows
  /\ Publish(t, "user") \/ UNCHANGED pending
  /\ reset' = [rows |-> reset.rows \ {t}, pc |-> IF reset.rows = {t} THEN "idle" ELSE "publishing"]
  /\ UNCHANGED <<exit, hit, monitor, watch, rows, click, review, dead, nfaults>>

-----------------------------------------------------------------------------
(***************************************************************************)
(* The reviewer.                                                           *)
(***************************************************************************)

TakeClosure ==
  /\ review = Nothing /\ pending # <<>>
  /\ review' = Head(pending)
  /\ pending' = Tail(pending)
  /\ UNCHANGED <<exit, hit, monitor, watch, rows, click, reset, dead, nfaults>>

\* UPDATE ... WHERE trade_ulid, whether it has an exit or not.
Updated == [exit EXCEPT ![review.t] = review.reason]

\* The update, then the verdict, the graph and the statistics, which are not modelled.
Review ==
  /\ review # Nothing
  /\ exit' = Updated
  /\ review' = Nothing
  /\ UNCHANGED <<hit, monitor, watch, rows, click, reset, pending, dead, nfaults>>

\* An exception, before the update or after it: dead letter.
ReviewFails ==
  /\ review # Nothing
  /\ nfaults < MaxFaults
  /\ nfaults' = nfaults + 1
  /\ exit' \in {exit, Updated}
  /\ dead' = dead \cup {review}
  /\ review' = Nothing
  /\ UNCHANGED <<hit, monitor, watch, rows, click, reset, pending>>

\* The process dies with the closure in hand: AgentConsumer, nobody gets it again.
ReviewerKilled ==
  /\ review # Nothing
  /\ nfaults < MaxFaults
  /\ nfaults' = nfaults + 1
  /\ exit' \in {exit, Updated}
  /\ review' = Nothing
  /\ UNCHANGED <<hit, monitor, watch, rows, click, reset, pending, dead>>

Replay(c) ==
  /\ c \in dead
  /\ Publish(c.t, c.reason)
  /\ dead' = dead \ {c}
  /\ UNCHANGED <<exit, hit, monitor, watch, rows, click, reset, review, nfaults>>

-----------------------------------------------------------------------------
Step(k) ==
  \/ Scan(k)
  \/ \E t \in Trades :
       \/ /\ k \in Periodic
          /\ CloseAtThreshold(k, t) \/ LeaveAlone(k, t) \/ AskOffTrack(k, t)
       \/ k \in Events /\ AskAboutEvent(k, t)
  \/ Hold(k) \/ RecordAdjustment(k) \/ ApplyAdjustment(k)

MonitorStep ==
  \/ \E m \in Monitors : StartMonitor(m)
  \/ MonitorCrashes \/ MonitorKilled
  \/ \E k \in Loops : Step(k) \/ \E t \in Trades : CheckFails(k, t)
  \/ \E k \in Periodic : LoopEnds(k)

ReviewStep == TakeClosure \/ Review

Click(c) ==
  \/ \E i \in DOMAIN rows : DecideApprove(c, i)
  \/ \E t \in Trades : ManualClose(c, t)
  \/ Look(c) \/ Refuse(c) \/ PublishManual(c) \/ ScaleUp(c)
  \/ NoteDecided(c)

Next ==
  \/ \E t \in Trades : Move(t) \/ ResetPublish(t)
  \/ MonitorStep
  \/ \E c \in Clicks : Click(c)
  \/ \E i \in DOMAIN rows : DecideReject(i)
  \/ ResetRead \/ ResetCommit
  \/ ReviewStep \/ ReviewFails \/ ReviewerKilled
  \/ \E c \in dead : Replay(c)

\* A periodic loop that has not ended goes round, the reviewer runs and its calls end, and
\* supervisor and container restart them; nobody promises events, clicks or replays.
\* A halt stops the loops (HaltControl): here the system is taken to be running.
FairSpec ==
  /\ Init /\ [][Next]_vars
  /\ \A k \in Periodic : WF_vars(Step(k))
  /\ WF_vars(\E m \in Monitors : StartMonitor(m))
  /\ WF_vars(ReviewStep)

-----------------------------------------------------------------------------
(***************************************************************************)
(* Properties.                                                             *)
(***************************************************************************)

\* Somebody saw t open and may publish a closure or an exit for it.
InHand(t) ==
  \/ \E k \in Loops : t \in watch[k].todo
  \/ \E c \in Clicks : click[c] # Idle /\ click[c].pc = "publishing" /\ click[c].t = t
  \/ t \in reset.rows
  \/ review # Nothing /\ review.t = t
  \/ \E i \in DOMAIN pending : pending[i].t = t
  \/ \E c \in dead : c.t = t

\* A closed trade settles: once those who saw it open and the closures on their way
\* are through, its exit does not change and nobody takes it in hand again
\* (proposals.py:296, trades.py:281, position_monitor.py:203), so the profit shown
\* for it is final.
ClosedSettles ==
  [][\A t \in Trades :
       exit[t] # "open" /\ ~ InHand(t) => exit'[t] = exit[t] /\ ~ InHand(t)']_vars

\* No periodic loop is alive.
Unwatched == \A k \in Periodic : watch[k].pc \in {"off", "ended"}

\* A trade whose price stays beyond its stop is closed in the end, even when the reviewer
\* loses the closure, a round fails or the monitor crashes or is killed, since every round
\* publishes again (position_monitor.py:313-330): unless the loop itself has ended.
StopCloses ==
  \A t \in Trades : <>[](t \in hit /\ ~ Unwatched) => <>(exit[t] # "open")

\* entrypoints.py:65-72, "Run an agent coroutine FOREVER ... Each agent is now self-healing":
\* StopCloses without its exception.
StopAlwaysCloses == \A t \in Trades : <>[](t \in hit) => <>(exit[t] # "open")

\* position_monitor.py:468-471, "if there's already an open adjustment_suggested for this
\* trade, don't create another one".
OneSuggestion ==
  \A i, j \in DOMAIN rows :
    /\ i < j /\ rows[i].t = rows[j].t /\ rows[j].kind = "offtrack"
    => "decided" \in {rows[i].state, rows[j].state}
=============================================================================
