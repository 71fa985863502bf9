----------------------------- MODULE TradePipeline -----------------------------
(***************************************************************************)
(* From a proposal to a trade: the risk manager                            *)
(* (plata/agents/risk_manager.py), human approval (ApprovalStore), the     *)
(* executor (plata/agents/executor.py), the proposals table                *)
(* (plata/core/proposals.py), the ledger, and the dashboard's resubmit     *)
(* (plata/dashboard/routes/proposals.py).                                  *)
(*                                                                         *)
(* The risk manager and the executor each handle one message at a time;    *)
(* between two awaits of one, anything the others do may happen.  Streams  *)
(* are logs with a read position: AgentConsumer shows what can happen to   *)
(* one message, here it is lost to a kill or comes a second time.  Money   *)
(* is counted in whole units of notional.                                  *)
(***************************************************************************)
EXTENDS ApprovalStore, Sequences, FiniteSetsExt

CONSTANTS
  Clones,      \* proposals the dashboard makes by resubmitting another one
  SymbolOf,    \* proposal -> symbol
  SideOf,      \* proposal -> side
  Want,        \* proposal -> notional the sizing asks for
  Baseline,    \* account_baseline_equity_usd
  Threshold,   \* auto_approve_threshold_usd
  MaxOpen,     \* max_open_positions
  Window,      \* newest trading_proposals entries _load_proposal searches (500)
  FaultKinds,  \* the disturbances of this instance, a subset of AllFaults
  MaxFaults    \* bound of the model: disturbances in one behaviour

AllFaults ==
  { "kill",    \* the risk manager or the executor dies while it handles
    "dberror", \* a database call raises
    "replay",  \* a proposal is delivered a second time (dead-letter replay)
    "drift",   \* the fill price is not the price of the sizing, or unknown
    "timeout" }\* the venue takes the order, the call raises

ASSUME PipelineAssumption ==
  /\ Clones \subseteq Proposals
  /\ Want \in [Proposals -> Nat \ {0}]
  /\ Baseline \in Nat \ {0}
  /\ Threshold \in Nat
  /\ MaxOpen \in Nat
  /\ Window \in Nat
  /\ FaultKinds \subseteq AllFaults
  /\ MaxFaults \in Nat

VARIABLES
  log,       \* trading_proposals
  rpos,      \* the risk manager took the entries up to this one
  risk,      \* the handler of the risk manager
  rows,      \* the proposals table: state, per proposal
  unrecorded,\* the strategist published these and has not written the row
  clone,     \* the dashboard's resubmit requests
  approved,  \* approved_trades: sequence of [p, size]
  epos,      \* the executor took the entries up to this one
  exec,      \* the handler of the executor
  ledger,    \* trade ledger: sequence of [p, notional, open]
  orders,    \* history: live orders the venue took, per proposal
  blind,     \* history: a size was fixed that the ledger does not show as it is: before
             \* the executor's insert, unread, at another price, or by an override
  happened, nfaults

streamVars == <<log, approved>>
riskVars   == <<rpos, risk>>
execVars   == <<epos, exec, ledger, orders>>
tableVars  == <<rows, unrecorded, clone>>
histVars   == <<blind, happened, nfaults>>
vars == <<approvalVars, streamVars, riskVars, execVars, tableVars, histVars>>

RowStates == {"absent", "published", "rejected", "pending_hitl", "hitl_approved",
              "hitl_rejected", "approved", "executed", "manual_override"}
Decision  == [p : Proposals, size : Nat]
Trade     == [p : Proposals, notional : Nat, open : BOOLEAN]
Idle      == [pc |-> "idle"]
RiskCall  == [pc : {"sizing", "rejecting", "requesting", "listing", "waiting", "answered",
                    "approving", "noting"},
              p : Proposals, nopen : Nat, size : Nat, yes : {"unset", "yes", "no"}]
ExecCall  == [pc : {"ordering", "inserting", "noting"}, p : Proposals, size : Nat]
CloneCall == [pc : {"recording", "noting", "linking", "linked", "approving", "done"},
              src : Proposals, bypass : BOOLEAN, parent : RowStates]
Fresh     == [pc |-> "unused"]

StreamType ==
  /\ log \in Seq(Proposals) /\ rpos \in 0 .. Len(log)
  /\ approved \in Seq(Decision) /\ epos \in 0 .. Len(approved)

HandlerType ==
  /\ risk \in RiskCall \cup {Idle}
  /\ exec \in ExecCall \cup {Idle}
  /\ clone \in [Clones -> CloneCall \cup {Fresh}]

BookType ==
  /\ rows \in [Proposals -> RowStates]
  /\ unrecorded \subseteq Proposals
  /\ ledger \in Seq(Trade)
  /\ orders \in [Proposals -> Nat]

HistoryType ==
  /\ blind \in BOOLEAN
  /\ happened \subseteq FaultKinds /\ nfaults \in 0 .. MaxFaults

TypeOK == ApprovalType /\ StreamType /\ HandlerType /\ BookType /\ HistoryType

Init ==
  /\ ApprovalInit
  /\ log = <<>> /\ rpos = 0 /\ approved = <<>> /\ epos = 0
  /\ risk = Idle /\ exec = Idle
  /\ clone = [c \in Clones |-> Fresh]
  /\ rows = [p \in Proposals |-> "absent"]
  /\ unrecorded = {}
  /\ ledger = <<>>
  /\ orders = [p \in Proposals |-> 0]
  /\ blind = FALSE /\ happened = {} /\ nfaults = 0

Disturb(kind) ==
  /\ kind \in FaultKinds
  /\ nfaults < MaxFaults
  /\ happened' = happened \cup {kind}
  /\ nfaults' = nfaults + 1

-----------------------------------------------------------------------------
(***************************************************************************)
(* The proposals table.                                                    *)
(***************************************************************************)

\* update_state: a missing row is skipped, any other state is overwritten.
UpdateState(p, state) ==
  rows' = IF rows[p] = "absent" THEN rows ELSE [rows EXCEPT ![p] = state]

\* record_published: INSERT ... ON CONFLICT DO NOTHING.
RecordPublished(p) ==
  rows' = IF rows[p] = "absent" THEN [rows EXCEPT ![p] = "published"] ELSE rows

InLog(p) == \E i \in 1 .. Len(log) : log[i] = p

\* The strategist publishes first and records the row afterwards.
Publish(p) ==
  /\ p \notin Clones
  /\ ~ InLog(p)
  /\ log' = Append(log, p)
  /\ unrecorded' = unrecorded \cup {p}
  /\ UNCHANGED <<approvalVars, approved, riskVars, execVars, rows, clone, histVars>>

Record(p) ==
  /\ p \in unrecorded
  /\ RecordPublished(p)
  /\ unrecorded' = unrecorded \ {p}
  /\ UNCHANGED <<approvalVars, streamVars, riskVars, execVars, clone, histVars>>

\* A dead letter of the proposal is replayed, or it was handled and dead-lettered
\* both (AgentConsumer): the risk manager gets it again.
Redeliver(p) ==
  /\ \E i \in 1 .. rpos : log[i] = p
  /\ Disturb("replay")
  /\ log' = Append(log, p)
  /\ UNCHANGED <<approvalVars, approved, riskVars, execVars, tableVars, blind>>

-----------------------------------------------------------------------------
(***************************************************************************)
(* The risk manager: one handle() at a time.                               *)
(***************************************************************************)

OpenTrades == {i \in DOMAIN ledger : ledger[i].open}

\* A decision the ledger does not show yet.
Overlap == epos < Len(approved) \/ exec.pc \in {"ordering", "inserting"}

\* A query of the open trades: both of handle()'s go on with nothing when it raises.
ReadLedger(open) ==
  \/ /\ open = OpenTrades
     /\ blind' = (blind \/ Overlap)
     /\ UNCHANGED <<happened, nfaults>>
  \/ /\ open = {}
     /\ Disturb("dberror")
     /\ blind' = TRUE

\* update_state as the handlers call it: what it raises is swallowed.
TryUpdate(p, state) ==
  \/ UpdateState(p, state) /\ UNCHANGED histVars
  \/ Disturb("dberror") /\ UNCHANGED <<rows, blind>>

\* The trade i rules the proposal out: guard_block_opposing_side ...
Opposing(p, i) == SymbolOf[ledger[i].p] = SymbolOf[p] /\ SideOf[ledger[i].p] # SideOf[p]

\* Broken variant of Holding: the guard is switched off.
HoldingOff(p, i) == FALSE

\* ... and guard_one_per_symbol_side.  The guards on the triggering event, on the
\* category and on the cooldown look at open trades too, at fields the executor
\* never writes or at a symbol these two have ruled out: they never reject.
Holding(p, i) == SymbolOf[ledger[i].p] = SymbolOf[p] /\ SideOf[ledger[i].p] = SideOf[p]

Handling(p, pc, nopen, size) ==
  [pc |-> pc, p |-> p, nopen |-> nopen, size |-> size, yes |-> "unset"]

\* The guards that ask nothing of the ledger: universe, conviction floor.
RejectOutright ==
  /\ risk = Idle /\ rpos < Len(log)
  /\ rpos' = rpos + 1
  /\ risk' = Handling(log[rpos + 1], "rejecting", 0, 0)
  /\ UNCHANGED <<approvalVars, streamVars, execVars, tableVars, histVars>>

Guard ==
  /\ risk = Idle /\ rpos < Len(log)
  /\ rpos' = rpos + 1
  /\ \E open \in {OpenTrades, {}} :
       /\ ReadLedger(open)
       /\ LET p == log[rpos + 1]
              ruledOut == \E i \in open : Opposing(p, i) \/ Holding(p, i)
          IN  risk' = Handling(p, IF ruledOut THEN "rejecting" ELSE "sizing", Cardinality(open), 0)
  /\ UNCHANGED <<approvalVars, streamVars, execVars, tableVars>>

\* max_open_positions, by the ledger's count or by the venue's, or a guard outside
\* this model: sector cap, no price feed, quantity below the minimum.
RejectUnsized ==
  /\ risk.pc = "sizing"
  /\ risk' = [risk EXCEPT !.pc = "rejecting"]
  /\ UNCHANGED <<approvalVars, streamVars, rpos, execVars, tableVars, histVars>>

Notional(open) == MapThenSumSet(LAMBDA i : ledger[i].notional, open)

Fits(size, used) == used + size <= Baseline

\* Broken variant of Clamps: the cap looks at this position alone.
ClampsUnsummed(size, p, open) ==
  /\ size = 0 \/ Fits(size, 0)
  /\ \A more \in size + 1 .. Want[p] : ~ Fits(more, 0)

\* The wanted size, or what is left of the account when that is less.
Clamps(size, p, open) ==
  /\ size = 0 \/ Fits(size, Notional(open))
  /\ \A more \in size + 1 .. Want[p] : ~ Fits(more, Notional(open))

AfterSizing(size) ==
  CASE size = 0         -> "rejecting"
    [] size > Threshold -> "requesting"
    [] OTHER            -> "approving"

\* The count is the one of Guard's query; the notional is read anew.
Size ==
  /\ risk.pc = "sizing"
  /\ risk.nopen < MaxOpen
  /\ \E open \in {OpenTrades, {}} : \E size \in 0 .. Want[risk.p] :
       /\ ReadLedger(open)
       /\ Clamps(size, risk.p, open)
       /\ risk' = [risk EXCEPT !.pc = AfterSizing(size), !.size = size]
  /\ UNCHANGED <<approvalVars, streamVars, rpos, execVars, tableVars>>

\* _reject: the decision goes to risk_decisions, which nobody reads, then the row.
Reject ==
  /\ risk.pc = "rejecting"
  /\ TryUpdate(risk.p, "rejected")
  /\ risk' = Idle
  /\ UNCHANGED <<approvalVars, streamVars, rpos, execVars, unrecorded, clone>>

\* The request is out before the row says so, and before anybody listens.
Request ==
  /\ risk.pc = "requesting"
  /\ CreatePending(risk.p)
  /\ risk' = [risk EXCEPT !.pc = "listing"]
  /\ UNCHANGED <<streamVars, rpos, execVars, tableVars, histVars>>

Listen ==
  /\ risk.pc = "listing"
  /\ TryUpdate(risk.p, "pending_hitl")
  /\ risk' = [risk EXCEPT !.pc = "waiting"]
  /\ UNCHANGED <<approvalVars, streamVars, rpos, execVars, unrecorded, clone>>

OnTimeout == "no"

\* Broken variant of Timeout: the wait ends once somebody resolved the request.
TimeoutResolved ==
  /\ risk.pc = "waiting"
  /\ status[risk.p] # "pending"
  /\ risk' = [risk EXCEPT !.pc = "answered", !.yes = OnTimeout]
  /\ UNCHANGED <<approvalVars, streamVars, rpos, execVars, tableVars, histVars>>

\* wait_for: half an hour passed.
Timeout ==
  /\ risk.pc = "waiting"
  /\ risk' = [risk EXCEPT !.pc = "answered", !.yes = OnTimeout]
  /\ UNCHANGED <<approvalVars, streamVars, rpos, execVars, tableVars, histVars>>

\* Broken variant of NoteAnswer: a refusal is written down and then forgotten.
NoteAnswerGoesOn ==
  /\ risk.pc = "answered"
  /\ TryUpdate(risk.p, IF risk.yes = "yes" THEN "hitl_approved" ELSE "hitl_rejected")
  /\ risk' = [risk EXCEPT !.pc = "approving"]
  /\ UNCHANGED <<approvalVars, streamVars, rpos, execVars, unrecorded, clone>>

NoteAnswer ==
  /\ risk.pc = "answered"
  /\ TryUpdate(risk.p, IF risk.yes = "yes" THEN "hitl_approved" ELSE "hitl_rejected")
  /\ risk' = IF risk.yes = "yes" THEN [risk EXCEPT !.pc = "approving"] ELSE Idle
  /\ UNCHANGED <<approvalVars, streamVars, rpos, execVars, unrecorded, clone>>

\* approved_trades, and only then the row.
Approve ==
  /\ risk.pc = "approving"
  /\ approved' = Append(approved, [p |-> risk.p, size |-> risk.size])
  /\ risk' = [risk EXCEPT !.pc = "noting"]
  /\ UNCHANGED <<approvalVars, log, rpos, execVars, tableVars, histVars>>

NoteApproved ==
  /\ risk.pc = "noting"
  /\ TryUpdate(risk.p, "approved")
  /\ risk' = Idle
  /\ UNCHANGED <<approvalVars, streamVars, rpos, execVars, unrecorded, clone>>

RiskKilled ==
  /\ risk # Idle
  /\ Disturb("kill")
  /\ risk' = Idle
  /\ UNCHANGED <<approvalVars, streamVars, rpos, execVars, tableVars, blind>>

-----------------------------------------------------------------------------
(***************************************************************************)
(* The operators.                                                          *)
(***************************************************************************)

Decide(o, p, answer) ==
  /\ ResolveRead(o, p, answer)
  /\ UNCHANGED <<streamVars, riskVars, execVars, tableVars, histVars>>

Flip(o) ==
  /\ ResolveWrite(o)
  /\ UNCHANGED <<streamVars, riskVars, execVars, tableVars, histVars>>

\* Broken variant of Hears: any proposal's answer will do.
HearsAll(p) == risk.pc = "waiting"

Hears(p) == risk.pc = "waiting" /\ risk.p = p

\* The first answer the waiting risk manager hears ends its wait.
Answer(o) ==
  /\ ResolvePublish(o)
  /\ risk' = IF Hears(resolver[o].p)
             THEN [risk EXCEPT !.pc = "answered",
                               !.yes = IF resolver[o].answer = "approved" THEN "yes" ELSE "no"]
             ELSE risk
  /\ UNCHANGED <<streamVars, rpos, execVars, tableVars, histVars>>

-----------------------------------------------------------------------------
(***************************************************************************)
(* The executor: one handle() at a time.                                   *)
(***************************************************************************)

\* _load_proposal looks through the newest entries only.
Findable(p) == \E i \in 1 .. Len(log) : i + Window > Len(log) /\ log[i] = p

\* A decision without its proposal is dropped.
DropDecision ==
  /\ exec = Idle /\ epos < Len(approved)
  /\ ~ Findable(approved[epos + 1].p)
  /\ epos' = epos + 1
  /\ UNCHANGED <<approvalVars, streamVars, riskVars, exec, ledger, orders, tableVars, histVars>>

\* Paper mode, and a venue without a client, skip the order.
TakeDecision ==
  /\ exec = Idle /\ epos < Len(approved)
  /\ Findable(approved[epos + 1].p)
  /\ epos' = epos + 1
  /\ \E pc \in {"ordering", "inserting"} :
       exec' = [pc |-> pc, p |-> approved[epos + 1].p, size |-> approved[epos + 1].size]
  /\ UNCHANGED <<approvalVars, streamVars, riskVars, ledger, orders, tableVars, histVars>>

Ordered == orders' = [orders EXCEPT ![exec.p] = @ + 1]

PlaceOrder ==
  /\ exec.pc = "ordering"
  /\ Ordered
  /\ exec' = [exec EXCEPT !.pc = "inserting"]
  /\ UNCHANGED <<approvalVars, streamVars, riskVars, epos, ledger, tableVars, histVars>>

\* The venue refuses the symbol or the region: the trade goes on on paper.
PaperFallback ==
  /\ exec.pc = "ordering"
  /\ exec' = [exec EXCEPT !.pc = "inserting"]
  /\ UNCHANGED <<approvalVars, streamVars, riskVars, epos, ledger, orders, tableVars, histVars>>

\* Broken variant of OrderFails: an exception after the venue took the order, say
\* while its answer is read, is treated like a refusal.
OrderFailsAfter ==
  /\ exec.pc = "ordering"
  /\ Ordered
  /\ exec' = Idle
  /\ UNCHANGED <<approvalVars, streamVars, riskVars, epos, ledger, tableVars, histVars>>

\* Any other exception of the venue is captured and the decision forgotten;
\* a timeout of the call may leave the order in place.
OrderFails ==
  /\ exec.pc = "ordering"
  /\ \/ UNCHANGED <<orders, histVars>>
     \/ Ordered /\ Disturb("timeout") /\ UNCHANGED blind
  /\ exec' = Idle
  /\ UNCHANGED <<approvalVars, streamVars, riskVars, epos, ledger, tableVars>>

\* The ledger's notional is quantity times fill price: zero when no price is known.
InsertLedger ==
  /\ exec.pc = "inserting"
  /\ \E notional \in {0, exec.size, exec.size + 1} :
       /\ ledger' = Append(ledger, [p |-> exec.p, notional |-> notional, open |-> TRUE])
       /\ IF notional = exec.size THEN UNCHANGED histVars
          ELSE Disturb("drift") /\ blind' = TRUE
  /\ exec' = [exec EXCEPT !.pc = "noting"]
  /\ UNCHANGED <<approvalVars, streamVars, riskVars, epos, orders, tableVars>>

InsertFails ==
  /\ exec.pc = "inserting"
  /\ Disturb("dberror")
  /\ exec' = Idle
  /\ UNCHANGED <<approvalVars, streamVars, riskVars, epos, ledger, orders, tableVars, blind>>

NoteExecuted ==
  /\ exec.pc = "noting"
  /\ TryUpdate(exec.p, "executed")
  /\ exec' = Idle
  /\ UNCHANGED <<approvalVars, streamVars, riskVars, epos, ledger, orders, unrecorded, clone>>

\* Broken variant of ExecKilled: the decision is taken again from the start.
ExecRetries ==
  /\ exec # Idle
  /\ Disturb("kill")
  /\ exec' = Idle
  /\ epos' = epos - 1
  /\ UNCHANGED <<approvalVars, streamVars, riskVars, ledger, orders, tableVars, blind>>

ExecKilled ==
  /\ exec # Idle
  /\ Disturb("kill")
  /\ exec' = Idle
  /\ UNCHANGED <<approvalVars, streamVars, riskVars, epos, ledger, orders, tableVars, blind>>

\* The reviewer writes the exit price of a trade.
CloseTrade(i) ==
  /\ ledger[i].open
  /\ ledger' = [ledger EXCEPT ![i].open = FALSE]
  /\ UNCHANGED <<approvalVars, streamVars, riskVars, epos, exec, orders, tableVars, histVars>>

-----------------------------------------------------------------------------
(***************************************************************************)
(* The dashboard's resubmit: clone a proposal, with or without the gates.  *)
(* Each step is one call; a monitor's scale_up goes the same way, without  *)
(* the link to a parent.                                                   *)
(***************************************************************************)

CloneTo(c, pc) == clone' = [clone EXCEPT ![c].pc = pc]

Resubmit(c, src, bypass) ==
  /\ clone[c] = Fresh
  /\ rows[src] # "absent"
  /\ log' = Append(log, c)
  /\ clone' = [clone EXCEPT ![c] =
       [pc |-> "recording", src |-> src, bypass |-> bypass, parent |-> "absent"]]
  /\ UNCHANGED <<approvalVars, approved, riskVars, execVars, rows, unrecorded, histVars>>

CloneRecord(c) ==
  /\ clone[c].pc = "recording"
  /\ RecordPublished(c)
  /\ CloneTo(c, "noting")
  /\ UNCHANGED <<approvalVars, streamVars, riskVars, execVars, unrecorded, histVars>>

\* update_state, whatever the risk manager and the executor wrote meanwhile.
CloneNote(c) ==
  /\ clone[c].pc = "noting"
  /\ UpdateState(c, IF clone[c].bypass THEN "manual_override" ELSE "published")
  /\ CloneTo(c, "linking")
  /\ UNCHANGED <<approvalVars, streamVars, riskVars, execVars, unrecorded, histVars>>

\* _append_child reads the parent and writes its state back.
CloneRead(c) ==
  /\ clone[c].pc = "linking"
  /\ clone' = [clone EXCEPT ![c].pc = "linked", ![c].parent = rows[clone[c].src]]
  /\ UNCHANGED <<approvalVars, streamVars, riskVars, execVars, rows, unrecorded, histVars>>

CloneLink(c) ==
  /\ clone[c].pc = "linked"
  /\ UpdateState(clone[c].src, clone[c].parent)
  /\ CloneTo(c, IF clone[c].bypass THEN "approving" ELSE "done")
  /\ UNCHANGED <<approvalVars, streamVars, riskVars, execVars, unrecorded, histVars>>

\* The default size of an override is one unit, whatever is left of the account.
CloneApprove(c) ==
  /\ clone[c].pc = "approving"
  /\ approved' = Append(approved, [p |-> c, size |-> 1])
  /\ blind' = TRUE
  /\ CloneTo(c, "done")
  /\ UNCHANGED <<approvalVars, log, riskVars, execVars, rows, unrecorded, happened, nfaults>>

-----------------------------------------------------------------------------
RiskStep ==
  \/ RejectOutright \/ Guard \/ RejectUnsized \/ Size \/ Reject
  \/ Request \/ Listen \/ Timeout \/ NoteAnswer \/ Approve \/ NoteApproved

ExecStep ==
  \/ DropDecision \/ TakeDecision \/ PlaceOrder \/ PaperFallback \/ OrderFails
  \/ InsertLedger \/ NoteExecuted

CloneStep(c) ==
  CloneRecord(c) \/ CloneNote(c) \/ CloneRead(c) \/ CloneLink(c) \/ CloneApprove(c)

OperatorStep(o) ==
  Flip(o) \/ Answer(o) \/ \E p \in Proposals, answer \in Answers : Decide(o, p, answer)

Next ==
  \/ \E p \in Proposals : Publish(p) \/ Record(p) \/ Redeliver(p)
  \/ RiskStep \/ RiskKilled
  \/ ExecStep \/ InsertFails \/ ExecKilled
  \/ \E i \in DOMAIN ledger : CloseTrade(i)
  \/ \E o \in Operators : OperatorStep(o)
  \/ \E c \in Clones :
       CloneStep(c) \/ \E src \in Proposals, bypass \in BOOLEAN : Resubmit(c, src, bypass)

Spec == Init /\ [][Next]_vars

\* Both agents run as asyncio tasks, their awaits end (the approval after half an
\* hour) and the supervisor restarts them.  Nobody promises that a human answers.
FairSpec == Spec /\ WF_vars(RiskStep) /\ WF_vars(ExecStep)

-----------------------------------------------------------------------------
(***************************************************************************)
(* Properties.                                                             *)
(***************************************************************************)

Undisturbed(kinds) == happened \cap kinds = {}

Bypassing == {c \in Clones : clone[c] # Fresh /\ clone[c].bypass}

\* The hard cap on open notional (risk_manager.py:333-367) holds as long as the
\* risk manager saw every trade when it decided: the trades of the ledger are all
\* it ever looks at, and they show a decision only after the executor's insert.
CapWhenSighted == ~ blind => Notional(OpenTrades) <= Baseline

\* So does one position per symbol (:233-255), even when a proposal comes twice.
OnePerSymbolWhenSighted ==
  ~ blind =>
    \A i, j \in OpenTrades : SymbolOf[ledger[i].p] = SymbolOf[ledger[j].p] => i = j

\* A trade above the threshold was opened because an operator approved it: a
\* timeout, a restart, a late answer or the answer to another proposal never does.
HumanApproved ==
  \A k \in 1 .. Len(approved) :
    approved[k].size > Threshold /\ approved[k].p \notin Bypassing => approved[k].p \in granted

\* A proposal the table shows as turned down was not traded, and the other way
\* round: a late answer of an operator revives nothing.
TurnedDownNotTraded ==
  Undisturbed({"replay"}) =>
    \A p \in Proposals \ Bypassing : rows[p] \in {"rejected", "hitl_rejected"} =>
      ~ \E i \in DOMAIN ledger : ledger[i].p = p

\* Unless it was delivered twice or overrides the gates, a proposal is traded once.
TradedOnce ==
  Undisturbed({"replay"}) =>
    \A p \in Proposals \ Bypassing : Cardinality({i \in DOMAIN ledger : ledger[i].p = p}) <= 1

\* A live order at the venue has its trade in the ledger, or gets it next.
OrdersOnTheBooks ==
  Undisturbed({"kill", "dberror", "timeout"}) =>
    \A p \in Proposals :
      orders[p] <= Cardinality({i \in DOMAIN ledger : ledger[i].p = p})
                   + (IF exec.pc = "inserting" /\ exec.p = p THEN 1 ELSE 0)

\* Every proposal on the stream gets its turn: no silent operator, and no trade
\* that fails, holds up the ones behind it.
EveryProposalConsidered ==
  \A k \in 1 .. Cardinality(Proposals) + MaxFaults :
    Len(log) >= k ~> rpos >= k /\ risk = Idle

\* risk_manager.py:333, "Hard cap: total open notional <= account_baseline_equity_usd",
\* with no failure, no price change and no resubmit.
HardCap ==
  Notional(OpenTrades) <= Baseline

\* dashboard/routes/proposals.py:448, "Skip risk_manager": the proposal of an
\* override is not rejected by it, and the executor gets one decision on it.
OverrideSkipsRisk ==
  \A c \in Bypassing :
    /\ rows[c] # "rejected"
    /\ Cardinality({k \in 1 .. Len(approved) : approved[k].p = c}) <= 1
=============================================================================
