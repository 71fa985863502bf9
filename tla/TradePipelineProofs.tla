-------------------------- MODULE TradePipelineProofs --------------------------
(***************************************************************************)
(* For every set of proposals and clones, every account, threshold, guard  *)
(* setting and pattern of disturbances: type correctness of TradePipeline, *)
(* no large trade without an approval, orders on the books, each proposal  *)
(* traded once and never after it was turned down, and one position per    *)
(* symbol and a capped total while the risk manager sees every trade.      *)
(***************************************************************************)
EXTENDS TradePipeline, SequenceTheorems, FiniteSetTheorems, WellFoundedInduction, TLAPS

-----------------------------------------------------------------------------
(***************************************************************************)
(* Which steps change what.                                                *)
(***************************************************************************)

LEMMA RiskChanges ==
  ASSUME [Next]_vars
  PROVE  \/ RejectOutright \/ Guard \/ RejectUnsized \/ Size \/ Reject \/ Request \/ Listen
         \/ Timeout \/ NoteAnswer \/ Approve \/ NoteApproved \/ RiskKilled
         \/ \E o \in Operators : Answer(o)
         \/ UNCHANGED <<rpos, risk>>
BY DEF Next, vars, riskVars, RiskStep, ExecStep, CloneStep, OperatorStep, Publish, Record, Redeliver,
       Decide, Flip, DropDecision, TakeDecision, PlaceOrder, PaperFallback, OrderFails,
       InsertLedger, InsertFails, NoteExecuted, ExecKilled, CloseTrade, Resubmit, CloneRecord,
       CloneNote, CloneRead, CloneLink, CloneApprove

LEMMA ExecChanges ==
  ASSUME [Next]_vars
  PROVE  \/ TakeDecision \/ DropDecision \/ PlaceOrder \/ PaperFallback \/ OrderFails
         \/ InsertLedger \/ InsertFails \/ NoteExecuted \/ ExecKilled
         \/ \E i \in DOMAIN ledger : CloseTrade(i)
         \/ UNCHANGED <<epos, exec, ledger, orders>>
BY DEF Next, vars, execVars, RiskStep, ExecStep, CloneStep, OperatorStep, Publish, Record, Redeliver,
       RejectOutright, Guard, RejectUnsized, Size, Reject, Request, Listen, Timeout, NoteAnswer,
       Approve, NoteApproved, RiskKilled, Decide, Flip, Answer, Resubmit, CloneRecord, CloneNote,
       CloneRead, CloneLink, CloneApprove

LEMMA StreamChanges ==
  ASSUME [Next]_vars
  PROVE  /\ log' = log \/ \E p \in Proposals : log' = Append(log, p)
         /\ \/ approved' = approved
            \/ Approve
            \/ \E c \in Clones : CloneApprove(c)
BY PipelineAssumption
   DEF Next, vars, streamVars, RiskStep, ExecStep, CloneStep, OperatorStep, Publish, Record, Redeliver,
       RejectOutright, Guard, RejectUnsized, Size, Reject, Request, Listen, Timeout, NoteAnswer,
       Approve, NoteApproved, RiskKilled, Decide, Flip, Answer, DropDecision, TakeDecision,
       PlaceOrder, PaperFallback, OrderFails, InsertLedger, InsertFails, NoteExecuted, ExecKilled,
       CloseTrade, Resubmit, CloneRecord, CloneNote, CloneRead, CloneLink, CloneApprove

LEMMA CloneChanges ==
  ASSUME [Next]_vars
  PROVE  \/ \E c \in Clones : \/ CloneStep(c)
                              \/ \E src \in Proposals, bypass \in BOOLEAN : Resubmit(c, src, bypass)
         \/ UNCHANGED clone
BY DEF Next, vars, tableVars, RiskStep, ExecStep, OperatorStep, Publish, Record, Redeliver,
       RejectOutright, Guard, RejectUnsized, Size, Reject, Request, Listen, Timeout, NoteAnswer,
       Approve, NoteApproved, RiskKilled, Decide, Flip, Answer, DropDecision, TakeDecision,
       PlaceOrder, PaperFallback, OrderFails, InsertLedger, InsertFails, NoteExecuted, ExecKilled,
       CloseTrade

LEMMA DisturbanceCounted ==
  ASSUME [Next]_vars
  PROVE  \/ \E kind \in AllFaults : Disturb(kind)
         \/ UNCHANGED <<happened, nfaults>>
BY DEF Next, vars, histVars, AllFaults, RiskStep, ExecStep, CloneStep, OperatorStep, Publish, Record,
       Redeliver, RejectOutright, Guard, RejectUnsized, Size, Reject, Request, Listen, Timeout,
       NoteAnswer, Approve, NoteApproved, RiskKilled, Decide, Flip, Answer, DropDecision,
       TakeDecision, PlaceOrder, PaperFallback, OrderFails, InsertLedger, InsertFails, NoteExecuted,
       ExecKilled, CloseTrade, Resubmit, CloneRecord, CloneNote, CloneRead, CloneLink, CloneApprove,
       ReadLedger, TryUpdate

LEMMA ApprovalChanges ==
  ASSUME [Next]_vars
  PROVE  \/ Request
         \/ \E o \in Operators : Flip(o) \/ Answer(o)
         \/ \E o \in Operators, p \in Proposals, answer \in Answers : Decide(o, p, answer)
         \/ UNCHANGED approvalVars
BY DEF Next, vars, RiskStep, ExecStep, CloneStep, OperatorStep, Publish, Record,
       Redeliver, RejectOutright, Guard, RejectUnsized, Size, Reject, Listen, Timeout,
       NoteAnswer, Approve, NoteApproved, RiskKilled, DropDecision, TakeDecision, PlaceOrder,
       PaperFallback, OrderFails, InsertLedger, InsertFails, NoteExecuted, ExecKilled, CloseTrade,
       Resubmit, CloneRecord, CloneNote, CloneRead, CloneLink, CloneApprove

-----------------------------------------------------------------------------
(***************************************************************************)
(* Type correctness.                                                       *)
(***************************************************************************)

LEMMA OpenCounted ==
  ASSUME StreamType, BookType, NEW open \in {OpenTrades, {}}
  PROVE  Cardinality(open) \in Nat
<1>1. DOMAIN ledger = 1 .. Len(ledger) /\ Len(ledger) \in Nat
  BY LenProperties DEF BookType
<1>2. IsFiniteSet(1 .. Len(ledger))
  BY <1>1, FS_Interval
<1>3. OpenTrades \subseteq 1 .. Len(ledger) /\ {} \subseteq 1 .. Len(ledger)
  BY <1>1 DEF OpenTrades
<1>4. IsFiniteSet(open)
  BY <1>2, <1>3, FS_Subset
<1> QED
  BY <1>4, FS_CardinalityType

LEMMA RiskCallUpdated ==
  ASSUME NEW call \in RiskCall, NEW size \in Nat, NEW yes \in {"unset", "yes", "no"},
         NEW pc \in {"rejecting", "requesting", "listing", "waiting", "answered", "approving", "noting"}
  PROVE  /\ [call EXCEPT !.pc = pc] \in RiskCall
         /\ [call EXCEPT !.pc = pc, !.size = size] \in RiskCall
         /\ [call EXCEPT !.pc = pc, !.yes = yes] \in RiskCall
BY DEF RiskCall

LEMMA ApprovalTyped ==
  ASSUME TypeOK, [Next]_vars
  PROVE  ApprovalType'
<1> USE DEF ApprovalType, Call, Statuses, Answers, NoCall
<1>1. ApprovalType
  BY DEF TypeOK
<1>2. CASE Request
  <2>1. risk.p \in Proposals
    BY <1>2 DEF TypeOK, HandlerType, RiskCall, Idle, Request
  <2> QED
    BY <1>1, <1>2, <2>1 DEF Request, CreatePending
<1>3. ASSUME NEW o \in Operators, Flip(o)
      PROVE  ApprovalType'
  <2>1. resolver[o] \in Call
    BY <1>1, <1>3 DEF Flip, ResolveWrite
  <2> QED
    BY <1>1, <1>3, <2>1 DEF Flip, ResolveWrite
<1>4. ASSUME NEW o \in Operators, Answer(o)
      PROVE  ApprovalType'
  <2>1. resolver[o] \in Call
    BY <1>1, <1>4 DEF Answer, ResolvePublish
  <2> QED
    BY <1>1, <1>4, <2>1 DEF Answer, ResolvePublish
<1>5. ASSUME NEW o \in Operators, NEW p \in Proposals, NEW answer \in Answers, Decide(o, p, answer)
      PROVE  ApprovalType'
  BY <1>1, <1>5 DEF Decide, ResolveRead
<1>6. CASE UNCHANGED approvalVars
  BY <1>1, <1>6 DEF approvalVars
<1> QED
  BY <1>2, <1>3, <1>4, <1>5, <1>6, ApprovalChanges

LEMMA RiskTyped ==
  ASSUME TypeOK, [Next]_vars
  PROVE  risk' \in RiskCall \cup {Idle} /\ rpos' \in 0 .. Len(log')
<1> DEFINE Good == risk' \in RiskCall \cup {Idle} /\ rpos' \in 0 .. Len(log')
<1>1. /\ risk \in RiskCall \cup {Idle} /\ rpos \in 0 .. Len(log)
      /\ log \in Seq(Proposals) /\ Len(log) \in Nat
  BY LenProperties DEF TypeOK, HandlerType, StreamType
<1>2. Len(log') >= Len(log) /\ Len(log') \in Nat
  <2>1. CASE log' = log
    BY <1>1, <2>1
  <2>2. ASSUME NEW p \in Proposals, log' = Append(log, p)
        PROVE  Len(log') = Len(log) + 1
    BY <1>1, <2>2, AppendProperties
  <2> QED
    BY <1>1, <2>1, <2>2, StreamChanges
<1>3. ASSUME rpos < Len(log)
      PROVE  log[rpos + 1] \in Proposals /\ rpos + 1 \in 0 .. Len(log')
  BY <1>1, <1>2, <1>3, ElementOfSeq
<1>4. CASE RejectOutright
  BY <1>1, <1>3, <1>4 DEF RejectOutright, Handling, RiskCall
<1>5. CASE Guard
  <2>1. PICK open \in {OpenTrades, {}}, pc \in {"rejecting", "sizing"} :
          risk' = Handling(log[rpos + 1], pc, Cardinality(open), 0)
    BY <1>5 DEF Guard
  <2>2. Cardinality(open) \in Nat
    BY OpenCounted DEF TypeOK
  <2>3. rpos < Len(log) /\ rpos' = rpos + 1
    BY <1>5 DEF Guard
  <2> QED
    BY <1>3, <2>1, <2>2, <2>3 DEF Handling, RiskCall
<1>6. CASE Size
  <2>1. risk \in RiskCall
    BY <1>1, <1>6 DEF Size, Idle
  <2>2. Want[risk.p] \in Nat
    BY <2>1, PipelineAssumption DEF RiskCall
  <2>3. PICK size \in 0 .. Want[risk.p] :
          risk' = [risk EXCEPT !.pc = AfterSizing(size), !.size = size]
    BY <1>6 DEF Size
  <2>4. AfterSizing(size) \in {"rejecting", "requesting", "approving"}
    BY DEF AfterSizing
  <2>5. size \in Nat /\ rpos' = rpos
    BY <1>6, <2>2 DEF Size
  <2>6. risk' \in RiskCall
    BY <2>1, <2>3, <2>4, <2>5, RiskCallUpdated
  <2> QED
    BY <1>1, <1>2, <2>5, <2>6
<1>7. CASE RejectUnsized \/ Reject \/ Request \/ Listen \/ Timeout \/ NoteAnswer \/ Approve
           \/ NoteApproved \/ RiskKilled
  <2>1. rpos' = rpos
    BY <1>7 DEF RejectUnsized, Reject, Request, Listen, Timeout, NoteAnswer, Approve, NoteApproved,
                RiskKilled
  <2>2. \/ risk' = Idle
        \/ \E pc \in {"rejecting", "listing", "waiting", "approving", "noting"} :
             risk # Idle /\ risk' = [risk EXCEPT !.pc = pc]
        \/ risk # Idle /\ risk' = [risk EXCEPT !.pc = "answered", !.yes = "no"]
    BY <1>7 DEF RejectUnsized, Reject, Request, Listen, Timeout, OnTimeout, NoteAnswer, Approve,
                NoteApproved, RiskKilled, Idle
  <2>3. risk' \in RiskCall \cup {Idle}
    BY <1>1, <2>2, RiskCallUpdated
  <2> QED
    BY <1>1, <1>2, <2>1, <2>3
<1>8. ASSUME NEW o \in Operators, Answer(o)
      PROVE  Good
  <2>1. rpos' = rpos
    BY <1>8 DEF Answer
  <2>2. \/ risk' = risk
        \/ \E yes \in {"yes", "no"} :
             risk # Idle /\ risk' = [risk EXCEPT !.pc = "answered", !.yes = yes]
    <3> DEFINE yes == IF resolver[o].answer = "approved" THEN "yes" ELSE "no"
    <3>1. CASE Hears(resolver[o].p)
      <4>1. risk # Idle /\ risk' = [risk EXCEPT !.pc = "answered", !.yes = yes]
        BY <1>8, <3>1 DEF Answer, Hears, Idle
      <4>2. yes \in {"yes", "no"}
        OBVIOUS
      <4> HIDE DEF yes
      <4> QED
        BY <4>1, <4>2
    <3>2. CASE ~ Hears(resolver[o].p)
      BY <1>8, <3>2 DEF Answer
    <3> QED
      BY <3>1, <3>2
  <2>3. risk' \in RiskCall \cup {Idle}
    BY <1>1, <2>2, RiskCallUpdated
  <2> QED
    BY <1>1, <1>2, <2>1, <2>3
<1>9. CASE UNCHANGED <<rpos, risk>>
  BY <1>1, <1>2, <1>9
<1> QED
  BY <1>4, <1>5, <1>6, <1>7, <1>8, <1>9, RiskChanges

LEMMA ExecTyped ==
  ASSUME TypeOK, [Next]_vars
  PROVE  /\ exec' \in ExecCall \cup {Idle}
         /\ epos' \in 0 .. Len(approved')
         /\ approved' \in Seq(Decision)
         /\ ledger' \in Seq(Trade)
         /\ orders' \in [Proposals -> Nat]
<1> DEFINE Good == /\ exec' \in ExecCall \cup {Idle}
                   /\ epos' \in 0 .. Len(approved)
                   /\ ledger' \in Seq(Trade)
                   /\ orders' \in [Proposals -> Nat]
<1>1. /\ exec \in ExecCall \cup {Idle} /\ epos \in 0 .. Len(approved)
      /\ approved \in Seq(Decision) /\ Len(approved) \in Nat
      /\ ledger \in Seq(Trade) /\ orders \in [Proposals -> Nat]
  BY LenProperties DEF TypeOK, HandlerType, StreamType, BookType
<1>2. approved' \in Seq(Decision) /\ Len(approved') >= Len(approved) /\ Len(approved') \in Nat
  <2>1. CASE approved' = approved
    BY <1>1, <2>1
  <2>2. CASE Approve
    <3>1. risk.p \in Proposals /\ risk.size \in Nat
      BY <2>2 DEF TypeOK, HandlerType, RiskCall, Idle, Approve
    <3>2. [p |-> risk.p, size |-> risk.size] \in Decision
      BY <3>1 DEF Decision
    <3> QED
      BY <1>1, <2>2, <3>2, AppendProperties DEF Approve
  <2>3. ASSUME NEW c \in Clones, CloneApprove(c)
        PROVE  approved' \in Seq(Decision) /\ Len(approved') = Len(approved) + 1
    <3>1. [p |-> c, size |-> 1] \in Decision
      BY PipelineAssumption DEF Decision
    <3> QED
      BY <1>1, <2>3, <3>1, AppendProperties DEF CloneApprove
  <2> QED
    BY <1>1, <2>1, <2>2, <2>3, StreamChanges
<1>3. ASSUME TakeDecision \/ DropDecision
      PROVE  Good
  <2>1. epos < Len(approved) /\ epos' = epos + 1 /\ UNCHANGED <<ledger, orders>>
    BY <1>3 DEF TakeDecision, DropDecision
  <2>2. approved[epos + 1] \in Decision
    BY <1>1, <2>1, ElementOfSeq
  <2>3. \/ exec' = exec
        \/ \E pc \in {"ordering", "inserting"} :
             exec' = [pc |-> pc, p |-> approved[epos + 1].p, size |-> approved[epos + 1].size]
    BY <1>3 DEF TakeDecision, DropDecision
  <2>4. exec' \in ExecCall \cup {Idle}
    BY <1>1, <2>2, <2>3 DEF Decision, ExecCall
  <2> QED
    BY <1>1, <2>1, <2>4
<1>4. ASSUME PlaceOrder \/ PaperFallback \/ OrderFails \/ InsertFails \/ NoteExecuted \/ ExecKilled
      PROVE  Good
  <2>1. epos' = epos /\ ledger' = ledger
    BY <1>4 DEF PlaceOrder, PaperFallback, OrderFails, InsertFails, NoteExecuted, ExecKilled
  <2>2. exec # Idle /\ exec' \in {Idle, [exec EXCEPT !.pc = "inserting"]}
    BY <1>4 DEF PlaceOrder, PaperFallback, OrderFails, InsertFails, NoteExecuted, ExecKilled, Idle
  <2>3. exec' \in ExecCall \cup {Idle}
    BY <1>1, <2>2 DEF ExecCall
  <2>4. orders' = orders \/ Ordered
    BY <1>4 DEF PlaceOrder, PaperFallback, OrderFails, InsertFails, NoteExecuted, ExecKilled
  <2>5. orders' \in [Proposals -> Nat]
    BY <1>1, <2>2, <2>4 DEF Ordered, ExecCall
  <2> QED
    BY <1>1, <2>1, <2>3, <2>5
<1>5. ASSUME InsertLedger
      PROVE  Good
  <2>1. exec \in ExecCall
    BY <1>1, <1>5 DEF InsertLedger, Idle
  <2>2. PICK notional \in {0, exec.size, exec.size + 1} :
          ledger' = Append(ledger, [p |-> exec.p, notional |-> notional, open |-> TRUE])
    BY <1>5 DEF InsertLedger
  <2>3. [p |-> exec.p, notional |-> notional, open |-> TRUE] \in Trade
    BY <2>1 DEF ExecCall, Trade
  <2>4. ledger' \in Seq(Trade)
    BY <1>1, <2>2, <2>3, AppendProperties
  <2>5. exec' \in ExecCall
    BY <1>5, <2>1 DEF InsertLedger, ExecCall
  <2> QED
    BY <1>1, <1>5, <2>4, <2>5 DEF InsertLedger
<1>6. ASSUME NEW i \in DOMAIN ledger, CloseTrade(i)
      PROVE  Good
  <2>1. ledger[i] \in Trade
    BY <1>1, <1>6, ElementOfSeq, LenProperties
  <2>2. [ledger[i] EXCEPT !.open = FALSE] \in Trade
    BY <2>1 DEF Trade
  <2>3. ledger' = [ledger EXCEPT ![i] = [ledger[i] EXCEPT !.open = FALSE]]
    BY <1>6 DEF CloseTrade
  <2>4. ledger' \in Seq(Trade)
    BY <1>1, <2>2, <2>3, ExceptSeq
  <2> QED
    BY <1>1, <1>6, <2>4 DEF CloseTrade
<1>7. ASSUME UNCHANGED <<epos, exec, ledger, orders>>
      PROVE  Good
  BY <1>1, <1>7
<1>8. Good
  BY <1>3, <1>4, <1>5, <1>6, <1>7, ExecChanges
<1> QED
  BY <1>1, <1>2, <1>8

LEMMA CloneTyped ==
  ASSUME TypeOK, [Next]_vars
  PROVE  clone' \in [Clones -> CloneCall \cup {Fresh}]
<1>1. clone \in [Clones -> CloneCall \cup {Fresh}] /\ rows \in [Proposals -> RowStates]
  BY DEF TypeOK, HandlerType, BookType
<1>2. ASSUME NEW c \in Clones, CloneStep(c)
      PROVE  clone' \in [Clones -> CloneCall \cup {Fresh}]
  <2>1. clone[c] \in CloneCall
    BY <1>1, <1>2 DEF CloneStep, CloneRecord, CloneNote, CloneRead, CloneLink, CloneApprove, Fresh
  <2>2. PICK call : call \in CloneCall /\ clone' = [clone EXCEPT ![c] = call]
    <3>1. CASE CloneRead(c)
      <4>1. rows[clone[c].src] \in RowStates
        BY <1>1, <2>1 DEF CloneCall
      <4>2. [clone[c] EXCEPT !.pc = "linked", !.parent = rows[clone[c].src]] \in CloneCall
        BY <2>1, <4>1 DEF CloneCall
      <4> QED
        BY <3>1, <4>2 DEF CloneRead
    <3>2. CASE ~ CloneRead(c)
      <4>1. PICK pc \in {"noting", "linking", "approving", "done"} : CloneTo(c, pc)
        BY <1>2, <3>2 DEF CloneStep, CloneRecord, CloneNote, CloneLink, CloneApprove
      <4>2. [clone[c] EXCEPT !.pc = pc] \in CloneCall
        BY <2>1 DEF CloneCall
      <4> QED
        BY <4>1, <4>2 DEF CloneTo
    <3> QED
      BY <3>1, <3>2
  <2> QED
    BY <1>1, <2>2
<1>3. ASSUME NEW c \in Clones, NEW src \in Proposals, NEW bypass \in BOOLEAN, Resubmit(c, src, bypass)
      PROVE  clone' \in [Clones -> CloneCall \cup {Fresh}]
  <2>1. [pc |-> "recording", src |-> src, bypass |-> bypass, parent |-> "absent"] \in CloneCall
    BY DEF CloneCall, RowStates
  <2> QED
    BY <1>1, <1>3, <2>1 DEF Resubmit
<1> QED
  BY <1>1, <1>2, <1>3, CloneChanges

\* A row is written as a whole, with one of the states.
LEMMA RowChanges ==
  ASSUME TypeOK, [Next]_vars
  PROVE  \/ rows' = rows
         \/ \E p, state : state \in RowStates /\ rows' = [rows EXCEPT ![p] = state]
<1> DEFINE Written == \/ rows' = rows
                      \/ \E p, state : state \in RowStates /\ rows' = [rows EXCEPT ![p] = state]
<1> USE DEF UpdateState, RecordPublished, RowStates
<1>1. CASE Reject \/ Listen \/ NoteAnswer \/ NoteApproved \/ NoteExecuted
  BY <1>1 DEF Reject, Listen, NoteAnswer, NoteApproved, NoteExecuted, TryUpdate
<1>2. ASSUME NEW p \in Proposals, Record(p)
      PROVE  Written
  BY <1>2 DEF Record
<1>3. ASSUME NEW c \in Clones, CloneRecord(c) \/ CloneNote(c)
      PROVE  Written
  BY <1>3 DEF CloneRecord, CloneNote
<1>4. ASSUME NEW c \in Clones, CloneLink(c)
      PROVE  Written
  <2>1. clone[c] \in CloneCall
    BY <1>4 DEF TypeOK, HandlerType, CloneLink, Fresh
  <2>2. clone[c].parent \in RowStates
    BY <2>1 DEF CloneCall
  <2> QED
    BY <1>4, <2>2 DEF CloneLink
<1>5. \/ Reject \/ Listen \/ NoteAnswer \/ NoteApproved \/ NoteExecuted
      \/ \E p \in Proposals : Record(p)
      \/ \E c \in Clones : CloneRecord(c) \/ CloneNote(c) \/ CloneLink(c)
      \/ rows' = rows
  BY DEF Next, vars, tableVars, RiskStep, ExecStep, CloneStep, OperatorStep, Publish, Redeliver,
         RejectOutright, Guard, RejectUnsized, Size, Request, Timeout, Approve, RiskKilled, Decide,
         Flip, Answer, DropDecision, TakeDecision, PlaceOrder, PaperFallback, OrderFails,
         InsertLedger, InsertFails, ExecKilled, CloseTrade, Resubmit, CloneRead, CloneApprove
<1> QED
  BY <1>1, <1>2, <1>3, <1>4, <1>5

LEMMA TableTyped ==
  ASSUME TypeOK, [Next]_vars
  PROVE  rows' \in [Proposals -> RowStates] /\ unrecorded' \subseteq Proposals
<1>1. rows \in [Proposals -> RowStates] /\ unrecorded \subseteq Proposals
  BY DEF TypeOK, BookType
<1>2. rows' \in [Proposals -> RowStates]
  BY <1>1, RowChanges
<1>3. \/ unrecorded' = unrecorded
      \/ \E p \in Proposals : unrecorded' \in {unrecorded \cup {p}, unrecorded \ {p}}
  BY DEF Next, vars, tableVars, RiskStep, ExecStep, CloneStep, OperatorStep, Publish, Record, Redeliver,
         RejectOutright, Guard, RejectUnsized, Size, Reject, Request, Listen, Timeout, NoteAnswer,
         Approve, NoteApproved, RiskKilled, Decide, Flip, Answer, DropDecision, TakeDecision,
         PlaceOrder, PaperFallback, OrderFails, InsertLedger, InsertFails, NoteExecuted, ExecKilled,
         CloseTrade, Resubmit, CloneRecord, CloneNote, CloneRead, CloneLink, CloneApprove
<1> QED
  BY <1>1, <1>2, <1>3

LEMMA HistoryTyped ==
  ASSUME TypeOK, [Next]_vars
  PROVE  HistoryType'
<1>1. HistoryType
  BY DEF TypeOK
<1>2. blind' \in {TRUE, blind, blind \/ Overlap}
  BY DEF Next, vars, histVars, RiskStep, ExecStep, CloneStep, OperatorStep, Publish, Record, Redeliver,
         RejectOutright, Guard, RejectUnsized, Size, Reject, Request, Listen, Timeout, NoteAnswer,
         Approve, NoteApproved, RiskKilled, Decide, Flip, Answer, DropDecision, TakeDecision,
         PlaceOrder, PaperFallback, OrderFails, InsertLedger, InsertFails, NoteExecuted, ExecKilled,
         CloseTrade, Resubmit, CloneRecord, CloneNote, CloneRead, CloneLink, CloneApprove,
         ReadLedger, TryUpdate
<1>3. blind' \in BOOLEAN
  BY <1>1, <1>2 DEF HistoryType
<1>4. happened' \subseteq FaultKinds /\ nfaults' \in 0 .. MaxFaults
  BY <1>1, PipelineAssumption, DisturbanceCounted DEF HistoryType, Disturb
<1> QED
  BY <1>3, <1>4 DEF HistoryType

LEMMA TypeStep ==
  ASSUME TypeOK, [Next]_vars
  PROVE  TypeOK'
<1>1. log' \in Seq(Proposals)
  BY StreamChanges, AppendProperties DEF TypeOK, StreamType
<1> QED
  BY <1>1, ApprovalTyped, RiskTyped, ExecTyped, CloneTyped, TableTyped, HistoryTyped
     DEF TypeOK, StreamType, HandlerType, BookType

LEMMA TypeInit ==
  ASSUME Init
  PROVE  TypeOK
<1>1. ApprovalType
  BY DEF Init, ApprovalInit, ApprovalType, Statuses
<1>2. StreamType
  BY EmptySeq DEF Init, StreamType
<1>3. HandlerType
  BY DEF Init, HandlerType
<1>4. BookType
  BY EmptySeq DEF Init, BookType, RowStates
<1>5. HistoryType
  <2>1. blind \in BOOLEAN /\ happened \subseteq FaultKinds
    BY DEF Init
  <2>2. nfaults \in 0 .. MaxFaults
    BY PipelineAssumption DEF Init
  <2> QED
    BY <2>1, <2>2 DEF HistoryType
<1> QED
  BY <1>1, <1>2, <1>3, <1>4, <1>5 DEF TypeOK

\* Every variable of the pipeline keeps its type: the handlers' local state
\* (risk_manager.py handle, executor.py handle, proposals.py resubmit) included.
THEOREM PipelineTypeCorrect == Spec => []TypeOK
<1>1. Init => TypeOK
  BY TypeInit
<1>2. TypeOK /\ [Next]_vars => TypeOK'
  BY TypeStep
<1> QED
  BY <1>1, <1>2, PTL DEF Spec

-----------------------------------------------------------------------------
(***************************************************************************)
(* No large trade without an approval.                                     *)
(***************************************************************************)

\* The risk manager believes "yes" only when an approving answer of this proposal
\* was published ...
YesIsGranted == risk.pc = "answered" /\ risk.yes = "yes" => risk.p \in granted

\* ... and goes on with a large trade only after a "yes".
LargeIsGranted == risk.pc = "approving" /\ risk.size > Threshold => risk.p \in granted

\* Only an override publishes a decision of its own.
OnlyOverrides == \A c \in Clones : clone[c].pc = "approving" => clone[c].bypass

Granting == YesIsGranted /\ LargeIsGranted /\ OnlyOverrides /\ HumanApproved

IInv == TypeOK /\ Granting

\* What was granted stays granted.
LEMMA GrantedGrows ==
  ASSUME [Next]_vars
  PROVE  granted \subseteq granted'
BY ApprovalChanges
   DEF Request, CreatePending, Flip, ResolveWrite, Answer, ResolvePublish, Decide, ResolveRead,
       approvalVars

\* What overrides the gates was made to, and still does.
LEMMA OverridesStay ==
  ASSUME TypeOK, OnlyOverrides, [Next]_vars
  PROVE  OnlyOverrides' /\ Bypassing \subseteq Bypassing'
<1>1. clone \in [Clones -> CloneCall \cup {Fresh}]
  BY DEF TypeOK, HandlerType
<1>2. ASSUME NEW c \in Clones, CloneStep(c)
      PROVE  /\ \A d \in Clones \ {c} : clone'[d] = clone[d]
             /\ clone'[c] # Fresh /\ clone'[c].bypass = clone[c].bypass
             /\ clone'[c].pc = "approving" => clone[c].bypass
  <2>1. clone[c] \in CloneCall
    BY <1>1, <1>2 DEF CloneStep, CloneRecord, CloneNote, CloneRead, CloneLink, CloneApprove, Fresh
  <2>2. \/ clone' = [clone EXCEPT ![c].pc = "linked", ![c].parent = rows[clone[c].src]]
        \/ \E pc \in {"noting", "linking", "done"} : clone' = [clone EXCEPT ![c].pc = pc]
        \/ clone[c].bypass /\ clone' = [clone EXCEPT ![c].pc = "approving"]
    BY <1>2 DEF CloneStep, CloneRecord, CloneNote, CloneRead, CloneLink, CloneApprove, CloneTo
  <2> QED
    BY <1>1, <2>1, <2>2 DEF CloneCall, Fresh
<1>3. ASSUME NEW c \in Clones, CloneStep(c)
      PROVE  OnlyOverrides' /\ Bypassing \subseteq Bypassing'
  BY <1>2, <1>3 DEF OnlyOverrides, Bypassing
<1>4. ASSUME NEW c \in Clones, NEW src \in Proposals, NEW bypass \in BOOLEAN, Resubmit(c, src, bypass)
      PROVE  OnlyOverrides' /\ Bypassing \subseteq Bypassing'
  <2>1. clone[c] = Fresh /\ \A d \in Clones \ {c} : clone'[d] = clone[d]
    BY <1>1, <1>4 DEF Resubmit
  <2>2. clone'[c].pc = "recording"
    BY <1>1, <1>4 DEF Resubmit
  <2> QED
    BY <2>1, <2>2 DEF OnlyOverrides, Bypassing
<1>5. CASE UNCHANGED clone
  BY <1>5 DEF OnlyOverrides, Bypassing
<1> QED
  BY <1>3, <1>4, <1>5, CloneChanges

LEMMA YesStep ==
  ASSUME TypeOK, YesIsGranted, LargeIsGranted, [Next]_vars
  PROVE  YesIsGranted' /\ LargeIsGranted'
<1> DEFINE Good == YesIsGranted' /\ LargeIsGranted'
<1> USE DEF YesIsGranted, LargeIsGranted
<1>1. risk \in RiskCall \cup {Idle} /\ granted \subseteq granted'
  BY GrantedGrows DEF TypeOK, HandlerType
<1>2. CASE Size
  <2>1. risk \in RiskCall
    BY <1>1, <1>2 DEF Size, Idle
  <2>2. PICK size \in 0 .. Want[risk.p] :
          risk' = [risk EXCEPT !.pc = AfterSizing(size), !.size = size]
    BY <1>2 DEF Size
  <2>3. /\ risk'.pc = AfterSizing(size) /\ risk'.size = size
    BY <2>1, <2>2 DEF RiskCall
  <2>4. AfterSizing(size) # "answered" /\ (AfterSizing(size) = "approving" => ~ size > Threshold)
    BY DEF AfterSizing
  <2> QED
    BY <2>3, <2>4
<1>3. CASE NoteAnswer
  <2>1. risk \in RiskCall
    BY <1>1, <1>3 DEF NoteAnswer, Idle
  <2>2. CASE risk.yes = "yes"
    BY <1>1, <1>3, <2>1, <2>2 DEF NoteAnswer, RiskCall
  <2>3. CASE risk.yes # "yes"
    BY <1>3, <2>3 DEF NoteAnswer, Idle
  <2> QED
    BY <2>2, <2>3
<1>4. CASE Timeout
  BY <1>1, <1>4 DEF Timeout, OnTimeout, RiskCall, Idle
<1>5. ASSUME NEW o \in Operators, Answer(o)
      PROVE  Good
  <2>1. CASE Hears(resolver[o].p)
    <3>1. risk \in RiskCall /\ risk.p = resolver[o].p
      BY <1>1, <2>1 DEF Hears, Idle
    <3>2. CASE resolver[o].answer = "approved"
      <4>1. risk'.pc = "answered" /\ risk'.p = risk.p
        BY <1>5, <2>1, <3>1 DEF Answer, RiskCall
      <4>2. resolver[o].p \in granted'
        BY <1>5, <3>2 DEF Answer, ResolvePublish
      <4> QED
        BY <3>1, <4>1, <4>2
    <3>3. CASE resolver[o].answer # "approved"
      <4>1. risk'.pc = "answered" /\ risk'.yes = "no"
        BY <1>5, <2>1, <3>1, <3>3 DEF Answer, RiskCall
      <4> QED
        BY <4>1
    <3> QED
      BY <3>2, <3>3
  <2>2. CASE ~ Hears(resolver[o].p)
    BY <1>1, <1>5, <2>2 DEF Answer
  <2> QED
    BY <2>1, <2>2
<1>6. CASE RejectOutright \/ Guard \/ RejectUnsized \/ Reject \/ Request \/ Listen \/ Approve
           \/ NoteApproved \/ RiskKilled
  <2>1. risk'.pc \notin {"answered", "approving"}
    BY <1>1, <1>6 DEF RejectOutright, Guard, RejectUnsized, Reject, Request, Listen, Approve,
                      NoteApproved, RiskKilled, Handling, RiskCall, Idle
  <2> QED
    BY <2>1
<1>7. CASE UNCHANGED <<rpos, risk>>
  BY <1>1, <1>7
<1> QED
  BY <1>2, <1>3, <1>4, <1>5, <1>6, <1>7, RiskChanges

\* A decision that joins the others is small, granted or an override.
LEMMA HumanStep ==
  ASSUME TypeOK, Granting, [Next]_vars
  PROVE  HumanApproved'
<1>1. granted \subseteq granted' /\ Bypassing \subseteq Bypassing'
  BY GrantedGrows, OverridesStay DEF Granting
<1>2. approved \in Seq(Decision) /\ Len(approved) \in Nat
  BY LenProperties DEF TypeOK, StreamType
<1>3. ASSUME NEW d, d \in Decision, approved' = Append(approved, d),
             d.size > Threshold /\ d.p \notin Bypassing' => d.p \in granted'
      PROVE  HumanApproved'
  <2>1. Len(approved') = Len(approved) + 1 /\ approved'[Len(approved) + 1] = d
    BY <1>2, <1>3, AppendProperties
  <2>2. \A k \in 1 .. Len(approved) : approved'[k] = approved[k]
    BY <1>2, <1>3, AppendProperties
  <2>3. SUFFICES ASSUME NEW k \in 1 .. Len(approved'),
                        approved'[k].size > Threshold, approved'[k].p \notin Bypassing'
                 PROVE  approved'[k].p \in granted'
    BY DEF HumanApproved
  <2>4. CASE k \in 1 .. Len(approved)
    BY <1>1, <2>2, <2>3, <2>4 DEF Granting, HumanApproved
  <2>5. CASE k = Len(approved) + 1
    BY <1>3, <2>1, <2>3, <2>5
  <2> QED
    BY <1>2, <2>1, <2>4, <2>5
<1>4. CASE approved' = approved
  BY <1>1, <1>4 DEF Granting, HumanApproved
<1>5. CASE Approve
  <2>1. risk \in RiskCall /\ risk.pc = "approving"
    BY <1>5 DEF Approve, TypeOK, HandlerType, Idle
  <2>2. [p |-> risk.p, size |-> risk.size] \in Decision
    BY <2>1 DEF RiskCall, Decision
  <2>3. risk.size > Threshold => risk.p \in granted'
    BY <1>1, <2>1 DEF Granting, LargeIsGranted
  <2> QED
    BY <1>3, <1>5, <2>2, <2>3 DEF Approve
<1>6. ASSUME NEW c \in Clones, CloneApprove(c)
      PROVE  HumanApproved'
  <2>1. clone[c].pc = "approving" /\ clone[c] # Fresh
    BY <1>6 DEF CloneApprove, Fresh
  <2>2. c \in Bypassing
    BY <2>1 DEF Granting, OnlyOverrides, Bypassing
  <2>3. [p |-> c, size |-> 1] \in Decision
    BY PipelineAssumption DEF Decision
  <2>4. approved' = Append(approved, [p |-> c, size |-> 1])
    BY <1>6 DEF CloneApprove
  <2> QED
    BY <1>1, <1>3, <2>2, <2>3, <2>4
<1> QED
  BY <1>4, <1>5, <1>6, StreamChanges

LEMMA IInvStep ==
  ASSUME IInv, [Next]_vars
  PROVE  IInv'
BY TypeStep, OverridesStay, YesStep, HumanStep DEF IInv, Granting

\* No timeout, restart, late answer or answer to another proposal lets a trade
\* above the threshold through: whatever the disturbances, every such decision on
\* approved_trades was granted, or came from an override
\* (risk_manager.py handle, approval_store.py resolve).
THEOREM HumanApprovedAlways == Spec => []HumanApproved
<1>1. Init => IInv
  <2>1. Init => TypeOK
    BY TypeInit
  <2>2. Init => Granting
    BY DEF Init, Granting, YesIsGranted, LargeIsGranted, OnlyOverrides, HumanApproved, Idle, Fresh
  <2> QED
    BY <2>1, <2>2 DEF IInv
<1>2. IInv /\ [Next]_vars => IInv'
  BY IInvStep
<1>3. IInv => HumanApproved
  BY DEF IInv, Granting
<1> QED
  BY <1>1, <1>2, <1>3, PTL DEF Spec

-----------------------------------------------------------------------------
(***************************************************************************)
(* Orders and trades.                                                      *)
(***************************************************************************)

TradesOf(p) == {i \in DOMAIN ledger : ledger[i].p = p}

LEMMA DisturbancesStay ==
  ASSUME [Next]_vars, NEW kinds, Undisturbed(kinds)'
  PROVE  /\ Undisturbed(kinds)
         /\ \A kind \in kinds : ~ Disturb(kind)
<1>1. happened \subseteq happened'
  BY DisturbanceCounted DEF Disturb
<1>2. \A kind : Disturb(kind) => kind \in happened'
  BY DEF Disturb
<1> QED
  BY <1>1, <1>2 DEF Undisturbed

\* The ledger only grows, at its end, by what the executor holds.
LEMMA LedgerChanges ==
  ASSUME TypeOK, [Next]_vars
  PROVE  /\ Len(ledger) \in Nat /\ DOMAIN ledger = 1 .. Len(ledger)
         /\ DOMAIN ledger' = 1 .. Len(ledger')
         /\ \A i \in DOMAIN ledger : i \in DOMAIN ledger' /\ ledger'[i].p = ledger[i].p
         /\ \/ Len(ledger') = Len(ledger)
            \/ /\ InsertLedger
               /\ Len(ledger') = Len(ledger) + 1
               /\ ledger'[Len(ledger) + 1].p = exec.p
               /\ ledger'[Len(ledger) + 1].open
               /\ \A i \in DOMAIN ledger : ledger'[i] = ledger[i]
<1>1. ledger \in Seq(Trade) /\ ledger' \in Seq(Trade)
  BY ExecTyped DEF TypeOK, BookType
<1>2. /\ Len(ledger) \in Nat /\ DOMAIN ledger = 1 .. Len(ledger)
      /\ Len(ledger') \in Nat /\ DOMAIN ledger' = 1 .. Len(ledger')
  BY <1>1, LenProperties
<1>3. CASE InsertLedger
  <2>1. exec \in ExecCall
    BY <1>3 DEF InsertLedger, Idle, TypeOK, HandlerType
  <2>2. PICK notional \in {0, exec.size, exec.size + 1} :
          ledger' = Append(ledger, [p |-> exec.p, notional |-> notional, open |-> TRUE])
    BY <1>3 DEF InsertLedger
  <2> DEFINE t == [p |-> exec.p, notional |-> notional, open |-> TRUE]
  <2>3. t \in Trade /\ t.p = exec.p /\ t.open
    BY <2>1 DEF ExecCall, Trade
  <2> HIDE DEF t
  <2>4. /\ Len(ledger') = Len(ledger) + 1 /\ ledger'[Len(ledger) + 1] = t
        /\ \A i \in 1 .. Len(ledger) : ledger'[i] = ledger[i]
    BY <1>1, <2>2, <2>3, AppendProperties DEF t
  <2>5. \A i \in DOMAIN ledger : i \in DOMAIN ledger' /\ ledger'[i] = ledger[i]
    BY <1>2, <2>4
  <2>6. ledger'[Len(ledger) + 1].p = exec.p /\ ledger'[Len(ledger) + 1].open
    BY <2>3, <2>4
  <2> QED
    BY <1>2, <1>3, <2>4, <2>5, <2>6
<1>4. ASSUME NEW i \in DOMAIN ledger, CloseTrade(i)
      PROVE  Len(ledger') = Len(ledger) /\ \A j \in DOMAIN ledger : ledger'[j].p = ledger[j].p
  <2>1. \A j \in DOMAIN ledger : ledger[j] \in Trade
    BY <1>1, <1>2, ElementOfSeq
  <2>2. ledger' = [ledger EXCEPT ![i] = [ledger[i] EXCEPT !.open = FALSE]]
    BY <1>4 DEF CloseTrade
  <2>3. [ledger[i] EXCEPT !.open = FALSE] \in Trade
    BY <2>1, <1>4 DEF Trade
  <2>4. Len(ledger') = Len(ledger)
    BY <1>1, <1>2, <2>2, <2>3, ExceptSeq
  <2> QED
    BY <2>1, <2>2, <2>4 DEF Trade
<1>5. InsertLedger \/ (\E i \in DOMAIN ledger : CloseTrade(i)) \/ ledger' = ledger
  BY ExecChanges
     DEF TakeDecision, DropDecision, PlaceOrder, PaperFallback, OrderFails, InsertFails,
         NoteExecuted, ExecKilled
<1> QED
  BY <1>2, <1>3, <1>4, <1>5

LEMMA TradesCounted ==
  ASSUME TypeOK, [Next]_vars, NEW p
  PROVE  /\ Cardinality(TradesOf(p)) \in Nat
         /\ Cardinality(TradesOf(p))' =
              Cardinality(TradesOf(p)) + (IF Len(ledger') # Len(ledger) /\ exec.p = p THEN 1 ELSE 0)
<1>1. /\ Len(ledger) \in Nat /\ DOMAIN ledger = 1 .. Len(ledger)
      /\ DOMAIN ledger' = 1 .. Len(ledger')
      /\ \A i \in DOMAIN ledger : i \in DOMAIN ledger' /\ ledger'[i].p = ledger[i].p
  BY LedgerChanges
<1>2. IsFiniteSet(TradesOf(p)) /\ Cardinality(TradesOf(p)) \in Nat
  <2>1. TradesOf(p) \subseteq 1 .. Len(ledger)
    BY <1>1 DEF TradesOf
  <2> QED
    <3>1. IsFiniteSet(1 .. Len(ledger))
      BY <1>1, FS_Interval
    <3> QED
      BY <2>1, <3>1, FS_Subset, FS_CardinalityType
<1>3. CASE Len(ledger') = Len(ledger)
  <2>1. TradesOf(p)' = TradesOf(p)
    BY <1>1, <1>3 DEF TradesOf
  <2> QED
    BY <1>2, <1>3, <2>1
<1>4. CASE Len(ledger') # Len(ledger)
  <2>1. Len(ledger') = Len(ledger) + 1 /\ ledger'[Len(ledger) + 1].p = exec.p
    BY <1>4, LedgerChanges
  <2>2. TradesOf(p)' = IF exec.p = p THEN TradesOf(p) \cup {Len(ledger) + 1} ELSE TradesOf(p)
    BY <1>1, <2>1 DEF TradesOf
  <2>3. Len(ledger) + 1 \notin TradesOf(p)
    BY <1>1 DEF TradesOf
  <2>4. Cardinality(TradesOf(p) \cup {Len(ledger) + 1}) = Cardinality(TradesOf(p)) + 1
    BY <1>2, <2>3, FS_AddElement
  <2> QED
    BY <1>2, <1>4, <2>2, <2>4
<1> QED
  BY <1>2, <1>3, <1>4

LEMMA BooksStep ==
  ASSUME TypeOK, OrdersOnTheBooks, [Next]_vars
  PROVE  OrdersOnTheBooks'
<1> DEFINE Held(p) == IF exec.pc = "inserting" /\ exec.p = p THEN 1 ELSE 0
<1>1. SUFFICES ASSUME Undisturbed({"kill", "dberror", "timeout"})', NEW p \in Proposals
               PROVE  orders'[p] <= Cardinality(TradesOf(p))' + Held(p)'
  BY DEF OrdersOnTheBooks, TradesOf
<1>2. /\ Undisturbed({"kill", "dberror", "timeout"})
      /\ ~ Disturb("kill") /\ ~ Disturb("dberror") /\ ~ Disturb("timeout")
  BY <1>1, DisturbancesStay
<1>3. orders[p] <= Cardinality(TradesOf(p)) + Held(p)
  BY <1>2 DEF OrdersOnTheBooks, TradesOf
<1>4. orders \in [Proposals -> Nat] /\ exec \in ExecCall \cup {Idle}
  BY DEF TypeOK, HandlerType, BookType
<1>5. Cardinality(TradesOf(p)) \in Nat
  BY TradesCounted
<1>6. CASE InsertLedger
  <2>1. exec \in ExecCall /\ exec.pc = "inserting" /\ exec' = [exec EXCEPT !.pc = "noting"]
        /\ orders' = orders
    BY <1>4, <1>6 DEF InsertLedger, Idle
  <2>2. Len(ledger') = Len(ledger) + 1 /\ Len(ledger) \in Nat
    <3>1. exec.size \in Nat
      BY <2>1 DEF ExecCall
    <3>2. ledger \in Seq(Trade)
      BY DEF TypeOK, BookType
    <3>3. PICK t : ledger' = Append(ledger, t)
      BY <1>6 DEF InsertLedger
    <3> QED
      BY <3>2, <3>3, LenProperties
  <2>3. exec'.pc = "noting"
    BY <2>1 DEF ExecCall
  <2>4. Cardinality(TradesOf(p))' = Cardinality(TradesOf(p)) + (IF exec.p = p THEN 1 ELSE 0)
    BY <2>2, TradesCounted
  <2> QED
    BY <1>3, <1>4, <1>5, <2>1, <2>3, <2>4
<1>7. ASSUME ~ InsertLedger
      PROVE  Cardinality(TradesOf(p))' = Cardinality(TradesOf(p))
  BY <1>5, <1>7, LedgerChanges, TradesCounted
<1>8. CASE PlaceOrder
  <2>1. /\ exec \in ExecCall /\ exec.pc = "ordering"
        /\ exec' = [exec EXCEPT !.pc = "inserting"]
        /\ orders' = [orders EXCEPT ![exec.p] = @ + 1]
        /\ ~ InsertLedger
    BY <1>4, <1>8 DEF PlaceOrder, Ordered, InsertLedger, Idle
  <2>2. exec'.pc = "inserting" /\ exec'.p = exec.p /\ exec.p \in Proposals
    BY <2>1 DEF ExecCall
  <2> QED
    BY <1>3, <1>4, <1>5, <1>7, <2>1, <2>2
<1>9. CASE TakeDecision \/ PaperFallback \/ DropDecision \/ NoteExecuted \/ OrderFails
           \/ \E i \in DOMAIN ledger : CloseTrade(i)
  <2>1. orders' = orders /\ ~ InsertLedger
    BY <1>2, <1>9
       DEF TakeDecision, PaperFallback, DropDecision, NoteExecuted, OrderFails, CloseTrade,
           InsertLedger, Idle
  <2>2. exec.pc = "inserting" => exec' = exec
    BY <1>9
       DEF TakeDecision, PaperFallback, DropDecision, NoteExecuted, OrderFails, CloseTrade, Idle
  <2> QED
    BY <1>3, <1>4, <1>5, <1>7, <2>1, <2>2
<1>10. CASE UNCHANGED <<epos, exec, ledger, orders>>
  <2>1. ~ InsertLedger
    BY <1>4, <1>10 DEF InsertLedger, ExecCall, Idle
  <2> QED
    BY <1>3, <1>7, <1>10, <2>1
<1>11. ~ InsertFails /\ ~ ExecKilled
  BY <1>2 DEF InsertFails, ExecKilled
<1> QED
  BY <1>6, <1>8, <1>9, <1>10, <1>11, ExecChanges

\* A live order is on the books or about to be, for any number of proposals, decisions
\* and resubmits, while no handler is killed, no database call raises and no order times
\* out (executor.py handle).
THEOREM OrdersAlwaysBooked == Spec => []OrdersOnTheBooks
<1>1. Init => OrdersOnTheBooks
  <2> SUFFICES ASSUME Init, NEW p \in Proposals
               PROVE  orders[p] <= Cardinality(TradesOf(p))
                                   + (IF exec.pc = "inserting" /\ exec.p = p THEN 1 ELSE 0)
    BY DEF OrdersOnTheBooks, TradesOf
  <2>1. TradesOf(p) = {} /\ orders[p] = 0 /\ exec.pc = "idle"
    BY DEF Init, TradesOf, Idle
  <2> QED
    BY <2>1, FS_EmptySet
<1>2. TypeOK /\ OrdersOnTheBooks /\ [Next]_vars => TypeOK' /\ OrdersOnTheBooks'
  BY TypeStep, BooksStep
<1>3. Init => TypeOK
  BY TypeInit
<1> QED
  BY <1>1, <1>2, <1>3, PTL DEF Spec

-----------------------------------------------------------------------------
(***************************************************************************)
(* Each proposal of its own is decided once and traded once, and what was  *)
(* turned down is neither.                                                 *)
(***************************************************************************)

Own == Proposals \ Bypassing
NoReplay == Undisturbed({"replay"})

Taken(p) == \E i \in 1 .. rpos : log[i] = p
Decided(p) == \E k \in 1 .. Len(approved) : approved[k].p = p
TurnedDown == {"rejected", "hitl_rejected"}

\* The table says so, or will when a resubmit writes back what it read.
Down(p) ==
  \/ rows[p] \in TurnedDown
  \/ \E c \in Clones : clone[c] # Fresh /\ clone[c].src = p /\ clone[c].parent \in TurnedDown

\* The handlers work on the newest entry they took; a clone that is not made is not
\* on the stream.
Places ==
  /\ \A c \in Clones : clone[c] = Fresh => ~ InLog(c)
  /\ risk # Idle => rpos >= 1 /\ log[rpos] = risk.p
  /\ exec # Idle => epos >= 1 /\ approved[epos].p = exec.p
  /\ \A i \in DOMAIN ledger : \E k \in 1 .. epos : approved[k].p = ledger[i].p

OnceInLog == \A i, j \in 1 .. Len(log) : log[i] = log[j] => i = j

DecidedOnce ==
  /\ \A p \in Own : Decided(p) => Taken(p)
  /\ \A k, l \in 1 .. Len(approved) :
       approved[k].p = approved[l].p /\ approved[k].p \in Own => k = l
  /\ risk # Idle /\ risk.pc # "noting" /\ risk.p \in Own => ~ Decided(risk.p)

UniqueTrades ==
  /\ \A i, j \in DOMAIN ledger : ledger[i].p = ledger[j].p /\ ledger[i].p \in Own => i = j
  /\ exec.pc \in {"ordering", "inserting"} /\ exec.p \in Own =>
       \A i \in DOMAIN ledger : ledger[i].p # exec.p

DownIsOver ==
  \A p \in Own : Down(p) => ~ Decided(p) /\ Taken(p) /\ ~ (risk # Idle /\ risk.p = p)

OnceInv ==
  /\ IInv /\ Places
  /\ NoReplay => OnceInLog /\ DecidedOnce /\ UniqueTrades /\ DownIsOver

LEMMA LogChanges ==
  ASSUME [Next]_vars
  PROVE  \/ \E p \in Proposals : Publish(p) \/ Redeliver(p)
         \/ \E c \in Clones, src \in Proposals, bypass \in BOOLEAN : Resubmit(c, src, bypass)
         \/ log' = log
BY DEF Next, vars, streamVars, RiskStep, ExecStep, CloneStep, OperatorStep, Record, RejectOutright,
       Guard, RejectUnsized, Size, Reject, Request, Listen, Timeout, NoteAnswer, Approve,
       NoteApproved, RiskKilled, Decide, Flip, Answer, DropDecision, TakeDecision, PlaceOrder,
       PaperFallback, OrderFails, InsertLedger, InsertFails, NoteExecuted, ExecKilled, CloseTrade,
       CloneRecord, CloneNote, CloneRead, CloneLink, CloneApprove

\* The log grows at its end; a clone once made stays made.
LEMMA LogGrows ==
  ASSUME TypeOK, [Next]_vars
  PROVE  /\ Len(log) \in Nat /\ Len(log') \in Nat /\ Len(log) <= Len(log')
         /\ \A i \in 1 .. Len(log) : log'[i] = log[i]
         /\ \A c \in Clones : clone'[c] = Fresh => clone[c] = Fresh
<1>1. log \in Seq(Proposals) /\ Len(log) \in Nat
  BY LenProperties DEF TypeOK, StreamType
<1>2. ASSUME NEW p \in Proposals, log' = Append(log, p)
      PROVE  /\ Len(log') \in Nat /\ Len(log) <= Len(log')
             /\ \A i \in 1 .. Len(log) : log'[i] = log[i]
  BY <1>1, <1>2, AppendProperties
<1>3. /\ Len(log') \in Nat /\ Len(log) <= Len(log')
      /\ \A i \in 1 .. Len(log) : log'[i] = log[i]
  BY <1>1, <1>2, StreamChanges
<1>4. clone \in [Clones -> CloneCall \cup {Fresh}] /\ clone' \in [Clones -> CloneCall \cup {Fresh}]
  BY CloneTyped DEF TypeOK, HandlerType
<1>5. ASSUME NEW c \in Clones, CloneStep(c)
      PROVE  clone'[c] # Fresh /\ \A d \in Clones \ {c} : clone'[d] = clone[d]
  <2>1. PICK pc : /\ pc \in {"noting", "linking", "linked", "approving", "done"}
                  /\ \/ CloneTo(c, pc)
                     \/ clone' = [clone EXCEPT ![c].pc = pc, ![c].parent = rows[clone[c].src]]
    BY <1>5 DEF CloneStep, CloneRecord, CloneNote, CloneRead, CloneLink, CloneApprove
  <2>2. clone[c] \in CloneCall
    BY <1>4, <1>5
       DEF CloneStep, CloneRecord, CloneNote, CloneRead, CloneLink, CloneApprove, Fresh
  <2>3. clone'[c].pc = pc
    BY <1>4, <2>1, <2>2 DEF CloneTo, CloneCall
  <2>4. \A d \in Clones \ {c} : clone'[d] = clone[d]
    BY <1>4, <2>1 DEF CloneTo
  <2> QED
    BY <2>1, <2>3, <2>4 DEF Fresh
<1>6. ASSUME NEW c \in Clones, NEW src \in Proposals, NEW bypass \in BOOLEAN,
             Resubmit(c, src, bypass)
      PROVE  clone[c] = Fresh /\ \A d \in Clones \ {c} : clone'[d] = clone[d]
  BY <1>4, <1>6 DEF Resubmit
<1>7. \A c \in Clones : clone'[c] = Fresh => clone[c] = Fresh
  BY <1>5, <1>6, CloneChanges
<1> QED
  BY <1>1, <1>3, <1>7

LEMMA LogOnce ==
  ASSUME TypeOK, Places, NoReplay => OnceInLog, [Next]_vars
  PROVE  /\ \A c \in Clones : clone'[c] = Fresh => ~ InLog(c)'
         /\ NoReplay' => OnceInLog'
<1>1. /\ log \in Seq(Proposals) /\ Len(log) \in Nat
      /\ \A c \in Clones : clone'[c] = Fresh => clone[c] = Fresh
  BY LogGrows DEF TypeOK, StreamType
<1>2. NoReplay' => NoReplay /\ ~ Disturb("replay")
  BY DisturbancesStay DEF NoReplay
<1>3. ASSUME NEW p \in Proposals, log' = Append(log, p)
      PROVE  /\ \A q : InLog(q)' => InLog(q) \/ q = p
             /\ ~ InLog(p) /\ OnceInLog => OnceInLog'
  <2>1. /\ Len(log') = Len(log) + 1 /\ log'[Len(log) + 1] = p
        /\ \A i \in 1 .. Len(log) : log'[i] = log[i]
    BY <1>1, <1>3, AppendProperties
  <2> QED
    BY <1>1, <2>1 DEF InLog, OnceInLog
<1>4. ASSUME NEW p \in Proposals, Publish(p)
      PROVE  /\ \A c \in Clones : clone'[c] = Fresh => ~ InLog(c)'
             /\ NoReplay' => OnceInLog'
  <2>1. log' = Append(log, p) /\ p \notin Clones /\ ~ InLog(p)
    BY <1>4 DEF Publish
  <2> QED
    BY <1>1, <1>2, <1>3, <2>1 DEF Places
<1>5. ASSUME NEW p \in Proposals, Redeliver(p)
      PROVE  /\ \A c \in Clones : clone'[c] = Fresh => ~ InLog(c)'
             /\ NoReplay' => OnceInLog'
  <2>1. log' = Append(log, p) /\ Disturb("replay") /\ \E i \in 1 .. rpos : log[i] = p
    BY <1>5 DEF Redeliver
  <2>2. InLog(p)
    BY <1>1, <2>1 DEF InLog, TypeOK, StreamType
  <2> QED
    BY <1>1, <1>2, <1>3, <2>1, <2>2 DEF Places
<1>6. ASSUME NEW c \in Clones, NEW src \in Proposals, NEW bypass \in BOOLEAN,
             Resubmit(c, src, bypass)
      PROVE  /\ \A d \in Clones : clone'[d] = Fresh => ~ InLog(d)'
             /\ NoReplay' => OnceInLog'
  <2>1. log' = Append(log, c) /\ clone[c] = Fresh /\ c \in Proposals
    BY <1>6, PipelineAssumption DEF Resubmit
  <2>2. clone'[c] # Fresh
    <3>1. clone'[c].pc = "recording"
      BY <1>6 DEF Resubmit, TypeOK, HandlerType
    <3> QED
      BY <3>1 DEF Fresh
  <2>3. ~ InLog(c)
    BY <2>1 DEF Places
  <2> QED
    BY <1>1, <1>2, <1>3, <2>1, <2>2, <2>3 DEF Places
<1>7. CASE log' = log
  BY <1>1, <1>2, <1>7 DEF Places, InLog, OnceInLog
<1> QED
  BY <1>4, <1>5, <1>6, <1>7, LogChanges

\* The risk manager takes the next entry, keeps its own, or lets it go.
LEMMA RiskMoves ==
  ASSUME TypeOK, [Next]_vars
  PROVE  \/ /\ Guard \/ RejectOutright
            /\ risk = Idle /\ rpos < Len(log) /\ rpos' = rpos + 1
            /\ risk' # Idle /\ risk'.p = log[rpos + 1] /\ risk'.pc \in {"sizing", "rejecting"}
            /\ log' = log
         \/ rpos' = rpos /\ risk' = Idle
         \/ /\ rpos' = rpos
            /\ risk # Idle /\ risk' # Idle /\ risk'.p = risk.p
            /\ risk'.pc # "noting" => risk.pc # "noting"
            /\ Approve \/ risk'.pc # "noting" \/ UNCHANGED risk
<1>1. risk \in RiskCall \cup {Idle}
  BY DEF TypeOK, HandlerType
<1>2. \A r \in RiskCall : r # Idle
  BY DEF RiskCall, Idle
<1>3. CASE Guard
  <2>1. PICK pc \in {"sizing", "rejecting"} :
          \E n : risk' = Handling(log[rpos + 1], pc, n, 0)
    BY <1>3 DEF Guard
  <2>2. risk'.p = log[rpos + 1] /\ risk'.pc = pc
    BY <2>1 DEF Handling
  <2>3. risk' # Idle
    BY <2>1, <2>2 DEF Idle
  <2> QED
    BY <1>3, <2>2, <2>3 DEF Guard, streamVars
<1>4. CASE RejectOutright
  <2>1. risk'.p = log[rpos + 1] /\ risk'.pc = "rejecting"
    BY <1>4 DEF RejectOutright, Handling
  <2>2. risk' # Idle
    BY <2>1 DEF Idle
  <2> QED
    BY <1>4, <2>1, <2>2 DEF RejectOutright, streamVars
<1>5. CASE Reject \/ NoteApproved \/ RiskKilled
  BY <1>5 DEF Reject, NoteApproved, RiskKilled
<1>6. CASE Approve
  <2>1. risk \in RiskCall /\ risk.pc = "approving" /\ risk' = [risk EXCEPT !.pc = "noting"]
        /\ rpos' = rpos
    BY <1>1, <1>6 DEF Approve, Idle
  <2>2. risk'.pc = "noting" /\ risk'.p = risk.p
    BY <2>1 DEF RiskCall
  <2> QED
    BY <1>2, <1>6, <2>1, <2>2 DEF Idle
<1>7. ASSUME NEW pc \in {"rejecting", "requesting", "approving", "listing", "waiting", "answered"},
             NEW size, NEW yes, risk # Idle, risk.pc # "noting", rpos' = rpos,
             \/ risk' = [risk EXCEPT !.pc = pc]
             \/ risk' = [risk EXCEPT !.pc = pc, !.size = size]
             \/ risk' = [risk EXCEPT !.pc = pc, !.yes = yes]
      PROVE  /\ rpos' = rpos /\ risk # Idle /\ risk' # Idle /\ risk'.p = risk.p
             /\ risk'.pc # "noting" /\ risk.pc # "noting"
  <2>1. risk \in RiskCall
    BY <1>1, <1>7
  <2>2. risk'.pc = pc /\ risk'.p = risk.p
    BY <1>7, <2>1 DEF RiskCall
  <2>3. risk' # Idle
    BY <2>2 DEF Idle
  <2> QED
    BY <1>7, <2>2, <2>3
<1>8. CASE Size
  <2>1. PICK size : risk' = [risk EXCEPT !.pc = AfterSizing(size), !.size = size]
    BY <1>8 DEF Size
  <2>2. AfterSizing(size) \in {"rejecting", "requesting", "approving"}
    BY DEF AfterSizing
  <2>3. risk # Idle /\ risk.pc # "noting" /\ rpos' = rpos
    BY <1>8 DEF Size, Idle
  <2> QED
    BY <1>7, <2>1, <2>2, <2>3
<1>9. CASE NoteAnswer
  <2>1. risk # Idle /\ risk.pc # "noting" /\ rpos' = rpos
    BY <1>9 DEF NoteAnswer, Idle
  <2>2. risk' = Idle \/ risk' = [risk EXCEPT !.pc = "approving"]
    BY <1>9 DEF NoteAnswer
  <2> QED
    BY <1>7, <2>1, <2>2
<1>10. CASE RejectUnsized \/ Request \/ Listen
  <2>1. risk # Idle /\ risk.pc # "noting" /\ rpos' = rpos
    BY <1>10 DEF RejectUnsized, Request, Listen, Idle
  <2>2. \E pc \in {"rejecting", "listing", "waiting"} : risk' = [risk EXCEPT !.pc = pc]
    BY <1>10 DEF RejectUnsized, Request, Listen
  <2> QED
    BY <1>7, <2>1, <2>2
<1>11. CASE Timeout
  <2>1. risk # Idle /\ risk.pc # "noting" /\ rpos' = rpos
        /\ risk' = [risk EXCEPT !.pc = "answered", !.yes = OnTimeout]
    BY <1>11 DEF Timeout, Idle
  <2> QED
    BY <1>7, <2>1
<1>12. CASE UNCHANGED <<rpos, risk>>
  BY <1>12
<1>13. ASSUME NEW o \in Operators, Answer(o)
       PROVE  \/ UNCHANGED <<rpos, risk>>
              \/ /\ rpos' = rpos /\ risk # Idle /\ risk' # Idle /\ risk'.p = risk.p
                 /\ risk'.pc # "noting" /\ risk.pc # "noting"
  <2>1. CASE Hears(resolver[o].p)
    <3>1. risk # Idle /\ risk.pc # "noting" /\ rpos' = rpos
      BY <1>13, <2>1 DEF Answer, Hears, Idle
    <3>2. PICK yes : risk' = [risk EXCEPT !.pc = "answered", !.yes = yes]
      BY <1>13, <2>1 DEF Answer
    <3> QED
      BY <1>7, <3>1, <3>2
  <2>2. CASE ~ Hears(resolver[o].p)
    BY <1>13, <2>2 DEF Answer
  <2> QED
    BY <2>1, <2>2
<1> QED
  BY <1>3, <1>4, <1>5, <1>6, <1>8, <1>9, <1>10, <1>11, <1>12, <1>13, RiskChanges

LEMMA ApprovedMoves ==
  ASSUME TypeOK, [Next]_vars
  PROVE  /\ Len(approved) \in Nat /\ Len(approved') \in Nat
         /\ \A k \in 1 .. Len(approved) : approved'[k] = approved[k]
         /\ \/ approved' = approved
            \/ /\ Approve /\ risk # Idle /\ risk.pc = "approving" /\ risk'.pc = "noting"
               /\ Len(approved') = Len(approved) + 1
               /\ approved'[Len(approved) + 1].p = risk.p
            \/ \E c \in Clones : /\ CloneApprove(c)
                                 /\ Len(approved') = Len(approved) + 1
                                 /\ approved'[Len(approved) + 1].p = c
<1>1. approved \in Seq(Decision) /\ Len(approved) \in Nat
  BY LenProperties DEF TypeOK, StreamType
<1>2. ASSUME NEW d \in Decision, approved' = Append(approved, d)
      PROVE  /\ Len(approved') \in Nat /\ Len(approved') = Len(approved) + 1
             /\ \A k \in 1 .. Len(approved) : approved'[k] = approved[k]
             /\ approved'[Len(approved) + 1].p = d.p
  BY <1>1, <1>2, AppendProperties
<1>3. CASE Approve
  <2>1. risk \in RiskCall /\ risk.pc = "approving" /\ risk # Idle
    BY <1>3 DEF Approve, TypeOK, HandlerType, Idle
  <2>2. [p |-> risk.p, size |-> risk.size] \in Decision
    BY <2>1 DEF RiskCall, Decision
  <2>3. risk'.pc = "noting"
    BY <1>3, <2>1 DEF Approve, RiskCall
  <2>4. approved' = Append(approved, [p |-> risk.p, size |-> risk.size])
    BY <1>3 DEF Approve
  <2> QED
    BY <1>1, <1>2, <1>3, <2>1, <2>2, <2>3, <2>4
<1>4. ASSUME NEW c \in Clones, CloneApprove(c)
      PROVE  /\ Len(approved') \in Nat /\ Len(approved') = Len(approved) + 1
             /\ \A k \in 1 .. Len(approved) : approved'[k] = approved[k]
             /\ approved'[Len(approved) + 1].p = c
  <2>1. [p |-> c, size |-> 1] \in Decision
    BY PipelineAssumption DEF Decision
  <2>2. approved' = Append(approved, [p |-> c, size |-> 1])
    BY <1>4 DEF CloneApprove
  <2> QED
    BY <1>2, <2>1, <2>2
<1> QED
  BY <1>1, <1>3, <1>4, StreamChanges

LEMMA ExecMoves ==
  ASSUME TypeOK, [Next]_vars
  PROVE  \/ /\ exec = Idle /\ epos < Len(approved) /\ epos' = epos + 1
            /\ exec' = Idle \/ (exec' # Idle /\ exec'.p = approved[epos + 1].p)
            /\ approved' = approved /\ Len(ledger') = Len(ledger)
         \/ /\ epos' = epos /\ Len(ledger') = Len(ledger)
            /\ \/ exec' = Idle
               \/ /\ exec # Idle /\ exec' # Idle /\ exec'.p = exec.p
                  /\ exec'.pc \in {"ordering", "inserting"} => exec.pc \in {"ordering", "inserting"}
         \/ /\ InsertLedger
            /\ epos' = epos /\ exec # Idle /\ exec.pc = "inserting"
            /\ exec' # Idle /\ exec'.pc = "noting" /\ exec'.p = exec.p
<1>1. exec \in ExecCall \cup {Idle} /\ \A r \in ExecCall : r # Idle
  BY DEF TypeOK, HandlerType, ExecCall, Idle
<1>2. CASE InsertLedger
  <2>1. exec \in ExecCall /\ exec.pc = "inserting"
    BY <1>1, <1>2 DEF InsertLedger, Idle
  <2>2. exec' = [exec EXCEPT !.pc = "noting"] /\ epos' = epos
    BY <1>2 DEF InsertLedger
  <2>3. exec'.pc = "noting" /\ exec'.p = exec.p
    BY <2>1, <2>2 DEF ExecCall
  <2>4. exec' # Idle
    BY <2>3 DEF Idle
  <2> QED
    BY <1>1, <1>2, <2>1, <2>2, <2>3, <2>4
<1>3. ASSUME ~ InsertLedger
      PROVE  Len(ledger') = Len(ledger)
  BY <1>3, LedgerChanges
<1>4. ASSUME TakeDecision \/ DropDecision
      PROVE  /\ exec = Idle /\ epos < Len(approved) /\ epos' = epos + 1
             /\ exec' = Idle \/ (exec' # Idle /\ exec'.p = approved[epos + 1].p)
             /\ approved' = approved /\ ~ InsertLedger
  <2>1. CASE TakeDecision
    <3>1. PICK pc \in {"ordering", "inserting"} :
            exec' = [pc |-> pc, p |-> approved[epos + 1].p, size |-> approved[epos + 1].size]
      BY <2>1 DEF TakeDecision
    <3>2. exec'.p = approved[epos + 1].p /\ exec'.pc = pc
      BY <3>1
    <3>3. exec' # Idle
      BY <3>2 DEF Idle
    <3> QED
      BY <2>1, <3>2, <3>3 DEF TakeDecision, streamVars, InsertLedger, Idle
  <2>2. CASE DropDecision
    <3>1. exec = Idle /\ exec' = Idle /\ epos < Len(approved) /\ epos' = epos + 1
      BY <2>2 DEF DropDecision
    <3>2. approved' = approved
      BY <2>2 DEF DropDecision, streamVars
    <3>3. ~ InsertLedger
      BY <3>1 DEF InsertLedger, Idle
    <3> QED
      BY <3>1, <3>2, <3>3
  <2> QED
    BY <1>4, <2>1, <2>2
<1>5. ASSUME PlaceOrder \/ PaperFallback
      PROVE  /\ epos' = epos /\ ~ InsertLedger
             /\ exec # Idle /\ exec' # Idle /\ exec'.p = exec.p /\ exec.pc = "ordering"
  <2>1. exec \in ExecCall /\ exec.pc = "ordering" /\ exec' = [exec EXCEPT !.pc = "inserting"]
        /\ epos' = epos /\ ~ InsertLedger
    BY <1>1, <1>5 DEF PlaceOrder, PaperFallback, Idle, InsertLedger
  <2>2. exec'.pc = "inserting" /\ exec'.p = exec.p
    BY <2>1 DEF ExecCall
  <2>3. exec' # Idle
    BY <2>2 DEF Idle
  <2> QED
    BY <1>1, <2>1, <2>2, <2>3
<1>6. ASSUME OrderFails \/ InsertFails \/ NoteExecuted \/ ExecKilled
      PROVE  epos' = epos /\ exec' = Idle
  BY <1>6 DEF OrderFails, InsertFails, NoteExecuted, ExecKilled
<1>7. ASSUME (\E i \in DOMAIN ledger : CloseTrade(i)) \/ UNCHANGED <<epos, exec, ledger, orders>>
      PROVE  epos' = epos /\ exec' = exec
  BY <1>7 DEF CloseTrade
<1> QED
  BY <1>2, <1>3, <1>4, <1>5, <1>6, <1>7, ExecChanges

LEMMA PlacesStep ==
  ASSUME TypeOK, Places, NoReplay => OnceInLog, [Next]_vars
  PROVE  Places'
<1>1. \A c \in Clones : clone'[c] = Fresh => ~ InLog(c)'
  BY LogOnce
<1>2. rpos \in 0 .. Len(log) /\ epos \in 0 .. Len(approved)
  BY DEF TypeOK, StreamType
<1>3. /\ Len(log) \in Nat /\ \A i \in 1 .. Len(log) : log'[i] = log[i]
      /\ Len(approved) \in Nat /\ \A k \in 1 .. Len(approved) : approved'[k] = approved[k]
  BY LogGrows, ApprovedMoves
<1>4. risk' # Idle => rpos' >= 1 /\ log'[rpos'] = risk'.p
  BY <1>2, <1>3, RiskMoves DEF Places
<1>5. exec' # Idle => epos' >= 1 /\ approved'[epos'].p = exec'.p
  BY <1>2, <1>3, ExecMoves DEF Places
<1>6. epos' >= epos /\ epos' \in Nat
  BY <1>2, <1>3, ExecMoves
<1>7. ASSUME NEW i \in DOMAIN ledger'
      PROVE  \E k \in 1 .. epos' : approved'[k].p = ledger'[i].p
  <2>1. CASE i \in DOMAIN ledger
    <3>1. PICK k \in 1 .. epos : approved[k].p = ledger[i].p
      BY <2>1 DEF Places
    <3>2. approved'[k].p = ledger'[i].p /\ k \in 1 .. epos'
      BY <1>2, <1>3, <1>6, <2>1, <3>1, LedgerChanges
    <3> QED
      BY <3>2
  <2>2. CASE i \notin DOMAIN ledger
    <3>1. InsertLedger /\ i = Len(ledger) + 1 /\ ledger'[i].p = exec.p
      BY <1>7, <2>2, LedgerChanges
    <3>2. exec # Idle /\ epos' = epos
      BY <3>1 DEF InsertLedger, Idle
    <3>3. epos \in 1 .. epos' /\ approved'[epos].p = exec.p
      BY <1>2, <1>3, <3>2 DEF Places
    <3> QED
      BY <3>1, <3>3
  <2> QED
    BY <2>1, <2>2
<1> QED
  BY <1>1, <1>4, <1>5, <1>7 DEF Places

LEMMA TakenGrows ==
  ASSUME TypeOK, [Next]_vars, NEW p, Taken(p)
  PROVE  Taken(p)'
<1>1. rpos \in 0 .. Len(log) /\ Len(log) \in Nat /\ \A i \in 1 .. Len(log) : log'[i] = log[i]
  BY LogGrows DEF TypeOK, StreamType
<1>2. rpos' = rpos \/ rpos' = rpos + 1
  BY RiskMoves
<1>3. PICK i \in 1 .. rpos : log[i] = p
  BY DEF Taken
<1>4. i \in 1 .. rpos' /\ log'[i] = p
  BY <1>1, <1>2, <1>3
<1> QED
  BY <1>4 DEF Taken

\* A new entry was not taken before.
LEMMA NextIsNew ==
  ASSUME TypeOK, OnceInLog, rpos < Len(log)
  PROVE  ~ Taken(log[rpos + 1])
<1>1. rpos \in 0 .. Len(log) /\ Len(log) \in Nat
  BY LenProperties DEF TypeOK, StreamType
<1>2. SUFFICES ASSUME NEW i \in 1 .. rpos, log[i] = log[rpos + 1]
               PROVE  FALSE
  BY DEF Taken
<1>3. i \in 1 .. Len(log) /\ rpos + 1 \in 1 .. Len(log) /\ i # rpos + 1
  BY <1>1, <1>2
<1> QED
  BY <1>2, <1>3 DEF OnceInLog

\* Of its own proposals the risk manager adds one that was not decided.
LEMMA NewDecision ==
  ASSUME IInv, [Next]_vars, NEW p \in Own', Decided(p)'
  PROVE  \/ Decided(p)
         \/ Approve /\ risk # Idle /\ risk.pc = "approving" /\ risk.p = p
<1>1. PICK k \in 1 .. Len(approved') : approved'[k].p = p
  BY DEF Decided
<1>2. CASE k \in 1 .. Len(approved)
  BY <1>1, <1>2, ApprovedMoves DEF IInv, Decided
<1>3. CASE k \notin 1 .. Len(approved)
  <2>1. Len(approved) \in Nat /\ Len(approved') \in Nat
    BY ApprovedMoves DEF IInv
  <2>2. ASSUME NEW c \in Clones, CloneApprove(c)
        PROVE  c \notin Own'
    <3>1. c \in Bypassing
      <4>1. clone[c].pc = "approving"
        BY <2>2 DEF CloneApprove
      <4> QED
        BY <4>1 DEF IInv, Granting, OnlyOverrides, Bypassing, Fresh
    <3> QED
      BY <3>1, OverridesStay DEF IInv, Granting, Own
  <2> QED
    BY <1>1, <1>3, <2>1, <2>2, ApprovedMoves DEF IInv
<1> QED
  BY <1>2, <1>3

LEMMA DecidedOnceStep ==
  ASSUME IInv, Places, OnceInLog, DecidedOnce, [Next]_vars
  PROVE  DecidedOnce'
<1>1. TypeOK /\ Own' \subseteq Own
  BY OverridesStay DEF IInv, Granting, Own
<1>2. ASSUME NEW p \in Own', Decided(p)'
      PROVE  Taken(p)'
  <2>1. CASE Decided(p)
    BY <1>1, <1>2, <2>1, TakenGrows DEF DecidedOnce
  <2>2. CASE risk # Idle /\ risk.p = p
    <3>1. rpos \in 1 .. rpos /\ log[rpos] = p
      BY <1>1, <2>2 DEF Places, TypeOK, StreamType
    <3> QED
      BY <1>1, <3>1, TakenGrows DEF Taken
  <2> QED
    BY <1>2, <2>1, <2>2, NewDecision
<1>3. ASSUME NEW k \in 1 .. Len(approved'), NEW l \in 1 .. Len(approved'),
             approved'[k].p = approved'[l].p, approved'[k].p \in Own', k < l
      PROVE  FALSE
  <2>1. Len(approved) \in Nat /\ Len(approved') \in Nat
        /\ \A m \in 1 .. Len(approved) : approved'[m] = approved[m]
    BY <1>1, ApprovedMoves
  <2>2. CASE l \in 1 .. Len(approved)
    BY <1>1, <1>3, <2>1, <2>2 DEF DecidedOnce
  <2>3. CASE l \notin 1 .. Len(approved)
    <3>1. k \in 1 .. Len(approved) /\ l = Len(approved) + 1
      BY <1>1, <1>3, <2>1, <2>3, ApprovedMoves
    <3>2. Decided(approved'[l].p)
      BY <1>3, <2>1, <3>1 DEF Decided
    <3>3. \A c \in Clones : CloneApprove(c) => c \in Bypassing
      <4>1. \A c \in Clones : CloneApprove(c) => clone[c].pc = "approving"
        BY DEF CloneApprove
      <4> QED
        BY <4>1 DEF IInv, Granting, OnlyOverrides, Bypassing, Fresh
    <3>4. Approve /\ risk # Idle /\ risk.pc = "approving" /\ approved'[l].p = risk.p
      BY <1>1, <1>3, <2>1, <2>3, <3>1, <3>3, ApprovedMoves DEF Own
    <3> QED
      BY <1>1, <1>3, <3>2, <3>4 DEF DecidedOnce
  <2> QED
    BY <2>2, <2>3
<1>4. ASSUME NEW p \in Own', Decided(p)', risk' # Idle, risk'.pc # "noting", risk'.p = p
      PROVE  FALSE
  <2>1. ~ Approve
    BY <1>1, <1>4 DEF Approve, TypeOK, HandlerType, RiskCall, Idle
  <2>2. Decided(p)
    BY <1>4, <2>1, NewDecision
  <2>3. p \in Own /\ Taken(p)
    BY <1>1, <1>4, <2>2 DEF DecidedOnce
  <2>4. rpos < Len(log) => ~ Taken(log[rpos + 1])
    BY <1>1, NextIsNew
  <2> QED
    BY <1>1, <1>4, <2>2, <2>3, <2>4, RiskMoves DEF DecidedOnce
<1>5. \A k, l \in 1 .. Len(approved') :
        approved'[k].p = approved'[l].p /\ approved'[k].p \in Own' => k = l
  <2>1. Len(approved') \in Nat
    BY <1>1, ApprovedMoves
  <2>2. \A k, l \in 1 .. Len(approved') : k < l \/ l < k \/ k = l
    BY <2>1
  <2> QED
    BY <1>3, <2>2
<1>6. (risk # Idle /\ risk.pc # "noting" /\ risk.p \in Own => ~ Decided(risk.p))'
  BY <1>4 DEF Decided
<1> QED
  BY <1>2, <1>5, <1>6 DEF DecidedOnce

LEMMA UniqueTradesStep ==
  ASSUME IInv, Places, DecidedOnce, UniqueTrades, [Next]_vars
  PROVE  UniqueTrades'
<1>1. TypeOK /\ Own' \subseteq Own
  BY OverridesStay DEF IInv, Granting, Own
<1>2. /\ Len(ledger) \in Nat /\ DOMAIN ledger = 1 .. Len(ledger)
      /\ DOMAIN ledger' = 1 .. Len(ledger')
      /\ \A i \in DOMAIN ledger : ledger'[i].p = ledger[i].p
  BY <1>1, LedgerChanges
<1>3. CASE Len(ledger') = Len(ledger)
  <2>1. \A i, j \in DOMAIN ledger' : ledger'[i].p = ledger'[j].p /\ ledger'[i].p \in Own' => i = j
    BY <1>1, <1>2, <1>3 DEF UniqueTrades
  <2>2. ASSUME exec'.pc \in {"ordering", "inserting"}, exec'.p \in Own',
               NEW i \in DOMAIN ledger', ledger'[i].p = exec'.p
        PROVE  FALSE
    <3>1. exec' # Idle /\ exec'.pc # "noting"
      BY <2>2 DEF Idle
    <3>2. CASE exec # Idle /\ exec'.p = exec.p /\ exec.pc \in {"ordering", "inserting"}
      BY <1>1, <1>2, <1>3, <2>2, <3>2 DEF UniqueTrades
    <3>3. CASE epos < Len(approved) /\ exec'.p = approved[epos + 1].p
      <4>1. PICK k \in 1 .. epos : approved[k].p = ledger[i].p
        BY <1>2, <1>3, <2>2 DEF Places
      <4>2. epos \in Nat /\ Len(approved) \in Nat
        BY <1>1, LenProperties DEF TypeOK, StreamType
      <4>3. k \in 1 .. Len(approved) /\ epos + 1 \in 1 .. Len(approved) /\ k # epos + 1
        BY <3>3, <4>1, <4>2
      <4>4. approved[k].p = approved[epos + 1].p /\ approved[k].p \in Own
        BY <1>1, <1>2, <1>3, <2>2, <3>3, <4>1
      <4> QED
        BY <4>3, <4>4 DEF DecidedOnce
    <3> QED
      BY <1>1, <2>2, <3>1, <3>2, <3>3, ExecMoves
  <2> QED
    BY <2>1, <2>2 DEF UniqueTrades
<1>4. CASE Len(ledger') # Len(ledger)
  <2>1. InsertLedger /\ Len(ledger') = Len(ledger) + 1 /\ ledger'[Len(ledger) + 1].p = exec.p
    BY <1>1, <1>4, LedgerChanges
  <2>2. exec.pc = "inserting"
    BY <2>1 DEF InsertLedger
  <2>3. exec'.pc = "noting"
    BY <1>1, <2>1 DEF InsertLedger, TypeOK, HandlerType, ExecCall, Idle
  <2>4. exec.p \in Own' => \A i \in DOMAIN ledger : ledger[i].p # exec.p
    BY <1>1, <2>2 DEF UniqueTrades
  <2>5. \A i, j \in DOMAIN ledger' : ledger'[i].p = ledger'[j].p /\ ledger'[i].p \in Own' => i = j
    BY <1>1, <1>2, <2>1, <2>4 DEF UniqueTrades
  <2> QED
    BY <2>3, <2>5 DEF UniqueTrades
<1> QED
  BY <1>3, <1>4

\* What a proposal is turned down by: the risk manager, who lets go of it.
LEMMA NewlyDown ==
  ASSUME TypeOK, [Next]_vars, NEW p, Down(p)'
  PROVE  \/ Down(p)
         \/ /\ risk # Idle /\ risk.p = p /\ risk.pc # "noting"
            /\ risk' = Idle /\ UNCHANGED <<rpos, log, approved>>
<1>1. clone \in [Clones -> CloneCall \cup {Fresh}] /\ rows \in [Proposals -> RowStates]
  BY DEF TypeOK, HandlerType, BookType
<1>2. CASE rows'[p] \in TurnedDown
  <2>1. ASSUME NEW q, NEW state, UpdateState(q, state), state \notin TurnedDown
        PROVE  rows[p] \in TurnedDown
    BY <1>1, <1>2, <2>1 DEF UpdateState, TurnedDown, RowStates
  <2>2. ASSUME NEW q, RecordPublished(q)
        PROVE  rows[p] \in TurnedDown
    BY <1>1, <1>2, <2>2 DEF RecordPublished, TurnedDown, RowStates
  <2>3. CASE Reject \/ NoteAnswer
    <3>1. CASE rows' = rows
      BY <1>2, <3>1 DEF Down
    <3>2. CASE Reject /\ UpdateState(risk.p, "rejected")
      <4>1. p = risk.p \/ rows[p] \in TurnedDown
        BY <1>1, <1>2, <3>2 DEF UpdateState
      <4>2. risk # Idle /\ risk.pc # "noting" /\ risk' = Idle /\ UNCHANGED <<rpos, log, approved>>
        BY <3>2 DEF Reject, Idle, streamVars
      <4> QED
        BY <4>1, <4>2 DEF Down
    <3>3. CASE NoteAnswer /\ risk.yes = "yes"
      <4>1. rows' = rows \/ UpdateState(risk.p, "hitl_approved")
        BY <3>3 DEF NoteAnswer, TryUpdate
      <4> QED
        BY <2>1, <3>1, <4>1 DEF Down, TurnedDown
    <3>4. CASE NoteAnswer /\ risk.yes # "yes" /\ UpdateState(risk.p, "hitl_rejected")
      <4>1. p = risk.p \/ rows[p] \in TurnedDown
        BY <1>1, <1>2, <3>4 DEF UpdateState
      <4>2. risk # Idle /\ risk.pc # "noting" /\ risk' = Idle /\ UNCHANGED <<rpos, log, approved>>
        BY <3>4 DEF NoteAnswer, Idle, streamVars
      <4> QED
        BY <4>1, <4>2 DEF Down
    <3> QED
      BY <2>3, <3>1, <3>2, <3>3, <3>4 DEF Reject, NoteAnswer, TryUpdate
  <2>4. CASE Listen \/ NoteApproved \/ NoteExecuted
    <3>1. rows' = rows \/ \E q, state : UpdateState(q, state) /\ state \notin TurnedDown
      BY <2>4 DEF Listen, NoteApproved, NoteExecuted, TryUpdate, TurnedDown
    <3> QED
      BY <1>2, <2>1, <3>1 DEF Down
  <2>5. CASE \E q \in Proposals : Record(q)
    BY <2>2, <2>5 DEF Record, Down
  <2>6. ASSUME NEW c \in Clones, CloneRecord(c) \/ CloneNote(c)
        PROVE  Down(p)
    BY <2>1, <2>2, <2>6 DEF CloneRecord, CloneNote, Down, TurnedDown
  <2>7. ASSUME NEW c \in Clones, CloneLink(c)
        PROVE  Down(p)
    <3>1. clone[c] # Fresh /\ UpdateState(clone[c].src, clone[c].parent)
      BY <2>7 DEF CloneLink, Fresh
    <3>2. CASE clone[c].parent \notin TurnedDown
      BY <2>1, <3>1, <3>2 DEF Down
    <3>3. CASE clone[c].parent \in TurnedDown /\ clone[c].src = p
      BY <3>1, <3>3 DEF Down
    <3>4. CASE clone[c].src # p
      BY <1>1, <1>2, <3>1, <3>4 DEF Down, UpdateState
    <3> QED
      BY <3>2, <3>3, <3>4
  <2>8. \/ Reject \/ Listen \/ NoteAnswer \/ NoteApproved \/ NoteExecuted
        \/ \E q \in Proposals : Record(q)
        \/ \E c \in Clones : CloneRecord(c) \/ CloneNote(c) \/ CloneLink(c)
        \/ rows' = rows
    BY DEF Next, vars, tableVars, RiskStep, ExecStep, CloneStep, OperatorStep, Publish, Redeliver,
           RejectOutright, Guard, RejectUnsized, Size, Request, Timeout, Approve, RiskKilled,
           Decide, Flip, Answer, DropDecision, TakeDecision, PlaceOrder, PaperFallback, OrderFails,
           InsertLedger, InsertFails, ExecKilled, CloseTrade, Resubmit, CloneRead, CloneApprove
  <2>9. CASE rows' = rows
    BY <1>2, <2>9 DEF Down
  <2> QED
    BY <2>3, <2>4, <2>5, <2>6, <2>7, <2>8, <2>9
<1>3. ASSUME NEW c \in Clones, clone'[c] # Fresh, clone'[c].src = p, clone'[c].parent \in TurnedDown
      PROVE  Down(p)
  <2>1. CASE clone'[c] = clone[c]
    BY <1>3, <2>1 DEF Down
  <2>2. ASSUME NEW src \in Proposals, NEW bypass \in BOOLEAN, Resubmit(c, src, bypass)
        PROVE  FALSE
    <3>1. clone'[c].parent = "absent"
      BY <1>1, <2>2 DEF Resubmit
    <3> QED
      BY <1>3, <3>1 DEF TurnedDown
  <2>3. CASE CloneRead(c)
    <3>1. clone[c] \in CloneCall
      BY <1>1, <2>3 DEF CloneRead, Fresh
    <3>2. clone'[c].src = clone[c].src /\ clone'[c].parent = rows[clone[c].src]
      BY <1>1, <2>3, <3>1 DEF CloneRead, CloneCall
    <3> QED
      BY <1>3, <3>2 DEF Down
  <2>4. CASE CloneStep(c) /\ ~ CloneRead(c)
    <3>1. clone[c] \in CloneCall /\ clone[c] # Fresh
      BY <1>1, <2>4 DEF CloneStep, CloneRecord, CloneNote, CloneLink, CloneApprove, Fresh
    <3>2. PICK pc : CloneTo(c, pc)
      BY <2>4 DEF CloneStep, CloneRecord, CloneNote, CloneLink, CloneApprove
    <3>3. clone'[c].src = clone[c].src /\ clone'[c].parent = clone[c].parent
      BY <1>1, <3>1, <3>2 DEF CloneTo, CloneCall
    <3> QED
      BY <1>3, <3>1, <3>3 DEF Down
  <2>5. ASSUME NEW d \in Clones, d # c,
               CloneStep(d) \/ \E src \in Proposals, bypass \in BOOLEAN : Resubmit(d, src, bypass)
        PROVE  clone'[c] = clone[c]
    <3>1. \E r : clone' = [clone EXCEPT ![d] = r]
      BY <2>5
         DEF CloneStep, CloneRecord, CloneNote, CloneRead, CloneLink, CloneApprove, CloneTo, Resubmit
    <3> QED
      BY <1>1, <2>5, <3>1
  <2> QED
    BY <2>1, <2>2, <2>3, <2>4, <2>5, CloneChanges
<1> QED
  BY <1>2, <1>3 DEF Down

LEMMA DownStep ==
  ASSUME IInv, Places, OnceInLog, DecidedOnce, DownIsOver, [Next]_vars
  PROVE  DownIsOver'
<1>1. TypeOK /\ Own' \subseteq Own
  BY OverridesStay DEF IInv, Granting, Own
<1>2. ASSUME NEW p \in Own', Down(p)'
      PROVE  ~ Decided(p)' /\ Taken(p)' /\ ~ (risk' # Idle /\ risk'.p = p)
  <2>1. CASE Down(p)
    <3>1. ~ Decided(p) /\ Taken(p) /\ ~ (risk # Idle /\ risk.p = p)
      BY <1>1, <1>2, <2>1 DEF DownIsOver
    <3>2. ~ Decided(p)'
      BY <1>2, <3>1, NewDecision
    <3>3. rpos < Len(log) => ~ Taken(log[rpos + 1])
      BY <1>1, NextIsNew
    <3> QED
      BY <1>1, <3>1, <3>2, <3>3, TakenGrows, RiskMoves
  <2>2. CASE /\ risk # Idle /\ risk.p = p /\ risk.pc # "noting"
             /\ risk' = Idle /\ UNCHANGED <<rpos, log, approved>>
    <3>1. ~ Decided(p)
      BY <1>1, <1>2, <2>2 DEF DecidedOnce
    <3>2. Taken(p)
      <4>1. rpos \in 1 .. rpos /\ log[rpos] = p
        BY <1>1, <2>2 DEF Places, TypeOK, StreamType
      <4> QED
        BY <4>1 DEF Taken
    <3>3. ~ Decided(p)'
      BY <2>2, <3>1 DEF Decided
    <3> QED
      BY <1>1, <2>2, <3>2, <3>3, TakenGrows
  <2> QED
    BY <1>1, <1>2, <2>1, <2>2, NewlyDown
<1>3. \A p \in Own' : Down(p)' => ~ Decided(p)' /\ Taken(p)' /\ ~ (risk' # Idle /\ risk'.p = p)
  BY <1>2
<1> QED
  BY <1>3 DEF DownIsOver

LEMMA OnceStep ==
  ASSUME OnceInv, [Next]_vars
  PROVE  OnceInv'
<1>1. TypeOK /\ IInv' /\ Places'
  BY IInvStep, PlacesStep DEF OnceInv, IInv
<1>2. ASSUME NoReplay'
      PROVE  (OnceInLog /\ DecidedOnce /\ UniqueTrades /\ DownIsOver)'
  <2>1. NoReplay
    BY <1>2, DisturbancesStay DEF NoReplay
  <2> QED
    BY <1>1, <1>2, <2>1, LogOnce, DecidedOnceStep, UniqueTradesStep, DownStep DEF OnceInv
<1> QED
  BY <1>1, <1>2 DEF OnceInv

LEMMA OnceBegins ==
  ASSUME Init
  PROVE  OnceInv
<1>1. IInv
  <2>1. TypeOK
    BY TypeInit
  <2>2. Granting
    BY DEF Init, Granting, YesIsGranted, LargeIsGranted, OnlyOverrides, HumanApproved, Idle, Fresh
  <2> QED
    BY <2>1, <2>2 DEF IInv
<1>2. Places
  BY DEF Init, Places, InLog
<1>3. OnceInLog /\ DecidedOnce /\ UniqueTrades
  BY DEF Init, OnceInLog, DecidedOnce, UniqueTrades, Decided, Idle
<1>4. DownIsOver
  <2>1. \A p \in Proposals : ~ Down(p)
    BY DEF Init, Down, TurnedDown
  <2> QED
    BY <2>1 DEF DownIsOver, Own
<1> QED
  BY <1>1, <1>2, <1>3, <1>4 DEF OnceInv

\* Whatever dies, fails or times out: a proposal that is not replayed and does not
\* override the gates is on the ledger once (risk_manager.py and executor.py handle).
THEOREM TradedOnceAlways == Spec => []TradedOnce
<1>1. OnceInv => TradedOnce
  <2> SUFFICES ASSUME OnceInv, NoReplay, NEW p \in Own
               PROVE  Cardinality(TradesOf(p)) <= 1
    BY DEF TradedOnce, TradesOf, NoReplay, Own
  <2>1. \A i, j \in TradesOf(p) : i = j
    BY DEF OnceInv, UniqueTrades, TradesOf
  <2>2. CASE TradesOf(p) = {}
    BY <2>2, FS_EmptySet
  <2>3. CASE TradesOf(p) # {}
    <3>1. PICK i : TradesOf(p) = {i}
      BY <2>1, <2>3
    <3> QED
      BY <3>1, FS_Singleton
  <2> QED
    BY <2>2, <2>3
<1> QED
  BY OnceBegins, OnceStep, <1>1, PTL DEF Spec

\* What the table shows as turned down is not on the ledger, though a resubmit writes
\* back states it read long ago, and answers of operators come late
\* (proposals.py _append_child, approval_store.py resolve).
THEOREM NeverTradedOnceDown == Spec => []TurnedDownNotTraded
<1>1. OnceInv => TurnedDownNotTraded
  <2> SUFFICES ASSUME OnceInv, NoReplay, NEW p \in Own, rows[p] \in TurnedDown,
                      NEW i \in DOMAIN ledger, ledger[i].p = p
               PROVE  FALSE
    BY DEF TurnedDownNotTraded, NoReplay, Own, TurnedDown
  <2>1. PICK k \in 1 .. epos : approved[k].p = p
    BY DEF OnceInv, Places
  <2>2. k \in 1 .. Len(approved)
    <3>1. epos \in 0 .. Len(approved) /\ Len(approved) \in Nat
      BY LenProperties DEF OnceInv, IInv, TypeOK, StreamType
    <3> QED
      BY <3>1
  <2> QED
    BY <2>1, <2>2 DEF OnceInv, DownIsOver, Down, Decided
<1> QED
  BY OnceBegins, OnceStep, <1>1, PTL DEF Spec

-----------------------------------------------------------------------------
(***************************************************************************)
(* One position per symbol, while the risk manager sees every trade.       *)
(***************************************************************************)

SizedPcs == {"sizing", "requesting", "listing", "waiting", "answered", "approving"}
Ordering == exec.pc \in {"ordering", "inserting"}

\* No open trade is on the symbol of p.
Apart(p) == \A i \in OpenTrades : SymbolOf[ledger[i].p] # SymbolOf[p]

OneOpen ==
  \A i, j \in OpenTrades : SymbolOf[ledger[i].p] = SymbolOf[ledger[j].p] => i = j

\* One decision at most is on its way to the ledger, to a symbol that is free ...
OneFlight ==
  /\ Len(approved) <= epos + 1
  /\ epos < Len(approved) => Apart(approved[epos + 1].p)
  /\ Ordering => epos = Len(approved) /\ Apart(exec.p)

\* ... and none at all while the risk manager is past its guards with the next.
NoneBeside == risk.pc \in SizedPcs => ~ Overlap /\ Apart(risk.p)

Sighted == OneOpen /\ OneFlight /\ NoneBeside
SightedInv == TypeOK /\ (~ blind => Sighted)

LEMMA BlindMoves ==
  ASSUME TypeOK, [Next]_vars, ~ blind'
  PROVE  /\ ~ blind
         /\ \A c \in Clones : ~ CloneApprove(c)
<1>1. blind' \in {TRUE, blind, blind \/ Overlap}
  BY DEF Next, vars, histVars, RiskStep, ExecStep, CloneStep, OperatorStep, Publish, Record, Redeliver,
         RejectOutright, Guard, RejectUnsized, Size, Reject, Request, Listen, Timeout, NoteAnswer,
         Approve, NoteApproved, RiskKilled, Decide, Flip, Answer, DropDecision, TakeDecision,
         PlaceOrder, PaperFallback, OrderFails, InsertLedger, InsertFails, NoteExecuted, ExecKilled,
         CloseTrade, Resubmit, CloneRecord, CloneNote, CloneRead, CloneLink, CloneApprove,
         ReadLedger, TryUpdate
<1> QED
  BY <1>1 DEF CloneApprove, TypeOK, HistoryType

\* Without an insert the open trades are among those there were.
LEMMA OpenChanges ==
  ASSUME TypeOK, [Next]_vars, Len(ledger') = Len(ledger)
  PROVE  /\ OpenTrades' \subseteq OpenTrades
         /\ \A i \in OpenTrades : ledger'[i].p = ledger[i].p
         /\ \A p : Apart(p) => Apart(p)'
<1>1. /\ DOMAIN ledger = 1 .. Len(ledger) /\ DOMAIN ledger' = 1 .. Len(ledger')
      /\ \A i \in DOMAIN ledger : ledger'[i].p = ledger[i].p
  BY LedgerChanges
<1>2. ASSUME NEW i \in DOMAIN ledger, CloseTrade(i), NEW j \in DOMAIN ledger, ledger'[j].open
      PROVE  ledger[j].open
  <2>1. ledger[i] \in Trade
    BY <1>1, <1>2, ElementOfSeq DEF TypeOK, BookType
  <2>2. ledger' = [ledger EXCEPT ![i] = [ledger[i] EXCEPT !.open = FALSE]]
    BY <1>2 DEF CloseTrade
  <2>3. j # i
    BY <1>2, <2>1, <2>2 DEF Trade
  <2> QED
    BY <1>2, <2>2, <2>3
<1>3. InsertLedger \/ (\E i \in DOMAIN ledger : CloseTrade(i)) \/ ledger' = ledger
  BY ExecChanges
     DEF TakeDecision, DropDecision, PlaceOrder, PaperFallback, OrderFails, InsertFails,
         NoteExecuted, ExecKilled
<1>4. ~ InsertLedger
  <2>1. ledger \in Seq(Trade)
    BY DEF TypeOK, BookType
  <2>2. InsertLedger => \E t : ledger' = Append(ledger, t)
    BY DEF InsertLedger
  <2> QED
    BY <2>1, <2>2, LenProperties
<1>5. OpenTrades' \subseteq OpenTrades
  BY <1>1, <1>2, <1>3, <1>4 DEF OpenTrades
<1>6. \A i \in OpenTrades : ledger'[i].p = ledger[i].p
  BY <1>1 DEF OpenTrades
<1> QED
  BY <1>5, <1>6 DEF Apart

LEMMA InsertAppends ==
  ASSUME TypeOK, [Next]_vars, InsertLedger
  PROVE  /\ OpenTrades' = OpenTrades \cup {Len(ledger) + 1}
         /\ \A i \in OpenTrades : ledger'[i].p = ledger[i].p
         /\ ledger'[Len(ledger) + 1].p = exec.p
         /\ Len(ledger) + 1 \notin OpenTrades
<1>1. /\ Len(ledger) \in Nat /\ DOMAIN ledger = 1 .. Len(ledger)
      /\ DOMAIN ledger' = 1 .. Len(ledger')
  BY LedgerChanges
<1>2. Len(ledger') = Len(ledger) + 1
  <2>1. ledger \in Seq(Trade)
    BY DEF TypeOK, BookType
  <2>2. \E t : ledger' = Append(ledger, t)
    BY DEF InsertLedger
  <2> QED
    BY <2>1, <2>2, LenProperties
<1>3. Len(ledger') # Len(ledger)
  <2>1. Len(ledger) \in Nat
    BY LedgerChanges
  <2> QED
    BY <1>2, <2>1
<1>4. /\ ledger'[Len(ledger) + 1].p = exec.p /\ ledger'[Len(ledger) + 1].open
      /\ \A i \in DOMAIN ledger : ledger'[i] = ledger[i]
  BY <1>3, LedgerChanges
<1> QED
  BY <1>1, <1>2, <1>4 DEF OpenTrades

LEMMA FlightStep ==
  ASSUME SightedInv, [Next]_vars, ~ blind'
  PROVE  OneOpen' /\ OneFlight'
<1>1. TypeOK /\ OneOpen /\ OneFlight /\ NoneBeside
  BY BlindMoves DEF SightedInv, Sighted
<1>2. epos \in Nat /\ epos <= Len(approved) /\ Len(approved) \in Nat
  BY <1>1, LenProperties DEF TypeOK, StreamType
<1>3. CASE InsertLedger
  <2>1. Ordering /\ UNCHANGED <<approved, epos>> /\ ~ Ordering'
    BY <1>1, <1>3
       DEF InsertLedger, Ordering, streamVars, TypeOK, HandlerType, ExecCall, Idle
  <2>2. epos = Len(approved) /\ Apart(exec.p)
    BY <1>1, <2>1 DEF OneFlight
  <2>3. OneOpen'
    BY <1>1, <1>3, <2>2, InsertAppends DEF OneOpen, Apart
  <2> QED
    BY <1>2, <2>1, <2>2, <2>3 DEF OneFlight
<1>4. ASSUME ~ InsertLedger
      PROVE  Len(ledger') = Len(ledger)
  BY <1>1, <1>4, LedgerChanges
<1>5. ASSUME ~ InsertLedger
      PROVE  OneOpen'
  BY <1>1, <1>4, <1>5, OpenChanges DEF OneOpen
<1>6. ASSUME exec = Idle, epos < Len(approved), epos' = epos + 1, approved' = approved,
             exec' = Idle \/ (exec' # Idle /\ exec'.p = approved[epos + 1].p)
      PROVE  OneFlight'
  <2>1. Len(approved) = epos + 1 /\ Apart(approved[epos + 1].p)
    BY <1>1, <1>2, <1>6 DEF OneFlight
  <2>2. ~ InsertLedger
    BY <1>6 DEF InsertLedger, Idle
  <2> DEFINE p == approved[epos + 1].p
  <2>3. \A i \in OpenTrades' : SymbolOf[ledger'[i].p] # SymbolOf[p]
    BY <1>1, <1>4, <2>1, <2>2, OpenChanges DEF Apart
  <2>4. exec' = Idle => ~ Ordering'
    BY DEF Ordering, Idle
  <2>5. Ordering' => Apart(exec.p)'
    BY <1>6, <2>3, <2>4 DEF Apart
  <2> QED
    BY <1>2, <1>6, <2>1, <2>5 DEF OneFlight
<1>7. ASSUME epos' = epos, ~ InsertLedger, ~ Approve,
             \/ exec' = Idle
             \/ /\ exec # Idle /\ exec' # Idle /\ exec'.p = exec.p
                /\ exec'.pc \in {"ordering", "inserting"} => exec.pc \in {"ordering", "inserting"}
      PROVE  OneFlight'
  <2>1. approved' = approved
    BY <1>1, <1>7, BlindMoves, ApprovedMoves
  <2>2. \A p : Apart(p) => Apart(p)'
    BY <1>1, <1>4, <1>7, OpenChanges
  <2>3. exec' = Idle => ~ Ordering'
    BY DEF Ordering, Idle
  <2>4. Ordering' => Ordering /\ exec'.p = exec.p
    BY <1>7, <2>3 DEF Ordering
  <2>5. Ordering' => epos = Len(approved) /\ Apart(exec.p)'
    <3>1. ASSUME Ordering'
          PROVE  epos = Len(approved) /\ Apart(exec.p)'
      <4>1. epos = Len(approved) /\ Apart(exec.p)
        BY <1>1, <2>4, <3>1 DEF OneFlight
      <4>2. PICK p : p = exec.p
        OBVIOUS
      <4>3. Apart(p)' /\ exec'.p = p
        BY <2>2, <2>4, <3>1, <4>1, <4>2
      <4> QED
        BY <4>1, <4>3 DEF Apart
    <3> QED
      BY <3>1
  <2>6. epos < Len(approved) => Apart(approved[epos + 1].p)'
    <3>1. ASSUME epos < Len(approved)
          PROVE  Apart(approved[epos + 1].p)'
      <4>1. PICK p : p = approved[epos + 1].p
        OBVIOUS
      <4>2. Apart(p)'
        BY <1>1, <2>2, <3>1, <4>1 DEF OneFlight
      <4> QED
        BY <1>7, <2>1, <4>1, <4>2 DEF Apart
    <3> QED
      BY <3>1
  <2> QED
    BY <1>1, <1>7, <2>1, <2>5, <2>6 DEF OneFlight
<1>8. ~ InsertLedger => OneOpen'
  BY <1>5
<1>9. CASE Approve
  <2>1. /\ risk.pc = "approving"
        /\ Len(approved') = Len(approved) + 1
        /\ approved'[Len(approved) + 1].p = risk.p
    <3>1. risk.pc = "approving" /\ \E d : approved' = Append(approved, d)
      BY <1>9 DEF Approve
    <3>2. Len(approved') = Len(approved) + 1
      BY <1>1, <3>1, LenProperties DEF TypeOK, StreamType
    <3> QED
      BY <1>1, <1>2, <3>1, <3>2, BlindMoves, ApprovedMoves
  <2>2. ~ Overlap /\ Apart(risk.p)
    BY <1>1, <2>1 DEF NoneBeside, SizedPcs
  <2>3. epos = Len(approved) /\ ~ Ordering
    BY <1>2, <2>2 DEF Overlap, Ordering
  <2>4. UNCHANGED <<epos, exec, ledger>>
    BY <1>9 DEF Approve, execVars
  <2>5. ~ Ordering'
    BY <2>3, <2>4 DEF Ordering
  <2>6. approved'[epos' + 1].p = risk.p
    BY <2>1, <2>3, <2>4
  <2>7. Apart(approved[epos + 1].p)'
    BY <2>2, <2>4, <2>6 DEF Apart, OpenTrades
  <2>8. Len(approved') <= epos' + 1
    BY <1>2, <2>1, <2>3, <2>4
  <2>9. (Ordering => epos = Len(approved) /\ Apart(exec.p))'
    BY <2>5
  <2>10. (epos < Len(approved) => Apart(approved[epos + 1].p))'
    BY <2>7
  <2>11. (Len(approved) <= epos + 1)'
    BY <2>8
  <2>12. OneFlight'
    BY <2>9, <2>10, <2>11 DEF OneFlight
  <2>13. ~ InsertLedger
    BY <2>3 DEF InsertLedger, Ordering
  <2> QED
    BY <1>8, <2>12, <2>13
<1>10. ~ InsertLedger /\ ~ Approve => OneFlight'
  <2>1. ASSUME ~ InsertLedger, ~ Approve
        PROVE  OneFlight'
    BY <1>1, <1>6, <1>7, <2>1, ExecMoves
  <2> QED
    BY <2>1
<1> QED
  BY <1>3, <1>8, <1>9, <1>10

\* The risk manager gets past its guards only through the guards.
LEMMA SizedMoves ==
  ASSUME TypeOK, [Next]_vars, risk'.pc \in SizedPcs
  PROVE  \/ Guard
         \/ risk.pc \in SizedPcs /\ risk'.p = risk.p /\ ~ Approve
<1>1. risk \in RiskCall \cup {Idle}
  BY DEF TypeOK, HandlerType
<1>2. ~ RejectOutright /\ ~ RejectUnsized
  BY <1>1 DEF RejectOutright, RejectUnsized, Handling, SizedPcs, RiskCall, Idle
<1>3. ~ Reject /\ ~ NoteApproved /\ ~ RiskKilled /\ ~ Approve
  BY <1>1 DEF Reject, NoteApproved, RiskKilled, Approve, SizedPcs, RiskCall, Idle
<1>4. Idle.pc \notin SizedPcs
  BY DEF Idle, SizedPcs
<1>5. Guard \/ risk'.p = risk.p
  BY <1>2, <1>4, RiskMoves
<1>6. Size \/ Request \/ Listen \/ Timeout \/ NoteAnswer => risk.pc \in SizedPcs
  BY DEF Size, Request, Listen, Timeout, NoteAnswer, SizedPcs
<1>7. \A o \in Operators : Answer(o) => risk.pc \in SizedPcs \/ UNCHANGED risk
  BY DEF Answer, Hears, SizedPcs
<1> QED
  BY <1>2, <1>3, <1>4, <1>5, <1>6, <1>7, RiskChanges

LEMMA BesideStep ==
  ASSUME SightedInv, [Next]_vars, ~ blind'
  PROVE  NoneBeside'
<1>1. TypeOK /\ OneOpen /\ OneFlight /\ NoneBeside
  BY BlindMoves DEF SightedInv, Sighted
<1>2. epos \in Nat /\ epos <= Len(approved) /\ Len(approved) \in Nat
  BY <1>1, LenProperties DEF TypeOK, StreamType
<1>3. SUFFICES ASSUME risk'.pc \in SizedPcs
               PROVE  ~ Overlap' /\ Apart(risk.p)'
  BY DEF NoneBeside
<1>4. CASE Guard
  <2>1. UNCHANGED <<approved, epos, exec, ledger>>
    BY <1>4 DEF Guard, streamVars, execVars
  <2>2. PICK open \in {OpenTrades, {}} :
          /\ ReadLedger(open)
          /\ risk' = Handling(log[rpos + 1],
                              IF \E i \in open : Opposing(log[rpos + 1], i) \/ Holding(log[rpos + 1], i)
                              THEN "rejecting" ELSE "sizing", Cardinality(open), 0)
    BY <1>4 DEF Guard
  <2>3. open = OpenTrades /\ ~ Overlap
    BY <1>1, <1>3, <2>2 DEF ReadLedger, SightedInv, TypeOK, HistoryType
  <2>4. risk'.p = log[rpos + 1]
    BY <2>2 DEF Handling
  <2>5. ~ \E i \in open : Opposing(log[rpos + 1], i) \/ Holding(log[rpos + 1], i)
    BY <1>3, <2>2 DEF Handling, SizedPcs
  <2>6. \A i \in OpenTrades : SymbolOf[ledger[i].p] # SymbolOf[log[rpos + 1]]
    BY <2>3, <2>5 DEF Opposing, Holding
  <2> QED
    BY <2>1, <2>3, <2>4, <2>6 DEF Overlap, Apart, OpenTrades
<1>5. CASE risk.pc \in SizedPcs /\ risk'.p = risk.p /\ ~ Approve
  <2>1. ~ Overlap /\ Apart(risk.p)
    BY <1>1, <1>5 DEF NoneBeside
  <2>2. epos = Len(approved) /\ exec.pc \notin {"ordering", "inserting"}
    BY <1>2, <2>1 DEF Overlap
  <2>3. ~ InsertLedger
    BY <2>2 DEF InsertLedger
  <2>4. approved' = approved
    BY <1>1, <1>5, BlindMoves, ApprovedMoves
  <2>5. epos' = epos /\ exec'.pc \notin {"ordering", "inserting"}
    BY <1>1, <1>2, <2>2, <2>3, ExecMoves DEF Idle
  <2>6. Len(ledger') = Len(ledger)
    BY <1>1, <2>3, LedgerChanges
  <2>7. \A i \in OpenTrades' : SymbolOf[ledger'[i].p] # SymbolOf[risk.p]
    BY <1>1, <2>1, <2>6, OpenChanges DEF Apart
  <2> QED
    BY <1>5, <2>2, <2>4, <2>5, <2>7 DEF Overlap, Apart
<1> QED
  BY <1>1, <1>3, <1>4, <1>5, SizedMoves

\* The guards keep one position per symbol, whatever is killed, fails, times out or is
\* delivered twice, as long as no size was fixed beside a decision the ledger does not
\* show (risk_manager.py handle, the guards on open trades).
THEOREM OnePerSymbolAlways == Spec => []OnePerSymbolWhenSighted
<1>1. Init => SightedInv
  <2> SUFFICES ASSUME Init PROVE SightedInv
    OBVIOUS
  <2>1. OpenTrades = {} /\ Len(approved) = 0 /\ epos = 0 /\ exec.pc = "idle" /\ risk.pc = "idle"
    BY DEF Init, OpenTrades, Idle
  <2>2. TypeOK
    BY TypeInit
  <2> QED
    BY <2>1, <2>2
       DEF SightedInv, Sighted, OneOpen, OneFlight, NoneBeside, Ordering, SizedPcs
<1>2. SightedInv /\ [Next]_vars => SightedInv'
  <2> SUFFICES ASSUME SightedInv, [Next]_vars PROVE SightedInv'
    OBVIOUS
  <2>1. TypeOK'
    BY TypeStep DEF SightedInv
  <2>2. ~ blind' => Sighted'
    BY FlightStep, BesideStep DEF Sighted
  <2> QED
    BY <2>1, <2>2 DEF SightedInv
<1>3. SightedInv => OnePerSymbolWhenSighted
  BY DEF SightedInv, Sighted, OneOpen, OnePerSymbolWhenSighted
<1> QED
  BY <1>1, <1>2, <1>3, PTL DEF Spec

-----------------------------------------------------------------------------
(***************************************************************************)
(* Totals of notional.  Notional is a fold, a function defined by recursion *)
(* over the subsets of a set; that there is one, and that its value does   *)
(* not depend on the order the elements are taken in, is induction over    *)
(* the size of a set.  It is done here by least counterexamples, which the *)
(* library's facts about well-founded orders give without an operator.     *)
(***************************************************************************)
LEMMA LeastExists ==
  ASSUME NEW S, S \subseteq Nat, S # {}
  PROVE  \E i \in S : \A j \in S : i <= j
<1>1. PICK i \in S : \A j \in S : <<j, i>> \notin OpToRel(<, Nat)
  BY WFMin, NatLessThanWellFounded, Zenon
<1>2. \A j \in S : ~ (j < i)
  BY <1>1 DEF OpToRel
<1> QED
  BY <1>2

Chosen(s) == CHOOSE i \in s : TRUE
Total(l, S) == MapThenSumSet(LAMBDA i : l[i].notional, S)

\* g is the sum of the notional in l, on the sets of the family F.
Totals(l, F, g) ==
  g = [s \in F |-> IF s = {} THEN 0 ELSE l[Chosen(s)].notional + g[s \ {Chosen(s)}]]

UpTo(S, n) == {s \in SUBSET S : Cardinality(s) <= n}

LEMMA SizesAre ==
  ASSUME NEW S, IsFiniteSet(S), NEW s \in SUBSET S
  PROVE  Cardinality(s) \in Nat /\ (Cardinality(s) = 0 <=> s = {})
<1>1. IsFiniteSet(s)
  BY FS_Subset
<1> QED
  BY <1>1, FS_CardinalityType, FS_EmptySet

LEMMA SmallerIn ==
  ASSUME NEW S, IsFiniteSet(S), NEW s \in SUBSET S, s # {}
  PROVE  /\ Chosen(s) \in s /\ s \ {Chosen(s)} \in SUBSET S
         /\ Cardinality(s) \in Nat \ {0}
         /\ Cardinality(s \ {Chosen(s)}) = Cardinality(s) - 1
<1>1. Chosen(s) \in s
  BY DEF Chosen
<1>2. IsFiniteSet(s)
  BY FS_Subset
<1>3. Cardinality(s) \in Nat /\ Cardinality(s) # 0
  BY <1>2, FS_CardinalityType, FS_EmptySet
<1>4. Cardinality(s \ {Chosen(s)}) = Cardinality(s) - 1
  BY <1>1, <1>2, FS_RemoveElement
<1> QED
  BY <1>1, <1>3, <1>4

\* There is such a function: by induction over the sizes, as a least counterexample.
LEMMA TotalsExist ==
  ASSUME NEW S, IsFiniteSet(S), NEW l
  PROVE  \A n \in Nat : \E g : Totals(l, UpTo(S, n), g)
<1> DEFINE without == {n \in Nat : ~ \E g : Totals(l, UpTo(S, n), g)}
<1>1. SUFFICES ASSUME without # {} PROVE FALSE
  OBVIOUS
<1>2. PICK n \in without : \A m \in without : n <= m
  BY <1>1, LeastExists
<1>3. CASE n = 0
  <2>1. UpTo(S, 0) = {{}}
    <3>1. \A s \in SUBSET S : Cardinality(s) <= 0 <=> s = {}
      BY SizesAre
    <3> QED
      BY <3>1 DEF UpTo
  <2>2. Totals(l, UpTo(S, 0), [s \in {{}} |-> 0])
    BY <2>1 DEF Totals
  <2> QED
    BY <1>2, <1>3, <2>2
<1>4. CASE n # 0
  <2>1. n - 1 \in Nat /\ n - 1 \notin without
    BY <1>2, <1>4
  <2>2. PICK g : Totals(l, UpTo(S, n - 1), g)
    BY <2>1
  <2> DEFINE Of(h, s) == IF s = {} THEN 0 ELSE l[Chosen(s)].notional + h[s \ {Chosen(s)}]
             h == [s \in UpTo(S, n) |-> Of(g, s)]
  <2>3. \A s \in UpTo(S, n - 1) : s \in UpTo(S, n) /\ g[s] = Of(g, s)
    <3>1. \A s \in UpTo(S, n - 1) : s \in UpTo(S, n)
      BY <1>2, SizesAre DEF UpTo
    <3> QED
      BY <2>2, <3>1 DEF Totals
  <2>4. \A s \in UpTo(S, n - 1) : h[s] = g[s]
    BY <2>3
  <2>5. \A s \in UpTo(S, n) : s # {} => s \ {Chosen(s)} \in UpTo(S, n - 1)
    BY <1>2, SmallerIn DEF UpTo
  <2>6. \A s \in UpTo(S, n) : h[s] = Of(h, s)
    BY <2>4, <2>5
  <2>7. Totals(l, UpTo(S, n), h)
    BY <2>6, Zenon DEF Totals
  <2> QED
    BY <1>2, <2>7
<1> QED
  BY <1>3, <1>4

\* There is one only, and a set has the same total whatever sets are beside it.
LEMMA TotalsAgree ==
  ASSUME NEW S, IsFiniteSet(S), NEW T, IsFiniteSet(T), NEW l, NEW m,
         NEW g, NEW h, Totals(l, SUBSET S, g), Totals(m, SUBSET T, h),
         \A i \in S \cap T : l[i].notional = m[i].notional
  PROVE  \A s \in SUBSET (S \cap T) : g[s] = h[s]
<1> DEFINE differ == {s \in SUBSET (S \cap T) : g[s] # h[s]}
           sizes == {Cardinality(s) : s \in differ}
<1>1. SUFFICES ASSUME differ # {} PROVE FALSE
  OBVIOUS
<1>2. sizes \subseteq Nat /\ sizes # {}
  BY <1>1, FS_Subset, FS_CardinalityType
<1>3. PICK n \in sizes : \A k \in sizes : n <= k
  BY <1>2, LeastExists
<1>4. PICK s \in differ : \A t \in differ : Cardinality(s) <= Cardinality(t)
  BY <1>3
<1>5. s # {}
  BY <1>4 DEF Totals
<1>6. /\ Chosen(s) \in S \cap T
      /\ s \ {Chosen(s)} \in SUBSET (S \cap T)
      /\ Cardinality(s) \in Nat
      /\ Cardinality(s \ {Chosen(s)}) = Cardinality(s) - 1
  BY <1>4, <1>5, SmallerIn
<1>7. s \ {Chosen(s)} \notin differ
  BY <1>4, <1>6
<1>8. g[s \ {Chosen(s)}] = h[s \ {Chosen(s)}]
  BY <1>6, <1>7
<1>9. g[s] = l[Chosen(s)].notional + g[s \ {Chosen(s)}] /\ h[s] = m[Chosen(s)].notional + h[s \ {Chosen(s)}]
  BY <1>4, <1>5 DEF Totals
<1> QED
  BY <1>4, <1>6, <1>8, <1>9

\* What the fold computes.
LEMMA TotalIsTotals ==
  ASSUME NEW S, IsFiniteSet(S), NEW l
  PROVE  \E g : Totals(l, SUBSET S, g) /\ Total(l, S) = g[S]
<1>1. UpTo(S, Cardinality(S)) = SUBSET S /\ Cardinality(S) \in Nat
  BY FS_Subset, FS_CardinalityType DEF UpTo
<1>2. \E g : Totals(l, SUBSET S, g)
  <2>1. \E g : Totals(l, UpTo(S, Cardinality(S)), g)
    BY <1>1, TotalsExist
  <2> QED
    BY <1>1, <2>1
<1>3. Totals(l, SUBSET S, CHOOSE g : Totals(l, SUBSET S, g))
  BY <1>2
<1>4. Total(l, S) = (CHOOSE g : Totals(l, SUBSET S, g))[S]
  BY DEF Total, Totals, MapThenSumSet, MapThenFoldSet, Chosen
<1> QED
  BY <1>3, <1>4

LEMMA NothingTotals ==
  ASSUME NEW l
  PROVE  Total(l, {}) = 0
<1>1. PICK g : Totals(l, SUBSET {}, g) /\ Total(l, {}) = g[{}]
  BY TotalIsTotals, FS_EmptySet
<1> QED
  BY <1>1 DEF Totals

LEMMA TotalSame ==
  ASSUME NEW S, IsFiniteSet(S), NEW l, NEW m, \A i \in S : l[i].notional = m[i].notional
  PROVE  Total(l, S) = Total(m, S)
<1>1. PICK g : Totals(l, SUBSET S, g) /\ Total(l, S) = g[S]
  BY TotalIsTotals
<1>2. PICK h : Totals(m, SUBSET S, h) /\ Total(m, S) = h[S]
  BY TotalIsTotals
<1>3. Totals(l, SUBSET S, g) /\ Totals(m, SUBSET S, h)
  BY <1>1, <1>2
<1>4. \A i \in S \cap S : l[i].notional = m[i].notional
  OBVIOUS
<1>5. \A s \in SUBSET (S \cap S) : g[s] = h[s]
  BY <1>3, <1>4, TotalsAgree, SMTT(30)
<1>6. S \in SUBSET (S \cap S)
  OBVIOUS
<1> QED
  BY <1>1, <1>2, <1>5, <1>6

\* The definition, for one step.
LEMMA TotalUnfolds ==
  ASSUME NEW S, IsFiniteSet(S), S # {}, NEW l
  PROVE  Total(l, S) = l[Chosen(S)].notional + Total(l, S \ {Chosen(S)})
<1>1. PICK T : T = S \ {Chosen(S)}
  OBVIOUS
<1>2. IsFiniteSet(T) /\ T \in SUBSET (S \cap T)
  BY <1>1, FS_Subset
<1>3. PICK g : Totals(l, SUBSET S, g) /\ Total(l, S) = g[S]
  BY TotalIsTotals
<1>4. PICK h : Totals(l, SUBSET T, h) /\ Total(l, T) = h[T]
  BY <1>2, TotalIsTotals
<1>5. \A s \in SUBSET (S \cap T) : g[s] = h[s]
  BY <1>2, <1>3, <1>4, TotalsAgree
<1>6. g[S] = l[Chosen(S)].notional + g[T]
  BY <1>1, <1>3 DEF Totals
<1> QED
  BY <1>1, <1>2, <1>3, <1>4, <1>5, <1>6

Splits(l, s) ==
  /\ Total(l, s) \in Nat
  /\ \A x \in s : Total(l, s) = l[x].notional + Total(l, s \ {x})

LEMMA SmallerSet ==
  ASSUME NEW s, IsFiniteSet(s), NEW x \in s
  PROVE  IsFiniteSet(s \ {x}) /\ Cardinality(s \ {x}) < Cardinality(s)
<1>1. Cardinality(s) \in Nat
  BY FS_CardinalityType
<1> QED
  BY <1>1, FS_RemoveElement

LEMMA SplitsStep ==
  ASSUME NEW S, IsFiniteSet(S), NEW l, \A i \in S : l[i].notional \in Nat,
         NEW s \in SUBSET S,
         \A t \in SUBSET S : Cardinality(t) < Cardinality(s) => Splits(l, t)
  PROVE  Splits(l, s)
<1>1. CASE s = {}
  BY <1>1, NothingTotals DEF Splits
<1>2. CASE s # {}
  <2>1. PICK o : o = Chosen(s)
    OBVIOUS
  <2>2. IsFiniteSet(s) /\ o \in s /\ Total(l, s) = l[o].notional + Total(l, s \ {o})
    BY <1>2, <2>1, TotalUnfolds, SmallerIn, FS_Subset
  <2>3. \A x \in s : Splits(l, s \ {x}) /\ l[x].notional \in Nat
    BY <2>2, SmallerSet
  <2>4. Total(l, s) \in Nat
    BY <2>2, <2>3 DEF Splits
  <2>5. ASSUME NEW x \in s, x # o
        PROVE  Total(l, s) = l[x].notional + Total(l, s \ {x})
    <3>1. PICK rest : rest = (s \ {x}) \ {o} /\ rest = (s \ {o}) \ {x}
      OBVIOUS
    <3>2. Total(l, s \ {x}) = l[o].notional + Total(l, rest)
      BY <2>2, <2>3, <2>5, <3>1 DEF Splits
    <3>3. Total(l, s \ {o}) = l[x].notional + Total(l, rest)
      BY <2>2, <2>3, <2>5, <3>1 DEF Splits
    <3>4. Total(l, rest) \in Nat
      <4>1. IsFiniteSet(s \ {x}) /\ Cardinality(s \ {x}) < Cardinality(s)
        BY <2>2, SmallerSet
      <4>2. Cardinality(rest) < Cardinality(s \ {x}) /\ rest \in SUBSET S
        BY <2>2, <2>5, <3>1, <4>1, SmallerSet
      <4>3. Cardinality(rest) < Cardinality(s)
        BY <4>1, <4>2, SizesAre
      <4> QED
        BY <4>2, <4>3 DEF Splits
    <3> QED
      BY <2>2, <2>3, <3>2, <3>3, <3>4
  <2> QED
    BY <2>2, <2>4, <2>5 DEF Splits
<1> QED
  BY <1>1, <1>2

\* Any element can be taken out first.
LEMMA TotalSplits ==
  ASSUME NEW S, IsFiniteSet(S), NEW l, \A i \in S : l[i].notional \in Nat
  PROVE  Splits(l, S)
<1> DEFINE bad == {s \in SUBSET S : ~ Splits(l, s)}
           sizes == {Cardinality(s) : s \in bad}
<1>1. SUFFICES ASSUME bad # {} PROVE FALSE
  OBVIOUS
<1>2. sizes \subseteq Nat /\ sizes # {}
  BY <1>1, SizesAre
<1>3. PICK n \in sizes : \A k \in sizes : n <= k
  BY <1>2, LeastExists
<1>4. PICK s \in bad : \A t \in bad : Cardinality(s) <= Cardinality(t)
  BY <1>3
<1>5. ASSUME NEW t \in SUBSET S, Cardinality(t) < Cardinality(s)
      PROVE  Splits(l, t)
  BY <1>4, <1>5, SizesAre
<1>6. Splits(l, s)
  BY <1>4, <1>5, SplitsStep
<1> QED
  BY <1>4, <1>6

-----------------------------------------------------------------------------
(***************************************************************************)
(* The cap on open notional, while the risk manager sees every trade.      *)
(***************************************************************************)

FixedPcs == {"requesting", "listing", "waiting", "answered", "approving"}

\* There is room for this much more.
Fit(size) == Notional(OpenTrades) + size <= Baseline

\* Room is kept for what is on its way to the ledger, and for the size that was fixed.
RoomKept ==
  /\ Fit(0)
  /\ epos < Len(approved) => Fit(approved[epos + 1].size)
  /\ Ordering => Fit(exec.size)
  /\ risk.pc \in FixedPcs => Fit(risk.size)

CapInv == SightedInv /\ (~ blind => RoomKept)

LEMMA TradesTotal ==
  ASSUME NEW l \in Seq(Trade), NEW open, open \subseteq DOMAIN l
  PROVE  /\ IsFiniteSet(open) /\ \A i \in open : l[i].notional \in Nat
         /\ Splits(l, open)
<1>1. DOMAIN l = 1 .. Len(l) /\ Len(l) \in Nat
  BY LenProperties
<1>2. IsFiniteSet(open)
  <2>1. IsFiniteSet(1 .. Len(l)) /\ open \in SUBSET (1 .. Len(l))
    BY <1>1, FS_Interval
  <2> QED
    BY <2>1, FS_Subset
<1>3. \A i \in open : l[i].notional \in Nat
  <2>1. \A i \in open : l[i] \in Trade
    BY <1>1, ElementOfSeq
  <2> QED
    BY <2>1 DEF Trade
<1> QED
  BY <1>2, <1>3, TotalSplits

LEMMA LedgerTotals ==
  ASSUME BookType
  PROVE  /\ IsFiniteSet(OpenTrades) /\ Splits(ledger, OpenTrades)
         /\ Notional(OpenTrades) = Total(ledger, OpenTrades)
         /\ Notional(OpenTrades) \in Nat
<1>1. OpenTrades \subseteq DOMAIN ledger /\ ledger \in Seq(Trade)
  BY DEF OpenTrades, BookType
<1>2. Notional(OpenTrades) = Total(ledger, OpenTrades)
  BY DEF Notional, Total, MapThenSumSet, MapThenFoldSet
<1> QED
  BY <1>1, <1>2, TradesTotal DEF Splits

LEMMA NextTotals ==
  ASSUME BookType'
  PROVE  /\ Splits(ledger', OpenTrades')
         /\ Notional(OpenTrades)' = Total(ledger', OpenTrades')
         /\ Notional(OpenTrades)' \in Nat
<1>1. OpenTrades' \subseteq DOMAIN ledger' /\ ledger' \in Seq(Trade)
  BY DEF OpenTrades, BookType
<1>2. Notional(OpenTrades)' = Total(ledger', OpenTrades')
  BY DEF Notional, Total, MapThenSumSet, MapThenFoldSet
<1> QED
  BY <1>1, <1>2, TradesTotal DEF Splits

\* Without an insert the room does not shrink.
LEMMA FitStays ==
  ASSUME TypeOK, TypeOK', [Next]_vars, Len(ledger') = Len(ledger)
  PROVE  Notional(OpenTrades)' <= Notional(OpenTrades)
<1>1. BookType /\ BookType'
  BY DEF TypeOK
<1>2. Notional(OpenTrades) \in Nat /\ Notional(OpenTrades) = Total(ledger, OpenTrades)
  BY <1>1, LedgerTotals
<1>3. Notional(OpenTrades)' = Total(ledger', OpenTrades')
  BY <1>1, NextTotals
<1>4. CASE ledger' = ledger
  BY <1>2, <1>3, <1>4 DEF OpenTrades
<1>5. ASSUME NEW i \in DOMAIN ledger, CloseTrade(i)
      PROVE  Notional(OpenTrades)' <= Notional(OpenTrades)
  <2>1. ledger' = [ledger EXCEPT ![i] = [ledger[i] EXCEPT !.open = FALSE]] /\ i \in OpenTrades
    BY <1>5 DEF CloseTrade, OpenTrades
  <2>2. ledger[i] \in Trade /\ DOMAIN ledger' = DOMAIN ledger
    BY <1>1, <1>5, <2>1, ElementOfSeq, LenProperties DEF BookType
  <2>3. OpenTrades' = OpenTrades \ {i}
    BY <2>1, <2>2 DEF OpenTrades, Trade
  <2>4. IsFiniteSet(OpenTrades \ {i}) /\ \A j \in OpenTrades \ {i} : ledger'[j].notional = ledger[j].notional
    BY <1>1, <2>1, LedgerTotals, FS_RemoveElement
  <2>5. Total(ledger', OpenTrades \ {i}) = Total(ledger, OpenTrades \ {i})
    BY <2>4, TotalSame
  <2>6. Splits(ledger, OpenTrades) /\ Splits(ledger, OpenTrades \ {i}) /\ ledger[i].notional \in Nat
    BY <1>1, <2>2, TradesTotal DEF OpenTrades, BookType, Trade
  <2> QED
    BY <1>2, <1>3, <2>1, <2>3, <2>5, <2>6, SMTT(30) DEF Splits
<1>6. InsertLedger \/ (\E i \in DOMAIN ledger : CloseTrade(i)) \/ ledger' = ledger
  BY ExecChanges
     DEF TakeDecision, DropDecision, PlaceOrder, PaperFallback, OrderFails, InsertFails,
         NoteExecuted, ExecKilled
<1>7. ~ InsertLedger
  <2>1. InsertLedger => \E t : ledger' = Append(ledger, t)
    BY DEF InsertLedger
  <2> QED
    BY <1>1, <2>1, LenProperties DEF BookType
<1> QED
  BY <1>4, <1>5, <1>6, <1>7

\* An insert takes the room of the decision, no more when its price is the sizing's.
LEMMA FitInserted ==
  ASSUME TypeOK, TypeOK', [Next]_vars, InsertLedger, ~ blind'
  PROVE  Notional(OpenTrades)' = Notional(OpenTrades) + exec.size
<1>1. BookType /\ BookType' /\ Len(ledger) \in Nat
  BY LenProperties DEF TypeOK, BookType
<1> DEFINE n == Len(ledger) + 1
<1>2. /\ OpenTrades' = OpenTrades \cup {n} /\ n \notin OpenTrades
      /\ \A i \in OpenTrades : ledger'[i] = ledger[i]
  <2>1. OpenTrades' = OpenTrades \cup {n} /\ n \notin OpenTrades
    BY InsertAppends
  <2>2. \A i \in DOMAIN ledger : ledger'[i] = ledger[i]
    BY <1>1, LedgerChanges, LenProperties DEF InsertLedger, BookType
  <2> QED
    BY <2>1, <2>2 DEF OpenTrades
<1>3. ledger'[n].notional = exec.size
  <2>1. PICK k : /\ ledger' = Append(ledger, [p |-> exec.p, notional |-> k, open |-> TRUE])
                 /\ k = exec.size \/ blind' = TRUE
    BY DEF InsertLedger
  <2> QED
    BY <1>1, <2>1, AppendProperties DEF BookType
<1>4. Splits(ledger', OpenTrades')
  BY <1>1, NextTotals
<1>5. Total(ledger', OpenTrades') = exec.size + Total(ledger', OpenTrades)
  <2>1. OpenTrades' \ {n} = OpenTrades
    BY <1>2
  <2> QED
    BY <1>2, <1>3, <1>4, <2>1 DEF Splits
<1>6. Total(ledger', OpenTrades) = Total(ledger, OpenTrades)
  BY <1>1, <1>2, LedgerTotals, TotalSame
<1>7. Notional(OpenTrades)' = Total(ledger', OpenTrades')
  BY <1>1, NextTotals
<1>8. exec.size \in Nat
  BY DEF InsertLedger, TypeOK, HandlerType, ExecCall, Idle
<1> QED
  BY <1>1, <1>5, <1>6, <1>7, <1>8, LedgerTotals

\* An insert only takes what the executor was told to.
LEMMA CapExec ==
  ASSUME CapInv, SightedInv', [Next]_vars, ~ blind'
  PROVE  (Ordering => Fit(exec.size))'
<1>1. TypeOK /\ TypeOK' /\ RoomKept /\ OneFlight /\ BookType /\ BookType'
  BY BlindMoves DEF CapInv, SightedInv, Sighted, TypeOK
<1>2. SUFFICES ASSUME Ordering' PROVE Fit(exec.size)'
  OBVIOUS
<1>3. exec' # Idle /\ exec'.pc # "noting"
  BY <1>2 DEF Ordering, Idle
<1>4. /\ exec' # Idle
      /\ \/ Ordering /\ exec'.size = exec.size
         \/ epos < Len(approved) /\ exec'.size = approved[epos + 1].size
      /\ ~ InsertLedger
  <2>1. exec \in ExecCall \cup {Idle} /\ \A r \in ExecCall : r # Idle
    BY <1>1 DEF TypeOK, HandlerType, ExecCall, Idle
  <2>2. CASE TakeDecision
    BY <1>3, <2>2 DEF TakeDecision, InsertLedger, Idle
  <2>3. CASE PlaceOrder \/ PaperFallback
    BY <1>3, <2>1, <2>3 DEF PlaceOrder, PaperFallback, InsertLedger, Ordering, ExecCall, Idle
  <2>4. CASE InsertLedger
    BY <1>3, <2>1, <2>4 DEF InsertLedger, ExecCall, Idle
  <2>5. CASE DropDecision
    BY <1>3, <2>5 DEF DropDecision
  <2>6. CASE OrderFails \/ InsertFails \/ NoteExecuted \/ ExecKilled
    BY <1>3, <2>6 DEF OrderFails, InsertFails, NoteExecuted, ExecKilled
  <2>7. CASE \E i \in DOMAIN ledger : CloseTrade(i)
    BY <1>2, <1>3, <2>7 DEF CloseTrade, InsertLedger, Ordering
  <2>8. CASE UNCHANGED <<epos, exec, ledger, orders>>
    BY <1>2, <1>3, <2>1, <2>8 DEF InsertLedger, Ordering, ExecCall
  <2> QED
    BY <2>2, <2>3, <2>4, <2>5, <2>6, <2>7, <2>8, ExecChanges
<1>5. Notional(OpenTrades)' <= Notional(OpenTrades)
  BY <1>1, <1>4, FitStays, LedgerChanges
<1>6. Notional(OpenTrades) + exec'.size <= Baseline
  BY <1>1, <1>4 DEF RoomKept, Fit
<1>7. /\ Notional(OpenTrades) \in Nat /\ Notional(OpenTrades)' \in Nat
      /\ exec'.size \in Nat /\ Baseline \in Nat
  <2>1. Notional(OpenTrades) \in Nat
    BY <1>1, LedgerTotals
  <2>2. Notional(OpenTrades)' \in Nat
    BY <1>1, NextTotals
  <2>3. exec'.size \in Nat
    BY <1>1, <1>4 DEF TypeOK, HandlerType, ExecCall
  <2> QED
    BY <2>1, <2>2, <2>3, PipelineAssumption
<1> QED
  BY <1>5, <1>6, <1>7 DEF Fit

\* A decision on the stream is the risk manager's, of the size that was fixed.
LEMMA CapApproved ==
  ASSUME CapInv, SightedInv', [Next]_vars, ~ blind'
  PROVE  (epos < Len(approved) => Fit(approved[epos + 1].size))'
<1>1. TypeOK /\ TypeOK' /\ RoomKept /\ OneFlight /\ NoneBeside /\ BookType /\ BookType'
  BY BlindMoves DEF CapInv, SightedInv, Sighted, TypeOK
<1>2. SUFFICES ASSUME epos' < Len(approved') PROVE Fit(approved[epos + 1].size)'
  OBVIOUS
<1>3. /\ epos \in Nat /\ epos <= Len(approved) /\ Len(approved) \in Nat
      /\ epos' \in Nat /\ epos' \in {epos, epos + 1}
  <2>1. epos \in Nat /\ epos <= Len(approved) /\ Len(approved) \in Nat
    BY <1>1, LenProperties DEF TypeOK, StreamType
  <2> QED
    BY <1>1, <2>1, ExecMoves
<1>4. CASE approved' = approved
  <2>1. epos' = epos /\ epos < Len(approved)
    BY <1>1, <1>2, <1>3, <1>4 DEF OneFlight
  <2>2. ~ InsertLedger
    BY <1>1, <1>3, <2>1 DEF OneFlight, Ordering, InsertLedger
  <2>3. Notional(OpenTrades)' <= Notional(OpenTrades)
    BY <1>1, <2>2, FitStays, LedgerChanges
  <2>4. Notional(OpenTrades) + approved[epos + 1].size <= Baseline
    BY <1>1, <2>1 DEF RoomKept, Fit
  <2>5. approved[epos + 1].size \in Nat
    <3>1. approved \in Seq(Decision) /\ epos + 1 \in 1 .. Len(approved)
      BY <1>1, <1>3, <2>1 DEF TypeOK, StreamType
    <3>2. approved[epos + 1] \in Decision
      BY <3>1, ElementOfSeq
    <3> QED
      BY <3>2 DEF Decision
  <2>6. /\ Notional(OpenTrades) \in Nat /\ Notional(OpenTrades)' \in Nat
        /\ Baseline \in Nat
    BY <1>1, LedgerTotals, NextTotals, PipelineAssumption
  <2>7. Notional(OpenTrades)' + approved[epos + 1].size <= Baseline
    BY <2>3, <2>4, <2>5, <2>6
  <2> QED
    BY <1>4, <2>1, <2>7 DEF Fit
<1>5. CASE Approve
  <2>1. /\ risk.pc = "approving"
        /\ approved' = Append(approved, [p |-> risk.p, size |-> risk.size])
        /\ UNCHANGED <<epos, ledger>>
    BY <1>5 DEF Approve, execVars
  <2>2. epos = Len(approved)
    BY <1>1, <1>3, <2>1 DEF NoneBeside, SizedPcs, Overlap
  <2>3. approved'[epos' + 1].size = risk.size
    BY <1>1, <2>1, <2>2, AppendProperties DEF TypeOK, StreamType
  <2>4. Notional(OpenTrades) + risk.size <= Baseline
    BY <1>1, <2>1 DEF RoomKept, Fit, FixedPcs
  <2>5. Notional(OpenTrades)' = Notional(OpenTrades)
    BY <1>1, <2>1, LedgerTotals, NextTotals DEF OpenTrades
  <2> QED
    BY <2>3, <2>4, <2>5 DEF Fit
<1> QED
  BY <1>1, <1>4, <1>5, BlindMoves, ApprovedMoves

\* The size is fixed within the room there is, and kept until the decision.
LEMMA CapRisk ==
  ASSUME CapInv, SightedInv', [Next]_vars, ~ blind'
  PROVE  (risk.pc \in FixedPcs => Fit(risk.size))'
<1>1. /\ TypeOK /\ TypeOK' /\ RoomKept /\ NoneBeside /\ BookType /\ BookType' /\ ~ blind
      /\ NoneBeside'
  BY BlindMoves DEF CapInv, SightedInv, Sighted, TypeOK
<1>2. SUFFICES ASSUME risk'.pc \in FixedPcs PROVE Fit(risk.size)'
  OBVIOUS
<1>3. risk \in RiskCall \cup {Idle} /\ risk' \in RiskCall /\ risk'.size \in Nat
  BY <1>1, <1>2 DEF TypeOK, HandlerType, RiskCall, Idle, FixedPcs
<1>4. CASE Size
  <2>1. PICK open \in {OpenTrades, {}}, size \in 0 .. Want[risk.p] :
          /\ ReadLedger(open)
          /\ Clamps(size, risk.p, open)
          /\ risk' = [risk EXCEPT !.pc = AfterSizing(size), !.size = size]
    BY <1>4, Zenon DEF Size
  <2>2. open = OpenTrades
    BY <1>1, <2>1 DEF ReadLedger, TypeOK, HistoryType
  <2>3. risk'.pc = AfterSizing(size) /\ risk'.size = size
    BY <1>3, <1>4, <2>1 DEF Size, RiskCall, Idle
  <2>4. size # 0
    <3>1. ~ (0 > Threshold)
      BY PipelineAssumption
    <3>2. AfterSizing(0) = "rejecting"
      BY <3>1 DEF AfterSizing
    <3> QED
      BY <1>2, <2>3, <3>2 DEF FixedPcs
  <2>5. Notional(OpenTrades) + size <= Baseline
    BY <2>1, <2>2, <2>4 DEF Clamps, Fits
  <2>6. Notional(OpenTrades)' = Notional(OpenTrades)
    BY <1>1, <1>4, LedgerTotals, NextTotals DEF OpenTrades, Size, execVars
  <2> QED
    BY <2>3, <2>5, <2>6 DEF Fit
<1>5. CASE ~ Size
  <2>1. risk.pc \in FixedPcs /\ risk'.size = risk.size
    <3>1. CASE RejectOutright \/ Guard
      BY <1>2, <3>1 DEF RejectOutright, Guard, Handling, FixedPcs
    <3>2. CASE RejectUnsized
      BY <1>2, <1>3, <3>2 DEF RejectUnsized, RiskCall, Idle, FixedPcs
    <3>3. CASE Reject \/ NoteApproved \/ RiskKilled
      BY <1>2, <3>3 DEF Reject, NoteApproved, RiskKilled, Idle, FixedPcs
    <3>4. CASE Request \/ Listen \/ Timeout \/ Approve
      BY <1>3, <3>4 DEF Request, Listen, Timeout, Approve, RiskCall, Idle, FixedPcs
    <3>5. CASE NoteAnswer
      BY <1>2, <1>3, <3>5 DEF NoteAnswer, RiskCall, Idle, FixedPcs
    <3>6. CASE \E o \in Operators : Answer(o)
      BY <1>2, <1>3, <3>6 DEF Answer, Hears, RiskCall, Idle, FixedPcs
    <3>7. CASE UNCHANGED <<rpos, risk>>
      BY <1>2, <3>7
    <3> QED
      BY <1>5, <3>1, <3>2, <3>3, <3>4, <3>5, <3>6, <3>7, RiskChanges
  <2>2. ~ InsertLedger
    BY <1>1, <2>1 DEF NoneBeside, SizedPcs, FixedPcs, Overlap, InsertLedger
  <2>3. Notional(OpenTrades)' <= Notional(OpenTrades)
    BY <1>1, <2>2, FitStays, LedgerChanges
  <2>4. Notional(OpenTrades) + risk.size <= Baseline
    BY <1>1, <2>1 DEF RoomKept, Fit
  <2> QED
    BY <1>1, <1>3, <2>1, <2>3, <2>4, LedgerTotals, NextTotals, PipelineAssumption DEF Fit
<1> QED
  BY <1>4, <1>5

LEMMA CapStep ==
  ASSUME CapInv, SightedInv', [Next]_vars, ~ blind'
  PROVE  RoomKept'
<1>1. /\ TypeOK /\ TypeOK' /\ RoomKept /\ BookType /\ BookType'
  BY BlindMoves DEF CapInv, SightedInv, TypeOK
<1>2. Notional(OpenTrades) \in Nat /\ Notional(OpenTrades)' \in Nat /\ Baseline \in Nat
  BY <1>1, LedgerTotals, NextTotals, PipelineAssumption
<1>3. Fit(0)'
  <2>1. CASE InsertLedger
    <3>1. Notional(OpenTrades)' = Notional(OpenTrades) + exec.size
      BY <1>1, <2>1, FitInserted
    <3>2. Notional(OpenTrades) + exec.size <= Baseline
      BY <1>1, <2>1 DEF RoomKept, Fit, Ordering, InsertLedger
    <3> QED
      BY <1>2, <3>1, <3>2 DEF Fit
  <2>2. CASE ~ InsertLedger
    <3>1. Notional(OpenTrades)' <= Notional(OpenTrades)
      BY <1>1, <2>2, FitStays, LedgerChanges
    <3> QED
      BY <1>1, <1>2, <3>1 DEF RoomKept, Fit
  <2> QED
    BY <2>1, <2>2
<1> QED
  BY <1>3, CapExec, CapApproved, CapRisk DEF RoomKept

\* Open notional stays within the account's baseline, whatever is killed, fails, times
\* out or is delivered twice, as long as the risk manager saw every trade when it fixed a
\* size (risk_manager.py handle, the hard cap of its clamp).
THEOREM CapAlways == Spec => []CapWhenSighted
<1>1. Init => CapInv
  <2> SUFFICES ASSUME Init PROVE CapInv
    OBVIOUS
  <2>1. /\ OpenTrades = {} /\ Len(approved) = 0 /\ epos = 0 /\ exec.pc = "idle"
        /\ risk.pc = "idle"
    BY DEF Init, OpenTrades, Idle
  <2>2. TypeOK /\ BookType
    BY TypeInit DEF TypeOK
  <2>3. Notional(OpenTrades) = 0
    BY <2>1, <2>2, LedgerTotals, NothingTotals
  <2> QED
    BY <2>1, <2>2, <2>3, PipelineAssumption
       DEF CapInv, RoomKept, Fit, SightedInv, Sighted, OneOpen, OneFlight, NoneBeside, Ordering,
           SizedPcs, FixedPcs
<1>2. SightedInv /\ [Next]_vars => SightedInv'
  BY TypeStep, FlightStep, BesideStep DEF SightedInv, Sighted
<1>3. CapInv /\ [Next]_vars => CapInv'
  <2> SUFFICES ASSUME CapInv, [Next]_vars PROVE CapInv'
    OBVIOUS
  <2>1. SightedInv'
    BY <1>2 DEF CapInv
  <2> QED
    BY <2>1, CapStep DEF CapInv
<1>4. CapInv => CapWhenSighted
  <2>1. SightedInv => Notional(OpenTrades) \in Nat
    BY LedgerTotals DEF SightedInv, TypeOK
  <2> QED
    BY <2>1, PipelineAssumption DEF CapInv, RoomKept, Fit, CapWhenSighted
<1> QED
  BY <1>1, <1>3, <1>4, PTL DEF Spec

=============================================================================
