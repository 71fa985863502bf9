------------------------- MODULE PositionLifecycleProofs -------------------------
(***************************************************************************)
(* For every set of trades and requests, and any number of monitors that   *)
(* crashes leave behind: what PositionLifecycle promises of closed trades. *)
(***************************************************************************)
EXTENDS PositionLifecycle, SequenceTheorems, TLAPS

-----------------------------------------------------------------------------
(***************************************************************************)
(* A closed trade settles.  Whoever publishes a closure or writes an exit  *)
(* had the trade in hand; the loops ask and act about a trade among those  *)
(* they have to do.                                                        *)
(***************************************************************************)
Busy(k) == watch[k].pc \in {"asking", "applying"}

WatchInv ==
  /\ DOMAIN watch = Loops
  /\ \A k \in Loops :
       /\ watch[k].todo \subseteq Trades
       /\ watch[k].pc \in {"off", "ended", "idle", "scanning", "asking", "applying"}
       /\ Busy(k) => watch[k].t \in watch[k].todo /\ watch[k].kind \in Sorts

Targets(k) == IF k \in Periodic THEN {Watched} ELSE SUBSET Watched

\* A step of a loop leaves the other loop alone; it takes trades in hand only when they
\* are open, and publishes only for one it has.
LoopEffect(k) ==
  /\ \A j \in Loops \ {k} : watch'[j] = watch[j]
  /\ watch'[k].todo \subseteq watch[k].todo \cup OpenTrades
  /\ \/ UNCHANGED pending
     \/ \E t \in watch[k].todo : pending' = Append(pending, [t |-> t, reason |-> "monitor"])
  /\ UNCHANGED <<exit, monitor, click, reset, review, dead>>

LEMMA LoopWatches ==
  ASSUME WatchInv, NEW k \in Loops, Step(k)
  PROVE  WatchInv' /\ LoopEffect(k)
<1> USE DEF WatchInv
<1>1. CASE Scan(k)
  <2>1. PICK targets \in Targets(k) :
          watch' = [watch EXCEPT ![k] = [pc |-> "scanning", todo |-> targets]]
    BY <1>1 DEF Scan, Targets
  <2>2. targets \subseteq OpenTrades /\ OpenTrades \subseteq Trades
    BY DEF Targets, Watched, OpenTrades
  <2>3. watch'[k] = [pc |-> "scanning", todo |-> targets]
    BY <2>1
  <2>4. watch'[k].pc = "scanning" /\ watch'[k].todo = targets
    BY <2>3
  <2>5. WatchInv'
    BY <2>1, <2>2, <2>4 DEF Busy
  <2> QED
    BY <1>1, <2>1, <2>2, <2>4, <2>5 DEF Scan, LoopEffect
<1>2. ASSUME NEW t, Done(k, t)
      PROVE  /\ WatchInv' /\ \A j \in Loops \ {k} : watch'[j] = watch[j]
             /\ watch'[k].todo \subseteq watch[k].todo
  <2> DEFINE todo == watch[k].todo \ {t}
             r == [pc |-> IF todo = {} THEN "idle" ELSE "scanning", todo |-> todo]
  <2>1. watch' = [watch EXCEPT ![k] = r]
    BY <1>2 DEF Done
  <2>2. watch'[k] = r
    BY <2>1
  <2>3. watch'[k].todo = todo /\ watch'[k].pc \in {"idle", "scanning"}
    BY <2>2
  <2>4. WatchInv'
    BY <2>1, <2>3 DEF Busy
  <2> QED
    BY <2>1, <2>3, <2>4
<1>3. ASSUME NEW t \in Trades, CloseAtThreshold(k, t)
      PROVE  Done(k, t) /\ t \in watch[k].todo /\ Publish(t, "monitor")
             /\ UNCHANGED <<exit, monitor, click, reset, review, dead>>
  BY <1>3 DEF CloseAtThreshold
<1>4. ASSUME NEW t \in Trades, LeaveAlone(k, t)
      PROVE  Done(k, t) /\ UNCHANGED <<exit, monitor, click, reset, review, dead, pending>>
  BY <1>4 DEF LeaveAlone
<1>5. ASSUME NEW t \in Trades, NEW kind \in Sorts, Ask(k, t, kind)
      PROVE  /\ WatchInv' /\ \A j \in Loops \ {k} : watch'[j] = watch[j]
             /\ watch'[k].todo = watch[k].todo
             /\ UNCHANGED <<exit, monitor, click, reset, review, dead, pending>>
  <2> DEFINE r == [pc |-> "asking", todo |-> watch[k].todo, t |-> t, kind |-> kind]
  <2>1. watch' = [watch EXCEPT ![k] = r] /\ t \in watch[k].todo
    BY <1>5 DEF Ask
  <2>2. watch'[k] = r
    BY <2>1
  <2>3. /\ watch'[k].todo = watch[k].todo /\ watch'[k].t = t
        /\ watch'[k].pc = "asking" /\ watch'[k].kind = kind
    BY <2>2
  <2>4. WatchInv'
    BY <2>1, <2>3 DEF Busy
  <2> QED
    BY <1>5, <2>1, <2>3, <2>4 DEF Ask
<1>6. CASE Hold(k)
  BY <1>2, <1>6 DEF Hold, LoopEffect
<1>7. CASE RecordAdjustment(k)
  <2>1. Done(k, watch[k].t) \/ watch' = [watch EXCEPT ![k].pc = "applying"]
    BY <1>7 DEF RecordAdjustment
  <2>2. Busy(k) /\ UNCHANGED <<exit, monitor, click, reset, review, dead, pending>>
    BY <1>7 DEF RecordAdjustment, Busy
  <2>3. CASE watch' = [watch EXCEPT ![k].pc = "applying"]
    <3>1. watch'[k] = [watch[k] EXCEPT !.pc = "applying"]
      BY <2>3
    <3>2. /\ watch'[k].todo = watch[k].todo /\ watch'[k].t = watch[k].t
          /\ watch'[k].pc = "applying" /\ watch'[k].kind = watch[k].kind
      BY <3>1
    <3>3. WatchInv'
      BY <2>2, <2>3, <3>2 DEF Busy
    <3> QED
      BY <2>2, <2>3, <3>2, <3>3 DEF LoopEffect
  <2> QED
    BY <1>2, <2>1, <2>2, <2>3 DEF LoopEffect
<1>8. CASE ApplyAdjustment(k)
  <2>1. watch[k].t \in watch[k].todo
    BY <1>8 DEF ApplyAdjustment, Busy
  <2> QED
    BY <1>2, <1>8, <2>1 DEF ApplyAdjustment, Publish, LoopEffect
<1>9. ASSUME NEW t \in Trades, CloseAtThreshold(k, t)
      PROVE  WatchInv' /\ LoopEffect(k)
  BY <1>2, <1>3, <1>9 DEF Publish, LoopEffect
<1>10. ASSUME NEW t \in Trades, LeaveAlone(k, t) \/ AskOffTrack(k, t) \/ AskAboutEvent(k, t)
       PROVE  WatchInv' /\ LoopEffect(k)
  BY <1>2, <1>4, <1>5, <1>10 DEF AskOffTrack, AskAboutEvent, LoopEffect, Sorts
<1> HIDE DEF WatchInv
<1> QED
  BY <1>1, <1>6, <1>7, <1>8, <1>9, <1>10 DEF Step

\* Starts, crashes, kills and failures: a loop is at most taken out of what it does.
MonitorEffect ==
  /\ \A k \in Loops : watch'[k].todo \subseteq watch[k].todo
  /\ UNCHANGED <<exit, hit, rows, click, reset, pending, review, dead>>

MonitorEvent ==
  \/ \E m \in Monitors : StartMonitor(m)
  \/ MonitorCrashes \/ MonitorKilled
  \/ \E k \in Loops, t \in Trades : CheckFails(k, t)
  \/ \E k \in Periodic : LoopEnds(k)

LEMMA EventWatches ==
  ASSUME WatchInv, MonitorEvent
  PROVE  WatchInv' /\ MonitorEffect
<1> USE DEF WatchInv
<1>1. \A r \in {Off, Ready, Ended} :
        r.todo = {} /\ r.pc \in {"off", "ended", "idle"}
  BY DEF Off, Ready, Ended
<1>2. ASSUME DOMAIN watch' = Loops,
             \A k \in Loops : watch'[k] \in {watch[k], Off, Ready, Ended}
      PROVE  WatchInv' /\ \A k \in Loops : watch'[k].todo \subseteq watch[k].todo
  <2>1. ASSUME NEW k \in Loops
        PROVE  /\ watch'[k].todo \subseteq watch[k].todo
               /\ watch'[k].pc \in {"off", "ended", "idle", "scanning", "asking", "applying"}
               /\ Busy(k)' => watch'[k] = watch[k]
    <3>1. CASE watch'[k] = watch[k]
      BY <3>1
    <3>2. CASE watch'[k] \in {Off, Ready, Ended}
      BY <1>1, <3>2 DEF Busy
    <3> QED
      BY <1>2, <3>1, <3>2
  <2> QED
    BY <1>2, <2>1 DEF Busy
<1>3. ASSUME NEW m \in Monitors, StartMonitor(m) PROVE WatchInv' /\ MonitorEffect
  BY <1>2, <1>3 DEF StartMonitor, MonitorEffect
<1>4. CASE MonitorCrashes
  BY <1>4 DEF MonitorCrashes, MonitorEffect, Busy
<1>5. CASE MonitorKilled
  BY <1>2, <1>5 DEF MonitorKilled, MonitorEffect
<1>6. ASSUME NEW k \in Periodic, LoopEnds(k) PROVE WatchInv' /\ MonitorEffect
  <2>1. DOMAIN watch' = Loops /\ \A j \in Loops : watch'[j] \in {watch[j], Ended}
    BY <1>6 DEF LoopEnds
  <2> QED
    BY <1>2, <1>6, <2>1 DEF LoopEnds, MonitorEffect
<1>7. ASSUME NEW k \in Loops, NEW t \in Trades, CheckFails(k, t)
      PROVE  WatchInv' /\ MonitorEffect
  <2>1. CASE Done(k, t)
    <3> DEFINE todo == watch[k].todo \ {t}
               r == [pc |-> IF todo = {} THEN "idle" ELSE "scanning", todo |-> todo]
    <3>1. watch' = [watch EXCEPT ![k] = r]
      BY <2>1 DEF Done
    <3>2. watch'[k] = r
      BY <3>1
    <3>3. watch'[k].todo = todo /\ watch'[k].pc \in {"idle", "scanning"}
      BY <3>2
    <3>4. WatchInv' /\ \A j \in Loops : watch'[j].todo \subseteq watch[j].todo
      BY <3>1, <3>3 DEF Busy
    <3> QED
      BY <1>7, <3>4 DEF CheckFails, MonitorEffect
  <2>2. CASE watch' = [watch EXCEPT ![k] = Ready]
    <3>1. DOMAIN watch' = Loops /\ \A j \in Loops : watch'[j] \in {watch[j], Ready}
      BY <2>2
    <3> QED
      BY <1>2, <1>7, <3>1 DEF CheckFails, MonitorEffect
  <2> QED
    BY <1>7, <2>1, <2>2 DEF CheckFails
<1> HIDE DEF WatchInv
<1> QED
  BY <1>3, <1>4, <1>5, <1>6, <1>7 DEF MonitorEvent

-----------------------------------------------------------------------------
(***************************************************************************)
(* Types.                                                                  *)
(***************************************************************************)
Request == [pc : {"looking", "publishing", "noting"}, t : Trades, row : Nat]

Typed ==
  /\ exit \in [Trades -> {"open"} \cup Reasons]
  /\ hit \subseteq Trades
  /\ monitor \in {"up", "down"}
  /\ WatchInv
  /\ rows \in Seq(Row) /\ Len(rows) <= MaxRows
  /\ click \in [Clicks -> Request \cup {Idle}]
  /\ \A c \in Clicks : click[c] # Idle => click[c].row <= Len(rows)
  /\ reset \in [pc : {"idle", "marking", "publishing"}, rows : SUBSET Trades]
  /\ pending \in Seq(Closure) /\ Len(pending) <= MaxPending
  /\ review \in Closure \cup {Nothing}
  /\ dead \subseteq Closure
  /\ nfaults \in 0 .. MaxFaults

LEMMA TypedIsTypeOK == Typed => TypeOK
<1> SUFFICES ASSUME Typed PROVE TypeOK
  OBVIOUS
<1>1. ASSUME NEW c \in Clicks
      PROVE  \/ click[c] = Idle
             \/ /\ click[c].pc \in {"looking", "publishing", "noting"}
                /\ click[c].t \in Trades /\ click[c].row \in 0 .. Len(rows)
  <2>1. click[c] \in Request \/ click[c] = Idle
    BY DEF Typed
  <2>2. Len(rows) \in Nat /\ (click[c] # Idle => click[c].row <= Len(rows))
    BY DEF Typed
  <2> HIDE DEF Idle
  <2> QED
    BY <2>1, <2>2 DEF Request
<1>2. reset.rows \subseteq Trades /\ reset.pc \in {"idle", "marking", "publishing"}
  BY DEF Typed
<1>3. \A k \in Loops :
        /\ watch[k].todo \subseteq Trades
        /\ watch[k].pc \in {"off", "ended", "idle", "scanning", "asking", "applying"}
        /\ watch[k].pc \in {"asking", "applying"} =>
             watch[k].t \in Trades /\ watch[k].kind \in Sorts
  BY DEF Typed, WatchInv, Busy
<1> QED
  BY <1>1, <1>2, <1>3 DEF Typed, TypeOK

LEMMA PublishType ==
  ASSUME Typed, NEW t \in Trades, NEW reason \in Reasons, Publish(t, reason)
  PROVE  pending' \in Seq(Closure) /\ Len(pending') <= MaxPending
<1>1. [t |-> t, reason |-> reason] \in Closure
  BY DEF Closure
<1>2. pending \in Seq(Closure) /\ Len(pending) < MaxPending /\ Len(pending) \in Nat
  BY DEF Typed, Publish
<1>3. pending' = Append(pending, [t |-> t, reason |-> reason])
  BY DEF Publish
<1>4. Len(pending') = Len(pending) + 1 /\ pending' \in Seq(Closure)
  BY <1>1, <1>2, <1>3
<1> QED
  BY <1>2, <1>4, PositionAssumption

LEMMA RowDecided ==
  ASSUME Typed, NEW i \in DOMAIN rows, rows' = [rows EXCEPT ![i].state = "decided"]
  PROVE  /\ rows' \in Seq(Row) /\ Len(rows') = Len(rows)
         /\ \A j \in DOMAIN rows : /\ rows'[j].t = rows[j].t /\ rows'[j].kind = rows[j].kind
                                   /\ rows'[j].state \in {rows[j].state, "decided"}
<1>1. rows \in Seq(Row) /\ rows[i] \in Row /\ \A j \in DOMAIN rows : rows[j] \in Row
  BY DEF Typed
<1>2. rows' = [rows EXCEPT ![i] = [rows[i] EXCEPT !.state = "decided"]]
  OBVIOUS
<1> DEFINE r == [rows[i] EXCEPT !.state = "decided"]
<1>3. r \in Row /\ r.state = "decided" /\ r.t = rows[i].t /\ r.kind = rows[i].kind
  BY <1>1 DEF Row
<1>4. rows' = [rows EXCEPT ![i] = r]
  BY <1>2
<1> HIDE DEF r
<1>5. rows' \in Seq(Row) /\ Len(rows') = Len(rows)
  BY <1>1, <1>3, <1>4, ExceptSeq
<1>6. \A j \in DOMAIN rows : rows'[j] = IF j = i THEN r ELSE rows[j]
  BY <1>4
<1> QED
  BY <1>3, <1>5, <1>6

\* The rows a step leaves: as they were, one decided, or one more from a loop.
LEMMA LoopTyped ==
  ASSUME Typed, NEW k \in Loops, Step(k)
  PROVE  Typed'
<1>1. WatchInv' /\ LoopEffect(k)
  BY LoopWatches DEF Typed
<1>2. UNCHANGED <<exit, hit, monitor, click, reset, review, dead>>
  BY DEF Step, Scan, CloseAtThreshold, LeaveAlone, AskOffTrack, AskAboutEvent, Ask, Hold,
         RecordAdjustment, ApplyAdjustment
<1>3. pending' \in Seq(Closure) /\ Len(pending') <= MaxPending
  <2>1. ASSUME NEW t, Publish(t, "monitor"), t \in watch[k].todo
        PROVE  pending' \in Seq(Closure) /\ Len(pending') <= MaxPending
    <3>1. t \in Trades /\ "monitor" \in Reasons
      BY <2>1 DEF Typed, WatchInv, Reasons
    <3> QED
      BY <2>1, <3>1, PublishType
  <2>2. UNCHANGED pending \/ \E t \in watch[k].todo : Publish(t, "monitor")
    <3>1. CASE ApplyAdjustment(k)
      BY <3>1 DEF ApplyAdjustment, Typed, WatchInv, Busy
    <3>2. CASE ~ ApplyAdjustment(k)
      BY <3>2 DEF Step, Scan, CloseAtThreshold, LeaveAlone, AskOffTrack, AskAboutEvent, Ask, Hold,
                  RecordAdjustment
    <3> QED
      BY <3>1, <3>2
  <2> QED
    BY <2>1, <2>2 DEF Typed
<1>4. /\ rows' \in Seq(Row) /\ Len(rows') <= MaxRows /\ Len(rows) <= Len(rows')
  <2>1. CASE RecordAdjustment(k)
    <3>1. PICK auto \in BOOLEAN :
            rows' = Append(rows, [t |-> watch[k].t, kind |-> watch[k].kind,
                                  state |-> RowState(auto)])
      BY <2>1 DEF RecordAdjustment
    <3>2. watch[k].t \in Trades /\ watch[k].kind \in Sorts
      BY <2>1 DEF RecordAdjustment, Typed, WatchInv, Busy
    <3>3. [t |-> watch[k].t, kind |-> watch[k].kind, state |-> RowState(auto)] \in Row
      BY <3>2 DEF Row, RowState
    <3>4. rows \in Seq(Row) /\ Len(rows) < MaxRows /\ Len(rows) \in Nat
      BY <2>1 DEF Typed, RecordAdjustment
    <3> QED
      BY <3>1, <3>3, <3>4, PositionAssumption
  <2>2. CASE ~ RecordAdjustment(k)
    <3>1. UNCHANGED rows
      BY <2>2 DEF Step, Scan, CloseAtThreshold, LeaveAlone, AskOffTrack, AskAboutEvent, Ask, Hold,
                  ApplyAdjustment
    <3> QED
      BY <3>1 DEF Typed
  <2> QED
    BY <2>1, <2>2
<1>5. nfaults' \in 0 .. MaxFaults
  BY PositionAssumption DEF Typed, Step, Scan, CloseAtThreshold, LeaveAlone, AskOffTrack,
     AskAboutEvent, Ask, Hold, RecordAdjustment, ApplyAdjustment
<1>6. \A c \in Clicks : click[c] # Idle => click[c].row <= Len(rows')
  <2>1. ASSUME NEW c \in Clicks, click[c] # Idle
        PROVE  click[c].row <= Len(rows')
    <3>1. click[c].row <= Len(rows) /\ click[c] \in Request
      BY <2>1 DEF Typed
    <3>2. click[c].row \in Nat /\ Len(rows) \in Nat /\ Len(rows') \in Nat
      BY <1>4, <3>1 DEF Request, Typed
    <3> QED
      BY <1>4, <3>1, <3>2
  <2> QED
    BY <2>1
<1> QED
  BY <1>1, <1>2, <1>3, <1>4, <1>5, <1>6 DEF Typed

\* A request's new place: what the table of requests is after it.
LEMMA ClickTyped ==
  ASSUME Typed, NEW c \in Clicks, NEW r \in Request \cup {Idle},
         r # Idle => r.row <= Len(rows),
         click' = [click EXCEPT ![c] = r],
         rows' \in Seq(Row), Len(rows') = Len(rows),
         pending' \in Seq(Closure) /\ Len(pending') <= MaxPending,
         UNCHANGED <<exit, hit, monitor, watch, reset, review, dead, nfaults>>
  PROVE  Typed'
<1>1. click' \in [Clicks -> Request \cup {Idle}]
  BY DEF Typed
<1>2. \A d \in Clicks : click'[d] # Idle => click'[d].row <= Len(rows')
  <2>1. ASSUME NEW d \in Clicks, click'[d] # Idle
        PROVE  click'[d].row <= Len(rows')
    <3>1. CASE d = c
      <4>1. click'[d] = r
        BY <3>1 DEF Typed
      <4> QED
        BY <2>1, <4>1
    <3>2. CASE d # c
      <4>1. click'[d] = click[d]
        BY <3>2 DEF Typed
      <4> QED
        BY <2>1, <4>1 DEF Typed
    <3> QED
      BY <3>1, <3>2
  <2> QED
    BY <2>1
<1>3. WatchInv'
  BY DEF Typed, WatchInv, Busy
<1>4. Len(rows') <= MaxRows
  BY DEF Typed
<1> QED
  BY <1>1, <1>2, <1>3, <1>4 DEF Typed

\* At the end of a decision the row, if there is one, is decided.
LEMMA NoteTyped ==
  ASSUME Typed, NEW c \in Clicks, click[c] # Idle, Note(c)
  PROVE  /\ rows' \in Seq(Row) /\ Len(rows') = Len(rows)
         /\ click' = [click EXCEPT ![c] = Idle]
<1>1. click[c] \in Request /\ click[c].row \in Nat /\ click[c].row <= Len(rows)
  BY DEF Typed, Request
<1>2. CASE click[c].row = NoRow
  BY <1>2 DEF Note, Typed
<1>3. CASE click[c].row # NoRow
  <2>1. click[c].row \in DOMAIN rows
    BY <1>1, <1>3 DEF NoRow, Typed
  <2>2. rows' = [rows EXCEPT ![click[c].row].state = "decided"]
    BY <1>3 DEF Note
  <2> QED
    BY <2>1, <2>2, RowDecided DEF Note
<1> QED
  BY <1>2, <1>3

LEMMA ClickStepTyped ==
  ASSUME Typed, NEW c \in Clicks, Click(c)
  PROVE  Typed'
<1> DEFINE Kept == UNCHANGED <<exit, hit, monitor, watch, reset, review, dead, nfaults>>
<1>1. /\ rows \in Seq(Row) /\ Len(rows) \in Nat
      /\ pending \in Seq(Closure) /\ Len(pending) <= MaxPending
      /\ click[c] \in Request \cup {Idle} /\ (click[c] # Idle => click[c].row <= Len(rows))
  BY DEF Typed
<1>2. click[c].pc \in {"looking", "publishing", "noting"} => click[c] # Idle /\ click[c] \in Request
  <2>1. Idle.pc = "idle"
    BY DEF Idle
  <2> QED
    BY <1>1, <2>1
<1>3. ASSUME NEW pc \in {"looking", "publishing", "noting"}, Set(c, pc), Kept,
             click[c] # Idle, click[c] \in Request, UNCHANGED rows,
             pending' \in Seq(Closure), Len(pending') <= MaxPending
      PROVE  Typed'
  <2> DEFINE r == [click[c] EXCEPT !.pc = pc]
  <2>1. r \in Request /\ r.row = click[c].row
    BY <1>3 DEF Request
  <2>2. click' = [click EXCEPT ![c] = r]
    BY <1>3 DEF Set
  <2> HIDE DEF r
  <2> QED
    BY <1>1, <1>3, <2>1, <2>2, ClickTyped
<1>4. ASSUME NEW t \in Trades, NEW row \in 0 .. Len(rows), Kept, UNCHANGED <<rows, pending>>,
             click' = [click EXCEPT ![c] = [pc |-> "looking", t |-> t, row |-> row]]
      PROVE  Typed'
  <2> DEFINE r == [pc |-> "looking", t |-> t, row |-> row]
  <2>1. r \in Request /\ r.row <= Len(rows)
    BY <1>1 DEF Request
  <2> HIDE DEF r
  <2> QED
    BY <1>1, <1>4, <2>1, ClickTyped DEF r
<1>5. ASSUME click[c] # Idle, Note(c), Kept, UNCHANGED pending
      PROVE  Typed'
  <2>1. /\ rows' \in Seq(Row) /\ Len(rows') = Len(rows)
        /\ click' = [click EXCEPT ![c] = Idle]
    BY <1>5, NoteTyped
  <2> QED
    BY <1>1, <1>5, <2>1, ClickTyped
<1>6. ASSUME NEW i \in DOMAIN rows, DecideApprove(c, i) PROVE Typed'
  <2>1. rows[i] \in Row /\ i \in 1 .. Len(rows)
    BY <1>1, <1>6
  <2>2. rows[i].t \in Trades /\ i \in 0 .. Len(rows)
    BY <1>1, <2>1 DEF Row
  <2> QED
    BY <1>4, <1>6, <2>2 DEF DecideApprove
<1>7. ASSUME NEW t \in Trades, ManualClose(c, t) PROVE Typed'
  <2>1. NoRow \in 0 .. Len(rows)
    BY <1>1 DEF NoRow
  <2> QED
    BY <1>4, <1>7, <2>1 DEF ManualClose
<1>8. CASE Look(c)
  BY <1>1, <1>2, <1>3, <1>8 DEF Look
<1>9. CASE Refuse(c)
  BY <1>2, <1>5, <1>9 DEF Refuse
<1>10. CASE PublishManual(c)
  <2>1. click[c] # Idle /\ click[c] \in Request
    BY <1>2, <1>10 DEF PublishManual
  <2>2. click[c].t \in Trades
    BY <2>1 DEF Request
  <2>3. "user" \in Reasons
    BY DEF Reasons
  <2>4. pending' \in Seq(Closure) /\ Len(pending') <= MaxPending
    BY <1>10, <2>2, <2>3, PublishType DEF PublishManual
  <2> QED
    BY <1>3, <1>10, <2>1, <2>4 DEF PublishManual
<1>11. CASE ScaleUp(c)
  BY <1>1, <1>2, <1>3, <1>11 DEF ScaleUp
<1>12. CASE NoteDecided(c)
  BY <1>2, <1>5, <1>12 DEF NoteDecided
<1> QED
  BY <1>6, <1>7, <1>8, <1>9, <1>10, <1>11, <1>12 DEF Click

LEMMA ResetTyped ==
  ASSUME Typed, ResetRead \/ ResetCommit \/ \E t \in Trades : ResetPublish(t)
  PROVE  Typed'
<1> DEFINE Kept == UNCHANGED <<hit, monitor, watch, rows, click, review, dead, nfaults>>
<1>1. Kept => /\ (WatchInv' <=> WatchInv)
              /\ \A c \in Clicks : click'[c] # Idle => click'[c].row <= Len(rows')
  BY DEF Typed, WatchInv, Busy
<1>2. CASE ResetRead
  <2>1. reset' \in [pc : {"idle", "marking", "publishing"}, rows : SUBSET Trades]
    BY <1>2 DEF ResetRead, OpenTrades
  <2> QED
    BY <1>1, <1>2, <2>1 DEF ResetRead, Typed
<1>3. CASE ResetCommit
  <2>1. reset' \in [pc : {"idle", "marking", "publishing"}, rows : SUBSET Trades]
    BY <1>3 DEF ResetCommit, Typed
  <2>2. exit' \in [Trades -> {"open"} \cup Reasons]
    BY <1>3 DEF ResetCommit, Typed, Reasons
  <2> QED
    BY <1>1, <1>3, <2>1, <2>2 DEF ResetCommit, Typed
<1>4. ASSUME NEW t \in Trades, ResetPublish(t) PROVE Typed'
  <2>1. reset' \in [pc : {"idle", "marking", "publishing"}, rows : SUBSET Trades]
    BY <1>4 DEF ResetPublish, Typed
  <2>2. "user" \in Reasons
    BY DEF Reasons
  <2>3. pending' \in Seq(Closure) /\ Len(pending') <= MaxPending
    <3>1. CASE Publish(t, "user")
      BY <2>2, <3>1, PublishType
    <3>2. CASE UNCHANGED pending
      BY <3>2 DEF Typed
    <3> QED
      BY <1>4, <3>1, <3>2 DEF ResetPublish
  <2> QED
    BY <1>1, <1>4, <2>1, <2>3 DEF ResetPublish, Typed
<1> QED
  BY <1>2, <1>3, <1>4

LEMMA ReviewTyped ==
  ASSUME Typed,
         TakeClosure \/ Review \/ ReviewFails \/ ReviewerKilled \/ \E c \in dead : Replay(c)
  PROVE  Typed'
<1> DEFINE Kept == UNCHANGED <<hit, monitor, watch, rows, click, reset>>
<1>1. Kept => /\ (WatchInv' <=> WatchInv)
              /\ \A c \in Clicks : click'[c] # Idle => click'[c].row <= Len(rows')
  BY DEF Typed, WatchInv, Busy
<1>2. review # Nothing =>
        review \in Closure /\ review.t \in Trades /\ review.reason \in Reasons
  BY DEF Typed, Closure
<1>3. review # Nothing => Updated \in [Trades -> {"open"} \cup Reasons]
  <2>1. exit \in [Trades -> {"open"} \cup Reasons]
    BY DEF Typed
  <2> QED
    BY <1>2, <2>1 DEF Updated
<1>4. CASE TakeClosure
  <2>1. pending \in Seq(Closure) /\ pending # <<>> /\ Len(pending) <= MaxPending
    BY <1>4 DEF Typed, TakeClosure
  <2>2. Head(pending) \in Closure /\ Tail(pending) \in Seq(Closure)
        /\ Len(Tail(pending)) = Len(pending) - 1 /\ Len(pending) \in Nat
    BY <2>1
  <2>3. Len(Tail(pending)) <= MaxPending
    BY <2>1, <2>2, PositionAssumption
  <2> QED
    BY <1>1, <1>4, <2>2, <2>3 DEF TakeClosure, Typed
<1>5. CASE Review
  BY <1>1, <1>3, <1>5 DEF Review, Typed
<1>6. CASE ReviewFails
  <2>1. exit' \in [Trades -> {"open"} \cup Reasons]
    BY <1>3, <1>6 DEF ReviewFails, Typed
  <2>2. nfaults' \in 0 .. MaxFaults
    BY <1>6, PositionAssumption DEF ReviewFails, Typed
  <2>3. dead' \subseteq Closure
    BY <1>2, <1>6 DEF ReviewFails, Typed
  <2> QED
    BY <1>1, <1>6, <2>1, <2>2, <2>3 DEF ReviewFails, Typed
<1>7. CASE ReviewerKilled
  <2>1. exit' \in [Trades -> {"open"} \cup Reasons]
    BY <1>3, <1>7 DEF ReviewerKilled, Typed
  <2>2. nfaults' \in 0 .. MaxFaults
    BY <1>7, PositionAssumption DEF ReviewerKilled, Typed
  <2> QED
    BY <1>1, <1>7, <2>1, <2>2 DEF ReviewerKilled, Typed
<1>8. ASSUME NEW c \in dead, Replay(c) PROVE Typed'
  <2>1. c.t \in Trades /\ c.reason \in Reasons
    BY DEF Typed, Closure
  <2>2. pending' \in Seq(Closure) /\ Len(pending') <= MaxPending
    BY <1>8, <2>1, PublishType DEF Replay
  <2> QED
    BY <1>1, <1>8, <2>2 DEF Replay, Typed
<1> QED
  BY <1>4, <1>5, <1>6, <1>7, <1>8

LEMMA EventTyped ==
  ASSUME Typed, MonitorEvent
  PROVE  Typed'
<1>1. WatchInv' /\ MonitorEffect
  BY EventWatches DEF Typed
<1>2. monitor' \in {"up", "down"} /\ nfaults' \in 0 .. MaxFaults
  BY PositionAssumption DEF Typed, MonitorEvent, StartMonitor, MonitorCrashes, MonitorKilled,
     CheckFails, LoopEnds
<1> QED
  BY <1>1, <1>2 DEF MonitorEffect, Typed

LEMMA TypedInit == Init => Typed
<1> SUFFICES ASSUME Init PROVE Typed
  OBVIOUS
<1>1. WatchInv
  <2>1. Off.todo = {} /\ Off.pc = "off"
    BY DEF Off
  <2> QED
    BY <2>1 DEF Init, WatchInv, Busy
<1>2. rows \in Seq(Row) /\ Len(rows) = 0 /\ pending \in Seq(Closure) /\ Len(pending) = 0
  BY EmptySeq DEF Init
<1>3. click \in [Clicks -> Request \cup {Idle}] /\ \A c \in Clicks : click[c] = Idle
  BY DEF Init
<1>4. reset \in [pc : {"idle", "marking", "publishing"}, rows : SUBSET Trades]
  BY DEF Init
<1>5. exit \in [Trades -> {"open"} \cup Reasons]
  BY DEF Init
<1> QED
  BY <1>1, <1>2, <1>3, <1>4, <1>5, PositionAssumption DEF Init, Typed

LEMMA TypedStep == Typed /\ [Next]_vars => Typed'
<1> SUFFICES ASSUME Typed, [Next]_vars PROVE Typed'
  OBVIOUS
<1>1. CASE UNCHANGED vars
  BY <1>1 DEF vars, Typed, WatchInv, Busy
<1>2. ASSUME NEW t \in Trades, Move(t) PROVE Typed'
  <2>1. hit' \subseteq Trades
    BY <1>2 DEF Move, Typed
  <2> QED
    BY <1>2, <2>1 DEF Move, Typed, WatchInv, Busy
<1>3. ASSUME NEW i \in DOMAIN rows, DecideReject(i) PROVE Typed'
  <2>1. rows' \in Seq(Row) /\ Len(rows') = Len(rows)
    BY <1>3, RowDecided DEF DecideReject
  <2> QED
    BY <1>3, <2>1 DEF DecideReject, Typed, WatchInv, Busy
<1> QED
  BY <1>1, <1>2, <1>3, LoopTyped, EventTyped, ClickStepTyped, ResetTyped, ReviewTyped
     DEF Next, MonitorStep, MonitorEvent, ReviewStep

\* Types: every closure, row and request names a trade of the ledger, the queues stay
\* within their bounds, and a loop that asks knows what about.
THEOREM PositionTypeCorrect == FairSpec => []TypeOK
<1>1. FairSpec => []Typed
  BY TypedInit, TypedStep, PTL DEF FairSpec
<1> QED
  BY <1>1, TypedIsTypeOK, PTL

-----------------------------------------------------------------------------
(***************************************************************************)
(* A closed trade that nobody has in hand stays as it is: a loop and the   *)
(* reset take open trades only, a request publishes for a trade it looked  *)
(* at, and the reviewer writes what was published.                         *)
(***************************************************************************)
Settled(t) == exit[t] # "open" /\ ~ InHand(t)

\* A closure for another trade is appended.
LEMMA AppendSettled ==
  ASSUME Typed, NEW t, NEW u, NEW reason, Settled(t), u # t,
         pending' = Append(pending, [t |-> u, reason |-> reason])
  PROVE  \A i \in DOMAIN pending' : pending'[i].t # t
<1>1. pending \in Seq(Closure)
  BY DEF Typed
<1>2. ASSUME NEW i \in DOMAIN pending' PROVE pending'[i].t # t
  <2>1. i \in DOMAIN pending \/ i = Len(pending) + 1
    BY <1>1
  <2>2. CASE i \in DOMAIN pending
    <3>1. pending'[i] = pending[i]
      BY <1>1, <2>2
    <3> QED
      BY <2>2, <3>1 DEF Settled, InHand
  <2>3. CASE i = Len(pending) + 1
    <3>1. pending'[i] = [t |-> u, reason |-> reason]
      BY <1>1, <2>3
    <3> QED
      BY <3>1
  <2> QED
    BY <2>1, <2>2, <2>3
<1> QED
  BY <1>2

LEMMA LoopSettled ==
  ASSUME Typed, NEW k \in Loops, Step(k), NEW t \in Trades, Settled(t)
  PROVE  exit'[t] = exit[t] /\ ~ InHand(t)'
<1>1. LoopEffect(k)
  BY LoopWatches DEF Typed
<1>2. UNCHANGED <<exit, click, reset, review, dead>>
  BY <1>1 DEF LoopEffect
<1>3. ASSUME NEW j \in Loops PROVE t \notin watch'[j].todo
  <2>1. t \notin watch[j].todo /\ t \notin watch[k].todo /\ t \notin OpenTrades
    BY DEF Settled, InHand, OpenTrades
  <2> QED
    BY <1>1, <2>1 DEF LoopEffect
<1>4. \A i \in DOMAIN pending' : pending'[i].t # t
  <2>1. CASE UNCHANGED pending
    BY <2>1 DEF Settled, InHand
  <2>2. ASSUME NEW u \in watch[k].todo, pending' = Append(pending, [t |-> u, reason |-> "monitor"])
        PROVE  \A i \in DOMAIN pending' : pending'[i].t # t
    <3>1. u # t
      BY DEF Settled, InHand
    <3> QED
      BY <2>2, <3>1, AppendSettled
  <2> QED
    BY <1>1, <2>1, <2>2 DEF LoopEffect
<1> QED
  BY <1>2, <1>3, <1>4 DEF Settled, InHand

LEMMA EventSettled ==
  ASSUME Typed, MonitorEvent, NEW t \in Trades, Settled(t)
  PROVE  exit'[t] = exit[t] /\ ~ InHand(t)'
<1>1. MonitorEffect
  BY EventWatches DEF Typed
<1> QED
  BY <1>1 DEF MonitorEffect, Settled, InHand

LEMMA ClickSettled ==
  ASSUME Typed, NEW c \in Clicks, Click(c), NEW t \in Trades, Settled(t)
  PROVE  exit'[t] = exit[t] /\ ~ InHand(t)'
<1> DEFINE Past(d) == click[d] # Idle /\ click[d].pc = "publishing" /\ click[d].t = t
<1>1. UNCHANGED <<exit, watch, reset, review, dead>>
  BY DEF Click, DecideApprove, ManualClose, Look, Refuse, PublishManual, ScaleUp, NoteDecided
<1>2. \A d \in Clicks \ {c} : click'[d] = click[d]
  BY DEF Typed, Click, DecideApprove, ManualClose, Look, Refuse, PublishManual, ScaleUp,
         NoteDecided, Set, Note
<1>3. click[c] \in Request \cup {Idle} /\ click \in [Clicks -> Request \cup {Idle}]
  BY DEF Typed
<1>4. ~ Past(c)'
  <2>1. ASSUME NEW u, NEW row, click' = [click EXCEPT ![c] = [pc |-> "looking", t |-> u, row |-> row]]
        PROVE  ~ Past(c)'
    <3>1. click'[c] = [pc |-> "looking", t |-> u, row |-> row]
      BY <1>3, <2>1
    <3>2. click'[c].pc = "looking"
      BY <3>1
    <3> QED
      BY <3>2
  <2>2. ASSUME NEW pc, Set(c, pc), pc = "publishing" => click[c].t # t, click[c] # Idle
        PROVE  ~ Past(c)'
    <3>1. click[c] \in Request
      BY <1>3, <2>2
    <3>2. click'[c] = [click[c] EXCEPT !.pc = pc]
      BY <1>3, <2>2 DEF Set
    <3>3. click'[c].pc = pc /\ click'[c].t = click[c].t
      BY <3>1, <3>2 DEF Request
    <3> QED
      BY <2>2, <3>3
  <2>3. ASSUME Note(c) PROVE ~ Past(c)'
    <3>1. click'[c] = Idle
      BY <1>3, <2>3 DEF Note
    <3> QED
      BY <3>1
  <2>4. CASE Look(c)
    <3>1. click[c].t # t
      BY <2>4 DEF Look, StillOpen, Settled
    <3>2. click[c] # Idle
      BY <2>4 DEF Look, Idle
    <3> QED
      BY <2>2, <2>4, <3>1, <3>2 DEF Look
  <2>5. CASE PublishManual(c) \/ ScaleUp(c)
    <3>1. click[c] # Idle
      BY <2>5 DEF PublishManual, ScaleUp, Idle
    <3>2. "noting" # "publishing"
      OBVIOUS
    <3> QED
      BY <2>2, <2>5, <3>1, <3>2 DEF PublishManual, ScaleUp
  <2> HIDE DEF Past
  <2>6. CASE (\E i \in DOMAIN rows : DecideApprove(c, i)) \/ (\E u \in Trades : ManualClose(c, u))
    BY <2>1, <2>6 DEF DecideApprove, ManualClose
  <2>7. CASE Refuse(c) \/ NoteDecided(c)
    BY <2>3, <2>7 DEF Refuse, NoteDecided
  <2> QED
    BY <2>4, <2>5, <2>6, <2>7 DEF Click
<1>5. \A i \in DOMAIN pending' : pending'[i].t # t
  <2>1. CASE PublishManual(c)
    <3>1. click[c].t # t
      <4>1. click[c].pc = "publishing" /\ click[c] # Idle
        BY <2>1 DEF PublishManual, Idle
      <4> QED
        BY <4>1 DEF Settled, InHand
    <3> QED
      BY <2>1, <3>1, AppendSettled DEF PublishManual, Publish
  <2>2. CASE ~ PublishManual(c)
    <3>1. UNCHANGED pending
      BY <2>2 DEF Click, DecideApprove, ManualClose, Look, Refuse, ScaleUp, NoteDecided
    <3> QED
      BY <3>1 DEF Settled, InHand
  <2> QED
    BY <2>1, <2>2
<1>6. \A d \in Clicks : ~ Past(d)'
  BY <1>2, <1>4 DEF Settled, InHand
<1> QED
  BY <1>1, <1>5, <1>6 DEF Settled, InHand

LEMMA ResetSettled ==
  ASSUME Typed, ResetRead \/ ResetCommit \/ \E u \in Trades : ResetPublish(u),
         NEW t \in Trades, Settled(t)
  PROVE  exit'[t] = exit[t] /\ ~ InHand(t)'
<1>1. UNCHANGED <<watch, click, review, dead>>
  BY DEF ResetRead, ResetCommit, ResetPublish
<1>2. t \notin reset.rows /\ t \notin OpenTrades
  BY DEF Settled, InHand, OpenTrades
<1>3. t \notin reset'.rows
  BY <1>2 DEF ResetRead, ResetCommit, ResetPublish, Typed
<1>4. exit'[t] = exit[t]
  BY <1>2 DEF ResetRead, ResetCommit, ResetPublish
<1>5. \A i \in DOMAIN pending' : pending'[i].t # t
  <2>1. ASSUME NEW u \in Trades, ResetPublish(u), Publish(u, "user")
        PROVE  \A i \in DOMAIN pending' : pending'[i].t # t
    <3>1. u # t
      BY <1>2, <2>1 DEF ResetPublish
    <3> QED
      BY <2>1, <3>1, AppendSettled DEF Publish
  <2>2. ASSUME UNCHANGED pending
        PROVE  \A i \in DOMAIN pending' : pending'[i].t # t
    BY <2>2 DEF Settled, InHand
  <2> QED
    BY <2>1, <2>2 DEF ResetRead, ResetCommit, ResetPublish
<1> QED
  BY <1>1, <1>3, <1>4, <1>5 DEF Settled, InHand

LEMMA ReviewSettled ==
  ASSUME Typed,
         TakeClosure \/ Review \/ ReviewFails \/ ReviewerKilled \/ \E c \in dead : Replay(c),
         NEW t \in Trades, Settled(t)
  PROVE  exit'[t] = exit[t] /\ ~ InHand(t)'
<1>1. UNCHANGED <<watch, click, reset>>
  BY DEF TakeClosure, Review, ReviewFails, ReviewerKilled, Replay
<1>2. review # Nothing => review.t # t
  BY DEF Settled, InHand
<1>3. exit'[t] = exit[t]
  BY <1>2 DEF TakeClosure, Review, ReviewFails, ReviewerKilled, Replay, Updated, Typed
<1>4. \A c \in dead' : c.t # t
  BY <1>2 DEF TakeClosure, Review, ReviewFails, ReviewerKilled, Replay, Settled, InHand
<1>5. \A i \in DOMAIN pending' : pending'[i].t # t
  <2>1. CASE TakeClosure
    <3>1. pending \in Seq(Closure) /\ pending # <<>> /\ pending' = Tail(pending)
      BY <2>1 DEF TakeClosure, Typed
    <3>2. \A i \in DOMAIN pending' : i + 1 \in DOMAIN pending /\ pending'[i] = pending[i + 1]
      BY <3>1
    <3> QED
      BY <3>2 DEF Settled, InHand
  <2>2. ASSUME NEW c \in dead, Replay(c)
        PROVE  \A i \in DOMAIN pending' : pending'[i].t # t
    <3>1. c.t # t
      BY DEF Settled, InHand
    <3> QED
      BY <2>2, <3>1, AppendSettled DEF Replay, Publish
  <2>3. ASSUME UNCHANGED pending
        PROVE  \A i \in DOMAIN pending' : pending'[i].t # t
    BY <2>3 DEF Settled, InHand
  <2> QED
    BY <2>1, <2>2, <2>3 DEF Review, ReviewFails, ReviewerKilled
<1>6. review' # Nothing => review'.t # t
  <2>1. CASE TakeClosure
    <3>1. 1 \in DOMAIN pending /\ review' = pending[1]
      BY <2>1 DEF TakeClosure, Typed
    <3> QED
      BY <3>1 DEF Settled, InHand
  <2>2. CASE ~ TakeClosure
    BY <1>2, <2>2 DEF Review, ReviewFails, ReviewerKilled, Replay
  <2> QED
    BY <2>1, <2>2
<1> QED
  BY <1>1, <1>3, <1>4, <1>5, <1>6 DEF Settled, InHand

\* A closed trade settles: with nobody holding it, no scan, click, reset, replay or review
\* reopens the question of its exit.
THEOREM ClosedTradesSettle == FairSpec => ClosedSettles
<1>1. ASSUME Typed, [Next]_vars
      PROVE  [\A t \in Trades :
                exit[t] # "open" /\ ~ InHand(t) => exit'[t] = exit[t] /\ ~ InHand(t)']_vars
  <2>1. ASSUME NEW t \in Trades, Settled(t), Next
        PROVE  exit'[t] = exit[t] /\ ~ InHand(t)'
    <3>1. ASSUME (\E u \in Trades : Move(u)) \/ \E i \in DOMAIN rows : DecideReject(i)
          PROVE  exit'[t] = exit[t] /\ ~ InHand(t)'
      BY <2>1, <3>1 DEF Move, DecideReject, Settled, InHand
    <3> QED
      BY <1>1, <2>1, <3>1, LoopSettled, EventSettled, ClickSettled, ResetSettled, ReviewSettled
         DEF Next, MonitorStep, MonitorEvent, ReviewStep
  <2> QED
    BY <1>1, <2>1 DEF Settled
<1>2. FairSpec => []Typed
  BY TypedInit, TypedStep, PTL DEF FairSpec
<1> QED
  BY <1>1, <1>2, PTL DEF FairSpec, ClosedSettles
=============================================================================
