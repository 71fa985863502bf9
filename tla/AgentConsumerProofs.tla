------------------------- MODULE AgentConsumerProofs -------------------------
(***************************************************************************)
(* For every set of messages, retry limit, batch size, set of replay tasks *)
(* and pattern of disturbances: type correctness of AgentConsumer, the two *)
(* facts about the pending list and the history of an entry that its runs  *)
(* check on small instances, that a message is handled once, that the      *)
(* calls of its handler are counted, and that the consumer implements      *)
(* MessageLife.                                                            *)
(***************************************************************************)
EXTENDS AgentConsumer, SequenceTheorems, FiniteSetTheorems, WellFoundedInduction, TLAPS

-----------------------------------------------------------------------------
(***************************************************************************)
(* The inductive invariant.                                                *)
(***************************************************************************)

\* While the loop is past its idle point, the entry in its hands is pending.
InHand == pc \notin {"down", "idle"} => pos \in pel

\* So is the rest of the batch, as long as the process lives.
BatchPending == pc # "down" => pos + 1 .. cursor \subseteq pel

\* Only an entry with a retry left is requeued.
Requeueable == pc = "requeueing" => RetriesLeft(Current)

\* The finally block is reached in order only with the entry's fate decided ...
Decided == pc \in {"acking", "pausing"} => fate[pos] # "none"

\* ... and with an exception pending only through two disturbances.
DyingDisturbed == pc = "dying" => ~ Undisturbed({"cancel", "report"})

HaltedDisturbed == halted => "halt" \in happened

\* Without a group there is no consumer and nothing was delivered.
Fresh == ~ group => pc = "down" /\ cursor = 0

\* What a read skips over was removed by a trim.
SkippedTrimmed == \A i \in Ids : i > cursor /\ i <= floor => fate[i] # "none"

Support ==
  /\ TypeOK
  /\ InHand
  /\ BatchPending
  /\ Requeueable
  /\ Decided
  /\ DyingDisturbed
  /\ HaltedDisturbed
  /\ Fresh
  /\ SkippedTrimmed

IInv == Support /\ NothingLost /\ StrandedOnlyByInterruption

-----------------------------------------------------------------------------
(***************************************************************************)
(* Facts about the operators.                                              *)
(***************************************************************************)

\* XADD: the old entries and the fates f stay, a new entry has no fate yet.
LEMMA AddType ==
  ASSUME StreamType, NEW e \in Entry, NEW f \in Seq(Fates), Len(f) = Len(log), Add(e, f)
  PROVE  /\ log' \in Seq(Entry)
         /\ fate' \in Seq(Fates)
         /\ Len(log') = Len(log) + 1
         /\ Len(fate') = Len(log')
         /\ \A i \in Ids : log'[i] = log[i] /\ fate'[i] = f[i]
         /\ Ids \subseteq Ids'
<1>1. log \in Seq(Entry) /\ "none" \in Fates
  BY DEF StreamType, Fates
<1>2. log' = Append(log, e) /\ fate' = Append(f, "none")
  BY DEF Add
<1> QED
  BY <1>1, <1>2, AppendProperties DEF Ids

LEMMA AddedStreamType ==
  ASSUME StreamType, NEW e \in Entry, NEW f \in Seq(Fates), Len(f) = Len(log), Add(e, f),
         UNCHANGED <<floor, failed>>
  PROVE  StreamType'
<1>1. Len(log) \in Nat /\ floor \in 0 .. Len(log) /\ failed \subseteq Ids
  BY LenProperties DEF StreamType
<1>2. Len(log') = Len(log) + 1 /\ Ids \subseteq Ids'
  BY AddType
<1>3. floor' \in 0 .. Len(log') /\ failed' \subseteq Ids'
  BY <1>1, <1>2
<1> QED
  BY <1>3, AddType DEF StreamType

LEMMA FateExcept ==
  ASSUME StreamType, NEW i \in Ids, NEW x \in Fates
  PROVE  /\ [fate EXCEPT ![i] = x] \in Seq(Fates)
         /\ Len([fate EXCEPT ![i] = x]) = Len(log)
         /\ [fate EXCEPT ![i] = x][i] = x
         /\ \A j \in Ids : j # i => [fate EXCEPT ![i] = x][j] = fate[j]
BY ExceptSeq DEF StreamType, Ids

LEMMA FateMap ==
  ASSUME NEW n \in Nat, NEW g \in [1 .. n -> Fates]
  PROVE  g \in Seq(Fates) /\ Len(g) = n
BY SeqDef, LenProperties

\* The entry in the agent's hands is one of the stream.
LEMMA CurrentType ==
  ASSUME TypeOK, InHand, pc \notin {"down", "idle"}
  PROVE  /\ pos \in Ids
         /\ pos \in 1 .. cursor
         /\ Current.msg \in Msgs
         /\ Current.retries \in 0 .. MaxRetries
<1>1. pos \in 1 .. cursor /\ cursor \in 0 .. Len(log)
  BY DEF TypeOK, GroupType, InHand
<1>2. log \in Seq(Entry) /\ Len(log) \in Nat
  BY LenProperties DEF TypeOK, StreamType
<1>3. pos \in 1 .. Len(log)
  BY <1>1, <1>2
<1>4. log[pos] \in Entry
  BY <1>2, <1>3, ElementOfSeq
<1> QED
  BY <1>1, <1>3, <1>4 DEF Ids, Current, Entry, Retries

LEMMA RequeuedType ==
  ASSUME Support, pc = "requeueing"
  PROVE  Requeued(Current) \in Entry
<1>1. Current.msg \in Msgs /\ Current.retries \in 0 .. MaxRetries
  BY CurrentType DEF Support
<1>2. Current.retries < MaxRetries
  BY DEF Support, Requeueable, RetriesLeft
<1>3. Current.retries + 1 \in 0 .. MaxRetries
  BY <1>1, <1>2, ConsumerAssumption
<1> QED
  BY <1>1, <1>3 DEF Requeued, Entry, Retries

LEMMA LengthType ==
  ASSUME TypeOK
  PROVE  Len(log) \in Nat /\ Ids = 1 .. Len(log) /\ fate \in [Ids -> Fates]
BY LenProperties DEF TypeOK, StreamType, Ids

LEMMA ReadRange ==
  ASSUME TypeOK, ReadFrom < Len(log)
  PROVE  /\ ReadFrom \in cursor .. Len(log)
         /\ ReadTo \in ReadFrom + 1 .. Len(log)
         /\ ReadFrom = cursor \/ ReadFrom = floor
<1>1. Len(log) \in Nat /\ cursor \in 0 .. Len(log) /\ floor \in 0 .. Len(log)
  BY LengthType DEF TypeOK, StreamType, GroupType
<1>2. BatchSize \in Nat \ {0}
  BY ConsumerAssumption
<1> QED
  BY <1>1, <1>2 DEF ReadFrom, ReadTo

-----------------------------------------------------------------------------
(***************************************************************************)
(* Which steps change what.                                                *)
(***************************************************************************)

LEMMA StreamChanges ==
  ASSUME [Next]_vars
  PROVE  \/ \E m \in Msgs : Publish(m)
         \/ Trim \/ Boot \/ HandleOk \/ HandleOkStatsFail \/ HandleFail
         \/ Requeue \/ RecordFailure \/ ReportRaises
         \/ \E r \in Replayers : ReplayAdd(r)
         \/ UNCHANGED <<log, floor, fate, failed>>
BY DEF Next, vars, ConsumerStep, ReplayStep, Poll, SkipHalted, Take, HandleExhausted, PauseEnds,
       AckStep, AckRaises, Cancel, Kill, Halt, Resume, ClearDlq, TrimDlq, StartReplay, ReadLetters,
       ReplayDelete, ReplayKilled, streamVars, histVars

LEMMA GroupChanges ==
  ASSUME [Next]_vars
  PROVE  \/ Boot \/ Poll \/ SkipHalted \/ Take \/ AckStep
         \/ UNCHANGED <<group, cursor, pos, pel>>
BY DEF Next, vars, ConsumerStep, ReplayStep, Publish, Trim, HandleOk, HandleOkStatsFail, HandleFail,
       Requeue, RecordFailure, ReportRaises, HandleExhausted, PauseEnds, AckRaises, Cancel, Kill,
       Halt, Resume, ClearDlq, TrimDlq, StartReplay, ReadLetters, ReplayAdd, ReplayDelete, ReplayKilled,
       streamVars, groupVars, agentVars

LEMMA DlqChanges ==
  ASSUME [Next]_vars
  PROVE  \/ RecordFailure \/ ReportRaises \/ ClearDlq \/ TrimDlq
         \/ \E r \in Replayers : StartReplay(r) \/ ReplayStep(r) \/ ReplayKilled(r)
         \/ UNCHANGED <<dlq, dlqNext, replay>>
BY DEF Next, vars, ConsumerStep, Publish, Trim, Boot, Poll, SkipHalted, Take, HandleOk,
       HandleOkStatsFail, HandleFail, HandleExhausted, Requeue, PauseEnds, AckStep, AckRaises,
       Cancel, Kill, Halt, Resume, dlqVars

LEMMA DisturbanceCounted ==
  ASSUME [Next]_vars
  PROVE  \/ \E kind \in AllFaults : Disturb(kind)
         \/ UNCHANGED faultVars
BY DEF Next, vars, ConsumerStep, ReplayStep, AllFaults, Publish, Trim, Boot, Poll,
       SkipHalted, Take, HandleOk, HandleOkStatsFail, HandleFail, HandleExhausted, Requeue,
       PauseEnds, RecordFailure, ReportRaises, AckStep, AckRaises, Cancel, Kill, Halt, Resume,
       ClearDlq, TrimDlq, StartReplay, ReadLetters, ReplayAdd, ReplayDelete, ReplayKilled

LEMMA DisturbancesStay ==
  ASSUME [Next]_vars
  PROVE  happened \subseteq happened'
BY DisturbanceCounted DEF Disturb, faultVars

\* The counters of the history count.
LEMMA CountChanges ==
  ASSUME [Next]_vars
  PROVE  /\ attempts' = attempts \/ \E m : attempts' = [attempts EXCEPT ![m] = @ + 1]
         /\ done' = done \/ \E m : done' = [done EXCEPT ![m] = @ + 1]
         /\ replays' = replays \/ \E m : replays' = [replays EXCEPT ![m] = @ + 1]
BY DEF Next, vars, ConsumerStep, ReplayStep, histVars, Publish, Trim, Boot,
       Poll, SkipHalted, Take, HandleOk, HandleOkStatsFail, HandleFail, HandleExhausted, Requeue,
       PauseEnds, RecordFailure, ReportRaises, AckStep, AckRaises, Cancel, Kill, Halt, Resume,
       ClearDlq, TrimDlq, StartReplay, ReadLetters, ReplayAdd, ReplayDelete, ReplayKilled

LEMMA LengthGrows ==
  ASSUME StreamType, [Next]_vars
  PROVE  Len(log) <= Len(log)'
<1>1. Len(log) \in Nat /\ log \in Seq(Entry)
  BY LenProperties DEF StreamType
<1>2. ASSUME NEW e, log' = Append(log, e)
      PROVE  Len(log)' = Len(log) + 1
  BY <1>1, <1>2
<1>3. log' = log \/ \E e : log' = Append(log, e)
  BY StreamChanges DEF Publish, Add, Trim, Boot, HandleOk, HandleOkStatsFail, HandleFail, Requeue,
     RecordFailure, ReportRaises, ReplayAdd, streamVars
<1> QED
  BY <1>1, <1>2, <1>3

-----------------------------------------------------------------------------
(***************************************************************************)
(* Type correctness.                                                       *)
(***************************************************************************)

LEMMA InitSupport == Init => IInv
<1> SUFFICES ASSUME Init PROVE IInv
  OBVIOUS
<1>1. log = <<>> /\ fate = <<>> /\ Len(log) = 0 /\ Ids = {}
  BY EmptySeq DEF Init, Ids
<1>2. StreamType
  BY <1>1, EmptySeq DEF Init, StreamType
<1>3. GroupType
  <2>1. cursor = 0 /\ pos = 0 /\ pel = {} /\ group = FALSE
    BY DEF Init
  <2>2. Len(log) = 0
    BY <1>1
  <2>3. group \in BOOLEAN
    BY <2>1
  <2>4. cursor \in 0 .. Len(log) /\ pos \in 0 .. cursor /\ pel \subseteq 1 .. cursor
    BY <2>1, <2>2
  <2> QED
    BY <2>3, <2>4 DEF GroupType
<1>6. AgentType
  BY DEF Init, AgentType, Places
<1>4. DlqType
  BY DEF Init, DlqType, Phases
<1>5. CountType
  BY ConsumerAssumption DEF Init, CountType
<1> QED
  BY <1>1, <1>2, <1>3, <1>4, <1>5, <1>6
  DEF Init, IInv, Support, TypeOK, InHand, BatchPending, Requeueable, Decided, DyingDisturbed,
      HaltedDisturbed, Fresh, SkippedTrimmed, NothingLost, StrandedOnlyByInterruption

LEMMA StreamTypeStep ==
  ASSUME Support, [Next]_vars
  PROVE  StreamType'
<1>a. TypeOK /\ StreamType /\ GroupType /\ InHand
  BY DEF Support, TypeOK
<1>b. Len(log) \in Nat /\ Ids = 1 .. Len(log) /\ fate \in [Ids -> Fates]
  BY <1>a, LengthType
<1>1. ASSUME NEW m \in Msgs, Publish(m)
      PROVE  StreamType'
  <2>1. [msg |-> m, retries |-> 0] \in Entry /\ Add([msg |-> m, retries |-> 0], fate)
    BY <1>1, ConsumerAssumption DEF Publish, Entry, Retries
  <2>2. floor' = floor /\ failed' = failed
    BY <1>1 DEF Publish
  <2> QED
    BY <1>a, <2>1, <2>2, AddedStreamType DEF StreamType
<1>2. CASE Trim
  <2>1. fate' \in [1 .. Len(log) -> Fates] /\ log' = log /\ failed' = failed
    BY <1>2, <1>b DEF Trim, Fates
  <2>2. floor' \in 0 .. Len(log)
    BY <1>2, <1>a, <1>b DEF Trim, StreamType
  <2> QED
    BY <1>a, <1>b, <2>1, <2>2, FateMap DEF StreamType, Ids
<1>3. CASE Boot
  <2>1. fate' \in [1 .. Len(log) -> Fates] /\ UNCHANGED <<log, floor, failed>>
    BY <1>3, <1>b DEF Boot, Fates
  <2> QED
    BY <1>a, <1>b, <2>1, FateMap DEF StreamType, Ids
<1>4. CASE HandleOk \/ HandleOkStatsFail
  <2>1. pos \in Ids /\ fate' = [fate EXCEPT ![pos] = "ok"] /\ "ok" \in Fates
    BY <1>a, <1>4, CurrentType DEF HandleOk, HandleOkStatsFail, Fates
  <2>2. fate' \in Seq(Fates) /\ Len(fate') = Len(log)
    BY <1>a, <2>1, FateExcept
  <2>3. UNCHANGED <<log, floor>> /\ failed' \subseteq failed \cup {pos}
    BY <1>4 DEF HandleOk, HandleOkStatsFail, streamVars
  <2> QED
    BY <1>a, <2>1, <2>2, <2>3 DEF StreamType, Ids
<1>5. CASE HandleFail
  <2>1. pos \in Ids /\ UNCHANGED <<log, floor, fate>> /\ failed' = failed \cup {pos}
    BY <1>a, <1>5, CurrentType DEF HandleFail, streamVars
  <2> QED
    BY <1>a, <2>1 DEF StreamType, Ids
<1>6. CASE Requeue
  <2>1. pos \in Ids /\ Current.msg \in Msgs /\ Current.retries \in 0 .. MaxRetries
    BY <1>a, <1>6, CurrentType DEF Requeue
  <2>2. Add(Requeued(Current), [fate EXCEPT ![pos] = "requeued"])
    BY <1>6 DEF Requeue
  <2>3. [fate EXCEPT ![pos] = "requeued"] \in Seq(Fates)
        /\ Len([fate EXCEPT ![pos] = "requeued"]) = Len(log)
    BY <1>a, <2>1, FateExcept DEF Fates
  <2>4. Requeued(Current) \in Entry
    BY <1>6, RequeuedType DEF Requeue
  <2>5. UNCHANGED <<floor, failed>>
    BY <1>6 DEF Requeue
  <2> QED
    BY <1>a, <2>2, <2>3, <2>4, <2>5, AddedStreamType
<1>7. CASE RecordFailure \/ ReportRaises
  <2>1. pos \in Ids
    BY <1>a, <1>7, CurrentType DEF RecordFailure, ReportRaises
  <2>2. UNCHANGED <<log, floor, failed>>
    BY <1>7 DEF RecordFailure, ReportRaises, streamVars
  <2>3. fate' = fate \/ fate' = [fate EXCEPT ![pos] = "dead"]
    BY <1>7 DEF RecordFailure, ReportRaises, ToDlq
  <2>4. fate' \in Seq(Fates) /\ Len(fate') = Len(log)
    BY <1>a, <2>1, <2>3, FateExcept DEF Fates, StreamType
  <2> QED
    BY <1>a, <2>2, <2>4 DEF StreamType, Ids
<1>8. ASSUME NEW r \in Replayers, ReplayAdd(r)
      PROVE  StreamType'
  <2>1. PICK e \in replay[r].batch : Add([msg |-> e.msg, retries |-> e.retries], fate)
    BY <1>8 DEF ReplayAdd
  <2>2. e \in Letter
    BY <1>a, <2>1 DEF TypeOK, DlqType
  <2>3. [msg |-> e.msg, retries |-> e.retries] \in Entry
    BY <2>2 DEF Letter, Entry
  <2>4. UNCHANGED <<floor, failed>>
    BY <1>8 DEF ReplayAdd
  <2> QED
    BY <1>a, <2>1, <2>3, <2>4, AddedStreamType DEF StreamType
<1>9. CASE UNCHANGED <<log, floor, fate, failed>>
  BY <1>a, <1>9 DEF StreamType, Ids
<1> QED
  BY <1>1, <1>2, <1>3, <1>4, <1>5, <1>6, <1>7, <1>8, <1>9, StreamChanges

LEMMA GroupTypeStep ==
  ASSUME Support, [Next]_vars
  PROVE  GroupType'
<1>a. TypeOK /\ GroupType /\ Len(log) \in Nat /\ Len(log) <= Len(log)'
  <2>1. TypeOK /\ GroupType /\ StreamType
    BY DEF Support, TypeOK
  <2> QED
    BY <2>1, LengthType, LengthGrows
<1>b. Len(log)' \in Nat
  BY StreamTypeStep, LenProperties DEF StreamType
<1>1. CASE Boot
  <2>1. group' = TRUE /\ cursor' = FirstCursor /\ pos' = FirstCursor /\ pel' = pel /\ log' = log
    BY <1>1 DEF Boot
  <2>2. FirstCursor \in 0 .. Len(log) /\ pel \subseteq 1 .. FirstCursor
    BY <1>a DEF FirstCursor, GroupType, Support, Fresh
  <2> QED
    BY <1>a, <2>1, <2>2 DEF GroupType
<1>2. CASE Poll
  <2>1. /\ group' = group /\ log' = log
        /\ cursor' = ReadTo /\ pos' \in {ReadFrom, ReadTo}
        /\ pel' = pel \cup (ReadFrom + 1 .. ReadTo)
    BY <1>2 DEF Poll, streamVars
  <2>2. ReadFrom \in cursor .. Len(log) /\ ReadTo \in ReadFrom + 1 .. Len(log)
    BY <1>2, <1>a, ReadRange DEF Poll
  <2>3. pel \subseteq 1 .. cursor /\ cursor \in Nat /\ group \in BOOLEAN
    BY <1>a DEF GroupType
  <2> QED
    BY <1>a, <2>1, <2>2, <2>3 DEF GroupType
<1>3. CASE SkipHalted \/ Take
  <2>1. pos < cursor /\ pos' = pos + 1 /\ UNCHANGED <<log, group, cursor, pel>>
    BY <1>3 DEF SkipHalted, Take, streamVars, groupVars
  <2> QED
    BY <1>a, <2>1 DEF GroupType
<1>4. CASE AckStep
  BY <1>a, <1>4 DEF AckStep, GroupType, streamVars
<1>5. CASE UNCHANGED <<group, cursor, pos, pel>>
  BY <1>a, <1>b, <1>5 DEF GroupType
<1> QED
  BY <1>1, <1>2, <1>3, <1>4, <1>5, GroupChanges

LEMMA AgentTypeStep ==
  ASSUME AgentType, [Next]_vars
  PROVE  AgentType'
<1>1. pc' \in Places
  BY DEF AgentType, Places, Next, vars, ConsumerStep, ReplayStep, agentVars, Publish, Trim, Boot,
         Poll, SkipHalted, Take, HandleOk, HandleOkStatsFail, HandleFail, HandleExhausted, Requeue,
         PauseEnds, RecordFailure, ReportRaises, AckStep, AckRaises, Cancel, Kill, Halt, Resume,
         ClearDlq, TrimDlq, StartReplay, ReadLetters, ReplayAdd, ReplayDelete, ReplayKilled
<1>2. halted' \in BOOLEAN
  BY DEF AgentType, Next, vars, ConsumerStep, ReplayStep, agentVars, Publish, Trim, Boot,
         Poll, SkipHalted, Take, HandleOk, HandleOkStatsFail, HandleFail, HandleExhausted, Requeue,
         PauseEnds, RecordFailure, ReportRaises, AckStep, AckRaises, Cancel, Kill, Halt, Resume,
         ClearDlq, TrimDlq, StartReplay, ReadLetters, ReplayAdd, ReplayDelete, ReplayKilled
<1> QED
  BY <1>1, <1>2 DEF AgentType

LEMMA DlqTypeStep ==
  ASSUME Support, [Next]_vars
  PROVE  DlqType'
<1>a. TypeOK /\ DlqType /\ InHand
  BY DEF Support, TypeOK
<1>1. CASE RecordFailure \/ ReportRaises
  <2>1. Current.msg \in Msgs /\ Current.retries \in Retries
    BY <1>a, <1>1, CurrentType DEF RecordFailure, ReportRaises, Retries
  <2>2. DeadLetter(Current) \in Letter
    BY <1>a, <2>1 DEF DeadLetter, Letter, DlqType
  <2>3. \/ dlq' = dlq \cup {DeadLetter(Current)} /\ dlqNext' = dlqNext + 1 /\ UNCHANGED replay
        \/ UNCHANGED <<dlq, dlqNext, replay>>
    BY <1>1 DEF RecordFailure, ReportRaises, ToDlq, dlqVars
  <2> QED
    BY <1>a, <2>2, <2>3 DEF DlqType
<1>2. CASE ClearDlq \/ TrimDlq
  BY <1>a, <1>2 DEF ClearDlq, TrimDlq, DlqType
<1>3. ASSUME NEW r \in Replayers, StartReplay(r) \/ ReplayStep(r) \/ ReplayKilled(r)
      PROVE  DlqType'
  <2>1. dlq' \subseteq dlq /\ dlqNext' = dlqNext
    BY <1>3 DEF StartReplay, ReplayStep, ReplayKilled, ReadLetters, ReplayAdd, ReplayDelete
  <2>2. \E phase \in Phases, batch \in SUBSET Letter : SetReplay(r, phase, batch)
    <3>1. replay[r].batch \subseteq Letter /\ dlq \subseteq Letter
      BY <1>a DEF DlqType
    <3> QED
      BY <1>3, <3>1 DEF StartReplay, ReplayStep, ReplayKilled, ReadLetters, ReplayAdd,
                        ReplayDelete, OldestLetters, Phases
  <2> QED
    BY <1>a, <2>1, <2>2 DEF DlqType, SetReplay
<1>4. CASE UNCHANGED <<dlq, dlqNext, replay>>
  BY <1>a, <1>4 DEF DlqType
<1> QED
  BY <1>1, <1>2, <1>3, <1>4, DlqChanges

LEMMA CountTypeStep ==
  ASSUME Support, [Next]_vars
  PROVE  CountType'
<1>a. TypeOK /\ CountType /\ InHand
  BY DEF Support, TypeOK
<1>1. attempts' \in [Msgs -> Nat] /\ done' \in [Msgs -> Nat] /\ replays' \in [Msgs -> Nat]
  BY <1>a, CountChanges DEF CountType
<1>4. happened' \subseteq FaultKinds /\ nfaults' \in 0 .. MaxFaults
  <2>1. MaxFaults \in Nat
    BY ConsumerAssumption
  <2> QED
    BY <1>a, <2>1, DisturbanceCounted DEF CountType, faultVars, Disturb
<1> QED
  BY <1>1, <1>4 DEF CountType

LEMMA TypeStep ==
  ASSUME Support, [Next]_vars
  PROVE  TypeOK'
BY StreamTypeStep, GroupTypeStep, AgentTypeStep, DlqTypeStep, CountTypeStep DEF Support, TypeOK

-----------------------------------------------------------------------------
(***************************************************************************)
(* The supporting invariants.                                              *)
(***************************************************************************)

\* Entries and decided fates are for good.
LEMMA FatesStay ==
  ASSUME Support, [Next]_vars, NEW i \in Ids
  PROVE  /\ i \in Ids'
         /\ fate[i] # "none" => fate'[i] # "none"
         /\ log'[i] = log[i]
<1>a. TypeOK /\ StreamType /\ InHand /\ Len(fate) = Len(log) /\ fate \in Seq(Fates)
  BY DEF Support, TypeOK, StreamType
<1>b. Len(log) \in Nat /\ Ids = 1 .. Len(log)
  BY <1>a, LengthType
<1>1. ASSUME NEW m \in Msgs, Publish(m)
      PROVE  i \in Ids' /\ fate'[i] = fate[i] /\ log'[i] = log[i]
  <2>1. [msg |-> m, retries |-> 0] \in Entry /\ Add([msg |-> m, retries |-> 0], fate)
    BY <1>1, ConsumerAssumption DEF Publish, Entry, Retries
  <2> QED
    BY <1>a, <2>1, AddType
<1>2. CASE Trim \/ Boot
  <2>1. log' = log /\ (fate'[i] = fate[i] \/ fate'[i] \in {"trimmed", "missed"})
    BY <1>2 DEF Trim, Boot
  <2> QED
    BY <2>1 DEF Ids
<1>3. CASE HandleOk \/ HandleOkStatsFail \/ HandleFail \/ RecordFailure \/ ReportRaises
  <2>1. log' = log
    BY <1>3 DEF HandleOk, HandleOkStatsFail, HandleFail, RecordFailure, ReportRaises, streamVars
  <2>2. \/ fate' = fate
        \/ \E x \in {"ok", "dead"} : fate' = [fate EXCEPT ![pos] = x]
    BY <1>3 DEF HandleOk, HandleOkStatsFail, HandleFail, RecordFailure, ReportRaises, ToDlq
  <2>3. pos \in Ids
    BY <1>a, <1>3, CurrentType
    DEF HandleOk, HandleOkStatsFail, HandleFail, RecordFailure, ReportRaises
  <2>4. ASSUME NEW x \in {"ok", "dead"}, fate' = [fate EXCEPT ![pos] = x]
        PROVE  fate[i] # "none" => fate'[i] # "none"
    BY <1>a, <2>3, <2>4, FateExcept DEF Fates
  <2> QED
    BY <2>1, <2>2, <2>4 DEF Ids
<1>4. CASE Requeue
  <2>1. pos \in Ids
    BY <1>a, <1>4, CurrentType DEF Requeue
  <2>2. Add(Requeued(Current), [fate EXCEPT ![pos] = "requeued"])
    BY <1>4 DEF Requeue
  <2>3. /\ [fate EXCEPT ![pos] = "requeued"] \in Seq(Fates)
        /\ Len([fate EXCEPT ![pos] = "requeued"]) = Len(log)
        /\ fate[i] # "none" => [fate EXCEPT ![pos] = "requeued"][i] # "none"
    BY <1>a, <2>1, FateExcept DEF Fates
  <2>4. Requeued(Current) \in Entry
    BY <1>4, RequeuedType DEF Requeue
  <2> QED
    BY <1>a, <2>2, <2>3, <2>4, AddType
<1>5. ASSUME NEW r \in Replayers, ReplayAdd(r)
      PROVE  i \in Ids' /\ fate'[i] = fate[i] /\ log'[i] = log[i]
  <2>1. PICK e \in replay[r].batch : Add([msg |-> e.msg, retries |-> e.retries], fate)
    BY <1>5 DEF ReplayAdd
  <2>2. [msg |-> e.msg, retries |-> e.retries] \in Entry
    BY <1>a, <2>1 DEF TypeOK, DlqType, Letter, Entry
  <2> QED
    BY <1>a, <2>1, <2>2, AddType
<1>6. CASE UNCHANGED <<log, floor, fate, failed>>
  BY <1>6 DEF Ids
<1> QED
  BY <1>1, <1>2, <1>3, <1>4, <1>5, <1>6, StreamChanges

\* Which steps move the consume loop.
LEMMA LoopChanges ==
  ASSUME [Next]_vars
  PROVE  \/ Boot \/ Take \/ HandleOk \/ HandleOkStatsFail \/ HandleFail \/ HandleExhausted
         \/ Requeue \/ PauseEnds \/ RecordFailure \/ ReportRaises \/ AckStep \/ AckRaises
         \/ Cancel \/ Kill
         \/ UNCHANGED pc
BY DEF Next, vars, ConsumerStep, ReplayStep, agentVars, Publish, Trim, Poll, SkipHalted, Halt, Resume,
       ClearDlq, TrimDlq, StartReplay, ReadLetters, ReplayAdd, ReplayDelete, ReplayKilled

\* The steps of one entry's handling leave the group alone.
LEMMA PosStays ==
  ASSUME [Next]_vars, pc \notin {"down", "idle"}
  PROVE  pos' = pos /\ (AckStep \/ pel' = pel)
BY GroupChanges DEF Boot, Poll, SkipHalted, Take, AckStep

LEMMA InHandStep ==
  ASSUME Support, [Next]_vars
  PROVE  InHand' /\ BatchPending'
<1>a. TypeOK /\ GroupType /\ InHand /\ BatchPending
  BY DEF Support, TypeOK
<1>1. CASE Boot
  BY <1>1, <1>a DEF Boot, InHand, BatchPending, GroupType, FirstCursor
<1>2. CASE Poll
  <2>1. pc = "idle" /\ pc' = pc /\ cursor' = ReadTo /\ pos' \in {ReadFrom, ReadTo}
        /\ pel' = pel \cup (ReadFrom + 1 .. ReadTo) /\ ReadFrom < Len(log)
    BY <1>2 DEF Poll
  <2>2. ReadTo \in Nat
    BY <1>a, <2>1, ReadRange, LengthType DEF GroupType, StreamType, TypeOK
  <2>3. pos' + 1 .. cursor' \subseteq ReadFrom + 1 .. ReadTo
    BY <1>a, <2>1, <2>2, ReadRange, LengthType DEF GroupType, StreamType, TypeOK
  <2> QED
    BY <2>1, <2>2, <2>3 DEF InHand, BatchPending
<1>3. CASE SkipHalted \/ Take
  <2>1. pc = "idle" /\ pos < cursor /\ pos' = pos + 1 /\ UNCHANGED <<cursor, pel>>
    BY <1>3 DEF SkipHalted, Take, groupVars
  <2>2. pos + 1 .. cursor \subseteq pel /\ pos \in Nat /\ cursor \in Nat
    BY <1>a, <2>1, LengthType DEF BatchPending, GroupType
  <2>3. pos + 1 \in pel /\ pos + 1 + 1 .. cursor \subseteq pel
    BY <2>1, <2>2
  <2> QED
    BY <2>1, <2>3 DEF InHand, BatchPending
<1>4. CASE AckStep
  <2>1. pc' \in {"idle", "down"} /\ pel' = pel \ {pos} /\ UNCHANGED <<cursor, pos>> /\ pc # "down"
    BY <1>4 DEF AckStep
  <2> QED
    BY <1>a, <2>1, LengthType DEF InHand, BatchPending, GroupType
<1>5. CASE UNCHANGED <<group, cursor, pos, pel>> /\ ~ Boot /\ ~ Take
  <2>1. pc = "down" => pc' = "down"
    BY <1>5, LoopChanges
    DEF HandleOk, HandleOkStatsFail, HandleFail, HandleExhausted, Requeue, PauseEnds, RecordFailure,
        ReportRaises, AckStep, AckRaises, Cancel, Kill
  <2>2. pc = "idle" => pc' \in {"idle", "down"}
    BY <1>5, LoopChanges
    DEF HandleOk, HandleOkStatsFail, HandleFail, HandleExhausted, Requeue, PauseEnds, RecordFailure,
        ReportRaises, AckStep, AckRaises, Cancel, Kill
  <2> QED
    BY <1>5, <1>a, <2>1, <2>2 DEF InHand, BatchPending
<1> QED
  BY <1>1, <1>2, <1>3, <1>4, <1>5, GroupChanges

\* The step that ends the try block decides the entry's fate.
LEMMA FateDecided ==
  ASSUME Support, HandleOk \/ RecordFailure \/ Requeue
  PROVE  fate'[pos] # "none"
<1>a. StreamType /\ pos \in Ids
  BY CurrentType DEF Support, TypeOK, HandleOk, RecordFailure, Requeue
<1>1. CASE HandleOk
  <2>1. fate' = [fate EXCEPT ![pos] = "ok"] /\ "ok" \in Fates
    BY <1>1 DEF HandleOk, Fates
  <2> QED
    BY <1>a, <2>1, FateExcept
<1>2. CASE RecordFailure
  <2>1. fate' = [fate EXCEPT ![pos] = "dead"] /\ "dead" \in Fates
    BY <1>2 DEF RecordFailure, ToDlq, Fates
  <2> QED
    BY <1>a, <2>1, FateExcept
<1>3. CASE Requeue
  <2>1. Add(Requeued(Current), [fate EXCEPT ![pos] = "requeued"]) /\ "requeued" \in Fates
    BY <1>3 DEF Requeue, Fates
  <2>2. /\ [fate EXCEPT ![pos] = "requeued"] \in Seq(Fates)
        /\ Len([fate EXCEPT ![pos] = "requeued"]) = Len(log)
        /\ [fate EXCEPT ![pos] = "requeued"][pos] = "requeued"
    BY <1>a, <2>1, FateExcept
  <2>3. Requeued(Current) \in Entry
    BY <1>3, RequeuedType DEF Requeue
  <2> QED
    BY <1>a, <2>1, <2>2, <2>3, AddType
<1> QED
  BY <1>1, <1>2, <1>3

LEMMA RequeueableStep ==
  ASSUME Support, [Next]_vars
  PROVE  Requeueable'
<1> SUFFICES ASSUME pc' = "requeueing" PROVE RetriesLeft(Current)'
  BY DEF Requeueable
<1>1. HandleExhausted \/ pc = "requeueing"
  BY LoopChanges
  DEF Boot, Take, HandleOk, HandleOkStatsFail, HandleFail, Requeue, PauseEnds, RecordFailure,
      ReportRaises, AckStep, AckRaises, Cancel, Kill
<1>2. RetriesLeft(Current) /\ pc \notin {"down", "idle"}
  BY <1>1 DEF HandleExhausted, Support, Requeueable
<1>3. pos \in Ids /\ pos' = pos
  BY <1>2, CurrentType, PosStays DEF Support
<1>4. log'[pos] = log[pos]
  BY <1>3, FatesStay
<1> QED
  BY <1>2, <1>3, <1>4 DEF RetriesLeft, Current

LEMMA DecidedStep ==
  ASSUME Support, [Next]_vars
  PROVE  Decided'
<1> SUFFICES ASSUME pc' \in {"acking", "pausing"} PROVE (fate[pos])' # "none"
  BY DEF Decided
<1>1. HandleOk \/ RecordFailure \/ Requeue \/ pc \in {"acking", "pausing"}
  BY LoopChanges
  DEF Boot, Take, HandleOkStatsFail, HandleFail, HandleExhausted, PauseEnds,
      ReportRaises, AckStep, AckRaises, Cancel, Kill
<1>2. pc \notin {"down", "idle"}
  BY <1>1 DEF HandleOk, RecordFailure, Requeue
<1>3. pos \in Ids /\ pos' = pos
  BY <1>2, CurrentType, PosStays DEF Support
<1>4. fate'[pos] # "none"
  BY <1>1, <1>3, FateDecided, FatesStay DEF Support, Decided
<1> QED
  BY <1>3, <1>4

LEMMA DyingStep ==
  ASSUME Support, [Next]_vars
  PROVE  DyingDisturbed'
<1> SUFFICES ASSUME pc' = "dying" PROVE ~ Undisturbed({"cancel", "report"})'
  BY DEF DyingDisturbed
<1>1. ReportRaises \/ Cancel \/ pc = "dying"
  BY LoopChanges
  DEF Boot, Take, HandleOk, HandleOkStatsFail, HandleFail, HandleExhausted, Requeue, PauseEnds,
      RecordFailure, AckStep, AckRaises, Kill
<1>2. CASE ReportRaises \/ Cancel
  BY <1>2 DEF ReportRaises, Cancel, Disturb, Undisturbed
<1>3. CASE pc = "dying"
  BY <1>3, DisturbancesStay DEF Support, DyingDisturbed, Undisturbed
<1> QED
  BY <1>1, <1>2, <1>3

LEMMA HaltedStep ==
  ASSUME Support, [Next]_vars
  PROVE  HaltedDisturbed'
<1> SUFFICES ASSUME halted' PROVE "halt" \in happened'
  BY DEF HaltedDisturbed
<1>1. Boot \/ Halt \/ halted
  BY DEF Next, vars, ConsumerStep, ReplayStep, agentVars, Publish, Trim, Poll, SkipHalted, Take,
         HandleOk, HandleOkStatsFail, HandleFail, HandleExhausted, Requeue, PauseEnds,
         RecordFailure, ReportRaises, AckStep, AckRaises, Cancel, Kill, Resume, ClearDlq, TrimDlq,
         StartReplay, ReadLetters, ReplayAdd, ReplayDelete, ReplayKilled
<1>2. CASE Boot
  BY <1>2 DEF Boot, faultVars
<1>3. CASE Halt
  BY <1>3 DEF Halt, Disturb
<1>4. CASE halted
  BY <1>4, DisturbancesStay DEF Support, HaltedDisturbed
<1> QED
  BY <1>1, <1>2, <1>3, <1>4

LEMMA FreshStep ==
  ASSUME Support, [Next]_vars
  PROVE  Fresh'
<1>1. CASE Boot
  BY <1>1 DEF Boot, Fresh
<1>2. CASE ~ Boot
  <2>1. group' = group
    BY <1>2, GroupChanges DEF Poll, SkipHalted, Take, AckStep, streamVars
  <2> SUFFICES ASSUME ~ group PROVE pc' = "down" /\ cursor' = 0
    BY <2>1 DEF Fresh
  <2>2. pc = "down" /\ cursor = 0
    BY DEF Support, Fresh
  <2>3. pc' = "down"
    BY <1>2, <2>2, LoopChanges
    DEF Take, HandleOk, HandleOkStatsFail, HandleFail, HandleExhausted, Requeue, PauseEnds,
        RecordFailure, ReportRaises, AckStep, AckRaises, Cancel, Kill
  <2>4. cursor' = cursor
    BY <1>2, <2>2, GroupChanges DEF Poll, SkipHalted, Take, AckStep
  <2> QED
    BY <2>2, <2>3, <2>4
<1> QED
  BY <1>1, <1>2

LEMMA SkippedStep ==
  ASSUME Support, [Next]_vars
  PROVE  SkippedTrimmed'
<1>a. TypeOK /\ SkippedTrimmed /\ StreamType /\ GroupType
  BY DEF Support, TypeOK
<1>b. Len(log) \in Nat /\ Ids = 1 .. Len(log) /\ cursor \in Nat /\ floor \in 0 .. Len(log)
  BY <1>a, LengthType DEF StreamType, GroupType
<1>1. SUFFICES ASSUME NEW i \in Ids', i > cursor', i <= floor'
      PROVE  fate'[i] # "none"
  BY DEF SkippedTrimmed
<1>2. i \in Nat \ {0}
  BY <1>1, StreamTypeStep, LenProperties DEF StreamType, Ids
<1>3. CASE Trim
  <2>1. i \in Ids /\ cursor' = cursor
    BY <1>1, <1>3 DEF Trim, Ids, groupVars
  <2>2. fate'[i] = IF i > cursor /\ i <= floor' THEN "trimmed" ELSE fate[i]
    BY <1>3, <2>1 DEF Trim
  <2> QED
    BY <1>1, <2>1, <2>2
<1>4. CASE ~ Trim
  <2>1. floor' = floor
    BY <1>4, StreamChanges
    DEF Publish, Boot, HandleOk, HandleOkStatsFail, HandleFail, Requeue, RecordFailure,
        ReportRaises, ReplayAdd, streamVars
  <2>2. i \in Ids
    BY <1>b, <1>1, <1>2, <2>1
  <2>3. cursor <= cursor'
    <3>1. CASE Boot
      BY <1>b, <3>1 DEF Boot, FirstCursor, Support, Fresh
    <3>2. CASE Poll
      BY <1>a, <1>b, <3>2, ReadRange DEF Poll
    <3>3. CASE cursor' = cursor
      BY <1>b, <3>3
    <3> QED
      BY <3>1, <3>2, <3>3, GroupChanges DEF SkipHalted, Take, AckStep, groupVars
  <2>4. cursor' \in Nat
    BY GroupTypeStep, StreamTypeStep, LenProperties DEF GroupType, StreamType
  <2>5. fate[i] # "none"
    BY <1>a, <1>b, <1>1, <1>2, <2>1, <2>2, <2>3, <2>4 DEF SkippedTrimmed
  <2> QED
    BY <2>2, <2>5, FatesStay
<1> QED
  BY <1>3, <1>4

LEMMA SupportStep ==
  ASSUME Support, [Next]_vars
  PROVE  Support'
BY TypeStep, InHandStep, RequeueableStep, DecidedStep, DyingStep, HaltedStep, FreshStep, SkippedStep
DEF Support

-----------------------------------------------------------------------------
(***************************************************************************)
(* The two safety invariants.                                              *)
(***************************************************************************)

\* An entry the step adds is not lost: the group has not read it.
LEMMA NewBeyondCursor ==
  ASSUME Support, [Next]_vars, NEW i \in Ids', i \notin Ids
  PROVE  i > cursor' /\ i \notin pel
<1>a. TypeOK /\ StreamType /\ GroupType
  BY DEF Support, TypeOK
<1>b. Len(log) \in Nat /\ Ids = 1 .. Len(log) /\ cursor \in 0 .. Len(log) /\ pel \subseteq 1 .. cursor
  BY <1>a, LengthType DEF GroupType
<1>1. i \in Nat \ {0}
  BY StreamTypeStep, LenProperties DEF StreamType, Ids
<1>2. i > Len(log)
  BY <1>b, <1>1
<1>3. CASE Boot \/ Poll
  <2>1. log' = log
    BY <1>3 DEF Boot, Poll, streamVars
  <2> QED
    BY <2>1 DEF Ids
<1>4. CASE cursor' = cursor
  BY <1>b, <1>1, <1>2, <1>4
<1> QED
  BY <1>3, <1>4, <1>b, <1>2, GroupChanges DEF SkipHalted, Take, AckStep, groupVars

LEMMA NothingLostStep ==
  ASSUME IInv, [Next]_vars
  PROVE  NothingLost'
<1> SUFFICES ASSUME Undisturbed({"cancel", "report"})', NEW i \in Ids',
                    i <= cursor', i \notin pel', fate'[i] = "none"
             PROVE  FALSE
  BY DEF NothingLost, Lost
<1>a. Support /\ TypeOK /\ GroupType /\ Decided /\ DyingDisturbed
  BY DEF IInv, Support, TypeOK
<1>b. Undisturbed({"cancel", "report"})
  BY DisturbancesStay DEF Undisturbed
<1>c. Len(log) \in Nat /\ Ids = 1 .. Len(log) /\ cursor \in 0 .. Len(log)
      /\ cursor' \in Nat
  <2>1. GroupType' /\ StreamType'
    BY <1>a, GroupTypeStep, StreamTypeStep
  <2>2. cursor' \in Nat
    BY <2>1, LenProperties DEF GroupType, StreamType
  <2> QED
    BY <1>a, <2>2, LengthType DEF GroupType
<1>1. i \in Ids
  BY <1>a, <1>c, NewBeyondCursor DEF Ids
<1>2. fate[i] = "none"
  BY <1>1, <1>a, FatesStay
<1>3. i > cursor \/ i \in pel
  BY <1>b, <1>c, <1>1, <1>2 DEF IInv, NothingLost, Lost
<1>4. CASE Boot
  <2>1. cursor' = FirstCursor /\ pel' = pel
        /\ fate' = [j \in Ids |-> IF ~ group THEN "missed" ELSE fate[j]]
    BY <1>4 DEF Boot
  <2>2. CASE ~ group
    BY <1>1, <2>1, <2>2
  <2>3. CASE group
    BY <1>1, <1>3, <1>c, <2>1, <2>3 DEF FirstCursor
  <2> QED
    BY <2>2, <2>3
<1>5. CASE Poll
  <2>1. cursor' = ReadTo /\ pel' = pel \cup (ReadFrom + 1 .. ReadTo) /\ ReadFrom < Len(log)
    BY <1>5 DEF Poll
  <2>2. ReadFrom \in cursor .. Len(log) /\ ReadTo \in ReadFrom + 1 .. Len(log)
        /\ (ReadFrom = cursor \/ ReadFrom = floor)
    BY <1>a, <2>1, ReadRange
  <2>3. i > cursor /\ i <= ReadFrom
    BY <1>1, <1>3, <1>c, <2>1, <2>2
  <2>4. i <= floor
    BY <1>1, <1>c, <2>2, <2>3
  <2> QED
    BY <1>a, <1>1, <1>2, <2>3, <2>4 DEF Support, SkippedTrimmed
<1>6. CASE SkipHalted \/ Take
  BY <1>3, <1>6, <1>c, <1>1 DEF SkipHalted, Take, groupVars
<1>7. CASE AckStep
  <2>1. cursor' = cursor /\ pel' = pel \ {pos} /\ pc \in {"acking", "dying"}
    BY <1>7 DEF AckStep
  <2>2. i = pos
    BY <1>1, <1>3, <1>c, <2>1
  <2>3. pc = "acking"
    BY <1>a, <1>b, <2>1 DEF DyingDisturbed
  <2> QED
    BY <1>a, <1>2, <2>2, <2>3 DEF Decided
<1>8. CASE UNCHANGED <<group, cursor, pos, pel>>
  BY <1>1, <1>3, <1>8, <1>c
<1> QED
  BY <1>4, <1>5, <1>6, <1>7, <1>8, GroupChanges

Interruptions == {"kill", "cancel", "report", "ack", "halt", "reply"}

LEMMA StrandedStep ==
  ASSUME IInv, [Next]_vars
  PROVE  StrandedOnlyByInterruption'
<1> SUFFICES ASSUME Undisturbed(Interruptions)', NEW i \in Ids', Stranded(i)'
             PROVE  FALSE
  BY DEF StrandedOnlyByInterruption, Interruptions
<1>a. Support /\ TypeOK /\ GroupType /\ InHand /\ BatchPending /\ DyingDisturbed /\ HaltedDisturbed
  BY DEF IInv, Support, TypeOK
<1>b. Undisturbed(Interruptions)
  BY DisturbancesStay DEF Undisturbed
<1>c. /\ Len(log) \in Nat /\ Ids = 1 .. Len(log)
      /\ cursor \in 0 .. Len(log) /\ pos \in 0 .. cursor /\ pel \subseteq 1 .. cursor
  BY <1>a, LengthType DEF GroupType
<1>d. pel \subseteq Ids
  BY <1>c
<1>e. \A j \in pel : ~ Stranded(j)
  BY <1>b, <1>d DEF IInv, StrandedOnlyByInterruption, Interruptions
<1>f. pc = "down" => pel = {}
  BY <1>e DEF Stranded
<1>g. pc # "dying" /\ ~ halted
  BY <1>a, <1>b DEF DyingDisturbed, HaltedDisturbed, Undisturbed, Interruptions
<1>h. ~ Kill /\ ~ Cancel /\ ~ ReportRaises /\ ~ AckRaises /\ ~ Disturb("reply")
  BY DEF Kill, Cancel, ReportRaises, AckRaises, Disturb, Undisturbed, Interruptions
<1>i. i \in pel' /\ (pc' = "down" \/ i < pos' \/ (i = pos' /\ pc' = "idle"))
  BY DEF Stranded
<1>1. CASE Boot
  BY <1>1, <1>f, <1>i DEF Boot
<1>2. CASE Poll
  <2>1. /\ pc = "idle" /\ pos = cursor /\ pc' = pc /\ ReadFrom < Len(log)
        /\ pos' = ReadFrom /\ pel' = pel \cup (ReadFrom + 1 .. ReadTo)
    BY <1>2, <1>h DEF Poll
  <2>2. pel = {}
    BY <1>c, <1>e, <2>1 DEF Stranded
  <2>3. ReadFrom \in cursor .. Len(log) /\ ReadTo \in ReadFrom + 1 .. Len(log)
    BY <1>a, <2>1, ReadRange
  <2> QED
    BY <1>c, <1>i, <2>1, <2>2, <2>3
<1>3. CASE SkipHalted
  BY <1>3, <1>g DEF SkipHalted
<1>4. CASE Take
  <2>1. pc = "idle" /\ pos < cursor /\ pos' = pos + 1 /\ pc' = "handling" /\ pel' = pel
    BY <1>4 DEF Take, groupVars
  <2>2. i <= pos
    BY <1>c, <1>i, <2>1
  <2> QED
    BY <1>c, <1>e, <1>i, <2>1, <2>2 DEF Stranded
<1>5. CASE AckStep
  <2>1. pc \in {"acking", "dying"} /\ pel' = pel \ {pos} /\ pos' = pos
        /\ pc' = (IF pc = "acking" THEN "idle" ELSE "down")
    BY <1>5 DEF AckStep
  <2>2. i \in pel /\ i < pos
    BY <1>g, <1>i, <2>1
  <2> QED
    BY <1>e, <2>2 DEF Stranded
<1>6. CASE UNCHANGED <<group, cursor, pos, pel>> /\ ~ Boot /\ ~ Take /\ ~ AckStep
  <2>1. pc' = "down" => pc = "down"
    BY <1>6, <1>h, LoopChanges
    DEF HandleOk, HandleOkStatsFail, HandleFail, HandleExhausted, Requeue, PauseEnds, RecordFailure
  <2>2. pc' = "idle" => pc = "idle"
    BY <1>6, <1>h, LoopChanges
    DEF HandleOk, HandleOkStatsFail, HandleFail, HandleExhausted, Requeue, PauseEnds, RecordFailure
  <2> QED
    BY <1>6, <1>e, <1>i, <2>1, <2>2 DEF Stranded
<1> QED
  BY <1>1, <1>2, <1>3, <1>4, <1>5, <1>6, GroupChanges

-----------------------------------------------------------------------------
(***************************************************************************)
(* The theorems.                                                           *)
(***************************************************************************)

LEMMA Inductive == IInv /\ [Next]_vars => IInv'
<1> SUFFICES ASSUME IInv, [Next]_vars PROVE IInv'
  OBVIOUS
<1>1. Support
  BY DEF IInv
<1> QED
  BY <1>1, SupportStep, NothingLostStep, StrandedStep DEF IInv

LEMMA InvariantHolds == Spec => []IInv
BY InitSupport, Inductive, PTL DEF Spec

\* Every variable keeps its type, whatever the disturbances: in particular the
\* retry counter in a message stays within LLM_EXHAUSTED_MAX_RETRIES, and the
\* pending list and the iterator never run ahead of the group's cursor.
THEOREM TypeCorrect == Spec => []TypeOK
<1>1. IInv => TypeOK
  BY DEF IInv, Support
<1> QED
  BY <1>1, InvariantHolds, PTL

\* Without a cancellation and without an exception inside the except block, an
\* acknowledged entry was handled, dead-lettered or requeued (base.py:172-248).
THEOREM NothingLostAlways == Spec => []NothingLost
<1>1. IInv => NothingLost
  BY DEF IInv
<1> QED
  BY <1>1, InvariantHolds, PTL

\* Without an interruption between XREADGROUP and XACK, every pending entry is in
\* the hands of the agent or in the rest of its batch (bus.py:125-172).
THEOREM StrandedAlways == Spec => []StrandedOnlyByInterruption
<1>1. IInv => StrandedOnlyByInterruption
  BY DEF IInv
<1> QED
  BY <1>1, InvariantHolds, PTL
-----------------------------------------------------------------------------
(***************************************************************************)
(* Handled once.  A message is in one place at a time: in an entry that    *)
(* will be read or is at work, in a letter that waits, or handled.         *)
(***************************************************************************)

Undoubled == Undisturbed({"stats", "restart"}) /\ Cardinality(Replayers) <= 1

\* The entry is in front of the iterator, or in the agent's hands without a fate.
Live == {i \in Ids : i > pos \/ (i = pos /\ pc \in {"handling", "failing", "requeueing"})}

Letters == dlq \cup UNION {replay[r].batch : r \in Replayers}

\* The copies of these are on the stream; their XDEL is next.
Added == {e \in Letters :
            \E r \in Replayers : replay[r].phase = "deleting" /\ IsNext(e, replay[r].batch)}

Waiting == Letters \ Added

LettersDiffer ==
  /\ \A e \in Letters : e.id < dlqNext
  /\ \A e, f \in Letters : e.id = f.id => e = f

\* What was never published is nowhere.
Origin ==
  /\ \A e \in Letters : Published(e.msg)
  /\ \A m \in Msgs : ~ Published(m) => done[m] = 0

OneEntry  == \A i, j \in Live : log[i].msg = log[j].msg => i = j
OneLetter == \A e, f \in Waiting : e.msg = f.msg => e = f
NotBoth   == \A i \in Live : \A e \in Waiting : log[i].msg # e.msg
DoneIsOver ==
  /\ \A i \in Live : done[log[i].msg] = 0
  /\ \A e \in Waiting : done[e.msg] = 0
  /\ \A m \in Msgs : done[m] <= 1

OnePlace == LettersDiffer /\ Origin /\ OneEntry /\ OneLetter /\ NotBoth /\ DoneIsOver

OnceInv == Support /\ (Undoubled => OnePlace)

LEMMA OneReplayer ==
  ASSUME Cardinality(Replayers) <= 1
  PROVE  \A r, s \in Replayers : r = s
<1>1. IsFiniteSet(Replayers) /\ Cardinality(Replayers) \in Nat
  BY ConsumerAssumption, FS_CardinalityType
<1>2. CASE Cardinality(Replayers) = 0
  BY <1>1, <1>2, FS_EmptySet
<1>3. CASE Cardinality(Replayers) = 1
  BY <1>1, <1>3, FS_Singleton
<1> QED
  BY <1>1, <1>2, <1>3

LEMMA LetterTypes ==
  ASSUME TypeOK
  PROVE  /\ Letters \subseteq Letter /\ Live \subseteq Ids
         /\ \A i \in Ids : log[i].msg \in Msgs
         /\ \A r \in Replayers : replay[r].batch \subseteq Letters
<1>1. \A r \in Replayers : replay[r].batch \subseteq Letter
  BY DEF TypeOK, DlqType
<1>2. \A i \in Ids : log[i] \in Entry
  BY ElementOfSeq DEF TypeOK, StreamType, Ids
<1> QED
  BY <1>1, <1>2 DEF TypeOK, DlqType, Letters, Live, Entry

\* A step that moves nothing: entries and letters may only drop out.
LEMMA NothingMoves ==
  ASSUME OnePlace, log' = log, done' = done, dlqNext' = dlqNext,
         Live' \subseteq Live, Letters' \subseteq Letters, Waiting' \subseteq Waiting
  PROVE  OnePlace'
<1>1. \A m : Published(m)' <=> Published(m)
  BY DEF Published, Ids
<1> QED
  BY <1>1 DEF OnePlace, LettersDiffer, Origin, OneEntry, OneLetter, NotBoth, DoneIsOver

LEMMA OnceInit == Init => OnceInv
<1> SUFFICES ASSUME Init PROVE OnceInv
  OBVIOUS
<1>1. Support
  BY InitSupport DEF IInv
<1>2. Ids = {} /\ Letters = {}
  BY LenProperties, EmptySeq DEF Init, Ids, Letters
<1>3. \A m \in Msgs : done[m] = 0
  BY DEF Init
<1> QED
  BY <1>1, <1>2, <1>3
  DEF OnceInv, OnePlace, LettersDiffer, Origin, OneEntry, OneLetter, NotBoth, DoneIsOver, Live, Waiting

\* The letters after a step of the replay, and those that wait.
LEMMA ReplayLetters ==
  ASSUME TypeOK, TypeOK', LettersDiffer, Cardinality(Replayers) <= 1, NEW r \in Replayers,
         StartReplay(r) \/ ReadLetters(r) \/ ReplayAdd(r) \/ ReplayDelete(r)
  PROVE  /\ Letters' \subseteq Letters /\ Waiting' \subseteq Waiting
         /\ ReplayAdd(r) => \E e \in Waiting :
              /\ e \notin Waiting'
              /\ Add([msg |-> e.msg, retries |-> e.retries], fate)
<1>1. \A s \in Replayers : s = r
  BY OneReplayer
<1>2. Letters = dlq \cup replay[r].batch /\ Letters' = dlq' \cup replay'[r].batch
  BY <1>1 DEF Letters
<1>3. Added = {e \in Letters : replay[r].phase = "deleting" /\ IsNext(e, replay[r].batch)}
  BY <1>1 DEF Added
<1>4. Added' = {e \in Letters' : replay'[r].phase = "deleting" /\ IsNext(e, replay'[r].batch)}
  BY <1>1 DEF Added, IsNext
<1>5. replay \in [Replayers -> [phase : Phases, batch : SUBSET Letter]]
  BY DEF TypeOK, DlqType
<1>6. CASE StartReplay(r)
  <2>1. dlq' = dlq /\ replay'[r].batch = {} /\ replay[r].phase = "idle"
    BY <1>5, <1>6 DEF StartReplay, SetReplay
  <2> QED
    BY <1>2, <1>3, <1>6, <2>1 DEF Waiting, StartReplay, ReplayAdd
<1>7. CASE ReadLetters(r)
  <2>1. dlq' = dlq /\ replay'[r].batch \subseteq dlq /\ replay[r].phase = "reading"
    <3>1. OldestLetters \subseteq dlq
      BY DEF OldestLetters
    <3> QED
      BY <1>5, <1>7, <3>1 DEF ReadLetters, SetReplay
  <2> QED
    BY <1>2, <1>3, <1>7, <2>1 DEF Waiting, ReadLetters, ReplayAdd
<1>8. CASE ReplayAdd(r)
  <2>1. PICK e \in replay[r].batch :
          IsNext(e, replay[r].batch) /\ Add([msg |-> e.msg, retries |-> e.retries], fate)
    BY <1>8 DEF ReplayAdd
  <2>2. /\ dlq' = dlq /\ replay'[r].batch = replay[r].batch
        /\ replay[r].phase = "adding" /\ replay'[r].phase = "deleting"
    BY <1>5, <1>8 DEF ReplayAdd, SetReplay
  <2>3. Letters' = Letters /\ Added = {} /\ e \in Letters /\ e \in Added'
    BY <1>2, <1>3, <1>4, <2>1, <2>2
  <2> QED
    BY <2>1, <2>3 DEF Waiting
<1>9. CASE ReplayDelete(r)
  <2>1. PICK e \in replay[r].batch :
          /\ IsNext(e, replay[r].batch)
          /\ dlq' = {f \in dlq : f.id # e.id}
          /\ replay'[r].batch = {f \in replay[r].batch : f.id # e.id}
    BY <1>5, <1>9 DEF ReplayDelete, SetReplay
  <2>2. replay[r].phase = "deleting"
    BY <1>9 DEF ReplayDelete
  <2>3. Letters' = {f \in Letters : f.id # e.id} /\ e \in Letters
    BY <1>2, <2>1
  <2>4. \A f \in Added : f.id = e.id
    <3> SUFFICES ASSUME NEW f \in Added PROVE f.id = e.id
      OBVIOUS
    <3>1. IsNext(f, replay[r].batch)
      BY <1>3
    <3>2. f.id <= e.id /\ e.id <= f.id /\ f \in Letter /\ e \in Letter
      BY <1>5, <2>1, <3>1 DEF IsNext
    <3> QED
      BY <3>2 DEF Letter
  <2>5. Waiting' \subseteq Waiting
    BY <2>3, <2>4 DEF Waiting
  <2> QED
    BY <1>9, <2>2, <2>3, <2>5 DEF ReplayAdd
<1> QED
  BY <1>6, <1>7, <1>8, <1>9

LEMMA UndoubledBefore ==
  ASSUME [Next]_vars, Undoubled'
  PROVE  Undoubled /\ ~ HandleOkStatsFail /\ \A r \in Replayers : ~ ReplayKilled(r)
<1>1. Undoubled
  BY DisturbancesStay DEF Undoubled, Undisturbed
<1>2. "stats" \notin happened' /\ "restart" \notin happened'
  BY DEF Undoubled, Undisturbed
<1> QED
  BY <1>1, <1>2 DEF HandleOkStatsFail, ReplayKilled, Disturb
\* A new message: nothing else has it.
LEMMA OncePublish ==
  ASSUME Support, OnePlace, NEW m \in Msgs, Publish(m)
  PROVE  OnePlace'
<1>a. TypeOK /\ StreamType /\ Len(log) \in Nat /\ fate \in Seq(Fates) /\ Len(fate) = Len(log)
  BY LengthType DEF Support, TypeOK, StreamType
<1>b. [msg |-> m, retries |-> 0] \in Entry
  BY ConsumerAssumption DEF Entry, Retries
<1> DEFINE n == Len(log) + 1
<1>1. /\ Len(log') = n /\ \A i \in Ids : log'[i] = log[i]
      /\ log'[n].msg = m
  <2>1. log' = Append(log, [msg |-> m, retries |-> 0]) /\ log \in Seq(Entry)
    BY <1>a DEF Publish, Add, StreamType
  <2> QED
    BY <1>b, <2>1, AppendProperties DEF Ids
<1>2. Live' \subseteq Live \cup {n} /\ Live \subseteq Ids
  BY <1>a, <1>1 DEF Live, Ids, Publish, agentVars
<1>3. Letters' = Letters /\ Waiting' = Waiting /\ dlqNext' = dlqNext /\ done' = done
  BY DEF Publish, dlqVars, Letters, Waiting, Added
<1>4. ~ Published(m) /\ done[m] = 0 /\ \A e \in Letters : e.msg # m
  BY DEF Publish, OnePlace, Origin
<1>5. \A i \in Live : log[i].msg # m
  BY <1>2, <1>4 DEF Published
<1>6. \A x : Published(x) => Published(x)'
  BY <1>a, <1>1 DEF Published, Ids
<1>7. \A i \in Live' : (i \in Live /\ log'[i] = log[i]) \/ (i = n /\ log'[i].msg = m)
  BY <1>1, <1>2
<1>8. Waiting \subseteq Letters
  BY DEF Waiting
<1>9. LettersDiffer' /\ Origin'
  BY <1>3, <1>6 DEF OnePlace, LettersDiffer, Origin
<1>10. OneEntry' /\ OneLetter' /\ NotBoth'
  BY <1>3, <1>4, <1>5, <1>7, <1>8 DEF OnePlace, OneEntry, OneLetter, NotBoth
<1>11. DoneIsOver'
  BY <1>3, <1>4, <1>7 DEF OnePlace, DoneIsOver
<1> QED
  BY <1>9, <1>10, <1>11 DEF OnePlace

\* handle() returns: the entry is not live any more, and its message is done.
LEMMA OnceHandled ==
  ASSUME Support, OnePlace, HandleOk
  PROVE  OnePlace'
<1>a. TypeOK /\ pos \in Ids /\ Current.msg \in Msgs /\ done \in [Msgs -> Nat]
  BY CurrentType DEF HandleOk, Support, TypeOK, CountType
<1>1. /\ log' = log /\ pos' = pos /\ pc = "handling" /\ pc' = "acking"
      /\ UNCHANGED <<dlq, dlqNext, replay>>
      /\ done' = [done EXCEPT ![Current.msg] = @ + 1]
  BY DEF HandleOk, streamVars, dlqVars
<1>2. pos \in Live /\ Live' \subseteq Live \ {pos}
  <2>1. Ids' = Ids
    BY <1>1 DEF Ids
  <2> QED
    BY <1>a, <1>1, <2>1 DEF Live, Ids
<1>3. Letters' = Letters /\ Waiting' = Waiting
  BY <1>1 DEF Letters, Waiting, Added
<1>4. \A m : Published(m)' <=> Published(m)
  BY <1>1 DEF Published, Ids
<1>5. Published(Current.msg) /\ Current.msg = log[pos].msg
  BY <1>a DEF Published, Current
<1>6. done[Current.msg] = 0 /\ done'[Current.msg] = 1
      /\ \A m \in Msgs : m # Current.msg => done'[m] = done[m]
  BY <1>a, <1>1, <1>2, <1>5 DEF OnePlace, DoneIsOver
<1>7. \A i \in Live' : i \in Live /\ log[i].msg # Current.msg /\ log[i].msg \in Msgs
  BY <1>a, <1>2, <1>5, LetterTypes DEF OnePlace, OneEntry
<1>8. \A e \in Waiting : e.msg # Current.msg /\ e.msg \in Msgs
  BY <1>a, <1>2, <1>5, LetterTypes DEF OnePlace, NotBoth, Waiting, Letter
<1>9. LettersDiffer' /\ Origin'
  BY <1>1, <1>3, <1>4, <1>5, <1>6 DEF OnePlace, LettersDiffer, Origin
<1>10. OneEntry' /\ OneLetter' /\ NotBoth'
  BY <1>1, <1>2, <1>3 DEF OnePlace, OneEntry, OneLetter, NotBoth
<1>11. DoneIsOver'
  BY <1>1, <1>3, <1>6, <1>7, <1>8 DEF OnePlace, DoneIsOver
<1> QED
  BY <1>9, <1>10, <1>11 DEF OnePlace

\* _record_failure: the message goes from the agent's hands into a letter.
LEMMA OnceRecorded ==
  ASSUME Support, OnePlace, RecordFailure \/ (ReportRaises /\ pc = "failing" /\ ToDlq)
  PROVE  OnePlace'
<1>a. TypeOK /\ pos \in Ids /\ Current.msg \in Msgs /\ dlqNext \in Nat
  BY CurrentType DEF RecordFailure, Support, TypeOK, DlqType
<1> DEFINE x == DeadLetter(Current)
<1>1. /\ log' = log /\ pos' = pos /\ pc = "failing" /\ pc' \in {"acking", "dying"}
      /\ dlq' = dlq \cup {x} /\ dlqNext' = dlqNext + 1 /\ replay' = replay /\ done' = done
  BY DEF RecordFailure, ReportRaises, ToDlq, streamVars
<1>2. pos \in Live /\ Live' \subseteq Live \ {pos}
  <2>1. Ids' = Ids
    BY <1>1 DEF Ids
  <2> QED
    BY <1>a, <1>1, <2>1 DEF Live, Ids
<1>3. Letters' = Letters \cup {x} /\ x.id = dlqNext /\ x.msg = log[pos].msg
  BY <1>1 DEF Letters, DeadLetter, Current
<1>4. Waiting' \subseteq Waiting \cup {x} /\ Waiting \subseteq Letters
  BY <1>1, <1>3 DEF Waiting, Added
<1>5. \A m : Published(m)' <=> Published(m)
  BY <1>1 DEF Published, Ids
<1>6. Published(x.msg)
  BY <1>a, <1>3 DEF Published
<1>7. \A e \in Letters : e.id \in Nat /\ e.id < dlqNext
  BY <1>a, LetterTypes DEF OnePlace, LettersDiffer, Letter
<1>8. \A e \in Waiting : e.msg # x.msg
  BY <1>2, <1>3 DEF OnePlace, NotBoth
<1>9. \A i \in Live' : i \in Live /\ log[i].msg # x.msg
  BY <1>2, <1>3 DEF OnePlace, OneEntry
<1>10. done[x.msg] = 0
  BY <1>2, <1>3 DEF OnePlace, DoneIsOver
<1>11. LettersDiffer'
  BY <1>a, <1>1, <1>3, <1>7 DEF OnePlace, LettersDiffer
<1>12. Origin'
  BY <1>1, <1>3, <1>5, <1>6 DEF OnePlace, Origin
<1>13. OneEntry' /\ OneLetter' /\ NotBoth'
  BY <1>1, <1>2, <1>4, <1>8, <1>9 DEF OnePlace, OneEntry, OneLetter, NotBoth
<1>14. DoneIsOver'
  BY <1>1, <1>4, <1>9, <1>10 DEF OnePlace, DoneIsOver
<1> QED
  BY <1>11, <1>12, <1>13, <1>14 DEF OnePlace

\* A copy of the message is appended while its old place is given up.
LEMMA OnceCopied ==
  ASSUME Support, OnePlace, NEW y \in Entry, NEW f \in Seq(Fates), Len(f) = Len(log), Add(y, f),
         UNCHANGED <<dlqNext, done>>, Letters' \subseteq Letters, Waiting' \subseteq Waiting,
         Live' \subseteq Live \cup {Len(log) + 1}, Published(y.msg), done[y.msg] = 0,
         \A i \in Live' : i \in Live => log[i].msg # y.msg,
         \A e \in Waiting' : e.msg # y.msg
  PROVE  OnePlace'
<1>a. TypeOK /\ StreamType /\ Len(log) \in Nat /\ log \in Seq(Entry)
  BY LengthType DEF Support, TypeOK, StreamType
<1> DEFINE n == Len(log) + 1
<1>1. /\ Len(log') = n /\ \A i \in Ids : log'[i] = log[i]
      /\ log'[n] = y
  BY <1>a, AppendProperties DEF Add, Ids
<1>2. Live \subseteq Ids
  BY DEF Live
<1>3. \A m : Published(m) => Published(m)'
  BY <1>a, <1>1 DEF Published, Ids
<1>4. \A i \in Live' : (i \in Live /\ log'[i] = log[i] /\ log[i].msg # y.msg)
                       \/ (i = n /\ log'[i] = y)
  BY <1>1, <1>2
<1>5. LettersDiffer' /\ Origin'
  BY <1>3 DEF OnePlace, LettersDiffer, Origin
<1>6. OneEntry' /\ OneLetter' /\ NotBoth'
  BY <1>4 DEF OnePlace, OneEntry, OneLetter, NotBoth
<1>7. DoneIsOver'
  BY <1>4 DEF OnePlace, DoneIsOver
<1> QED
  BY <1>5, <1>6, <1>7 DEF OnePlace

LEMMA OnceRequeued ==
  ASSUME Support, OnePlace, Requeue
  PROVE  OnePlace'
<1>a. /\ TypeOK /\ StreamType /\ pos \in Ids /\ Len(log) \in Nat
      /\ fate \in Seq(Fates) /\ Len(fate) = Len(log)
  BY CurrentType, LengthType DEF Requeue, Support, TypeOK, StreamType
<1> DEFINE y == Requeued(Current)
           f == [fate EXCEPT ![pos] = "requeued"]
<1>1. /\ Add(y, f) /\ pos' = pos /\ pc = "requeueing" /\ pc' = "pausing"
      /\ UNCHANGED <<dlq, dlqNext, replay, done>>
  BY DEF Requeue, dlqVars
<1>2. y \in Entry /\ y.msg = log[pos].msg
  BY <1>1, RequeuedType DEF Requeued, Current
<1>3. f \in Seq(Fates) /\ Len(f) = Len(log)
  BY <1>a, FateExcept DEF Fates
<1>4. Letters' = Letters /\ Waiting' = Waiting
  BY <1>1 DEF Letters, Waiting, Added
<1>5. Len(log') = Len(log) + 1
  BY <1>a, <1>1, <1>2, <1>3, AddType
<1>6. pos \in Live /\ Live' \subseteq (Live \ {pos}) \cup {Len(log) + 1}
  BY <1>a, <1>1, <1>5 DEF Live, Ids
<1>7. Published(y.msg)
  BY <1>a, <1>2 DEF Published
<1>8. done[y.msg] = 0 /\ \A e \in Waiting' : e.msg # y.msg
  BY <1>2, <1>4, <1>6 DEF OnePlace, DoneIsOver, NotBoth
<1>9. \A i \in Live' : i \in Live => log[i].msg # y.msg
  <2>1. Len(log) + 1 \notin Live
    BY <1>a DEF Live, Ids
  <2> QED
    BY <1>2, <1>6, <2>1 DEF OnePlace, OneEntry
<1> HIDE DEF y, f
<1> QED
  BY <1>1, <1>2, <1>3, <1>4, <1>6, <1>7, <1>8, <1>9, OnceCopied

LEMMA OnceReplayed ==
  ASSUME Support, Support', OnePlace, Cardinality(Replayers) <= 1, NEW r \in Replayers, ReplayAdd(r)
  PROVE  OnePlace'
<1>a. /\ TypeOK /\ TypeOK' /\ StreamType /\ Len(log) \in Nat
      /\ fate \in Seq(Fates) /\ Len(fate) = Len(log)
  BY LengthType DEF Support, TypeOK, StreamType
<1>1. /\ Letters' \subseteq Letters /\ Waiting' \subseteq Waiting
      /\ \E e \in Waiting : /\ e \notin Waiting'
                            /\ Add([msg |-> e.msg, retries |-> e.retries], fate)
  BY <1>a, ReplayLetters DEF OnePlace
<1>2. PICK e \in Waiting : /\ e \notin Waiting'
                           /\ Add([msg |-> e.msg, retries |-> e.retries], fate)
  BY <1>1
<1> DEFINE y == [msg |-> e.msg, retries |-> e.retries]
<1>3. e \in Letters /\ y \in Entry /\ y.msg = e.msg
  BY <1>a, LetterTypes DEF Waiting, Letter, Entry
<1>4. pos' = pos /\ pc' = pc /\ UNCHANGED <<dlqNext, done>>
  BY DEF ReplayAdd, agentVars
<1>5. Len(log') = Len(log) + 1
  BY <1>a, <1>2, <1>3, AddType
<1>6. Live' \subseteq Live \cup {Len(log) + 1}
  BY <1>a, <1>4, <1>5 DEF Live, Ids
<1>7. Published(y.msg) /\ done[y.msg] = 0
  BY <1>3 DEF OnePlace, Origin, DoneIsOver
<1>8. \A i \in Live' : i \in Live => log[i].msg # y.msg
  BY <1>3 DEF OnePlace, NotBoth
<1>9. \A g \in Waiting' : g.msg # y.msg
  BY <1>1, <1>2, <1>3 DEF OnePlace, OneLetter
<1>10. Add(y, fate)
  BY <1>2
<1> HIDE DEF y
<1> QED
  BY <1>a, <1>1, <1>3, <1>4, <1>6, <1>7, <1>8, <1>9, <1>10, OnceCopied

\* The iterator only goes on, and takes nothing into its hands that was not in front of it.
LEMMA LiveShrinks ==
  ASSUME Support, Support', [Next]_vars, log' = log, done' = done
  PROVE  Live' \subseteq Live
<1>a. /\ TypeOK /\ Len(log) \in Nat /\ cursor \in 0 .. Len(log) /\ pos \in 0 .. cursor
      /\ pos' \in Nat /\ Ids' = Ids /\ Ids = 1 .. Len(log)
  BY LengthType DEF Support, TypeOK, GroupType, Ids
<1>1. CASE Boot
  <2>1. pos' = FirstCursor /\ pc' = "idle" /\ pos' >= pos
    BY <1>a, <1>1 DEF Boot, FirstCursor
  <2> QED
    BY <1>a, <2>1 DEF Live
<1>2. CASE Poll
  <2>1. pos' \in {ReadFrom, ReadTo} /\ pos = cursor /\ pc' = "idle" /\ ReadFrom < Len(log)
    BY <1>2 DEF Poll
  <2>2. pos' >= pos
    BY <1>a, <2>1, ReadRange
  <2> QED
    BY <1>a, <2>1, <2>2 DEF Live
<1>3. CASE SkipHalted \/ Take
  <2>1. pos' = pos + 1
    BY <1>3 DEF SkipHalted, Take
  <2> QED
    BY <1>a, <2>1 DEF Live
<1>4. CASE UNCHANGED pos /\ ~ Boot /\ ~ Take
  <2>1. pc' \in {"handling", "failing", "requeueing"} => pc \in {"handling", "failing", "requeueing"}
    BY <1>4, LoopChanges
    DEF HandleOk, HandleOkStatsFail, HandleFail, HandleExhausted, Requeue, PauseEnds,
        RecordFailure, ReportRaises, AckStep, AckRaises, Cancel, Kill
  <2> QED
    BY <1>a, <1>4, <2>1 DEF Live
<1>5. UNCHANGED pos \/ Boot \/ Poll \/ SkipHalted \/ Take
  BY GroupChanges DEF AckStep
<1> QED
  BY <1>1, <1>2, <1>3, <1>4, <1>5

LEMMA OnceElsewhere ==
  ASSUME Support, Support', OnePlace, [Next]_vars, Undoubled',
         \A m \in Msgs : ~ Publish(m),
         ~ HandleOk, ~ RecordFailure, ~ (ReportRaises /\ pc = "failing" /\ ToDlq), ~ Requeue,
         \A r \in Replayers : ~ ReplayAdd(r)
  PROVE  OnePlace'
<1>a. /\ Undoubled /\ ~ HandleOkStatsFail /\ \A r \in Replayers : ~ ReplayKilled(r)
      /\ TypeOK /\ TypeOK' /\ Cardinality(Replayers) <= 1
  BY UndoubledBefore DEF Support, Undoubled
<1>1. log' = log
  BY <1>a, StreamChanges
  DEF Trim, Boot, HandleFail, ReportRaises, streamVars
<1>2. done' = done
  BY <1>a DEF Next, vars, ConsumerStep, ReplayStep, histVars, Trim, Boot, Poll, SkipHalted, Take,
     HandleFail, HandleExhausted, PauseEnds, ReportRaises, AckStep, AckRaises, Cancel, Kill, Halt,
     Resume, ClearDlq, TrimDlq, StartReplay, ReadLetters, ReplayDelete
<1>3. Live' \subseteq Live
  BY <1>1, <1>2, LiveShrinks
<1>4. /\ Letters' \subseteq Letters /\ Waiting' \subseteq Waiting /\ dlqNext' = dlqNext
  <2>1. CASE ClearDlq \/ TrimDlq
    <3>1. dlq' \subseteq dlq /\ replay' = replay /\ dlqNext' = dlqNext
      BY <2>1 DEF ClearDlq, TrimDlq
    <3>2. Letters' \subseteq Letters
      BY <3>1 DEF Letters
    <3> QED
      BY <3>1, <3>2 DEF Waiting, Added
  <2>2. ASSUME NEW r \in Replayers, StartReplay(r) \/ ReadLetters(r) \/ ReplayDelete(r)
        PROVE  Letters' \subseteq Letters /\ Waiting' \subseteq Waiting /\ dlqNext' = dlqNext
    <3>1. dlqNext' = dlqNext
      BY <2>2 DEF StartReplay, ReadLetters, ReplayDelete
    <3>2. Letters' \subseteq Letters /\ Waiting' \subseteq Waiting
      BY <1>a, <2>2, ReplayLetters DEF OnePlace
    <3> QED
      BY <3>1, <3>2
  <2>3. CASE UNCHANGED <<dlq, dlqNext, replay>>
    BY <2>3 DEF Letters, Waiting, Added
  <2>4. ReportRaises => UNCHANGED <<dlq, dlqNext, replay>>
    BY DEF ReportRaises, dlqVars
  <2> QED
    BY <1>a, <2>1, <2>2, <2>3, <2>4, DlqChanges DEF ReplayStep
<1> QED
  BY <1>1, <1>2, <1>3, <1>4, NothingMoves

LEMMA OnceStep == OnceInv /\ [Next]_vars => OnceInv'
<1> SUFFICES ASSUME OnceInv, [Next]_vars PROVE OnceInv'
  OBVIOUS
<1>1. Support /\ Support'
  BY SupportStep DEF OnceInv
<1>2. ASSUME Undoubled' PROVE OnePlace'
  <2>1. OnePlace /\ Cardinality(Replayers) <= 1
    BY <1>2, UndoubledBefore DEF OnceInv, Undoubled
  <2> QED
    BY <1>1, <1>2, <2>1, OncePublish, OnceHandled, OnceRecorded, OnceRequeued, OnceReplayed,
       OnceElsewhere
<1> QED
  BY <1>1, <1>2 DEF OnceInv

\* With one replay task that is not cut short and counters that do not fail, no
\* message is handled to the end twice, whatever else interrupts the consumer
\* (base.py:172-248, dashboard/routes/dlq.py).
THEOREM HandledOnceAlways == Spec => []HandledOnce
<1>1. OnceInv => HandledOnce
  BY DEF OnceInv, OnePlace, DoneIsOver, HandledOnce, Undoubled
<1> QED
  BY <1>1, OnceInit, OnceStep, PTL DEF Spec

-----------------------------------------------------------------------------
(***************************************************************************)
(* The refinement of MessageLife.  The mapping looks at the newest entry   *)
(* of a message, so that the invariant says where the newest entry is, and *)
(* that a waiting letter's message has it dead.                            *)
(***************************************************************************)
\* Nothing cuts a handler short, doubles a message or removes one from the stream.
Gentle == FaultKinds \subseteq {"kill", "ack", "halt", "clear", "reply"} /\ Cardinality(Replayers) <= 1

\* What is in front of the iterator is undecided, and pending as far as it was read.
AheadOpen    == \A i \in Ids : i > pos => fate[i] = "none"
AheadPending == pos + 1 .. cursor \subseteq pel
HandOpen     == pc \in {"handling", "failing", "requeueing"} => fate[pos] = "none"
Untrimmed    == floor = 0 /\ \A i \in Ids : fate[i] # "trimmed"

\* The newest entry of a message.
IsLast(i) == i \in Ids /\ \A j \in Ids : log[j].msg = log[i].msg => j <= i

RequeuedOn == \A i \in Ids : fate[i] = "requeued" => ~ IsLast(i)
LettersDead ==
  \A e \in Waiting : \E i \in Ids : log[i].msg = e.msg /\ IsLast(i) /\ fate[i] = "dead"

Course ==
  AheadOpen /\ AheadPending /\ HandOpen /\ Untrimmed /\ RequeuedOn /\ LettersDead

\* Where an entry is, by the places of cursor and iterator alone.
Where(i) ==
  IF fate[i] = "ok" THEN "handled"
  ELSE IF fate[i] \in {"dead", "missed"} THEN fate[i]
  ELSE IF i > cursor \/ (i > pos /\ pc # "down") THEN "waiting"
  ELSE IF i = pos /\ pc \notin {"down", "idle"} THEN "working"
  ELSE "stranded"

LifeInv == IInv /\ OnceInv /\ Course

LEMMA GentleSteps ==
  ASSUME Gentle, [Next]_vars
  PROVE  \/ \E m \in Msgs : Publish(m)
         \/ Requeue \/ \E r \in Replayers : ReplayAdd(r)
         \/ Boot \/ Poll \/ SkipHalted \/ Take \/ HandleOk \/ RecordFailure
         \/ HandleFail \/ HandleExhausted \/ PauseEnds \/ AckStep \/ AckRaises \/ Kill
         \/ UNCHANGED <<log, fate, floor, group, cursor, pos, pel, pc>>
<1>1. \A kind \in {"stats", "report", "cancel", "trim", "restart"} : ~ Disturb(kind)
  BY DEF Gentle, Disturb
<1>2. /\ ~ HandleOkStatsFail /\ ~ ReportRaises /\ ~ Cancel /\ ~ Trim /\ ~ TrimDlq
      /\ \A r \in Replayers : ~ ReplayKilled(r)
  BY <1>1 DEF HandleOkStatsFail, ReportRaises, Cancel, Trim, TrimDlq, ReplayKilled
<1> QED
  BY <1>2 DEF Next, vars, ConsumerStep, ReplayStep, StartReplay, ReadLetters, ReplayDelete, ClearDlq,
     Halt, Resume, streamVars, groupVars, agentVars, histVars

\* What the invariants say while nothing worse happens.
LEMMA GentleFacts ==
  ASSUME Gentle, LifeInv
  PROVE  /\ Support /\ TypeOK /\ OnePlace /\ Course
         /\ pc # "dying" /\ \A i \in Ids : ~ Lost(i)
<1>1. Support /\ TypeOK /\ NothingLost /\ Course
  BY DEF LifeInv, IInv, Support
<1>2. happened \subseteq {"kill", "ack", "halt", "clear", "reply"}
  BY <1>1 DEF TypeOK, CountType, Gentle
<1>3. Undisturbed({"cancel", "report"}) /\ Undisturbed({"stats", "restart"})
  BY <1>2 DEF Undisturbed
<1>4. OnePlace
  BY <1>3 DEF LifeInv, OnceInv, Undoubled, Gentle
<1>5. pc # "dying"
  BY <1>1, <1>3 DEF Support, DyingDisturbed
<1> QED
  BY <1>1, <1>3, <1>4, <1>5 DEF NothingLost

LEMMA GentleRanges ==
  ASSUME Gentle, LifeInv
  PROVE  /\ Len(log) \in Nat /\ Ids = 1 .. Len(log) /\ cursor \in 0 .. Len(log) /\ pos \in 0 .. cursor
         /\ pel \subseteq 1 .. cursor /\ fate \in [Ids -> Fates] /\ fate \in Seq(Fates)
         /\ Len(fate) = Len(log) /\ ReadFrom = cursor
         /\ (~ group => cursor = 0 /\ pc = "down")
         /\ \A i \in Ids : log[i].msg \in Msgs
<1>1. TypeOK /\ floor = 0 /\ Fresh
  BY GentleFacts DEF Course, Untrimmed, Support
<1> QED
  BY <1>1, LengthType, LetterTypes DEF TypeOK, StreamType, GroupType, ReadFrom, Fresh

\* The entry at work is the newest of its message, and so is each one in front.
LEMMA LiveIsLast ==
  ASSUME Gentle, LifeInv, NEW i \in Live
  PROVE  IsLast(i)
<1>1. OnePlace
  BY GentleFacts
<1>2. ASSUME NEW j \in Ids, log[j].msg = log[i].msg, j > i
      PROVE  FALSE
  <2>1. i \in Ids /\ i >= pos
    BY GentleRanges DEF Live
  <2>2. j \in Live
    BY <1>2, <2>1, GentleRanges DEF Live
  <2> QED
    BY <1>1, <1>2, <2>2, GentleRanges DEF OnePlace, OneEntry, Live
<1> QED
  BY <1>2, GentleRanges DEF IsLast, Live

\* Letters stop waiting, and only a failure makes one wait.
LEMMA WaitingShrinks ==
  ASSUME Gentle, LifeInv, TypeOK', [Next]_vars, ~ RecordFailure
  PROVE  Waiting' \subseteq Waiting
<1>1. TypeOK /\ LettersDiffer
  BY GentleFacts DEF OnePlace
<1>2. ~ ReportRaises /\ ~ TrimDlq /\ \A r \in Replayers : ~ ReplayKilled(r)
  BY DEF Gentle, ReportRaises, TrimDlq, ReplayKilled, Disturb
<1>3. CASE ClearDlq
  <2>1. dlq' \subseteq dlq /\ replay' = replay
    BY <1>3 DEF ClearDlq
  <2> QED
    BY <2>1 DEF Waiting, Letters, Added
<1>4. ASSUME NEW r \in Replayers, StartReplay(r) \/ ReplayStep(r)
      PROVE  Waiting' \subseteq Waiting
  BY <1>1, <1>4, ReplayLetters DEF ReplayStep, Gentle
<1>5. CASE UNCHANGED <<dlq, dlqNext, replay>>
  BY <1>5 DEF Waiting, Letters, Added
<1> QED
  BY <1>2, <1>3, <1>4, <1>5, DlqChanges

\* The stream grows by one entry.
LEMMA Appended ==
  ASSUME Gentle, LifeInv, NEW y \in Entry, NEW f \in Seq(Fates), Len(f) = Len(log), Add(y, f)
  PROVE  /\ Len(log)' = Len(log) + 1 /\ Ids' = Ids \cup {Len(log) + 1} /\ Len(log) + 1 \notin Ids
         /\ log'[Len(log) + 1] = y /\ fate'[Len(log) + 1] = "none"
         /\ \A i \in Ids : log'[i] = log[i] /\ fate'[i] = f[i]
         /\ \A i \in Ids : IsLast(i)' <=> (IsLast(i) /\ log[i].msg # y.msg)
         /\ IsLast(Len(log))'
<1>1. StreamType /\ Len(log) \in Nat /\ Ids = 1 .. Len(log) /\ log \in Seq(Entry)
  BY GentleRanges, GentleFacts DEF TypeOK, StreamType
<1>2. log' = Append(log, y) /\ fate' = Append(f, "none") /\ "none" \in Fates
  BY DEF Add, Fates
<1>3. /\ Len(log)' = Len(log) + 1 /\ log'[Len(log) + 1] = y /\ fate'[Len(log) + 1] = "none"
      /\ \A i \in Ids : log'[i] = log[i] /\ fate'[i] = f[i]
  BY <1>1, <1>2, AppendProperties
<1>4. Ids' = Ids \cup {Len(log) + 1} /\ Len(log) + 1 \notin Ids
  BY <1>1, <1>3 DEF Ids
<1>5. \A i \in Ids : IsLast(i)' <=> (IsLast(i) /\ log[i].msg # y.msg)
  BY <1>1, <1>3, <1>4 DEF IsLast
<1>6. IsLast(Len(log))'
  BY <1>1, <1>3, <1>4 DEF IsLast
<1> QED
  BY <1>3, <1>4, <1>5, <1>6

\* What a step that adds an entry keeps.
LEMMA CourseAppended ==
  ASSUME Gentle, LifeInv, TypeOK', [Next]_vars, ~ RecordFailure,
         NEW y \in Entry, NEW f \in Seq(Fates), Len(f) = Len(log), Add(y, f),
         UNCHANGED <<floor, cursor, pos, pel>>,
         \A i \in Ids : \/ f[i] = fate[i]
                        \/ f[i] = "requeued" /\ i = pos /\ fate[i] = "none" /\ log[i].msg = y.msg,
         pc' = pc \/ pc' \notin {"handling", "failing", "requeueing"},
         pc' = pc => f = fate,
         \A e \in Waiting' : e.msg # y.msg
  PROVE  Course'
<1>1. Course /\ Len(log) \in Nat /\ Ids = 1 .. Len(log) /\ cursor \in 0 .. Len(log) /\ pos \in 0 .. cursor
  BY GentleFacts, GentleRanges
<1>2. /\ Ids' = Ids \cup {Len(log) + 1} /\ Len(log) + 1 \notin Ids
      /\ fate'[Len(log) + 1] = "none"
      /\ \A i \in Ids : log'[i] = log[i] /\ fate'[i] = f[i]
      /\ \A i \in Ids : IsLast(i)' <=> (IsLast(i) /\ log[i].msg # y.msg)
  BY Appended
<1>3. AheadOpen' /\ AheadPending' /\ Untrimmed'
  BY <1>1, <1>2 DEF Course, AheadOpen, AheadPending, Untrimmed
<1>4. HandOpen'
  <2> SUFFICES ASSUME pc' \in {"handling", "failing", "requeueing"} PROVE fate'[pos] = "none"
    BY DEF HandOpen
  <2>1. pc' = pc /\ f = fate /\ fate[pos] = "none"
    BY <1>1 DEF Course, HandOpen
  <2>2. pos \in Ids
    BY <2>1, CurrentType, GentleFacts DEF Support
  <2> QED
    BY <1>2, <2>1, <2>2
<1>5. RequeuedOn'
  BY <1>1, <1>2 DEF Course, RequeuedOn
<1>6. LettersDead'
  <2> SUFFICES ASSUME NEW e \in Waiting'
               PROVE  \E i \in Ids' : log'[i].msg = e.msg /\ IsLast(i)' /\ fate'[i] = "dead"
    BY DEF LettersDead
  <2>1. e \in Waiting /\ e.msg # y.msg
    BY WaitingShrinks
  <2>2. PICK i \in Ids : log[i].msg = e.msg /\ IsLast(i) /\ fate[i] = "dead"
    BY <1>1, <2>1 DEF Course, LettersDead
  <2>3. fate'[i] = "dead"
    BY <1>2, <2>2
  <2> QED
    BY <1>2, <2>1, <2>2, <2>3
<1> QED
  BY <1>3, <1>4, <1>5, <1>6 DEF Course

LEMMA CoursePublish ==
  ASSUME Gentle, LifeInv, TypeOK', [Next]_vars, NEW m \in Msgs, Publish(m)
  PROVE  Course'
<1> DEFINE y == [msg |-> m, retries |-> 0]
<1>1. y \in Entry /\ y.msg = m
  BY ConsumerAssumption DEF Entry, Retries
<1>2. /\ Add(y, fate) /\ UNCHANGED <<floor, cursor, pos, pel, pc, dlq, dlqNext, replay>> /\ ~ Published(m)
      /\ ~ RecordFailure
  BY DEF Publish, groupVars, agentVars, dlqVars, RecordFailure, ToDlq
<1>3. \A e \in Waiting' : e.msg # m
  <2>1. Waiting' = Waiting
    BY <1>2 DEF Waiting, Letters, Added
  <2> QED
    BY <1>2, <2>1, GentleFacts DEF OnePlace, Origin, Waiting
<1>4. fate \in Seq(Fates) /\ Len(fate) = Len(log)
  BY GentleRanges
<1> HIDE DEF y
<1> QED
  BY <1>1, <1>2, <1>3, <1>4, CourseAppended

LEMMA CourseRequeue ==
  ASSUME Gentle, LifeInv, TypeOK', [Next]_vars, Requeue
  PROVE  Course'
<1> DEFINE y == Requeued(Current)
           f == [fate EXCEPT ![pos] = "requeued"]
<1>1. /\ Support /\ TypeOK /\ OnePlace /\ StreamType /\ InHand /\ pos \in Ids
      /\ fate[pos] = "none" /\ pc = "requeueing"
  BY GentleFacts, CurrentType DEF Requeue, Support, TypeOK, Course, HandOpen
<1>2. y \in Entry /\ y.msg = log[pos].msg
  BY <1>1, RequeuedType DEF Requeue, Requeued, Current
<1>3. /\ f \in Seq(Fates) /\ Len(f) = Len(log) /\ f[pos] = "requeued"
      /\ \A i \in Ids : i # pos => f[i] = fate[i]
  BY <1>1, FateExcept DEF Fates
<1>4. /\ Add(y, f) /\ UNCHANGED <<floor, cursor, pos, pel, dlq, dlqNext, replay>>
      /\ pc' = "pausing" /\ ~ RecordFailure
  BY DEF Requeue, groupVars, dlqVars, RecordFailure
<1>5. \A e \in Waiting' : e.msg # y.msg
  <2>1. Waiting' = Waiting /\ pos \in Live
    BY <1>1, <1>4 DEF Waiting, Letters, Added, Live
  <2> QED
    BY <1>1, <1>2, <2>1 DEF OnePlace, NotBoth
<1> HIDE DEF y, f
<1> QED
  BY <1>1, <1>2, <1>3, <1>4, <1>5, CourseAppended

\* The replay takes a waiting letter and puts its message on the stream.
LEMMA ReplayTakes ==
  ASSUME Gentle, LifeInv, TypeOK', NEW r \in Replayers, ReplayAdd(r)
  PROVE  \E e \in Waiting :
           /\ e \notin Waiting' /\ [msg |-> e.msg, retries |-> e.retries] \in Entry
           /\ Add([msg |-> e.msg, retries |-> e.retries], fate)
           /\ \A g \in Waiting' : g.msg # e.msg
<1>1. TypeOK /\ OnePlace /\ Cardinality(Replayers) <= 1
  BY GentleFacts DEF Gentle
<1>2. /\ Waiting' \subseteq Waiting
      /\ \E e \in Waiting : /\ e \notin Waiting'
                            /\ Add([msg |-> e.msg, retries |-> e.retries], fate)
  BY <1>1, ReplayLetters DEF OnePlace
<1>3. PICK e \in Waiting : /\ e \notin Waiting'
                           /\ Add([msg |-> e.msg, retries |-> e.retries], fate)
  BY <1>2
<1>4. [msg |-> e.msg, retries |-> e.retries] \in Entry
  BY <1>1, LetterTypes DEF Waiting, Letter, Entry
<1>5. \A g \in Waiting' : g.msg # e.msg
  BY <1>1, <1>2, <1>3 DEF OnePlace, OneLetter
<1> QED
  BY <1>3, <1>4, <1>5

LEMMA CourseReplay ==
  ASSUME Gentle, LifeInv, TypeOK', [Next]_vars, NEW r \in Replayers, ReplayAdd(r)
  PROVE  Course'
<1>1. PICK e \in Waiting :
           /\ [msg |-> e.msg, retries |-> e.retries] \in Entry
           /\ Add([msg |-> e.msg, retries |-> e.retries], fate)
           /\ \A g \in Waiting' : g.msg # e.msg
  BY ReplayTakes
<1> DEFINE y == [msg |-> e.msg, retries |-> e.retries]
<1>2. y \in Entry /\ y.msg = e.msg /\ Add(y, fate)
  BY <1>1
<1>3. UNCHANGED <<floor, cursor, pos, pel, pc>> /\ ~ RecordFailure
  BY DEF ReplayAdd, groupVars, agentVars, RecordFailure
<1>4. fate \in Seq(Fates) /\ Len(fate) = Len(log)
  BY GentleRanges
<1> HIDE DEF y
<1> QED
  BY <1>1, <1>2, <1>3, <1>4, CourseAppended

LEMMA LastStays ==
  ASSUME log' = log
  PROVE  Ids' = Ids /\ (\A i : IsLast(i)' <=> IsLast(i)) /\ \A m : Published(m)' <=> Published(m)
BY DEF Ids, IsLast, Published

\* What a step keeps that decides nothing.
LEMMA CourseKept ==
  ASSUME Gentle, LifeInv, TypeOK', [Next]_vars, ~ RecordFailure,
         UNCHANGED <<log, floor, fate>>, pos' >= pos, AheadPending', HandOpen'
  PROVE  Course'
<1>1. Course /\ Ids' = Ids /\ (\A i : IsLast(i)' <=> IsLast(i)) /\ pos \in Nat /\ pos' \in Nat
  BY GentleFacts, GentleRanges, LastStays, LengthType DEF TypeOK, GroupType, StreamType
<1>2. AheadOpen'
  BY <1>1, GentleRanges DEF Course, AheadOpen
<1>3. LettersDead'
  <2> SUFFICES ASSUME NEW e \in Waiting'
               PROVE  \E i \in Ids : log[i].msg = e.msg /\ IsLast(i) /\ fate[i] = "dead"
    BY <1>1 DEF LettersDead
  <2> QED
    BY <1>1, WaitingShrinks DEF Course, LettersDead
<1> QED
  BY <1>1, <1>2, <1>3 DEF Course, Untrimmed, RequeuedOn

LEMMA CourseDecided ==
  ASSUME Gentle, LifeInv, TypeOK', [Next]_vars, HandleOk \/ RecordFailure
  PROVE  Course'
<1>1. /\ Course /\ OnePlace /\ pos \in Ids /\ fate[pos] = "none" /\ pos \in Live
      /\ StreamType
  BY GentleFacts, CurrentType DEF HandleOk, RecordFailure, Support, Course, HandOpen, Live,
     TypeOK
<1>2. PICK x \in {"ok", "dead"} :
        /\ fate' = [fate EXCEPT ![pos] = x] /\ UNCHANGED <<log, floor, cursor, pos, pel>>
        /\ pc' = "acking"
        /\ HandleOk \/ x = "dead"
  BY DEF HandleOk, RecordFailure, ToDlq, streamVars, groupVars
<1>3. /\ fate'[pos] = x /\ \A i \in Ids : i # pos => fate'[i] = fate[i]
  BY <1>1, <1>2, FateExcept DEF Fates
<1>4. Ids' = Ids /\ \A i : IsLast(i)' <=> IsLast(i)
  BY <1>2, LastStays
<1>5. AheadOpen' /\ AheadPending' /\ HandOpen' /\ Untrimmed' /\ RequeuedOn'
  BY <1>1, <1>2, <1>3, <1>4, GentleRanges
  DEF Course, AheadOpen, AheadPending, HandOpen, Untrimmed, RequeuedOn
<1>6. ASSUME NEW e \in Waiting
      PROVE  \E i \in Ids : log[i].msg = e.msg /\ IsLast(i) /\ fate'[i] = "dead"
  BY <1>1, <1>3 DEF Course, LettersDead
<1>7. LettersDead'
  <2> SUFFICES ASSUME NEW e \in Waiting'
               PROVE  \E i \in Ids : log[i].msg = e.msg /\ IsLast(i) /\ fate'[i] = "dead"
    BY <1>2, <1>4 DEF LettersDead
  <2>1. CASE e \in Waiting
    BY <1>6, <2>1
  <2>2. CASE e \notin Waiting
    <3>1. RecordFailure
      BY <2>2, WaitingShrinks
    <3>2. dlq' = dlq \cup {DeadLetter(Current)} /\ replay' = replay /\ x = "dead"
      BY <1>2, <3>1 DEF RecordFailure, ToDlq, HandleOk
    <3>3. Waiting' \subseteq Waiting \cup {DeadLetter(Current)}
      BY <3>2 DEF Waiting, Letters, Added
    <3>4. e.msg = log[pos].msg
      BY <2>2, <3>3 DEF DeadLetter, Current
    <3> QED
      BY <1>1, <1>3, <3>2, <3>4, LiveIsLast
  <2> QED
    BY <2>1, <2>2
<1> QED
  BY <1>5, <1>7 DEF Course

LEMMA CourseBoot ==
  ASSUME Gentle, LifeInv, TypeOK', [Next]_vars, Boot
  PROVE  Course'
<1>1. Course /\ UNCHANGED <<log, floor, pel>> /\ pc' = "idle" /\ cursor' = pos' /\ ~ RecordFailure
  BY GentleFacts DEF Boot, RecordFailure
<1>2. AheadPending' /\ HandOpen'
  <2>1. PICK n \in Nat : pos' = n /\ cursor' = n
    <3>1. FirstCursor \in Nat
      BY GentleRanges DEF FirstCursor
    <3>2. pos' = FirstCursor /\ cursor' = FirstCursor
      BY DEF Boot
    <3> QED
      BY <3>1, <3>2
  <2>2. n + 1 .. n = {}
    OBVIOUS
  <2> QED
    BY <1>1, <2>1, <2>2 DEF AheadPending, HandOpen
<1>3. CASE group
  <2>1. pos' = cursor
    BY <1>3 DEF Boot, FirstCursor
  <2>2. fate' = fate
    <3>1. fate' = [i \in Ids |-> fate[i]] /\ fate \in [Ids -> Fates]
      BY <1>3, GentleRanges DEF Boot
    <3> QED
      BY <3>1
  <2> QED
    BY <1>1, <1>2, <2>1, <2>2, CourseKept, GentleRanges
<1>4. CASE ~ group
  <2>1. Ids' = Ids /\ (\A i : IsLast(i)' <=> IsLast(i)) /\ pos = 0 /\ pos' = Len(log)
    BY <1>1, <1>4, LastStays, GentleRanges DEF Boot, FirstCursor
  <2>2. \A i \in Ids : fate[i] = "none"
    BY <1>1, <2>1, GentleRanges DEF Course, AheadOpen
  <2>3. \A i \in Ids : fate'[i] = "missed"
    BY <1>4 DEF Boot
  <2>4. Waiting' = {}
    BY <1>1, <2>2, WaitingShrinks DEF Course, LettersDead
  <2>5. AheadOpen' /\ Untrimmed' /\ RequeuedOn' /\ LettersDead'
    BY <1>1, <2>1, <2>3, <2>4, GentleRanges DEF Course, AheadOpen, Untrimmed, RequeuedOn, LettersDead
  <2> QED
    BY <1>2, <2>5 DEF Course
<1> QED
  BY <1>3, <1>4

LEMMA CourseRead ==
  ASSUME Gentle, LifeInv, TypeOK', [Next]_vars, Poll \/ SkipHalted \/ Take
  PROVE  Course'
<1>1. /\ Course /\ UNCHANGED <<log, floor, fate>> /\ pc = "idle" /\ ~ RecordFailure
      /\ pos \in Nat /\ cursor \in Nat /\ pos <= cursor /\ cursor <= Len(log) /\ Len(log) \in Nat
  BY GentleFacts, GentleRanges DEF Poll, SkipHalted, Take, RecordFailure, streamVars, histVars
<1>2. CASE Poll
  <2>1. /\ ReadFrom = cursor /\ ReadFrom < Len(log) /\ cursor' = ReadTo /\ pos = cursor
        /\ pos' \in {cursor, cursor'} /\ pel' = pel \cup (cursor + 1 .. cursor') /\ pc' = "idle"
    BY <1>2, GentleRanges DEF Poll
  <2>2. cursor' \in cursor + 1 .. Len(log)
    BY <2>1, ReadRange, GentleFacts
  <2>3. pos' + 1 .. cursor' \subseteq cursor + 1 .. cursor'
    <3>1. CASE pos' = cursor
      BY <3>1
    <3>2. CASE pos' = cursor'
      <4>1. cursor' \in Nat
        BY <1>1, <2>2
      <4>2. cursor' + 1 .. cursor' = {}
        <5>1. ASSUME NEW n \in Nat
              PROVE  n + 1 .. n = {}
          OBVIOUS
        <5> QED
          BY <4>1, <5>1
      <4> QED
        BY <3>2, <4>2
    <3> QED
      BY <2>1, <3>1, <3>2
  <2>4. AheadPending' /\ HandOpen'
    BY <2>1, <2>3 DEF AheadPending, HandOpen
  <2> QED
    BY <1>1, <2>1, <2>2, <2>4, CourseKept
<1>3. CASE SkipHalted \/ Take
  <2>1. pos < cursor /\ pos' = pos + 1 /\ UNCHANGED <<cursor, pel>>
    BY <1>3 DEF SkipHalted, Take, groupVars
  <2>2. AheadPending'
    BY <1>1, <2>1 DEF Course, AheadPending
  <2>3. HandOpen'
    <3>1. fate[pos + 1] = "none"
      BY <1>1, <2>1, GentleRanges DEF Course, AheadOpen
    <3> QED
      BY <1>1, <2>1, <3>1 DEF HandOpen
  <2> QED
    BY <1>1, <2>1, <2>2, <2>3, CourseKept
<1> QED
  BY <1>2, <1>3

LEMMA CourseElsewhere ==
  ASSUME Gentle, LifeInv, TypeOK', [Next]_vars,
         \/ HandleFail \/ HandleExhausted \/ PauseEnds \/ AckStep \/ AckRaises \/ Kill
         \/ UNCHANGED <<log, fate, floor, group, cursor, pos, pel, pc>>
  PROVE  Course'
<1>1. Course /\ pos \in Nat /\ cursor \in Nat
  BY GentleFacts, GentleRanges
<1>2. UNCHANGED <<log, fate, floor, cursor, pos>> /\ ~ RecordFailure
  BY DEF HandleFail, HandleExhausted, PauseEnds, AckStep, AckRaises, Kill, RecordFailure, streamVars,
     groupVars, histVars
<1>3. AheadPending'
  <2>1. pel \ {pos} \subseteq pel'
    BY DEF HandleFail, HandleExhausted, PauseEnds, AckStep, AckRaises, Kill, groupVars
  <2> QED
    BY <1>1, <1>2, <2>1 DEF Course, AheadPending
<1>4. HandOpen'
  <2>1. pc' \in {"handling", "failing", "requeueing"} => pc \in {"handling", "failing", "requeueing"}
    BY DEF HandleFail, HandleExhausted, PauseEnds, AckStep, AckRaises, Kill
  <2> QED
    BY <1>1, <1>2, <2>1 DEF Course, HandOpen
<1> QED
  BY <1>1, <1>2, <1>3, <1>4, CourseKept

LEMMA LifeInvStep ==
  ASSUME Gentle, LifeInv, [Next]_vars
  PROVE  LifeInv'
<1>1. IInv' /\ OnceInv' /\ TypeOK'
  BY Inductive, OnceStep DEF LifeInv, IInv, Support
<1>2. Course'
  BY <1>1, GentleSteps, CoursePublish, CourseRequeue, CourseReplay, CourseBoot, CourseRead,
     CourseDecided, CourseElsewhere
<1> QED
  BY <1>1, <1>2 DEF LifeInv

-----------------------------------------------------------------------------
(***************************************************************************)
(* Where a message is.                                                     *)
(***************************************************************************)
LEMMA LastExists ==
  ASSUME Gentle, LifeInv, NEW m, Published(m)
  PROVE  \E i \in Ids : log[i].msg = m /\ IsLast(i)
<1> DEFINE n == Len(log)
           S == {k \in Nat : k <= n /\ n - k \in Ids /\ log[n - k].msg = m}
<1>1. n \in Nat /\ Ids = 1 .. n
  BY GentleRanges
<1>2. PICK i \in Ids : log[i].msg = m
  BY DEF Published
<1>3. n - i \in S
  <2>1. n - i \in Nat /\ n - i <= n /\ n - (n - i) = i
    BY <1>1, <1>2
  <2> QED
    BY <1>2, <2>1
<1>4. PICK k \in S : \A j \in S : <<j, k>> \notin OpToRel(<, Nat)
  <2>1. S \subseteq Nat /\ S # {}
    BY <1>3
  <2> HIDE DEF S
  <2> QED
    BY <2>1, WFMin, NatLessThanWellFounded, Zenon
<1>5. \A j \in S : ~ (j < k)
  BY <1>4 DEF OpToRel
<1>6. ASSUME NEW j \in Ids, log[j].msg = m
      PROVE  j <= n - k
  <2>1. n - j \in Nat /\ n - j <= n /\ n - (n - j) = j
    BY <1>1
  <2>2. n - j \in S
    BY <1>6, <2>1
  <2>3. ~ (n - j < k) /\ k \in Nat
    BY <1>5, <2>2
  <2> QED
    BY <1>1, <2>3
<1>7. n - k \in Ids /\ log[n - k].msg = m
  OBVIOUS
<1> QED
  BY <1>6, <1>7 DEF IsLast

LEMMA NewestIs ==
  ASSUME Gentle, LifeInv, NEW i \in Ids, IsLast(i)
  PROVE  Published(log[i].msg) /\ Newest(log[i].msg) = i
<1> DEFINE Last(j) == j \in Ids /\ log[j].msg = log[i].msg
                       /\ \A k \in Ids : log[k].msg = log[i].msg => k <= j
<1>1. Ids \subseteq Nat
  BY GentleRanges
<1>2. Last(i) /\ \A j \in Ids : Last(j) => j = i
  BY <1>1 DEF IsLast
<1>3. Newest(log[i].msg) = i
  BY <1>2 DEF Newest
<1> QED
  BY <1>3 DEF Published

LEMMA NewestFacts ==
  ASSUME Gentle, LifeInv, NEW m, Published(m)
  PROVE  Newest(m) \in Ids /\ log[Newest(m)].msg = m /\ IsLast(Newest(m))
BY LastExists, NewestIs

LEMMA WhereItIs ==
  ASSUME Gentle, LifeInv, NEW i \in Ids, IsLast(i)
  PROVE  PlaceOfEntry(i) = Where(i)
<1>1. /\ Course /\ Len(log) \in Nat /\ Ids = 1 .. Len(log) /\ cursor \in 0 .. Len(log)
      /\ pos \in 0 .. cursor /\ pel \subseteq 1 .. cursor /\ pc # "dying"
      /\ Support /\ ~ Lost(i) /\ fate[i] \in Fates
  BY GentleFacts, GentleRanges
<1>2. fate[i] \in {"none", "ok", "dead", "missed"}
  BY <1>1 DEF Course, RequeuedOn, Untrimmed, Fates
<1>3. CASE fate[i] = "ok"
  BY <1>3 DEF PlaceOfEntry, Where
<1>4. CASE fate[i] \in {"dead", "missed"}
  BY <1>4 DEF PlaceOfEntry, Where
<1>5. CASE fate[i] = "none"
  <2>1. PlaceOfEntry(i) = IF Stranded(i) THEN "stranded" ELSE IF i > pos THEN "waiting" ELSE "working"
    BY <1>5 DEF PlaceOfEntry
  <2>2. i <= cursor => i \in pel
    BY <1>1, <1>5 DEF Lost
  <2>3. Where(i) = IF i > cursor \/ (i > pos /\ pc # "down") THEN "waiting"
                   ELSE IF i = pos /\ pc \notin {"down", "idle"} THEN "working"
                   ELSE "stranded"
    BY <1>5 DEF Where
  <2> QED
    BY <1>1, <2>1, <2>2, <2>3 DEF Stranded
<1> QED
  BY <1>2, <1>3, <1>4, <1>5

\* The mapping, by the newest entry of each message, in a state and in the next one.
Mapped ==
  \A m \in Msgs :
    /\ ~ Published(m) => PlaceOf(m) = "unsent"
    /\ \A i \in Ids : IsLast(i) /\ log[i].msg = m => PlaceOf(m) = Where(i)

LEMMA PlacesMapped == Gentle /\ LifeInv => Mapped
<1> SUFFICES ASSUME Gentle, LifeInv, NEW m \in Msgs
             PROVE  /\ ~ Published(m) => PlaceOf(m) = "unsent"
                    /\ \A i \in Ids : IsLast(i) /\ log[i].msg = m => PlaceOf(m) = Where(i)
  BY DEF Mapped
<1>1. ~ Published(m) => PlaceOf(m) = "unsent"
  BY DEF PlaceOf
<1>2. ASSUME NEW i \in Ids, IsLast(i), log[i].msg = m
      PROVE  PlaceOf(m) = Where(i)
  <2>1. Published(m) /\ Newest(m) = i /\ PlaceOfEntry(i) = Where(i)
    BY <1>2, NewestIs, WhereItIs
  <2> QED
    BY <2>1 DEF PlaceOf
<1> QED
  BY <1>1, <1>2

LEMMA PlacesMappedNext == Gentle /\ LifeInv' => Mapped'
<1>1. (Gentle /\ LifeInv)' => Mapped'
  BY PlacesMapped, PTL
<1> QED
  BY <1>1 DEF Gentle

\* A step that leaves the stream alone moves a message as it moves its newest entry.
LEMMA PlaceMoves ==
  ASSUME Gentle, LifeInv, LifeInv', log' = log, NEW m \in Msgs
  PROVE  \/ PlaceOf(m) = "unsent" /\ PlaceOf(m)' = "unsent"
         \/ \E i \in Ids : /\ IsLast(i) /\ log[i].msg = m
                           /\ PlaceOf(m) = Where(i) /\ PlaceOf(m)' = Where(i)'
<1>1. Ids' = Ids /\ (\A i : IsLast(i)' <=> IsLast(i)) /\ (Published(m)' <=> Published(m))
  BY LastStays
<1>2. Mapped /\ Mapped'
  BY PlacesMapped, PlacesMappedNext
<1>3. CASE ~ Published(m)
  BY <1>1, <1>2, <1>3 DEF Mapped
<1>4. CASE Published(m)
  <2>1. PICK i \in Ids : log[i].msg = m /\ IsLast(i)
    BY <1>4, LastExists
  <2> QED
    BY <1>1, <1>2, <2>1 DEF Mapped
<1> QED
  BY <1>3, <1>4

-----------------------------------------------------------------------------
(***************************************************************************)
(* Each step is one of MessageLife's, or none.                             *)
(***************************************************************************)
LEMMA LifeMove ==
  ASSUME NEW m \in Msgs, NEW from, NEW to, PlaceOf(m) = from, PlaceOf(m)' = to,
         \A k \in Msgs : k # m => PlaceOf(k)' = PlaceOf(k)
  PROVE  Life!Move(m, from, to)
BY DEF Life!Move

LEMMA LifeQuiet ==
  ASSUME Gentle, LifeInv, LifeInv', log' = log,
         \A i \in Ids : IsLast(i) => Where(i)' = Where(i)
  PROVE  UNCHANGED [m \in Msgs |-> PlaceOf(m)]
<1>1. ASSUME NEW m \in Msgs
      PROVE  PlaceOf(m)' = PlaceOf(m)
  BY PlaceMoves
<1> QED
  BY <1>1

LEMMA LifeOne ==
  ASSUME Gentle, LifeInv, LifeInv', log' = log, NEW n \in Ids, IsLast(n), NEW from, NEW to,
         Where(n) = from, Where(n)' = to,
         \A i \in Ids : IsLast(i) /\ i # n => Where(i)' = Where(i)
  PROVE  Life!Move(log[n].msg, from, to)
<1> DEFINE m == log[n].msg
<1>1. m \in Msgs
  BY GentleRanges
<1>2. Ids' = Ids /\ IsLast(n)' /\ log'[n].msg = m
  BY LastStays
<1>3. Mapped /\ Mapped'
  BY PlacesMapped, PlacesMappedNext
<1>4. PlaceOf(log[n].msg) = from
  BY <1>1, <1>3 DEF Mapped
<1>5. ASSUME NEW k \in Msgs, k = m
      PROVE  PlaceOf(k) = from /\ PlaceOf(k)' = to
  BY <1>2, <1>3, <1>5 DEF Mapped
<1>6. ASSUME NEW k \in Msgs, k # m
      PROVE  PlaceOf(k)' = PlaceOf(k)
  BY <1>6, PlaceMoves
<1>7. PICK k \in Msgs : k = m
  BY <1>1
<1>8. Life!Move(k, from, to)
  BY <1>5, <1>6, <1>7, LifeMove
<1> QED
  BY <1>7, <1>8

LEMMA LifeStrand ==
  ASSUME Gentle, LifeInv, LifeInv', log' = log,
         \A i \in Ids : IsLast(i) =>
           \/ Where(i)' = Where(i)
           \/ Where(i) \in {"waiting", "working"} /\ Where(i)' = "stranded"
  PROVE  \E S \in SUBSET Msgs : Life!Strand(S)
<1> DEFINE S == {m \in Msgs : PlaceOf(m) \in {"waiting", "working"} /\ PlaceOf(m)' = "stranded"}
<1>1. ASSUME NEW m \in Msgs
      PROVE  PlaceOf(m)' = PlaceOf(m) \/ m \in S
  BY PlaceMoves
<1>2. PICK T \in SUBSET Msgs : T = S
  OBVIOUS
<1>3. /\ \A m \in T : PlaceOf(m) \in {"waiting", "working"} /\ PlaceOf(m)' = "stranded"
      /\ \A m \in Msgs : m \notin T => PlaceOf(m)' = PlaceOf(m)
  BY <1>1, <1>2
<1>4. Life!Strand(T)
  BY <1>3 DEF Life!Strand, Life!MoveAll
<1> QED
  BY <1>4

LEMMA LifeBoot ==
  ASSUME Gentle, LifeInv, LifeInv', Boot
  PROVE  Life!Next \/ UNCHANGED [m \in Msgs |-> PlaceOf(m)]
<1>1. /\ Course /\ log' = log /\ pc = "down" /\ pc' = "idle" /\ cursor' = FirstCursor
      /\ pos' = FirstCursor /\ \A i \in Ids : fate'[i] = IF ~ group THEN "missed" ELSE fate[i]
  BY GentleFacts DEF Boot
<1>2. CASE group
  <2>1. cursor' = cursor /\ pos' = cursor
    BY <1>1, <1>2 DEF FirstCursor
  <2>2. \A i \in Ids : Where(i)' = Where(i)
    BY <1>1, <1>2, <2>1, GentleRanges DEF Where
  <2> QED
    BY <1>1, <2>2, LifeQuiet
<1>3. CASE ~ group
  <2>1. cursor = 0 /\ pos = 0
    BY <1>3, GentleRanges
  <2>2. \A i \in Ids : fate[i] = "none"
    BY <1>1, <2>1, GentleRanges DEF Course, AheadOpen
  <2>3. \A i \in Ids : Where(i) = "waiting" /\ Where(i)' = "missed"
    BY <1>1, <1>3, <2>1, <2>2, GentleRanges DEF Where
  <2> DEFINE S == {m \in Msgs : PlaceOf(m) = "waiting" /\ PlaceOf(m)' = "missed"}
  <2>4. ASSUME NEW m \in Msgs
        PROVE  PlaceOf(m)' = PlaceOf(m) \/ m \in S
    BY <1>1, <2>3, PlaceMoves
  <2>5. PICK T \in SUBSET Msgs : T = S
    OBVIOUS
  <2>6. /\ \A m \in T : PlaceOf(m) \in {"waiting"} /\ PlaceOf(m)' = "missed"
        /\ \A m \in Msgs : m \notin T => PlaceOf(m)' = PlaceOf(m)
    BY <2>4, <2>5
  <2>7. Life!Miss(T)
    BY <2>6 DEF Life!Miss, Life!MoveAll
  <2> QED
    BY <2>7 DEF Life!Next
<1> QED
  BY <1>2, <1>3

LEMMA LifeRead ==
  ASSUME Gentle, LifeInv, LifeInv', Poll \/ SkipHalted \/ Take
  PROVE  Life!Next \/ UNCHANGED [m \in Msgs |-> PlaceOf(m)]
<1>1. Course /\ log' = log /\ fate' = fate /\ pc = "idle"
  BY GentleFacts DEF Poll, SkipHalted, Take, streamVars, histVars
<1>2. CASE Poll
  <2>1. /\ ReadFrom = cursor /\ ReadFrom < Len(log) /\ cursor' = ReadTo
        /\ pos = cursor /\ pos' \in {cursor, cursor'} /\ pc' = "idle"
    BY <1>2, GentleRanges DEF Poll
  <2>2. cursor' \in cursor .. Len(log)
    BY <2>1, ReadRange, GentleFacts, GentleRanges
  <2>3. \A i \in Ids : i > cursor => fate[i] = "none"
    BY <1>1, <2>1 DEF Course, AheadOpen
  <2>4. ASSUME NEW i \in Ids
        PROVE  \/ Where(i)' = Where(i)
               \/ Where(i) \in {"waiting", "working"} /\ Where(i)' = "stranded"
    <3>1. i \in Nat /\ cursor \in Nat
      BY GentleRanges
    <3>2. CASE i <= cursor
      BY <1>1, <2>1, <2>2, <3>1, <3>2 DEF Where
    <3>3. CASE i > cursor
      BY <1>1, <2>1, <2>2, <2>3, <3>1, <3>3 DEF Where
    <3> QED
      BY <3>1, <3>2, <3>3
  <2> QED
    BY <1>1, <2>4, LifeStrand DEF Life!Next
<1>3. CASE SkipHalted \/ Take
  <2>1. /\ pos < cursor /\ pos' = pos + 1 /\ cursor' = cursor
        /\ pc' \in {"idle", "handling"} /\ (SkipHalted => pc' = "idle") /\ (Take => pc' = "handling")
    BY <1>1, <1>3 DEF SkipHalted, Take, groupVars
  <2>2. PICK n \in Ids : n = pos + 1
    BY <2>1, GentleRanges
  <2>3. n \in Live /\ IsLast(n) /\ log[n].msg \in Msgs /\ fate[n] = "none"
    BY <1>1, <2>2, LiveIsLast, GentleRanges DEF Live, Course, AheadOpen
  <2>4. \A i \in Ids : i # n => Where(i)' = Where(i)
    BY <1>1, <2>1, <2>2, GentleRanges DEF Where
  <2>5. Where(n) = "waiting" /\ Where(n)' = IF pc' = "idle" THEN "stranded" ELSE "working"
    BY <1>1, <2>1, <2>2, <2>3, GentleRanges DEF Where
  <2>6. CASE SkipHalted
    <3>1. \A i \in Ids : IsLast(i) =>
            \/ Where(i)' = Where(i)
            \/ Where(i) \in {"waiting", "working"} /\ Where(i)' = "stranded"
      BY <2>1, <2>4, <2>5, <2>6
    <3> QED
      BY <1>1, <3>1, LifeStrand DEF Life!Next
  <2>7. CASE Take
    <3>1. Where(n)' = "working"
      BY <2>1, <2>5, <2>7
    <3>2. Life!Begin(log[n].msg)
      BY <1>1, <2>3, <2>4, <2>5, <3>1, LifeOne DEF Life!Begin
    <3> QED
      BY <2>3, <3>2 DEF Life!Next
  <2> QED
    BY <1>3, <2>6, <2>7
<1> QED
  BY <1>2, <1>3

LEMMA LifeDecided ==
  ASSUME Gentle, LifeInv, LifeInv', HandleOk \/ RecordFailure
  PROVE  Life!Next
<1>1. /\ StreamType /\ pos \in Ids /\ pos \in Live /\ fate[pos] = "none"
      /\ pc \in {"handling", "failing"}
  BY GentleFacts, CurrentType DEF HandleOk, RecordFailure, Support, Course, HandOpen, Live, TypeOK
<1>2. /\ log' = log /\ pos' = pos /\ cursor' = cursor /\ pc' = "acking"
      /\ \/ HandleOk /\ fate' = [fate EXCEPT ![pos] = "ok"]
         \/ RecordFailure /\ fate' = [fate EXCEPT ![pos] = "dead"]
  BY DEF HandleOk, RecordFailure, ToDlq, streamVars, groupVars
<1>3. /\ \A i \in Ids : i # pos => fate'[i] = fate[i]
      /\ fate'[pos] = IF HandleOk THEN "ok" ELSE "dead"
  <2>1. ~ (HandleOk /\ RecordFailure)
    BY DEF HandleOk, RecordFailure
  <2> QED
    BY <1>1, <1>2, <2>1, FateExcept DEF Fates
<1>4. IsLast(pos) /\ log[pos].msg \in Msgs
  BY <1>1, LiveIsLast, GentleRanges
<1>5. \A i \in Ids : i # pos => Where(i)' = Where(i)
  BY <1>1, <1>2, <1>3 DEF Where
<1>6. Where(pos) = "working"
  BY <1>1, GentleRanges DEF Where
<1>7. ASSUME NEW n, n = pos
      PROVE  Where(n)' = IF HandleOk THEN "handled" ELSE "dead"
  BY <1>2, <1>3, <1>7 DEF Where
<1>8. PICK n \in Ids : n = pos
  BY <1>1
<1>9. CASE HandleOk
  <2>1. Where(n)' = "handled"
    BY <1>7, <1>8, <1>9
  <2>2. Life!Finish(log[n].msg)
    BY <1>2, <1>4, <1>5, <1>6, <1>8, <2>1, LifeOne DEF Life!Finish
  <2> QED
    BY <1>4, <1>8, <2>2 DEF Life!Next
<1>10. CASE ~ HandleOk
  <2>1. Where(n)' = "dead"
    BY <1>7, <1>8, <1>10
  <2>2. Life!Bury(log[n].msg)
    BY <1>2, <1>4, <1>5, <1>6, <1>8, <2>1, LifeOne DEF Life!Bury
  <2> QED
    BY <1>4, <1>8, <2>2 DEF Life!Next
<1> QED
  BY <1>9, <1>10

LEMMA LifeElsewhere ==
  ASSUME Gentle, LifeInv, LifeInv',
         \/ HandleFail \/ HandleExhausted \/ PauseEnds \/ AckStep \/ AckRaises \/ Kill
         \/ UNCHANGED <<log, fate, floor, group, cursor, pos, pel, pc>>
  PROVE  Life!Next \/ UNCHANGED [m \in Msgs |-> PlaceOf(m)]
<1>1. /\ UNCHANGED <<log, fate, cursor, pos>> /\ pc # "dying"
      /\ (pc \in {"acking", "pausing"} => fate[pos] # "none")
  BY GentleFacts DEF HandleFail, HandleExhausted, PauseEnds, AckStep, AckRaises, Kill, streamVars,
     groupVars, histVars, Support, Decided
<1>2. CASE HandleFail \/ HandleExhausted \/ PauseEnds \/ AckStep
  <2>1. /\ pc \notin {"down", "idle"} /\ pc' # "down"
        /\ pc' = "idle" => fate[pos] # "none"
    BY <1>1, <1>2 DEF HandleFail, HandleExhausted, PauseEnds, AckStep
  <2>2. \A i \in Ids : IsLast(i) => Where(i)' = Where(i)
    <3> SUFFICES ASSUME NEW i \in Ids, IsLast(i), fate[i] = "none"
                 PROVE  Where(i)' = Where(i)
      <4>1. \A i \in Ids : IsLast(i) => fate[i] \in {"none", "ok", "dead", "missed"}
        BY GentleFacts, GentleRanges DEF Course, RequeuedOn, Untrimmed, Fates
      <4> QED
        BY <1>1, <4>1 DEF Where
    <3> QED
      BY <1>1, <2>1 DEF Where
  <2> QED
    BY <1>1, <2>2, LifeQuiet
<1>3. CASE AckRaises \/ Kill
  <2>1. pc # "down" /\ pc' = "down"
    BY <1>3 DEF AckRaises, Kill
  <2>2. \A i \in Ids : \/ Where(i)' = Where(i)
                       \/ Where(i) \in {"waiting", "working"} /\ Where(i)' = "stranded"
    BY <1>1, <2>1 DEF Where
  <2> QED
    BY <1>1, <2>2, LifeStrand DEF Life!Next
<1>4. CASE UNCHANGED <<log, fate, floor, group, cursor, pos, pel, pc>>
  <2>1. \A i \in Ids : Where(i)' = Where(i)
    BY <1>4 DEF Where
  <2> QED
    BY <1>1, <2>1, LifeQuiet
<1> QED
  BY <1>2, <1>3, <1>4

LEMMA LifeAppended ==
  ASSUME Gentle, LifeInv, LifeInv', NEW y \in Entry, NEW f \in Seq(Fates), Len(f) = Len(log),
         Add(y, f), UNCHANGED <<cursor, pos>>,
         \A i \in Ids : IsLast(i) /\ log[i].msg # y.msg => f[i] = fate[i],
         pc' = pc \/ {pc, pc'} \cap {"down", "idle"} = {}
  PROVE  /\ \A m \in Msgs : m = y.msg => PlaceOf(m)' = "waiting"
         /\ \A m \in Msgs : m # y.msg => PlaceOf(m)' = PlaceOf(m)
<1> DEFINE n == Len(log) + 1
<1>1. /\ Len(log)' = n /\ Ids' = Ids \cup {n} /\ n \notin Ids
      /\ log'[n] = y /\ fate'[n] = "none"
      /\ \A i \in Ids : log'[i] = log[i] /\ fate'[i] = f[i]
      /\ \A i \in Ids : IsLast(i)' <=> (IsLast(i) /\ log[i].msg # y.msg)
      /\ IsLast(Len(log))'
  BY Appended
<1>2. Mapped /\ Mapped'
  BY PlacesMapped, PlacesMappedNext
<1>3. PICK k \in Ids' : k = n
  BY <1>1
<1>4. Where(k)' = "waiting" /\ IsLast(k)' /\ log'[k] = y
  <2>1. fate'[k] = "none" /\ k > cursor'
    BY <1>1, <1>3, GentleRanges
  <2>2. IsLast(k)'
    BY <1>1, <1>3 DEF IsLast
  <2> QED
    BY <1>1, <1>3, <2>1, <2>2 DEF Where
<1>5. ASSUME NEW m \in Msgs, m = y.msg
      PROVE  PlaceOf(m)' = "waiting"
  BY <1>2, <1>4, <1>5 DEF Mapped
<1>6. ASSUME NEW m \in Msgs, m # y.msg, Published(m)
      PROVE  PlaceOf(m)' = PlaceOf(m)
  <2>1. PICK i \in Ids : log[i].msg = m /\ IsLast(i)
    BY <1>6, LastExists
  <2>2. i \in Ids' /\ IsLast(i)' /\ log'[i].msg = m /\ fate'[i] = fate[i]
    BY <1>1, <1>6, <2>1
  <2>3. PlaceOf(m) = Where(i) /\ PlaceOf(m)' = Where(i)'
    BY <1>2, <2>1, <2>2 DEF Mapped
  <2>4. Where(i)' = Where(i)
    BY <2>2 DEF Where
  <2> QED
    BY <2>3, <2>4
<1>7. ASSUME NEW m \in Msgs, m # y.msg, ~ Published(m)
      PROVE  PlaceOf(m)' = PlaceOf(m)
  <2>1. ~ Published(m)'
    BY <1>1, <1>7 DEF Published
  <2> QED
    BY <1>2, <1>7, <2>1 DEF Mapped
<1> QED
  BY <1>5, <1>6, <1>7

LEMMA LifePublish ==
  ASSUME Gentle, LifeInv, LifeInv', NEW m \in Msgs, Publish(m)
  PROVE  Life!Next
<1> DEFINE y == [msg |-> m, retries |-> 0]
<1>1. y \in Entry /\ y.msg = m /\ fate \in Seq(Fates) /\ Len(fate) = Len(log)
  BY ConsumerAssumption, GentleRanges DEF Entry, Retries
<1>2. Add(y, fate) /\ UNCHANGED <<cursor, pos, pc>> /\ ~ Published(m)
  BY DEF Publish, groupVars, agentVars
<1>3. PlaceOf(m) = "unsent"
  BY <1>2 DEF PlaceOf
<1> HIDE DEF y
<1>4. PlaceOf(m)' = "waiting" /\ \A k \in Msgs : k # m => PlaceOf(k)' = PlaceOf(k)
  BY <1>1, <1>2, LifeAppended
<1>5. Life!Send(m)
  BY <1>3, <1>4, LifeMove DEF Life!Send
<1> QED
  BY <1>5 DEF Life!Next

LEMMA LifeRequeue ==
  ASSUME Gentle, LifeInv, LifeInv', Requeue
  PROVE  Life!Next
<1> DEFINE y == Requeued(Current)
           f == [fate EXCEPT ![pos] = "requeued"]
<1>1. /\ Support /\ StreamType /\ pos \in Ids /\ pos \in Live
      /\ fate[pos] = "none" /\ pc = "requeueing" /\ pc' = "pausing"
  BY GentleFacts, CurrentType DEF Requeue, Support, TypeOK, Course, HandOpen, Live
<1>2. y \in Entry /\ y.msg = log[pos].msg /\ log[pos].msg \in Msgs /\ IsLast(pos)
  BY <1>1, RequeuedType, LiveIsLast, GentleRanges DEF Requeue, Requeued, Current
<1>3. f \in Seq(Fates) /\ Len(f) = Len(log) /\ \A i \in Ids : i # pos => f[i] = fate[i]
  BY <1>1, FateExcept DEF Fates
<1>4. Add(y, f) /\ UNCHANGED <<cursor, pos>>
  BY DEF Requeue, groupVars
<1>5. Where(pos) = "working"
  BY <1>1, GentleRanges DEF Where
<1>6. PICK m \in Msgs : m = log[pos].msg
  BY <1>2
<1>7. PlaceOf(m) = "working"
  BY <1>1, <1>2, <1>5, <1>6, PlacesMapped DEF Mapped
<1> HIDE DEF y, f
<1>8. PlaceOf(m)' = "waiting" /\ \A k \in Msgs : k # m => PlaceOf(k)' = PlaceOf(k)
  BY <1>1, <1>2, <1>3, <1>4, <1>6, LifeAppended
<1>9. Life!Again(m)
  BY <1>7, <1>8, LifeMove DEF Life!Again
<1> QED
  BY <1>9 DEF Life!Next

LEMMA LifeReplay ==
  ASSUME Gentle, LifeInv, LifeInv', NEW r \in Replayers, ReplayAdd(r)
  PROVE  Life!Next
<1>1. PICK e \in Waiting :
           /\ [msg |-> e.msg, retries |-> e.retries] \in Entry
           /\ Add([msg |-> e.msg, retries |-> e.retries], fate)
  BY ReplayTakes DEF LifeInv, IInv, Support
<1> DEFINE y == [msg |-> e.msg, retries |-> e.retries]
<1>2. /\ y \in Entry /\ y.msg = e.msg /\ Add(y, fate) /\ fate \in Seq(Fates) /\ Len(fate) = Len(log)
  BY <1>1, GentleRanges
<1>3. UNCHANGED <<cursor, pos, pc>>
  BY DEF ReplayAdd, groupVars, agentVars
<1>4. PICK m \in Msgs : m = e.msg
  BY <1>2 DEF Entry
<1>5. PlaceOf(m) = "dead"
  <2>1. PICK i \in Ids : log[i].msg = e.msg /\ IsLast(i) /\ fate[i] = "dead"
    BY GentleFacts DEF Course, LettersDead
  <2>2. Where(i) = "dead"
    BY <2>1 DEF Where
  <2> QED
    BY <1>4, <2>1, <2>2, PlacesMapped DEF Mapped
<1> HIDE DEF y
<1>6. PlaceOf(m)' = "waiting" /\ \A k \in Msgs : k # m => PlaceOf(k)' = PlaceOf(k)
  BY <1>2, <1>3, <1>4, LifeAppended
<1>7. Life!Revive(m)
  BY <1>5, <1>6, LifeMove DEF Life!Revive
<1> QED
  BY <1>7 DEF Life!Next

LEMMA LifeStep ==
  ASSUME Gentle, LifeInv, LifeInv', [Next]_vars
  PROVE  Life!Next \/ UNCHANGED [m \in Msgs |-> PlaceOf(m)]
BY GentleSteps, LifePublish, LifeRequeue, LifeReplay, LifeBoot, LifeRead, LifeDecided, LifeElsewhere

LEMMA LifeInit == Init => LifeInv /\ Life!Init
<1> SUFFICES ASSUME Init PROVE LifeInv /\ Life!Init
  OBVIOUS
<1>1. IInv /\ OnceInv
  BY InitSupport, OnceInit
<1>2. Ids = {} /\ Waiting = {} /\ pos = 0 /\ cursor = 0 /\ pc = "down" /\ floor = 0
  BY EmptySeq DEF Init, Ids, Waiting, Letters
<1>3. Course
  <2>1. pos + 1 .. cursor = {}
    BY <1>2
  <2> QED
    BY <1>2, <2>1 DEF Course, AheadOpen, AheadPending, HandOpen, Untrimmed, RequeuedOn, LettersDead
<1>4. \A m \in Msgs : PlaceOf(m) = "unsent"
  BY <1>2 DEF PlaceOf, Published
<1> QED
  BY <1>1, <1>3, <1>4 DEF LifeInv, Life!Init

\* With one replay at a time, and unless something cuts a handler short, doubles a message
\* or trims the stream, the consumer implements MessageLife: whatever is killed, halted or
\* not acknowledged, a message is in one place, moves as MessageLife lets it, and does not
\* come back from where it is handled, missed or stranded (base.py:172-248, core/bus.py,
\* dashboard/routes/dlq.py).
THEOREM LifeRefined ==
  ASSUME Gentle
  PROVE  Spec => LifeSpec
<1>1. LifeInv /\ [Next]_vars => LifeInv'
  BY LifeInvStep
<1>2. LifeInv /\ LifeInv' /\ [Next]_vars => [Life!Next]_([m \in Msgs |-> PlaceOf(m)])
  BY LifeStep
<1> QED
  BY <1>1, <1>2, LifeInit, PTL DEF Spec, LifeSpec, Life!Spec

-----------------------------------------------------------------------------
(***************************************************************************)
(* The calls of handle().  An entry that is still to be taken stands for a *)
(* call now and one for each requeue its counter leaves; publishing and    *)
(* replaying grant such calls, and taking an entry spends one.             *)
(***************************************************************************)
AtWork == pc \in {"handling", "failing", "requeueing"}

\* The calls that entries of m may still cost, as pairs of an entry and the value of
\* its retry counter at that call.
Unspent(m) ==
  {t \in Ids \X Retries :
     /\ log[t[1]].msg = m
     /\ \/ t[1] > pos /\ log[t[1]].retries <= t[2]
        \/ t[1] = pos /\ AtWork /\ log[t[1]].retries < t[2]}

Grant(m) == IF Published(m) THEN (MaxRetries + 1) * (1 + replays[m]) ELSE 0

Afforded == \A m \in Msgs : attempts[m] + Cardinality(Unspent(m)) <= Grant(m)

AttemptsInv == IInv /\ Afforded

LEMMA UnspentFinite ==
  ASSUME TypeOK, NEW m
  PROVE  IsFiniteSet(Unspent(m)) /\ Cardinality(Unspent(m)) \in Nat
<1>1. Len(log) \in Nat /\ MaxRetries \in Nat
  BY LengthType, ConsumerAssumption
<1>2. IsFiniteSet(Ids) /\ IsFiniteSet(Retries)
  BY <1>1, FS_Interval DEF Ids, Retries
<1>3. IsFiniteSet(Ids \X Retries)
  BY <1>2, FS_Product
<1>4. Unspent(m) \in SUBSET (Ids \X Retries)
  BY DEF Unspent
<1>5. IsFiniteSet(Unspent(m))
  BY <1>3, <1>4, FS_Subset
<1> QED
  BY <1>5, FS_CardinalityType

\* The calls one entry stands for.
LEMMA CallsOfEntry ==
  ASSUME NEW i, NEW a \in 0 .. MaxRetries
  PROVE  /\ IsFiniteSet({i} \X (a .. MaxRetries))
         /\ Cardinality({i} \X (a .. MaxRetries)) = MaxRetries - a + 1
         /\ Cardinality({i} \X (a .. MaxRetries)) \in 0 .. MaxRetries + 1
<1>1. MaxRetries \in Nat /\ a \in Nat /\ a <= MaxRetries
  BY ConsumerAssumption
<1>2. IsFiniteSet(a .. MaxRetries) /\ Cardinality(a .. MaxRetries) = MaxRetries - a + 1
  BY <1>1, FS_Interval
<1>3. IsFiniteSet({i}) /\ Cardinality({i}) = 1
  BY FS_Singleton
<1>4. /\ IsFiniteSet({i} \X (a .. MaxRetries))
      /\ Cardinality({i} \X (a .. MaxRetries)) = Cardinality({i}) * Cardinality(a .. MaxRetries)
  <2> DEFINE R == a .. MaxRetries
  <2>1. IsFiniteSet(R) /\ IsFiniteSet({i})
    BY <1>2, <1>3
  <2> HIDE DEF R
  <2>2. IsFiniteSet({i} \X R) /\ Cardinality({i} \X R) = Cardinality({i}) * Cardinality(R)
    BY <2>1, FS_Product, Zenon
  <2> QED
    BY <2>2 DEF R
<1>5. 1 * (MaxRetries - a + 1) = MaxRetries - a + 1
  BY <1>1
<1> QED
  BY <1>1, <1>2, <1>3, <1>4, <1>5

\* T is what is left of S without A, and some of B.
Exchange(S, A, B, T) ==
  IsFiniteSet(S) /\ A \subseteq S /\ IsFiniteSet(B) /\ T \subseteq (S \ A) \cup B

LEMMA Exchanged ==
  ASSUME NEW S, NEW A, NEW B, NEW T, Exchange(S, A, B, T)
  PROVE  /\ Cardinality(S) \in Nat /\ Cardinality(A) \in Nat
         /\ Cardinality(B) \in Nat /\ Cardinality(T) \in Nat
         /\ Cardinality(T) <= Cardinality(S) - Cardinality(A) + Cardinality(B)
<1> DEFINE R == S \ A
<1>1. IsFiniteSet(S) /\ A \in SUBSET S /\ IsFiniteSet(B) /\ T \in SUBSET (R \cup B) /\ S \cap A = A
  BY DEF Exchange
<1>2. IsFiniteSet(A)
  BY <1>1, FS_Subset
<1>3. IsFiniteSet(R) /\ Cardinality(R) = Cardinality(S) - Cardinality(S \cap A)
  BY <1>1, FS_Difference
<1> HIDE DEF R
<1>4. /\ IsFiniteSet(R \cup B)
      /\ Cardinality(R \cup B) = Cardinality(R) + Cardinality(B) - Cardinality(R \cap B)
  BY <1>1, <1>3, FS_Union
<1>5. IsFiniteSet(T) /\ Cardinality(T) <= Cardinality(R \cup B)
  BY <1>1, <1>4, FS_Subset
<1>6. IsFiniteSet(R \cap B)
  <2>1. R \cap B \in SUBSET B
    OBVIOUS
  <2> QED
    BY <1>1, <2>1, FS_Subset
<1>7. /\ Cardinality(S) \in Nat /\ Cardinality(A) \in Nat
      /\ Cardinality(B) \in Nat /\ Cardinality(T) \in Nat
      /\ Cardinality(R) \in Nat /\ Cardinality(R \cap B) \in Nat
      /\ Cardinality(R \cup B) \in Nat
  BY <1>1, <1>2, <1>3, <1>4, <1>5, <1>6, FS_CardinalityType
<1>8. Cardinality(R) = Cardinality(S) - Cardinality(A)
  BY <1>1, <1>3
<1> QED
  BY <1>4, <1>5, <1>7, <1>8

\* No step but those that add an entry, or take one, grants or spends a call.
LEMMA UnspentShrinks ==
  ASSUME TypeOK, UNCHANGED <<log, attempts, replays>>, pos' \in Nat, pos' >= pos,
         AtWork' => AtWork /\ pos' = pos, Afforded
  PROVE  Afforded'
<1> SUFFICES ASSUME NEW m \in Msgs
             PROVE  attempts'[m] + Cardinality(Unspent(m)') <= Grant(m)'
  BY DEF Afforded
<1>1. Unspent(m)' \subseteq Unspent(m)
  <2>1. SUFFICES ASSUME NEW t \in Unspent(m)'
                 PROVE  t \in Unspent(m)
    OBVIOUS
  <2>2. t \in Ids \X Retries /\ log[t[1]].msg = m
    BY DEF Unspent, Ids
  <2>3. t[1] \in Nat /\ pos \in Nat
    BY <2>2, LengthType DEF TypeOK, GroupType
  <2>4. \/ t[1] > pos' /\ log[t[1]].retries <= t[2]
        \/ t[1] = pos' /\ AtWork' /\ log[t[1]].retries < t[2]
    BY DEF Unspent
  <2>5. \/ t[1] > pos /\ log[t[1]].retries <= t[2]
        \/ t[1] = pos /\ AtWork /\ log[t[1]].retries < t[2]
    BY <2>3, <2>4
  <2> QED
    BY <2>2, <2>5 DEF Unspent
<1>2. Cardinality(Unspent(m)') <= Cardinality(Unspent(m))
  BY <1>1, UnspentFinite, FS_Subset
<1>3. Grant(m)' = Grant(m)
  BY DEF Grant, Published, Ids
<1>4. Cardinality(Unspent(m)') \in Nat /\ Cardinality(Unspent(m)) \in Nat
  BY <1>1, UnspentFinite, FS_Subset, FS_CardinalityType
<1>5. attempts[m] \in Nat /\ Grant(m) \in Nat
  BY ConsumerAssumption DEF TypeOK, CountType, Grant
<1>6. attempts[m] + Cardinality(Unspent(m)) <= Grant(m) /\ attempts'[m] = attempts[m]
  BY DEF Afforded
<1> QED
  BY <1>2, <1>3, <1>4, <1>5, <1>6

LEMMA AffordedTake ==
  ASSUME TypeOK, TypeOK', Take, Afforded
  PROVE  Afforded'
<1> SUFFICES ASSUME NEW m \in Msgs
             PROVE  attempts'[m] + Cardinality(Unspent(m)') <= Grant(m)'
  BY DEF Afforded
<1> DEFINE i == pos + 1
           spent == <<i, log[i].retries>>
<1>1. /\ pc = "idle" /\ pc' = "handling" /\ pos < cursor /\ pos' = i
      /\ UNCHANGED <<log, replays>>
      /\ attempts' = [attempts EXCEPT ![log[i].msg] = @ + 1]
  BY DEF Take, streamVars
<1>2. Len(log) \in Nat /\ pos \in Nat /\ cursor \in 0 .. Len(log) /\ Ids = 1 .. Len(log)
  BY LengthType DEF TypeOK, GroupType
<1>3. i \in Ids
  BY <1>1, <1>2
<1>4. log[i] \in Entry
  BY <1>2, <1>3, ElementOfSeq DEF TypeOK, StreamType
<1>5. Grant(m)' = Grant(m) /\ Ids' = Ids
  BY <1>1 DEF Grant, Published, Ids
<1>6. attempts[m] \in Nat /\ Grant(m) \in Nat
  BY ConsumerAssumption DEF TypeOK, CountType, Grant
<1>7. attempts[m] + Cardinality(Unspent(m)) <= Grant(m)
  BY DEF Afforded
<1>8. Unspent(m)' \subseteq Unspent(m) \ {spent}
  <2>1. SUFFICES ASSUME NEW t \in Unspent(m)'
                 PROVE  t \in Unspent(m) /\ t # spent
    OBVIOUS
  <2>2. /\ t \in Ids \X Retries /\ log[t[1]].msg = m
        /\ \/ t[1] > i /\ log[t[1]].retries <= t[2]
           \/ t[1] = i /\ log[t[1]].retries < t[2]
    BY <1>1, <1>5 DEF Unspent
  <2>3. t[1] \in Nat /\ t[2] \in Nat /\ log[i].retries \in Nat
    BY <2>2, <1>2, <1>4, ConsumerAssumption DEF Retries, Entry
  <2>4. t[1] > pos /\ log[t[1]].retries <= t[2]
    <3>1. i > pos /\ i \in Nat /\ (t[1] > i => t[1] > pos)
      BY <2>3, <1>2
    <3>2. CASE t[1] > i /\ log[t[1]].retries <= t[2]
      BY <3>1, <3>2
    <3>3. CASE t[1] = i /\ log[i].retries < t[2]
      <4>1. log[i].retries <= t[2]
        BY <3>3, <2>3
      <4> QED
        BY <3>1, <3>3, <4>1
    <3> QED
      BY <2>2, <3>2, <3>3
  <2>5. t # spent
    <3>1. spent[1] = i /\ spent[2] = log[i].retries
      OBVIOUS
    <3>2. ~ (t[1] = i /\ t[2] = log[i].retries)
      BY <2>2, <2>3
    <3> QED
      BY <3>1, <3>2
  <2> QED
    BY <2>2, <2>4, <2>5 DEF Unspent
<1>9. /\ IsFiniteSet(Unspent(m)) /\ IsFiniteSet(Unspent(m) \ {spent})
      /\ Cardinality(Unspent(m) \ {spent})
           = IF spent \in Unspent(m) THEN Cardinality(Unspent(m)) - 1
                                     ELSE Cardinality(Unspent(m))
  BY UnspentFinite, FS_RemoveElement
<1>10. Cardinality(Unspent(m)') <= Cardinality(Unspent(m) \ {spent})
  BY <1>8, <1>9, FS_Subset
<1>11. Cardinality(Unspent(m)') \in Nat /\ Cardinality(Unspent(m)) \in Nat
  BY <1>8, <1>9, FS_Subset, FS_CardinalityType
<1>12. CASE m = log[i].msg
  <2>1. spent \in Unspent(m)
    <3>1. log[i].retries \in Retries /\ log[i].retries <= log[i].retries
      BY <1>4, ConsumerAssumption DEF Entry, Retries
    <3> QED
      BY <3>1, <1>2, <1>3, <1>12 DEF Unspent
  <2>2. attempts'[m] = attempts[m] + 1
    BY <1>1, <1>12 DEF TypeOK, CountType
  <2> QED
    BY <2>1, <2>2, <1>5, <1>6, <1>7, <1>9, <1>10, <1>11
<1>13. CASE m # log[i].msg
  <2>1. attempts'[m] = attempts[m]
    BY <1>1, <1>13 DEF TypeOK, CountType
  <2> QED
    BY <2>1, <1>5, <1>6, <1>7, <1>9, <1>10, <1>11
<1> QED
  BY <1>12, <1>13

\* What an entry added to the stream may cost.
LEMMA UnspentAdded ==
  ASSUME TypeOK, TypeOK', NEW e \in Entry, log' = Append(log, e), UNCHANGED <<attempts, pos>>,
         AtWork' => AtWork, NEW m \in Msgs
  PROVE  /\ \A t \in Unspent(m)' :
              \/ t \in Unspent(m) /\ (t[1] = pos => AtWork')
              \/ m = e.msg /\ t \in {Len(log) + 1} \X (e.retries .. MaxRetries)
         /\ Published(m)' <=> Published(m) \/ m = e.msg
<1>1. /\ Len(log) \in Nat /\ pos \in 0 .. Len(log) /\ Ids = 1 .. Len(log)
      /\ Ids' = 1 .. Len(log) + 1 /\ log'[Len(log) + 1] = e
      /\ \A i \in Ids : log'[i] = log[i]
  <2>1. log \in Seq(Entry) /\ Len(log) \in Nat /\ Ids = 1 .. Len(log)
    BY LengthType DEF TypeOK, StreamType
  <2>2. /\ Len(log') = Len(log) + 1 /\ log'[Len(log) + 1] = e
        /\ \A i \in 1 .. Len(log) : log'[i] = log[i]
    BY <2>1, AppendProperties
  <2> QED
    BY <2>1, <2>2 DEF TypeOK, GroupType, Ids
<1>2. ASSUME NEW t \in Unspent(m)'
      PROVE  \/ t \in Unspent(m) /\ (t[1] = pos => AtWork')
             \/ m = e.msg /\ t \in {Len(log) + 1} \X (e.retries .. MaxRetries)
  <2>1. /\ t \in Ids' \X Retries /\ log'[t[1]].msg = m
        /\ \/ t[1] > pos /\ log'[t[1]].retries <= t[2]
           \/ t[1] = pos /\ AtWork' /\ log'[t[1]].retries < t[2]
    BY DEF Unspent
  <2>2. CASE t[1] \in Ids
    <3>1. t \in Ids \X Retries /\ log'[t[1]] = log[t[1]]
      BY <2>1, <2>2, <1>1
    <3>2. ~ (t[1] > pos /\ t[1] = pos)
      BY <2>2, <1>1
    <3> QED
      BY <2>1, <3>1, <3>2 DEF Unspent
  <2>3. CASE t[1] \notin Ids
    <3>1. t[1] = Len(log) + 1
      BY <2>1, <2>3, <1>1
    <3>2. t[1] > pos /\ log'[t[1]] = e
      BY <3>1, <1>1
    <3>3. e.retries <= t[2] /\ m = e.msg /\ t[2] \in Retries /\ e.retries \in Retries
      BY <2>1, <3>1, <3>2, <1>1 DEF Entry
    <3>4. t[2] \in e.retries .. MaxRetries
      BY <3>3, ConsumerAssumption DEF Retries
    <3> QED
      BY <2>1, <3>1, <3>3, <3>4
  <2> QED
    BY <2>2, <2>3
<1>3. Published(m)' <=> Published(m) \/ m = e.msg
  <2>1. Len(log) + 1 \in Ids' /\ \A i \in Ids' : i \in Ids \/ i = Len(log) + 1
    BY <1>1
  <2>2. Ids \subseteq Ids'
    BY <1>1
  <2> QED
    BY <2>1, <2>2, <1>1 DEF Published
<1> QED
  BY <1>2, <1>3

LEMMA Granted ==
  ASSUME NEW k \in Nat, NEW n \in Nat
  PROVE  /\ k * (1 + n) \in Nat /\ k <= k * (1 + n)
         /\ k * (1 + (n + 1)) = k * (1 + n) + k
<1>1. k * n \in Nat
  OBVIOUS
<1>2. k * (1 + n) = k + k * n
  OBVIOUS
<1>3. k * (1 + (n + 1)) = k + k * n + k
  OBVIOUS
<1> QED
  BY <1>1, <1>2, <1>3

LEMMA StaysAfforded ==
  ASSUME NEW a \in Nat, NEW u \in Nat, NEW grant \in Nat, NEW gain \in Nat,
         NEW u1 \in Nat, NEW grant1 \in Nat,
         a + u <= grant, u1 <= u + gain, grant + gain <= grant1
  PROVE  a + u1 <= grant1
OBVIOUS

LEMMA AffordedGranted ==
  ASSUME TypeOK, TypeOK', NEW e \in Entry, log' = Append(log, e), UNCHANGED <<attempts, pos, pc>>,
         \A m \in Msgs : m # e.msg => replays'[m] = replays[m],
         \/ replays'[e.msg] = replays[e.msg] + 1
         \/ replays' = replays /\ ~ Published(e.msg),
         Afforded
  PROVE  Afforded'
<1> SUFFICES ASSUME NEW m \in Msgs
             PROVE  attempts'[m] + Cardinality(Unspent(m)') <= Grant(m)'
  BY DEF Afforded
<1> DEFINE B == IF m = e.msg THEN {Len(log) + 1} \X (e.retries .. MaxRetries) ELSE {}
<1>1. /\ \A t \in Unspent(m)' : t \in Unspent(m) \/ t \in B
      /\ Published(m)' <=> Published(m) \/ m = e.msg
  BY UnspentAdded DEF AtWork
<1> DEFINE gain == IF m = e.msg THEN MaxRetries + 1 ELSE 0
<1>2. IsFiniteSet(B) /\ Cardinality(B) <= gain /\ gain \in Nat
  <2>1. e.retries \in 0 .. MaxRetries /\ MaxRetries \in Nat
    BY ConsumerAssumption DEF Entry, Retries
  <2>2. CASE m = e.msg
    <3> DEFINE C == {Len(log) + 1} \X (e.retries .. MaxRetries)
    <3>1. IsFiniteSet(C) /\ Cardinality(C) \in 0 .. MaxRetries + 1
      BY <2>1, CallsOfEntry
    <3>2. B = C /\ gain = MaxRetries + 1
      BY <2>2
    <3> HIDE DEF B, C, gain
    <3> QED
      BY <2>1, <3>1, <3>2
  <2>3. CASE m # e.msg
    BY <2>3, FS_EmptySet
  <2> QED
    BY <2>2, <2>3
<1> HIDE DEF B
<1>3. Unspent(m)' \subseteq (Unspent(m) \ {}) \cup B
  BY <1>1
<1>4. /\ Cardinality(Unspent(m)') <= Cardinality(Unspent(m)) - Cardinality({}) + Cardinality(B)
      /\ Cardinality(Unspent(m)') \in Nat /\ Cardinality(Unspent(m)) \in Nat
      /\ Cardinality(B) \in Nat
  <2>1. Exchange(Unspent(m), {}, B, Unspent(m)')
    BY <1>2, <1>3, UnspentFinite DEF Exchange
  <2> QED
    BY <2>1, Exchanged
<1>5. Cardinality({}) = 0
  BY FS_EmptySet
<1>6. attempts[m] + Cardinality(Unspent(m)) <= Grant(m) /\ attempts'[m] = attempts[m]
  BY DEF Afforded
<1>7. attempts[m] \in Nat /\ replays[m] \in Nat /\ replays'[m] \in Nat /\ MaxRetries \in Nat
  BY ConsumerAssumption DEF TypeOK, CountType
<1> DEFINE k == MaxRetries + 1
<1>8. /\ k \in Nat
      /\ Grant(m) = IF Published(m) THEN k * (1 + replays[m]) ELSE 0
      /\ Grant(m)' = IF Published(m)' THEN k * (1 + replays'[m]) ELSE 0
  BY <1>7 DEF Grant
<1>9. /\ k * (1 + replays[m]) \in Nat /\ k * (1 + replays'[m]) \in Nat
      /\ k <= k * (1 + replays[m])
      /\ k * (1 + (replays[m] + 1)) = k * (1 + replays[m]) + k
  BY <1>7, <1>8, Granted
<1>10. gain = IF m = e.msg THEN k ELSE 0
  OBVIOUS
<1> HIDE DEF k, gain
<1>11. Grant(m)' >= Grant(m) + gain /\ Grant(m) \in Nat /\ Grant(m)' \in Nat
  <2>1. CASE m # e.msg
    <3>1. gain = 0 /\ replays'[m] = replays[m] /\ (Published(m)' <=> Published(m))
      BY <2>1, <1>1, <1>10
    <3>2. Grant(m)' = Grant(m) /\ Grant(m) \in Nat
      BY <3>1, <1>8, <1>9
    <3> QED
      BY <3>1, <3>2
  <2>2. CASE m = e.msg /\ replays'[m] = replays[m] + 1
    <3>1. Grant(m)' = k * (1 + replays[m]) + k /\ gain = k
      BY <2>2, <1>1, <1>8, <1>9, <1>10
    <3>2. Grant(m) <= k * (1 + replays[m]) /\ Grant(m) \in Nat
      BY <1>8, <1>9
    <3> QED
      BY <3>1, <3>2, <1>8, <1>9
  <2>3. CASE m = e.msg /\ replays' = replays /\ ~ Published(m)
    <3>1. Grant(m)' = k * (1 + replays[m]) /\ gain = k /\ Grant(m) = 0
      BY <2>3, <1>1, <1>8, <1>10
    <3> QED
      BY <3>1, <1>8, <1>9
  <2> QED
    BY <2>1, <2>2, <2>3
<1>12. /\ Cardinality(Unspent(m)') <= Cardinality(Unspent(m)) + gain
       /\ Cardinality(Unspent(m)') \in Nat /\ Cardinality(Unspent(m)) \in Nat
  <2>1. /\ Cardinality(Unspent(m)') \in Nat /\ Cardinality(Unspent(m)) \in Nat
        /\ Cardinality(B) \in Nat
    BY <1>4
  <2>2. Cardinality(Unspent(m)') <= Cardinality(Unspent(m)) - 0 + Cardinality(B)
    BY <1>4, <1>5
  <2> QED
    BY <2>1, <2>2, <1>2
<1> QED
  BY <1>2, <1>6, <1>7, <1>11, <1>12, StaysAfforded

\* What the entry had left goes to the copy.
LEMMA AffordedRequeue ==
  ASSUME Support, TypeOK', Requeue, Afforded
  PROVE  Afforded'
<1> SUFFICES ASSUME NEW m \in Msgs
             PROVE  attempts'[m] + Cardinality(Unspent(m)') <= Grant(m)'
  BY DEF Afforded
<1>a. TypeOK /\ TypeOK'
  BY DEF Support
<1> DEFINE e == Requeued(Current)
           a == Current.retries + 1
           A == {pos} \X (a .. MaxRetries)
           B == {Len(log) + 1} \X (a .. MaxRetries)
<1>1. /\ pc = "requeueing" /\ pc' = "pausing" /\ log' = Append(log, e)
      /\ UNCHANGED <<attempts, pos, replays>>
  BY DEF Requeue, Add
<1>2. /\ e \in Entry /\ e.msg = Current.msg /\ e.retries = a /\ a \in 0 .. MaxRetries
      /\ Current.msg \in Msgs /\ pos \in Ids /\ Current.retries \in 0 .. MaxRetries
  <2>1. e \in Entry /\ e.msg = Current.msg /\ e.retries = a
    BY <1>1, RequeuedType DEF Requeued
  <2>2. a \in 0 .. MaxRetries
    BY <2>1 DEF Entry, Retries
  <2>3. Current.msg \in Msgs /\ pos \in Ids /\ Current.retries \in 0 .. MaxRetries
    BY <1>1, CurrentType DEF Support
  <2> HIDE DEF e, a
  <2> QED
    BY <2>1, <2>2, <2>3
<1>3. AtWork /\ ~ AtWork'
  BY <1>1 DEF AtWork
<1>e. \E e1 \in Entry : e1 = e /\ e1.retries = a /\ e1.msg = Current.msg
  BY <1>2
<1>4. /\ \A t \in Unspent(m)' :
           \/ t \in Unspent(m) /\ t[1] # pos
           \/ m = Current.msg /\ t \in B
      /\ Published(m)' <=> Published(m) \/ m = Current.msg
  <2>1. PICK e1 \in Entry : e1 = e /\ e1.retries = a /\ e1.msg = Current.msg
    BY <1>e
  <2>2. log' = Append(log, e1)
    BY <1>1, <2>1
  <2>3. /\ \A t \in Unspent(m)' :
             \/ t \in Unspent(m) /\ (t[1] = pos => AtWork')
             \/ m = e1.msg /\ t \in {Len(log) + 1} \X (e1.retries .. MaxRetries)
        /\ Published(m)' <=> Published(m) \/ m = e1.msg
    BY <1>a, <1>1, <1>3, <2>2, UnspentAdded
  <2> HIDE DEF e, a
  <2> QED
    BY <1>3, <2>1, <2>3
<1>5. Published(Current.msg)
  BY <1>2 DEF Published, Current
<1>6. Grant(m)' = Grant(m)
  <2>1. Published(m)' <=> Published(m)
    BY <1>4, <1>5
  <2> QED
    BY <2>1, <1>1 DEF Grant
<1>7. attempts[m] \in Nat /\ Grant(m) \in Nat
  BY <1>a, ConsumerAssumption DEF TypeOK, CountType, Grant
<1>8. attempts[m] + Cardinality(Unspent(m)) <= Grant(m) /\ attempts'[m] = attempts[m]
  BY <1>1 DEF Afforded
<1>9. Cardinality(Unspent(m)') <= Cardinality(Unspent(m))
      /\ Cardinality(Unspent(m)') \in Nat /\ Cardinality(Unspent(m)) \in Nat
  <2>1. CASE m = Current.msg
    <3>1. A \in SUBSET Unspent(m)
      <4>1. SUFFICES ASSUME NEW t \in A
                     PROVE  t \in Unspent(m)
        OBVIOUS
      <4>2. t[1] = pos /\ t[2] \in a .. MaxRetries /\ t = <<pos, t[2]>>
        OBVIOUS
      <4>3. t[2] \in Retries /\ Current.retries < t[2]
        BY <4>2, <1>2, ConsumerAssumption DEF Retries
      <4>4. t \in Ids \X Retries
        BY <4>2, <4>3, <1>2
      <4> QED
        BY <4>2, <4>3, <4>4, <1>3, <2>1 DEF Unspent, Current
    <3>2. /\ IsFiniteSet(A) /\ IsFiniteSet(B)
          /\ Cardinality(A) = MaxRetries - a + 1 /\ Cardinality(B) = MaxRetries - a + 1
      BY <1>2, CallsOfEntry
    <3>3. Unspent(m)' \subseteq (Unspent(m) \ A) \cup B
      <4>1. \A t \in A : t[1] = pos
        OBVIOUS
      <4> QED
        BY <4>1, <1>4
    <3> HIDE DEF A, B
    <3>4. /\ Cardinality(Unspent(m)')
               <= Cardinality(Unspent(m)) - Cardinality(A) + Cardinality(B)
          /\ Cardinality(Unspent(m)') \in Nat /\ Cardinality(Unspent(m)) \in Nat
          /\ Cardinality(A) \in Nat /\ Cardinality(B) \in Nat
      <4>1. Exchange(Unspent(m), A, B, Unspent(m)')
        BY <1>a, <3>1, <3>2, <3>3, UnspentFinite DEF Exchange
      <4> QED
        BY <4>1, Exchanged
    <3>5. Cardinality(A) = Cardinality(B)
      BY <3>2
    <3> QED
      BY <3>4, <3>5
  <2>2. CASE m # Current.msg
    <3>1. Unspent(m)' \subseteq Unspent(m)
      BY <2>2, <1>4
    <3> QED
      BY <1>a, <3>1, UnspentFinite, FS_Subset, FS_CardinalityType
  <2> QED
    BY <2>1, <2>2
<1> QED
  BY <1>6, <1>7, <1>8, <1>9

LEMMA AffordedPublish ==
  ASSUME TypeOK, TypeOK', NEW m \in Msgs, Publish(m), Afforded
  PROVE  Afforded'
<1> DEFINE e == [msg |-> m, retries |-> 0]
<1>1. e \in Entry /\ e.msg = m
  BY ConsumerAssumption DEF Entry, Retries
<1>2. /\ log' = Append(log, e) /\ ~ Published(m)
      /\ UNCHANGED <<attempts, pos, pc, replays>>
  BY DEF Publish, Add, agentVars
<1> HIDE DEF e
<1> QED
  BY <1>1, <1>2, AffordedGranted

LEMMA AffordedReplay ==
  ASSUME TypeOK, TypeOK', NEW r \in Replayers, ReplayAdd(r), Afforded
  PROVE  Afforded'
<1>1. PICK letter \in replay[r].batch :
        /\ log' = Append(log, [msg |-> letter.msg, retries |-> letter.retries])
        /\ replays' = [replays EXCEPT ![letter.msg] = @ + 1]
  BY DEF ReplayAdd, Add
<1> DEFINE e == [msg |-> letter.msg, retries |-> letter.retries]
<1>2. letter \in Letter
  BY LetterTypes
<1>3. e \in Entry /\ e.msg = letter.msg /\ letter.msg \in Msgs
  BY <1>2 DEF Letter, Entry
<1>4. UNCHANGED <<attempts, pos, pc>> /\ log' = Append(log, e)
  BY <1>1 DEF ReplayAdd, agentVars
<1>5. /\ replays'[letter.msg] = replays[letter.msg] + 1
      /\ \A m \in Msgs : m # letter.msg => replays'[m] = replays[m]
  BY <1>1, <1>3 DEF TypeOK, CountType
<1> HIDE DEF e
<1> QED
  BY <1>3, <1>4, <1>5, AffordedGranted

\* Publishing, replaying, requeueing and taking apart, a step leaves the stream's entries
\* and the counters alone and moves the iterator forward only.
LEMMA CountingChanges ==
  ASSUME Support, [Next]_vars
  PROVE  \/ \E m \in Msgs : Publish(m)
         \/ Requeue \/ Take \/ \E r \in Replayers : ReplayAdd(r)
         \/ /\ UNCHANGED <<log, attempts, replays>>
            /\ pos' >= pos /\ (AtWork' => AtWork /\ pos' = pos)
<1>a. /\ pos \in Nat /\ cursor \in Nat /\ pos <= cursor /\ cursor <= Len(log)
      /\ Len(log) \in Nat
  BY LengthType DEF Support, TypeOK, GroupType
<1>1. \/ \E m \in Msgs : Publish(m)
      \/ Requeue \/ Take \/ \E r \in Replayers : ReplayAdd(r)
      \/ UNCHANGED <<log, attempts, replays>>
  BY DEF Next, vars, ConsumerStep, ReplayStep, Trim, Boot, Poll, SkipHalted, HandleOk,
         HandleOkStatsFail, HandleFail, HandleExhausted, PauseEnds, RecordFailure, ReportRaises,
         AckStep, AckRaises, Cancel, Kill, Halt, Resume, ClearDlq, TrimDlq, StartReplay,
         ReadLetters, ReplayDelete, ReplayKilled, streamVars, histVars
<1>2. ~ Requeue /\ ~ Take => pos' >= pos
  <2>1. CASE Boot
    BY <2>1, <1>a DEF Boot, FirstCursor
  <2>2. CASE Poll
    <3>1. pos' \in {ReadFrom, ReadTo} /\ pos = cursor /\ ReadFrom < Len(log)
      BY <2>2 DEF Poll
    <3>2. ReadFrom \in cursor .. Len(log) /\ ReadTo \in ReadFrom + 1 .. Len(log)
      BY <3>1, ReadRange DEF Support
    <3> QED
      BY <3>1, <3>2, <1>a
  <2>3. CASE SkipHalted
    BY <2>3, <1>a DEF SkipHalted
  <2>4. CASE AckStep \/ pos' = pos
    BY <2>4, <1>a DEF AckStep
  <2> QED
    BY <2>1, <2>2, <2>3, <2>4, GroupChanges
<1>3. ~ Take /\ AtWork' => AtWork
  BY LoopChanges DEF AtWork, Boot, HandleOk, HandleOkStatsFail, HandleFail, HandleExhausted,
     Requeue, PauseEnds, RecordFailure, ReportRaises, AckStep, AckRaises, Cancel, Kill
<1>4. AtWork => pos' = pos
  BY PosStays DEF AtWork
<1> QED
  BY <1>1, <1>2, <1>3, <1>4

LEMMA AttemptsStep == AttemptsInv /\ [Next]_vars => AttemptsInv'
<1> SUFFICES ASSUME AttemptsInv, [Next]_vars PROVE AttemptsInv'
  OBVIOUS
<1>1. IInv /\ IInv' /\ Support /\ TypeOK /\ TypeOK' /\ Afforded
  BY Inductive DEF AttemptsInv, IInv, Support
<1>2. ASSUME UNCHANGED <<log, attempts, replays>>, pos' >= pos, AtWork' => AtWork /\ pos' = pos
      PROVE  Afforded'
  <2>1. pos' \in Nat
    BY <1>1 DEF TypeOK, GroupType
  <2> QED
    BY <1>1, <1>2, <2>1, UnspentShrinks
<1>3. Afforded'
  BY <1>1, <1>2, CountingChanges, AffordedPublish, AffordedReplay, AffordedRequeue, AffordedTake
<1> QED
  BY <1>1, <1>3 DEF AttemptsInv

\* However a message travels, by requeues after LLMExhausted, by kills between a handler and
\* its XACK, by any number of replays at once, handle() is called for it MaxRetries + 1 times
\* at most, and as many times more for each letter of it that was replayed: the counter in
\* the payload bounds them all (base.py:198-224, routes/dlq.py).
THEOREM AttemptsBoundedAlways == Spec => []AttemptsBounded
<1>1. Init => AttemptsInv
  <2> SUFFICES ASSUME Init PROVE AttemptsInv
    OBVIOUS
  <2>1. Ids = {} /\ \A m \in Msgs : attempts[m] = 0
    BY EmptySeq DEF Init, Ids
  <2>2. \A m : Unspent(m) = {} /\ Grant(m) = 0
    BY <2>1 DEF Unspent, Grant, Published
  <2> QED
    BY <2>1, <2>2, InitSupport, FS_EmptySet DEF AttemptsInv, Afforded
<1>2. AttemptsInv => AttemptsBounded
  <2> SUFFICES ASSUME AttemptsInv, NEW m \in Msgs
               PROVE  attempts[m] <= (MaxRetries + 1) * (1 + replays[m])
    BY DEF AttemptsBounded
  <2>1. TypeOK /\ attempts[m] + Cardinality(Unspent(m)) <= Grant(m)
    BY DEF AttemptsInv, IInv, Support, Afforded
  <2>2. attempts[m] \in Nat /\ replays[m] \in Nat /\ MaxRetries + 1 \in Nat
    BY <2>1, ConsumerAssumption DEF TypeOK, CountType
  <2>3. (MaxRetries + 1) * (1 + replays[m]) \in Nat
    BY <2>2, Granted
  <2>4. Grant(m) \in Nat /\ Grant(m) <= (MaxRetries + 1) * (1 + replays[m])
    BY <2>3 DEF Grant
  <2>5. Cardinality(Unspent(m)) \in Nat
    BY <2>1, UnspentFinite
  <2> HIDE DEF Grant
  <2> QED
    BY <2>1, <2>2, <2>3, <2>4, <2>5
<1> QED
  BY <1>1, AttemptsStep, <1>2, PTL DEF Spec
=============================================================================
