---------------------------- MODULE AgentConsumer ----------------------------
(***************************************************************************)
(* One Redis stream, its consumer group, and the agent that reads it:      *)
(* plata/core/bus.py (publish, consume, ack, to_dlq), the consume loop of  *)
(* plata/agents/base.py, the supervisor of plata/entrypoints.py and the    *)
(* dead-letter replay of plata/dashboard/routes/dlq.py.                    *)
(*                                                                         *)
(* The stream is a log of entries; an entry's index is its Redis id.  The  *)
(* group has delivered the entries up to cursor; the consumer's iterator   *)
(* has yielded the ones up to pos, so pos+1 .. cursor is the rest of the   *)
(* XREADGROUP batch, which lives in the memory of the process only.  pel   *)
(* is the group's pending entries list.  consume() reads with ">" alone:   *)
(* no step ever takes an entry out of pel other than XACK.                 *)
(***************************************************************************)
EXTENDS Naturals, Sequences, FiniteSets

CONSTANTS
  Msgs,        \* the messages the producers publish, each once
  MaxRetries,  \* LLM_EXHAUSTED_MAX_RETRIES
  BatchSize,   \* count of XREADGROUP
  ReplayBatch, \* count of the replay's XRANGE
  Replayers,   \* background replay tasks the dashboard may have running at once
  FaultKinds,  \* the disturbances of this instance, a subset of AllFaults
  MaxFaults,   \* bound of the model: disturbances in one behaviour
  MaxLen       \* bound of the model: no publish or replay onto a longer stream

AllFaults ==
  { "kill",    \* the process dies (container killed): its memory is gone
    "cancel",  \* the consume task is cancelled (SIGTERM, or a sibling task failed)
    "report",  \* an exception leaves the except block: capture, XADD or HINCRBY raises
    "stats",   \* handle() returned, then HINCRBY processed_total raised
    "ack",     \* XACK raises
    "halt",    \* the agent is halted while it consumes
    "trim",    \* the janitor trims the stream, or its dead-letter stream
    "clear",   \* an operator clears the dead-letter queue
    "restart", \* the dashboard restarts: its background tasks are gone
    "reply" }  \* XREADGROUP was carried out, its reply did not arrive

ASSUME ConsumerAssumption ==
  /\ MaxRetries \in Nat
  /\ BatchSize \in Nat \ {0}
  /\ ReplayBatch \in Nat \ {0}
  /\ MaxLen \in Nat
  /\ MaxFaults \in Nat
  /\ FaultKinds \subseteq AllFaults
  /\ IsFiniteSet(Replayers)

VARIABLES
  log,       \* the stream: sequence of [msg, retries]
  floor,     \* XTRIM removed the entries up to this id
  group,     \* the consumer group exists
  cursor,    \* last-delivered-id of the group
  pos,       \* the last entry the running iterator yielded
  pel,       \* pending entries list: delivered, not acknowledged
  pc,        \* where the consume loop is
  halted,    \* the agent's _halted event
  dlq,       \* dead-letter stream: set of [id, msg, retries]
  dlqNext,   \* the id the next dead letter gets
  replay,    \* per replay task: its phase and the rest of its batch
  fate,      \* history: what became of each entry
  failed,    \* history: the entries _record_failure was called for
  attempts,  \* history: calls of handle() per message
  done,      \* history: calls of handle() that returned, per message
  replays,   \* history: dead letters of each message added to the stream again
  happened,  \* history: the kinds of disturbance met so far
  nfaults    \* history: how many

streamVars == <<log, floor, group>>
groupVars  == <<cursor, pel>>
agentVars  == <<pos, pc, halted>>
dlqVars    == <<dlq, dlqNext, replay>>
histVars   == <<fate, failed, attempts, done, replays>>
faultVars  == <<happened, nfaults>>
vars == <<streamVars, groupVars, agentVars, dlqVars, histVars, faultVars>>

-----------------------------------------------------------------------------
Ids     == 1 .. Len(log)
Retries == 0 .. MaxRetries
Entry   == [msg : Msgs, retries : Retries]
Letter  == [id : Nat, msg : Msgs, retries : Retries]
Fates   == {"none", "ok", "dead", "requeued",
            "trimmed",  \* removed before the group read it
            "missed"}   \* older than the group
Phases  == {"idle", "reading", "adding", "deleting"}
Places  == {"down",        \* not running: the supervisor will start it again
            "idle",        \* between two messages
            "handling",    \* inside handle()
            "failing",     \* inside _record_failure
            "requeueing",  \* LLMExhausted, before publish_raw
            "pausing",     \* requeued, asleep for LLM_EXHAUSTED_PAUSE_SEC
            "acking",      \* in the finally block
            "dying"}       \* in the finally block, an exception pending

StreamType ==
  /\ log \in Seq(Entry)
  /\ fate \in Seq(Fates)
  /\ Len(fate) = Len(log)
  /\ floor \in 0 .. Len(log)
  /\ failed \subseteq Ids

GroupType ==
  /\ group \in BOOLEAN
  /\ cursor \in 0 .. Len(log)
  /\ pos \in 0 .. cursor
  /\ pel \subseteq 1 .. cursor

AgentType ==
  /\ pc \in Places
  /\ halted \in BOOLEAN

DlqType ==
  /\ dlq \subseteq Letter
  /\ dlqNext \in Nat
  /\ replay \in [Replayers -> [phase : Phases, batch : SUBSET Letter]]

CountType ==
  /\ attempts \in [Msgs -> Nat]
  /\ done \in [Msgs -> Nat]
  /\ replays \in [Msgs -> Nat]
  /\ happened \subseteq FaultKinds
  /\ nfaults \in 0 .. MaxFaults

TypeOK == StreamType /\ GroupType /\ AgentType /\ DlqType /\ CountType

Init ==
  /\ log = <<>> /\ floor = 0 /\ group = FALSE
  /\ cursor = 0 /\ pos = 0 /\ pel = {}
  /\ pc = "down" /\ halted = FALSE
  /\ dlq = {} /\ dlqNext = 1
  /\ replay = [r \in Replayers |-> [phase |-> "idle", batch |-> {}]]
  /\ fate = <<>>
  /\ failed = {}
  /\ attempts = [m \in Msgs |-> 0]
  /\ done = [m \in Msgs |-> 0]
  /\ replays = [m \in Msgs |-> 0]
  /\ happened = {} /\ nfaults = 0

\* The entry in the agent's hands.
Current == log[pos]

Room == Len(log) < MaxLen

\* XADD, while the entries before it keep the fates f.
Add(e, f) ==
  /\ log' = Append(log, e)
  /\ fate' = Append(f, "none")

\* A disturbance of this kind happens now.
Disturb(kind) ==
  /\ kind \in FaultKinds
  /\ nfaults < MaxFaults
  /\ happened' = happened \cup {kind}
  /\ nfaults' = nfaults + 1

-----------------------------------------------------------------------------
(***************************************************************************)
(* Producers and the stream.                                               *)
(***************************************************************************)

Published(m) == \E i \in Ids : log[i].msg = m

\* publish(): XADD of a new message.
Publish(m) ==
  /\ ~ Published(m)
  /\ Room
  /\ Add([msg |-> m, retries |-> 0], fate)
  /\ UNCHANGED <<floor, group, groupVars, agentVars, dlqVars,
                 failed, attempts, done, replays, faultVars>>

\* The janitor's XTRIM drops the oldest entries, delivered or not.
Trim ==
  \E f \in floor + 1 .. Len(log) :
    /\ Disturb("trim")
    /\ floor' = f
    /\ fate' = [i \in Ids |-> IF i > cursor /\ i <= f THEN "trimmed" ELSE fate[i]]
    /\ UNCHANGED <<log, group, groupVars, agentVars, dlqVars,
                   failed, attempts, done, replays>>

-----------------------------------------------------------------------------
(***************************************************************************)
(* The agent's consume loop.                                               *)
(***************************************************************************)

\* Broken variant of FirstCursor: every boot reads the stream from its start.
FirstCursorFromStart == 0

\* ensure_consumer_group: a new group starts behind the last entry ("$").
FirstCursor == IF group THEN cursor ELSE Len(log)

\* Broken variant of Boot: nobody restarts the agent.
BootOnce ==
  /\ pc = "down"
  /\ ~ group
  /\ pc' = "idle"
  /\ group' = TRUE
  /\ cursor' = FirstCursor
  /\ pos' = FirstCursor
  /\ fate' = [i \in Ids |-> "missed"]
  /\ UNCHANGED <<log, floor, pel, halted, dlqVars, failed, attempts, done, replays, faultVars>>

\* The supervisor starts a fresh agent object; it reads system:state at boot.
Boot ==
  /\ pc = "down"
  /\ pc' = "idle"
  /\ group' = TRUE
  /\ cursor' = FirstCursor
  /\ pos' = FirstCursor
  /\ halted' \in (IF "halt" \in happened THEN BOOLEAN ELSE {FALSE})
  /\ fate' = [i \in Ids |-> IF ~ group THEN "missed" ELSE fate[i]]
  /\ UNCHANGED <<log, floor, pel, dlqVars, failed, attempts, done, replays, faultVars>>

\* The id a read with ">" continues behind: trimmed entries are skipped.
ReadFrom == IF cursor < floor THEN floor ELSE cursor

ReadTo == IF Len(log) - ReadFrom <= BatchSize THEN Len(log) ELSE ReadFrom + BatchSize

\* XREADGROUP: the whole batch becomes pending at once.  When its reply is lost, the
\* except branch of consume() reads on behind the batch, which nobody has seen.
Poll ==
  /\ pc = "idle"
  /\ pos = cursor
  /\ ReadFrom < Len(log)
  /\ cursor' = ReadTo
  /\ pel' = pel \cup (ReadFrom + 1 .. ReadTo)
  /\ \/ pos' = ReadFrom /\ UNCHANGED faultVars
     \/ Disturb("reply") /\ pos' = ReadTo
  /\ UNCHANGED <<streamVars, pc, halted, dlqVars, histVars>>

\* A halted agent steps over the entry: no handle(), no XACK, no second read.
SkipHalted ==
  /\ pc = "idle"
  /\ pos < cursor
  /\ halted
  /\ pos' = pos + 1
  /\ UNCHANGED <<streamVars, groupVars, pc, halted, dlqVars, histVars, faultVars>>

Take ==
  /\ pc = "idle"
  /\ pos < cursor
  /\ ~ halted
  /\ pos' = pos + 1
  /\ pc' = "handling"
  /\ attempts' = [attempts EXCEPT ![log[pos + 1].msg] = @ + 1]
  /\ UNCHANGED <<streamVars, groupVars, halted, dlqVars,
                 fate, failed, done, replays, faultVars>>

HandleOk ==
  /\ pc = "handling"
  /\ pc' = "acking"
  /\ done' = [done EXCEPT ![Current.msg] = @ + 1]
  /\ fate' = [fate EXCEPT ![pos] = "ok"]
  /\ UNCHANGED <<streamVars, groupVars, pos, halted, dlqVars,
                 failed, attempts, replays, faultVars>>

\* handle() succeeded, the counter after it did not: the same except block.
HandleOkStatsFail ==
  /\ pc = "handling"
  /\ Disturb("stats")
  /\ pc' = "failing"
  /\ done' = [done EXCEPT ![Current.msg] = @ + 1]
  /\ fate' = [fate EXCEPT ![pos] = "ok"]
  /\ failed' = failed \cup {pos}
  /\ UNCHANGED <<streamVars, groupVars, pos, halted, dlqVars, attempts, replays>>

\* handle() raised, or raised LLMExhausted with its retries used up.
HandleFail ==
  /\ pc = "handling"
  /\ pc' = "failing"
  /\ failed' = failed \cup {pos}
  /\ UNCHANGED <<streamVars, groupVars, pos, halted, dlqVars,
                 fate, attempts, done, replays, faultVars>>

RetriesLeft(e) == e.retries < MaxRetries

\* Broken variant of HandleExhausted: the message is acknowledged, not requeued.
HandleExhaustedDropped ==
  /\ pc = "handling"
  /\ RetriesLeft(Current)
  /\ pc' = "acking"
  /\ UNCHANGED <<streamVars, groupVars, pos, halted, dlqVars, histVars, faultVars>>

HandleExhausted ==
  /\ pc = "handling"
  /\ RetriesLeft(Current)
  /\ pc' = "requeueing"
  /\ UNCHANGED <<streamVars, groupVars, pos, halted, dlqVars, histVars, faultVars>>

Requeued(e) == [msg |-> e.msg, retries |-> e.retries + 1]

\* publish_raw of the payload with its retry counter incremented, then sleep.
Requeue ==
  /\ pc = "requeueing"
  /\ Add(Requeued(Current), [fate EXCEPT ![pos] = "requeued"])
  /\ pc' = "pausing"
  /\ UNCHANGED <<floor, group, groupVars, pos, halted, dlqVars,
                 failed, attempts, done, replays, faultVars>>

PauseEnds ==
  /\ pc = "pausing"
  /\ pc' = "acking"
  /\ UNCHANGED <<streamVars, groupVars, pos, halted, dlqVars, histVars, faultVars>>

DeadLetter(e) == [id |-> dlqNext, msg |-> e.msg, retries |-> e.retries]

\* to_dlq: XADD of the dead letter.
ToDlq ==
  /\ dlq' = dlq \cup {DeadLetter(Current)}
  /\ dlqNext' = dlqNext + 1
  /\ fate' = [fate EXCEPT ![pos] = "dead"]
  /\ UNCHANGED replay

RecordFailure ==
  /\ pc = "failing"
  /\ ToDlq
  /\ pc' = "acking"
  /\ UNCHANGED <<streamVars, groupVars, pos, halted,
                 failed, attempts, done, replays, faultVars>>

\* The exception leaves the except block before (capture, XADD) or after
\* (HINCRBY dlq:stats) the dead letter is written; so may publish_raw's, and what the
\* warning about a first requeue raises.
ReportRaises ==
  /\ Disturb("report")
  /\ pc' = "dying"
  /\ \/ /\ pc \in {"failing", "requeueing"} \/ (pc = "pausing" /\ Current.retries = 0)
        /\ UNCHANGED <<dlqVars, fate>>
     \/ /\ pc = "failing"
        /\ ToDlq
  /\ UNCHANGED <<streamVars, groupVars, pos, halted, failed, attempts, done, replays>>

\* Broken variant of AckStep: only a message that was handled is acknowledged.
AckHandledOnly ==
  /\ pc \in {"acking", "dying"}
  /\ pel' = IF fate[pos] = "ok" THEN pel \ {pos} ELSE pel
  /\ pc' = IF pc = "acking" THEN "idle" ELSE "down"
  /\ UNCHANGED <<streamVars, cursor, pos, halted, dlqVars, histVars, faultVars>>

\* The finally block acknowledges whatever happened in the try.
AckStep ==
  /\ pc \in {"acking", "dying"}
  /\ pel' = pel \ {pos}
  /\ pc' = IF pc = "acking" THEN "idle" ELSE "down"
  /\ UNCHANGED <<streamVars, cursor, pos, halted, dlqVars, histVars, faultVars>>

AckRaises ==
  /\ pc \in {"acking", "dying"}
  /\ Disturb("ack")
  /\ pc' = "down"
  /\ UNCHANGED <<streamVars, groupVars, pos, halted, dlqVars, histVars>>

\* CancelledError runs the finally block, and only that.
Cancel ==
  /\ pc \in {"idle", "handling", "failing", "requeueing", "pausing"}
  /\ Disturb("cancel")
  /\ pc' = IF pc = "idle" THEN "down" ELSE "dying"
  /\ UNCHANGED <<streamVars, groupVars, pos, halted, dlqVars, histVars>>

Kill ==
  /\ pc # "down"
  /\ Disturb("kill")
  /\ pc' = "down"
  /\ UNCHANGED <<streamVars, groupVars, pos, halted, dlqVars, histVars>>

Halt ==
  /\ pc # "down"
  /\ ~ halted
  /\ Disturb("halt")
  /\ halted' = TRUE
  /\ UNCHANGED <<streamVars, groupVars, pos, pc, dlqVars, histVars>>

Resume ==
  /\ pc # "down"
  /\ halted
  /\ halted' = FALSE
  /\ UNCHANGED <<streamVars, groupVars, pos, pc, dlqVars, histVars, faultVars>>

-----------------------------------------------------------------------------
(***************************************************************************)
(* The dead-letter page: every POST .../replay starts a task of its own.   *)
(***************************************************************************)

SetReplay(r, phase, batch) ==
  replay' = [replay EXCEPT ![r] = [phase |-> phase, batch |-> batch]]

StartReplay(r) ==
  /\ replay[r].phase = "idle"
  /\ dlq # {}
  /\ SetReplay(r, "reading", {})
  /\ UNCHANGED <<streamVars, groupVars, agentVars, dlq, dlqNext, histVars, faultVars>>

OldestLetters == {e \in dlq : Cardinality({f \in dlq : f.id < e.id}) < ReplayBatch}

\* XRANGE from the start, until it comes back empty.
ReadLetters(r) ==
  /\ replay[r].phase = "reading"
  /\ IF dlq = {} THEN SetReplay(r, "idle", {}) ELSE SetReplay(r, "adding", OldestLetters)
  /\ UNCHANGED <<streamVars, groupVars, agentVars, dlq, dlqNext, histVars, faultVars>>

IsNext(e, batch) == e \in batch /\ \A f \in batch : e.id <= f.id

\* XADD to the original stream; the payload keeps its retry counter.
ReplayAdd(r) ==
  /\ replay[r].phase = "adding"
  /\ \E e \in replay[r].batch :
       /\ IsNext(e, replay[r].batch)
       /\ Room
       /\ Add([msg |-> e.msg, retries |-> e.retries], fate)
       /\ replays' = [replays EXCEPT ![e.msg] = @ + 1]
  /\ SetReplay(r, "deleting", replay[r].batch)
  /\ UNCHANGED <<floor, group, groupVars, agentVars, dlq, dlqNext,
                 failed, attempts, done, faultVars>>

\* Broken variant of ReplayDelete: XDEL names another id, the letter stays.
ReplayDeleteOther(r) ==
  /\ replay[r].phase = "deleting"
  /\ \E e \in replay[r].batch :
       /\ IsNext(e, replay[r].batch)
       /\ LET rest == {f \in replay[r].batch : f.id # e.id}
          IN  SetReplay(r, IF rest = {} THEN "reading" ELSE "adding", rest)
  /\ UNCHANGED <<streamVars, groupVars, agentVars, dlq, dlqNext, histVars, faultVars>>

\* XDEL, in a call of its own.
ReplayDelete(r) ==
  /\ replay[r].phase = "deleting"
  /\ \E e \in replay[r].batch :
       /\ IsNext(e, replay[r].batch)
       /\ dlq' = {f \in dlq : f.id # e.id}
       /\ LET rest == {f \in replay[r].batch : f.id # e.id}
          IN  SetReplay(r, IF rest = {} THEN "reading" ELSE "adding", rest)
  /\ UNCHANGED <<streamVars, groupVars, agentVars, dlqNext, histVars, faultVars>>

ReplayKilled(r) ==
  /\ replay[r].phase # "idle"
  /\ Disturb("restart")
  /\ SetReplay(r, "idle", {})
  /\ UNCHANGED <<streamVars, groupVars, agentVars, dlq, dlqNext, histVars>>

ClearDlq ==
  /\ dlq # {}
  /\ Disturb("clear")
  /\ dlq' = {}
  /\ UNCHANGED <<streamVars, groupVars, agentVars, dlqNext, replay, histVars>>

\* The janitor's XTRIM of the dead-letter stream.
TrimDlq ==
  \E e \in dlq :
    /\ Disturb("trim")
    /\ dlq' = {f \in dlq : f.id > e.id}
    /\ UNCHANGED <<streamVars, groupVars, agentVars, dlqNext, replay, histVars>>

-----------------------------------------------------------------------------
ConsumerStep ==
  \/ Boot \/ Poll \/ SkipHalted \/ Take
  \/ HandleOk \/ HandleFail \/ HandleExhausted
  \/ RecordFailure \/ Requeue \/ PauseEnds \/ AckStep

ReplayStep(r) == ReadLetters(r) \/ ReplayAdd(r) \/ ReplayDelete(r)

Next ==
  \/ \E m \in Msgs : Publish(m)
  \/ ConsumerStep
  \/ HandleOkStatsFail \/ ReportRaises \/ AckRaises
  \/ Cancel \/ Kill \/ Halt \/ Resume \/ Trim
  \/ ClearDlq \/ TrimDlq
  \/ \E r \in Replayers : StartReplay(r) \/ ReplayStep(r) \/ ReplayKilled(r)

Spec == Init /\ [][Next]_vars

\* asyncio runs a ready task, every handler returns or raises (its awaits have
\* timeouts), and the supervisor restarts for ever.  Nothing is assumed of the
\* operators, the producers or the replays.
FairSpec == Spec /\ WF_vars(ConsumerStep)

-----------------------------------------------------------------------------
(***************************************************************************)
(* Properties.                                                             *)
(***************************************************************************)

\* Acknowledged, yet neither handled, dead-lettered nor requeued.
Lost(i) == i <= cursor /\ i \notin pel /\ fate[i] = "none"

\* Nobody will look at the entry again: it is pending, yet neither in the hands
\* of the running agent nor in the rest of its batch.
Stranded(i) ==
  /\ i \in pel
  /\ \/ pc = "down"
     \/ i < pos
     \/ i = pos /\ pc = "idle"

Undisturbed(kinds) == happened \cap kinds = {}

\* As long as no cancellation hits the consume loop and the except block itself
\* does not raise, an acknowledged entry was handled, dead-lettered or requeued:
\* the XACK of the finally block (base.py:246) hides no failure.
NothingLost ==
  Undisturbed({"cancel", "report"}) => \A i \in Ids : ~ Lost(i)

\* An entry stays pending for ever (nothing reads the pending list) only after
\* the loop was interrupted between XREADGROUP and XACK, the reply of a read was lost,
\* or the agent was halted: neither a failing handler nor a requeue nor a replay or a
\* trim strands one.
StrandedOnlyByInterruption ==
  Undisturbed({"kill", "cancel", "report", "ack", "halt", "reply"}) =>
    \A i \in Ids : ~ Stranded(i)

\* bus.py:152-155, of a failing read: "The consumer group / pending list are unchanged
\* so we resume cleanly."  That a lost reply strands nothing is not so.
ResumesCleanly ==
  Undisturbed({"kill", "cancel", "report", "ack", "halt"}) =>
    \A i \in Ids : ~ Stranded(i)

\* With one replay task that is not cut short, no message is handled to the end
\* twice, whatever interrupts the consumer: a requeue, a dead letter and its
\* replay hand one copy on.  (A counter failing after handle() breaks it.)
HandledOnce ==
  Undisturbed({"stats", "restart"}) /\ Cardinality(Replayers) <= 1 =>
    \A m \in Msgs : done[m] <= 1

\* LLM_EXHAUSTED_MAX_RETRIES bounds the calls of handle(): one message costs at
\* most MaxRetries + 1 of them, and as many again for each replay of it.
AttemptsBounded ==
  \A m \in Msgs : attempts[m] <= (MaxRetries + 1) * (1 + replays[m])

\* docs/SPEC.md:45: "DLQ is the system of record for failed messages."  An
\* acknowledged entry whose handling failed is in the record.
FailureRecorded ==
  \A i \in failed : i \in pel \/ fate[i] = "dead"

\* Once the group exists, every entry of the stream is eventually dealt with,
\* or stranded by an interruption: the loop neither stops nor starves one.
EventuallySettled ==
  \A i \in 1 .. MaxLen * (MaxRetries + 1) :
    (i <= Len(log) /\ i > cursor)
      ~> (i <= Len(log) /\ (fate[i] # "none" \/ Stranded(i) \/ Lost(i)))

-----------------------------------------------------------------------------
(***************************************************************************)
(* Refinement.  The newest entry of a message tells where the message is.  *)
(***************************************************************************)

Newest(m) == CHOOSE i \in Ids :
               log[i].msg = m /\ \A j \in Ids : log[j].msg = m => j <= i

PlaceOfEntry(i) ==
  CASE fate[i] = "ok"                  -> "handled"
    [] fate[i] \in {"dead", "missed"} -> fate[i]
    [] OTHER -> IF Stranded(i) THEN "stranded" ELSE IF i > pos THEN "waiting" ELSE "working"

PlaceOf(m) == IF Published(m) THEN PlaceOfEntry(Newest(m)) ELSE "unsent"

Life == INSTANCE MessageLife WITH place <- [m \in Msgs |-> PlaceOf(m)]

\* The consumer keeps the promise of MessageLife: checked where no disturbance
\* duplicates a message or cuts a handler short while its entry is acknowledged.
LifeSpec == Life!Spec
=============================================================================
