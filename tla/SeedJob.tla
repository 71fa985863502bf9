------------------------------- MODULE SeedJob -------------------------------
(***************************************************************************)
(* Seeding the graph with historical events (agents/historian.py seed),    *)
(* started from a page and resumed after a restart of the dashboard        *)
(* (dashboard/routes/historian.py).  A job asks the model for one batch of *)
(* events after the other.  All it leaves behind for the next process, and *)
(* for the page that refuses a second start, is the hash                   *)
(* historian:status, which every job writes field by field.                *)
(***************************************************************************)
EXTENDS Naturals, FiniteSets

CONSTANTS
  Jobs,       \* tasks alive at a time
  MaxBatches,
  MaxStarts,  \* bound of the model: starts asked for
  MaxCrashes  \* bound of the model: failures, crashes and restarts

ASSUME SeedAssumption == IsFiniteSet(Jobs) /\ {MaxBatches, MaxStarts, MaxCrashes} \subseteq Nat

VARIABLES
  status,   \* the hash
  fresh,    \* its last progress is less than three minutes old
  job,      \* per task, its arguments and how far it is
  tried,    \* ghost: the batches asked for since a run began anew
  muddled,  \* ghost: two jobs, a dismissal or an early death confused the status
  nstarts,
  ncrashes

seedVars == <<status, fresh, job, tried, muddled, nstarts, ncrashes>>

None == [pc |-> "none"]
Alive(j) == job[j] # None
NoStatus == [state |-> "none", batches |-> 0, next |-> 0]
SeedState == {"none", "running", "done", "failed"}

SeedTypeOK ==
  /\ status \in [state : SeedState, batches : 0 .. MaxBatches, next : 0 .. MaxBatches]
  /\ fresh \in BOOLEAN /\ muddled \in BOOLEAN
  /\ \A j \in Jobs : Alive(j) => /\ job[j].pc \in {"placing", "reading", "writing", "top", "asking"}
                                 /\ job[j].batches \in 1 .. MaxBatches
                                 /\ job[j].at \in 0 .. MaxBatches
                                 /\ job[j].resume \in BOOLEAN
  /\ tried \subseteq 0 .. MaxBatches - 1
  /\ nstarts \in 0 .. MaxStarts /\ ncrashes \in 0 .. MaxCrashes

SeedInit ==
  /\ status = NoStatus /\ fresh = FALSE
  /\ job = [j \in Jobs |-> None]
  /\ tried = {} /\ muddled = FALSE
  /\ nstarts = 0 /\ ncrashes = 0

Crash == ncrashes < MaxCrashes /\ ncrashes' = ncrashes + 1

-----------------------------------------------------------------------------
(***************************************************************************)
(* The page.                                                               *)
(***************************************************************************)
\* _status: a run without progress for three minutes is shown as stale.
SaysRunning == status.state = "running" /\ fresh

NewJob(b, resume) == [pc |-> "placing", batches |-> b, at |-> 0, resume |-> resume]

\* The answer of _status is looked at, and a task is made, which writes later.
Start(j, b) ==
  /\ ~ Alive(j) /\ nstarts < MaxStarts
  /\ ~ SaysRunning
  /\ nstarts' = nstarts + 1
  /\ job' = [job EXCEPT ![j] = NewJob(b, FALSE)]
  /\ muddled' = (muddled \/ \E i \in Jobs : Alive(i))
  /\ UNCHANGED <<status, fresh, tried, ncrashes>>

\* The button that dismisses a run does not stop it.
Dismiss ==
  /\ status # NoStatus
  /\ status' = NoStatus /\ fresh' = FALSE
  /\ muddled' = (muddled \/ \E j \in Jobs : Alive(j))
  /\ UNCHANGED <<job, tried, nstarts, ncrashes>>

\* A batch of a slow model, or a job that is gone.
GrowsStale ==
  /\ fresh
  /\ \A j \in Jobs : Alive(j) => job[j].pc = "asking"
  /\ fresh' = FALSE
  /\ UNCHANGED <<status, job, tried, muddled, nstarts, ncrashes>>

-----------------------------------------------------------------------------
(***************************************************************************)
(* A job.                                                                  *)
(***************************************************************************)
At(j, pc) == Alive(j) /\ job[j].pc = pc
Goes(j, pc) == job' = [job EXCEPT ![j].pc = pc]
Ends(j) == job' = [job EXCEPT ![j] = None]

\* The placeholder does not name the next batch; an error while writing it is passed over.
Place(j) ==
  /\ At(j, "placing")
  /\ \/ status' = [status EXCEPT !.state = "running", !.batches = job[j].batches]
        /\ fresh' = TRUE /\ UNCHANGED ncrashes
     \/ Crash /\ UNCHANGED <<status, fresh>>
  /\ Goes(j, IF job[j].resume THEN "reading" ELSE "writing")
  /\ UNCHANGED <<tried, muddled, nstarts>>

ReadNext(j) ==
  /\ At(j, "reading")
  /\ job' = [job EXCEPT ![j].at = status.next, ![j].pc = "writing"]
  /\ UNCHANGED <<status, fresh, tried, muddled, nstarts, ncrashes>>

WriteStatus(j) ==
  /\ At(j, "writing")
  /\ status' = [state |-> "running", batches |-> job[j].batches, next |-> job[j].at]
  /\ fresh' = TRUE
  /\ Goes(j, "top")
  /\ IF job[j].resume THEN UNCHANGED <<tried, muddled>>
     ELSE tried' = {} /\ muddled' = (\E i \in Jobs \ {j} : Alive(i))
  /\ UNCHANGED <<nstarts, ncrashes>>

\* Broken variant of Mark: the batch is counted before it is asked for.
MarkAhead(n) == n + 1

Mark(n) == n

BatchBegin(j) ==
  /\ At(j, "top") /\ job[j].at < job[j].batches
  /\ status' = [status EXCEPT !.next = Mark(job[j].at)]
  /\ fresh' = TRUE
  /\ Goes(j, "asking")
  /\ UNCHANGED <<tried, muddled, nstarts, ncrashes>>

Next1(j) == job' = [job EXCEPT ![j].pc = "top", ![j].at = @ + 1]

\* The model answers: its events are written one by one, then the next batch is named.
BatchDone(j) ==
  /\ At(j, "asking")
  /\ tried' = tried \cup {job[j].at}
  /\ status' = [status EXCEPT !.next = job[j].at + 1]
  /\ fresh' = TRUE
  /\ Next1(j)
  /\ UNCHANGED <<muddled, nstarts, ncrashes>>

\* The model does not: the batch counts as failed, and is not asked for again.
BatchFails(j) ==
  /\ At(j, "asking")
  /\ Crash
  /\ tried' = tried \cup {job[j].at}
  /\ Next1(j)
  /\ UNCHANGED <<status, fresh, muddled, nstarts>>

JobDone(j) ==
  /\ At(j, "top") /\ job[j].at >= job[j].batches
  /\ status' = [status EXCEPT !.state = "done"]
  /\ Ends(j)
  /\ UNCHANGED <<fresh, tried, muddled, nstarts, ncrashes>>

\* Redis or the embedding fails in the middle, or a date of the form is none.
JobFails(j) ==
  /\ Alive(j) /\ job[j].pc # "placing"
  /\ Crash
  /\ \/ status' = [status EXCEPT !.state = "failed"]
     \/ UNCHANGED status
  /\ Ends(j)
  /\ UNCHANGED <<fresh, tried, muddled, nstarts>>

-----------------------------------------------------------------------------
(***************************************************************************)
(* A restart of the dashboard: _resume_if_interrupted, before any request. *)
(***************************************************************************)
\* A job that dies before it wrote where to begin: the status names the batch an older
\* run had come to.
Unwritten == \E j \in Jobs : Alive(j) /\ ~ job[j].resume /\ job[j].pc \in {"placing", "writing"}

Interrupted == status.state = "running" /\ status.batches > 0

Restart(j) ==
  /\ Crash
  /\ muddled' = (muddled \/ Unwritten)
  /\ IF Interrupted /\ status.next < status.batches
     THEN job' = [i \in Jobs |-> IF i = j THEN NewJob(status.batches, TRUE) ELSE None]
     ELSE job' = [i \in Jobs |-> None]
  /\ status' = IF Interrupted /\ status.next >= status.batches
               THEN [status EXCEPT !.state = "done"] ELSE status
  /\ UNCHANGED <<fresh, tried, nstarts>>

-----------------------------------------------------------------------------
JobStep(j) ==
  Place(j) \/ ReadNext(j) \/ WriteStatus(j) \/ BatchBegin(j) \/ BatchDone(j) \/ JobDone(j)

SeedNext ==
  \/ \E j \in Jobs :
       \/ \E b \in 1 .. MaxBatches : Start(j, b)
       \/ JobStep(j) \/ BatchFails(j) \/ JobFails(j) \/ Restart(j)
  \/ Dismiss \/ GrowsStale

SeedSpec == SeedInit /\ [][SeedNext]_seedVars

\* A run that is shown as done asked for each of its batches, whatever restarts it went
\* through (historian.py:61, "continue a previously-interrupted run. Skips batches we've
\* already completed"), unless two jobs ran at once (a second start before the first
\* task wrote, or after three quiet minutes), a running one was dismissed, or the
\* process died before a new run had written that it begins at the first batch.
EveryBatchTried ==
  status.state = "done" /\ ~ muddled => 0 .. status.batches - 1 \subseteq tried

=============================================================================
