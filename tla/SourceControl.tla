----------------------------- MODULE SourceControl -----------------------------
(***************************************************************************)
(* A source of the scraper (plata/agents/scraper/runner.py, _poll_loop)    *)
(* and everything that stops or restarts it: the kill switch of            *)
(* HaltControl, the user on the workflow page and on the news page         *)
(* (plata/dashboard/routes/workflow.py, news.py), the sweep at the end of  *)
(* /api/resume and the health watchdog (plata/dashboard/app.py).           *)
(*                                                                         *)
(* All of them write the two fields of one hash, status and halted_by; the *)
(* news page writes the first of them only, after a look at it.            *)
(* The sources do not share anything but the scraper's flag, so one stands *)
(* for all.  Every start of the scraper makes a poll loop; a loop ends     *)
(* with its process and not with the agent that made it.                   *)
(***************************************************************************)
EXTENDS HaltControl

CONSTANTS
  Scraper,    \* the agent that polls
  MaxCancels  \* bound of the model: cancellations by the user

ASSUME SourceAssumption == Scraper \in Agents /\ MaxCancels \in Nat

VARIABLES
  flag,     \* scraper:source:<name>, [status, by]
  loops,    \* the poll loops, oldest first, [pc, halted]: halted is the flag an
            \* abandoned loop was left with
  sweep,    \* per sweeper: where it is
  pressed,  \* a button of the news page: the status it is about to write, or "none"
  cancel,   \* history: the user's last word: none, clean or raced of the workflow page
            \* (raced: something was under way, or the system halted), paged of the news page
  ncancels

sourceVars == <<flag, loops, sweep, pressed, cancel, ncancels>>
vars == <<haltVars, sourceVars>>

Watchdog == "watchdog"
Sweepers == Requests \cup {Watchdog}

TypeOK ==
  /\ HaltTypeOK
  /\ flag \in [status : {"", "idle", "polling", "error", "halted"}, by : {"", "user", "system"}]
  /\ loops \in Seq([pc : {"top", "marking", "starting", "polling", "ended"},
                      halted : BOOLEAN])
  /\ sweep \in [Sweepers -> {"idle", "looking", "clearing"}]
  /\ pressed \in {"none", "idle", "halted"}
  /\ cancel \in {"none", "clean", "raced", "paged"}
  /\ ncancels \in 0 .. MaxCancels

Init ==
  /\ HaltInit
  /\ flag = [status |-> "", by |-> ""]
  /\ loops = <<>>
  /\ sweep = [k \in Sweepers |-> "idle"]
  /\ pressed = "none" /\ cancel = "none" /\ ncancels = 0

-----------------------------------------------------------------------------
(***************************************************************************)
(* The poll loop.                                                          *)
(***************************************************************************)

Abandoned(i) == i < Len(loops) \/ agent[Scraper].pc \in {"new", "dead"}

Stopped(i) == IF Abandoned(i) THEN loops[i].halted ELSE agent[Scraper].halted

LoopTo(i, pc) == loops' = [loops EXCEPT ![i].pc = pc]

\* The flag is looked at, then the hash is written: whatever halted_by it holds.
SeeHalt(i) ==
  /\ loops[i].pc = "top" /\ Stopped(i)
  /\ LoopTo(i, "marking")
  /\ UNCHANGED <<haltVars, flag, sweep, pressed, cancel, ncancels>>

MarkHalted(i) ==
  /\ loops[i].pc = "marking"
  /\ flag' = [status |-> "halted", by |-> "system"]
  /\ cancel' = IF cancel = "clean" THEN "raced" ELSE cancel
  /\ LoopTo(i, "top")
  /\ UNCHANGED <<haltVars, sweep, pressed, ncancels>>

\* Broken variant of ReadsHalted: the status is not looked at.
ReadsHaltedNever == FALSE

ReadsHalted == flag.status = "halted"

\* HGET status; a halted source is looked at again after five seconds.
SeeStatus(i) ==
  /\ loops[i].pc = "top" /\ ~ Stopped(i)
  /\ ~ ReadsHalted
  /\ LoopTo(i, "starting")
  /\ UNCHANGED <<haltVars, flag, sweep, pressed, cancel, ncancels>>

StartPoll(i) ==
  /\ loops[i].pc = "starting"
  /\ flag' = [flag EXCEPT !.status = "polling"]
  /\ LoopTo(i, "polling")
  /\ UNCHANGED <<haltVars, sweep, pressed, cancel, ncancels>>

\* Ninety seconds at most; the status is overwritten, halted_by is not.  The wait that
\* follows ends early for a halt or a forced run, and changes nothing.
EndPoll(i) ==
  /\ loops[i].pc = "polling"
  /\ \E status \in {"idle", "error"} : flag' = [flag EXCEPT !.status = status]
  /\ LoopTo(i, "top")
  /\ UNCHANGED <<haltVars, sweep, pressed, cancel, ncancels>>

\* The loop's own reads and writes are outside its try, or in its except: one that fails
\* ends the loop for good, while the agent lives on.
LoopEnds(i) ==
  /\ loops[i].pc # "ended"
  /\ nfaults < MaxFaults
  /\ nfaults' = nfaults + 1
  /\ LoopTo(i, "ended")
  /\ UNCHANGED <<state, agent, inbox, request, logged, watcher, apart, muddled, ncommands,
                 flag, sweep, pressed, cancel, ncancels>>

\* The scraper's setup starts a loop before its halt subscriber reads the state.
BootScraper ==
  /\ Boot(Scraper)
  /\ loops' = Append(loops, [pc |-> "top", halted |-> FALSE])
  /\ UNCHANGED <<flag, sweep, pressed, cancel, ncancels>>

\* With its process every loop ends; the failure of the agent alone leaves them.
KillScraper ==
  /\ Die(Scraper)
  /\ loops' = <<>>
  /\ UNCHANGED <<flag, sweep, pressed, cancel, ncancels>>

CrashScraper ==
  /\ Die(Scraper)
  /\ loops' = [loops EXCEPT ![Len(loops)].halted = agent[Scraper].halted]
  /\ UNCHANGED <<flag, sweep, pressed, cancel, ncancels>>

-----------------------------------------------------------------------------
(***************************************************************************)
(* The user, and the two sweeps.                                           *)
(***************************************************************************)

\* Somebody is past its look at the hash and will write to it.
UnderWay ==
  \/ \E i \in DOMAIN loops : loops[i].pc \in {"starting", "polling"}
  \/ \E k \in Sweepers : sweep[k] = "clearing"
  \/ pressed # "none"

CancelSource ==
  /\ ncancels < MaxCancels
  /\ ncancels' = ncancels + 1
  /\ flag' = [status |-> "halted", by |-> "user"]
  /\ cancel' = IF UnderWay THEN "raced" ELSE "clean"
  /\ UNCHANGED <<haltVars, loops, sweep, pressed>>

Cleared == [status |-> "idle", by |-> ""]

\* The button of one source; that of all sources does it to the halted ones, and the
\* sysop to one that has published nothing, without looking who halted it.
ResumeSource ==
  /\ flag' = Cleared
  /\ cancel' = "none"
  /\ UNCHANGED <<haltVars, loops, sweep, pressed, ncancels>>

\* The news page: HGET status, then HSET status, and halted_by stays what it is.
PressToggle ==
  /\ pressed = "none"
  /\ \/ flag.status = "halted" /\ pressed' = "idle" /\ UNCHANGED ncancels
     \/ /\ flag.status # "halted" /\ pressed' = "halted"
        /\ ncancels < MaxCancels /\ ncancels' = ncancels + 1
  /\ UNCHANGED <<haltVars, flag, loops, sweep, cancel>>

\* A forced run takes a halt off; on any other source it only ends the wait.
PressRunNow ==
  /\ pressed = "none" /\ flag.status = "halted"
  /\ pressed' = "idle"
  /\ UNCHANGED <<haltVars, flag, loops, sweep, cancel, ncancels>>

WritePressed ==
  /\ pressed # "none"
  /\ flag' = [flag EXCEPT !.status = pressed]
  /\ cancel' = IF pressed = "halted" THEN "paged" ELSE "none"
  /\ pressed' = "none"
  /\ UNCHANGED <<haltVars, loops, sweep, ncancels>>

\* A kill ends with its SET; a resume goes on to the sources.
EndRequest(r) ==
  /\ WriteState(r)
  /\ sweep' = IF request[r] = "resume" THEN [sweep EXCEPT ![r] = "looking"] ELSE sweep
  /\ UNCHANGED <<flag, loops, pressed, cancel, ncancels>>

\* The watchdog's round: GET system:state, then the hashes.
StartRound ==
  /\ sweep[Watchdog] = "idle"
  /\ state # "HALTED"
  /\ sweep' = [sweep EXCEPT ![Watchdog] = "looking"]
  /\ UNCHANGED <<haltVars, flag, loops, pressed, cancel, ncancels>>

\* Broken variant of BySystem: a halt the system did not sign is left alone.
BySystemUnsigned == flag.status = "halted" /\ flag.by = ""

BySystem == flag.status = "halted" /\ flag.by # "user"

LookAtSource(k) ==
  /\ sweep[k] = "looking"
  /\ sweep' = [sweep EXCEPT ![k] = IF BySystem THEN "clearing" ELSE "idle"]
  /\ UNCHANGED <<haltVars, flag, loops, pressed, cancel, ncancels>>

ClearSource(k) ==
  /\ sweep[k] = "clearing"
  /\ flag' = Cleared
  /\ sweep' = [sweep EXCEPT ![k] = "idle"]
  /\ UNCHANGED <<haltVars, loops, pressed, cancel, ncancels>>

-----------------------------------------------------------------------------
HaltStep ==
  /\ \/ \E a \in Agents \ {Scraper} : Boot(a) \/ Die(a)
     \/ \E a \in Agents : Follow(a) \/ Disconnect(a)
     \/ \E r \in Requests, kind \in Kinds : sweep[r] = "idle" /\ Command(r, kind)
     \/ Notice
  /\ UNCHANGED sourceVars

LoopStep(i) ==
  SeeHalt(i) \/ MarkHalted(i) \/ SeeStatus(i) \/ StartPoll(i) \/ EndPoll(i)

SweepStep(k) == LookAtSource(k) \/ ClearSource(k)

Next ==
  \/ HaltStep
  \/ BootScraper \/ KillScraper \/ CrashScraper
  \/ \E i \in DOMAIN loops : LoopStep(i) \/ LoopEnds(i)
  \/ CancelSource \/ ResumeSource
  \/ PressToggle \/ PressRunNow \/ WritePressed
  \/ \E r \in Requests : EndRequest(r)
  \/ StartRound
  \/ \E k \in Sweepers : SweepStep(k)

\* The current loop and the watchdog are endless asyncio tasks whose calls time out.
Current == loops # <<>> /\ LoopStep(Len(loops))

FairSpec ==
  /\ Init /\ [][Next]_vars
  /\ WF_vars(Current)
  /\ WF_vars(StartRound) /\ WF_vars(SweepStep(Watchdog))

-----------------------------------------------------------------------------
(***************************************************************************)
(* Properties.                                                             *)
(***************************************************************************)

\* A source cancelled on the workflow page stays cancelled (workflow.py:556-563), whatever
\* loops, sweeps and the news page do, when nobody was past its look at the hash at that
\* moment and the system does not halt before the user, on either pressed, or the sysop resumes.
CancelHolds ==
  cancel = "clean" =>
    /\ flag = [status |-> "halted", by |-> "user"]
    /\ pressed # "halted"
    /\ \A i \in DOMAIN loops : loops[i].pc \notin {"starting", "polling"}

\* workflow.py:557-558, "checks this status on every tick and skips polling until you
\* re-enable it", and news.py:442, "Halt/resume a single source from the news page": a
\* source the user halted, on either pressed, is halted until the user says otherwise.
HaltedUntilResumed == cancel # "none" => flag.status = "halted"

Alone ==
  Len(loops) = 1 /\ loops[1].pc # "ended" /\ agent[Scraper].pc = "listening"

\* A source the system halted comes back (app.py:238-262): however the sweep of a
\* resume and the loop's last mark crossed, the source is polled again and again
\* once the system runs, unless it is halted in the user's name, a scraper that crashed left a
\* second loop behind, or a failed call to Redis ended the loop.
SourceComesBack ==
  <>[](Alone /\ ~ agent[Scraper].halted /\ state = "RUNNING" /\ flag # [status |-> "halted", by |-> "user"])
    => []<>(loops # <<>> /\ loops[Len(loops)].pc = "polling")

\* app.py:651, "User-cancelled sources keep their flag (they have halted_by=user)":
\* the sweep of a resume does not go on to clear one that was cancelled before.
CancelSurvivesResume ==
  \A r \in Requests : sweep[r] = "clearing" => cancel \notin {"clean", "raced"}
=============================================================================
