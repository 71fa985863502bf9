-------------------------------- MODULE Sysop --------------------------------
(***************************************************************************)
(* The sysop (agents/sysop.py) and its page (dashboard/routes/sysop.py).   *)
(* A loop runs nine detectors in their order, files each finding under its *)
(* fingerprint, and runs the fix of a new row at once when the fix is on   *)
(* the list of safe ones; people apply, dismiss and resolve rows and       *)
(* change what the detectors look at meanwhile.  One source, one container *)
(* and one venue stand for all.                                            *)
(***************************************************************************)
EXTENDS Naturals, Sequences, FiniteSets

CONSTANTS
  Troubles,       \* what may go wrong, see Ills
  Clicks,         \* apply requests being served at a time
  NoFix,
  MaxSysopFaults  \* bound of the model: failing detectors, upserts and fixes

Ills == {"stale", "silent", "unpublished", "blocked", "limited", "errors", "crashes", "exhausted"}

Loop == "loop"

ASSUME SysopAssumption ==
  Troubles \subseteq Ills /\ MaxSysopFaults \in Nat /\ Loop \notin Clicks

VARIABLES
  trouble,  \* what is wrong now
  mode,     \* llm_config.mode
  source,   \* the source's flag: on or halted, by the system or by the user
  row,      \* per fingerprint, the newest row of sysop_findings
  lately,   \* fingerprints whose newest row was updated within the hour
  sweep,    \* the loop: the next detector, and findings not filed yet
  fixer,    \* who runs a fix: the loop or a request, and how far
  autos,    \* ghost: per fingerprint, fixes the loop ran within the hour
  nsysop

sysopVars == <<trouble, mode, source, row, lately, sweep, fixer, autos, nsysop>>

Fixers == Clicks \cup {Loop}
Resting == [pc |-> "rest"]
Fixing(w) == fixer[w] # Resting

Prints == {"stale_container", "news_silent", "zero_pub", "venue_blocked", "or402_paid",
           "repeated_err", "crashloop", "all_free_exhausted"}
Fixes == {"resume_source", "clear_venue_block", "set_llm_mode_auto"}

\* Those of AUTO_APPLY_SAFE that a detector can propose.
AutoApplySafe == {"resume_source", "set_llm_mode_auto"}

Finding == [print : Prints, fix : Fixes \cup {NoFix}]
FindingRow == [state : {"none", "new", "auto_applied", "aside"}, fix : Fixes \cup {NoFix}]

SysopTypeOK ==
  /\ trouble \subseteq Troubles
  /\ mode \in {"free", "auto", "paid"} /\ source \in {"on", "halted"}
  /\ row \in [Prints -> FindingRow] /\ lately \subseteq Prints
  /\ sweep.todo \subseteq Finding
  /\ \A w \in Fixers : Fixing(w) => fixer[w].print \in Prints /\ fixer[w].fix \in Fixes
  /\ nsysop \in 0 .. MaxSysopFaults

SysopInit ==
  /\ trouble = {} /\ mode \in {"free", "paid"} /\ source = "on"
  /\ row = [p \in Prints |-> [state |-> "none", fix |-> NoFix]] /\ lately = {}
  /\ sweep = [at |-> 1, todo |-> {}]
  /\ fixer = [w \in Fixers |-> Resting]
  /\ autos = [p \in Prints |-> 0] /\ nsysop = 0

SysopFault == nsysop < MaxSysopFaults /\ nsysop' = nsysop + 1

-----------------------------------------------------------------------------
(***************************************************************************)
(* What is looked at.  Troubles come and go by themselves.                 *)
(***************************************************************************)
GoesWrong(x) ==
  /\ x \in Troubles \ trouble
  /\ trouble' = trouble \cup {x}
  /\ UNCHANGED <<mode, source, row, lately, sweep, fixer, autos, nsysop>>

\* A source that is halted does not publish.
GoesRight(x) ==
  /\ x \in trouble
  /\ x = "unpublished" => source = "on"
  /\ trouble' = trouble \ {x}
  /\ UNCHANGED <<mode, source, row, lately, sweep, fixer, autos, nsysop>>

\* The settings page: PlatformSettings.
ChooseMode(m) ==
  /\ mode' = m /\ m # mode
  /\ UNCHANGED <<trouble, source, row, lately, sweep, fixer, autos, nsysop>>

\* SourceControl has the flag's writers one by one.
FlagSource(flag) ==
  /\ source' = flag /\ flag # source
  /\ UNCHANGED <<trouble, mode, row, lately, sweep, fixer, autos, nsysop>>

-----------------------------------------------------------------------------
(***************************************************************************)
(* The detectors.                                                          *)
(***************************************************************************)
Report(seen, print, fix) == IF seen THEN {[print |-> print, fix |-> fix]} ELSE {}

StaleAgents == Report("stale" \in trouble, "stale_container", NoFix)

\* lifetime_published is zero, whether the source is halted, and by whom, or not.
NewsSilent ==
  Report("silent" \in trouble, "news_silent", NoFix)
    \cup Report("unpublished" \in trouble, "zero_pub", "resume_source")

VenueBlock == Report("blocked" \in trouble, "venue_blocked", "clear_venue_block")

OpenRouter402 ==
  Report("limited" \in trouble /\ mode # "auto", "or402_paid", "set_llm_mode_auto")

\* A query on Proposal.id, which the model does not have: the detector raises.
NoProposals == {}

RepeatedErrors == Report("errors" \in trouble, "repeated_err", NoFix)

\* restart_count is never reset.
SupervisorCrashloop == Report("crashes" \in trouble, "crashloop", NoFix)

\* As NoProposals, once a source published at its last poll.
SignalToProposalGap == {}

\* Errors of the last half hour, whatever the mode was then.
AllFreeExhausted ==
  Report("exhausted" \in trouble, "all_free_exhausted",
         IF mode = "auto" THEN NoFix ELSE "set_llm_mode_auto")

Detectors == <<StaleAgents, NewsSilent, VenueBlock, OpenRouter402, NoProposals,
               RepeatedErrors, SupervisorCrashloop, SignalToProposalGap, AllFreeExhausted>>

\* After the last detector the loop sleeps for five minutes.
Following == (sweep.at % Len(Detectors)) + 1

Between == sweep.todo = {} /\ ~ Fixing(Loop)

Detect ==
  /\ Between
  /\ sweep' = [at |-> Following, todo |-> Detectors[sweep.at]]
  /\ UNCHANGED <<trouble, mode, source, row, lately, fixer, autos, nsysop>>

DetectorFails ==
  /\ Between /\ Detectors[sweep.at] # {}
  /\ SysopFault
  /\ sweep' = [sweep EXCEPT !.at = Following]
  /\ UNCHANGED <<trouble, mode, source, row, lately, fixer, autos>>

-----------------------------------------------------------------------------
(***************************************************************************)
(* Filing findings.                                                        *)
(***************************************************************************)
Open(p) == row[p].state = "new"

\* Broken variant of HandledLately: every finding is new.
HandledNever(p) == FALSE

\* Broken variant of HandledLately: however long ago it was handled.
HandledEver(p) == row[p].state # "none"

\* A row handled within the hour holds back the next.
HandledLately(p) == p \in lately

Filed(f) == sweep' = [sweep EXCEPT !.todo = @ \ {f}]

\* _upsert on an open row: its fix is the one proposed now, and is not run.
Refresh(f) ==
  /\ ~ Fixing(Loop) /\ f \in sweep.todo
  /\ Open(f.print)
  /\ row' = [row EXCEPT ![f.print].fix = f.fix]
  /\ lately' = lately \cup {f.print}
  /\ Filed(f)
  /\ UNCHANGED <<trouble, mode, source, fixer, autos, nsysop>>

Ignore(f) ==
  /\ ~ Fixing(Loop) /\ f \in sweep.todo
  /\ ~ Open(f.print) /\ HandledLately(f.print)
  /\ Filed(f)
  /\ UNCHANGED <<trouble, mode, source, row, lately, fixer, autos, nsysop>>

\* A new row is committed before its fix begins.
AddRow(f) ==
  /\ ~ Fixing(Loop) /\ f \in sweep.todo
  /\ ~ Open(f.print) /\ ~ HandledLately(f.print)
  /\ row' = [row EXCEPT ![f.print] = [state |-> "new", fix |-> f.fix]]
  /\ lately' = lately \cup {f.print}
  /\ Filed(f)
  /\ fixer' = IF f.fix \in AutoApplySafe
              THEN [fixer EXCEPT ![Loop] = [pc |-> "begin", print |-> f.print, fix |-> f.fix]]
              ELSE fixer
  /\ UNCHANGED <<trouble, mode, source, autos, nsysop>>

UpsertFails(f) ==
  /\ ~ Fixing(Loop) /\ f \in sweep.todo
  /\ SysopFault
  /\ Filed(f)
  /\ UNCHANGED <<trouble, mode, source, row, lately, fixer, autos>>

-----------------------------------------------------------------------------
(***************************************************************************)
(* Fixes: apply_fix reads the row, runs the fix, and settles the row when  *)
(* the transaction commits.                                                *)
(***************************************************************************)
Clicked(c, p) ==
  /\ ~ Fixing(c)
  /\ Open(p) /\ row[p].fix # NoFix
  /\ fixer' = [fixer EXCEPT ![c] = [pc |-> "run", print |-> p, fix |-> row[p].fix]]
  /\ UNCHANGED <<trouble, mode, source, row, lately, sweep, autos, nsysop>>

FixAt(w, pc) == Fixing(w) /\ fixer[w].pc = pc

\* The loop's row may have been set aside since it was added.
FixBegin(w) ==
  /\ FixAt(w, "begin")
  /\ fixer' = [fixer EXCEPT ![w] = IF Open(@.print) THEN [@ EXCEPT !.pc = "run"] ELSE Resting]
  /\ UNCHANGED <<trouble, mode, source, row, lately, sweep, autos, nsysop>>

\* What each fix does to what people and detectors look at.
ResumeSource(fix) == source' = IF fix = "resume_source" THEN "on" ELSE source
ClearVenueBlock(fix) == trouble' = IF fix = "clear_venue_block" THEN trouble \ {"blocked"}
                                                               ELSE trouble
SetLlmModeAuto(fix) == mode' = IF fix = "set_llm_mode_auto" THEN "auto" ELSE mode

FixRun(w) ==
  /\ FixAt(w, "run")
  /\ ResumeSource(fixer[w].fix) /\ ClearVenueBlock(fixer[w].fix) /\ SetLlmModeAuto(fixer[w].fix)
  /\ autos' = IF w = Loop THEN [autos EXCEPT ![fixer[w].print] = @ + 1] ELSE autos
  /\ fixer' = [fixer EXCEPT ![w].pc = "close"]
  /\ UNCHANGED <<row, lately, sweep, nsysop>>

Settle(p, state) ==
  /\ row' = [row EXCEPT ![p].state = state]
  /\ lately' = lately \cup {p}

\* Whatever was done to the row since it was read, it becomes auto_applied.
FixClose(w) ==
  /\ FixAt(w, "close")
  /\ Settle(fixer[w].print, "auto_applied")
  /\ fixer' = [fixer EXCEPT ![w] = Resting]
  /\ UNCHANGED <<trouble, mode, source, sweep, autos, nsysop>>

\* The row stays open: a failed fix is not tried again by the loop.
FixFails(w) ==
  /\ Fixing(w)
  /\ SysopFault
  /\ fixer' = [fixer EXCEPT ![w] = Resting]
  /\ UNCHANGED <<trouble, mode, source, row, lately, sweep, autos>>

\* Dismiss and Resolve set the state of any row ("aside" stands for both states).
MarkState(p) ==
  /\ row[p].state \notin {"none", "aside"}
  /\ Settle(p, "aside")
  /\ UNCHANGED <<trouble, mode, source, sweep, fixer, autos, nsysop>>

\* An hour without an update of the newest row; a fix takes less than that.
HourPasses(p) ==
  /\ \A w \in Fixers : Fixing(w) => fixer[w].print # p
  /\ p \in lately /\ ~ Open(p)
  /\ lately' = lately \ {p}
  /\ autos' = [autos EXCEPT ![p] = 0]
  /\ UNCHANGED <<trouble, mode, source, row, sweep, fixer, nsysop>>

-----------------------------------------------------------------------------
FixStep(w) == FixBegin(w) \/ FixRun(w) \/ FixClose(w)
LoopStep == Detect \/ FixStep(Loop) \/ \E f \in sweep.todo : Refresh(f) \/ Ignore(f) \/ AddRow(f)

SysopNext ==
  \/ \E x \in Troubles : GoesWrong(x) \/ GoesRight(x)
  \/ \E m \in {"free", "auto", "paid"} : ChooseMode(m)
  \/ \E flag \in {"on", "halted"} : FlagSource(flag)
  \/ LoopStep \/ DetectorFails
  \/ \E f \in sweep.todo : UpsertFails(f)
  \/ \E p \in Prints : MarkState(p) \/ HourPasses(p) \/ \E c \in Clicks : Clicked(c, p)
  \/ \E c \in Clicks : FixStep(c)
  \/ \E w \in Fixers : FixFails(w)

SysopSpec == SysopInit /\ [][SysopNext]_sysopVars

\* The loop is an endless task of the dashboard, requests end, and hours pass; people
\* need not act.
SysopFair ==
  /\ WF_sysopVars(LoopStep)
  /\ \A c \in Clicks : WF_sysopVars(FixStep(c))
  /\ \A p \in Prints : WF_sysopVars(HourPasses(p))

-----------------------------------------------------------------------------
(***************************************************************************)
(* Properties.                                                             *)
(***************************************************************************)

\* The loop runs a finding's fix once within the hour, however often the trouble is
\* seen, whoever dismisses the row meanwhile, and though a fix may fail after it took
\* effect (sysop.py:9, "re-detecting the same issue UPDATES the existing row").
AutoOncePerHour == \A p \in Prints : autos[p] <= 1

\* A gateway out of credit for good (sysop.py:333-365) is answered again and again, however
\* often people change the mode back or dismiss the finding: the mode is auto, or a row
\* whose fix failed is on the page for them to apply.
LimitAnswered ==
  <>[]("limited" \in trouble) => []<>(mode = "auto" \/ Open("or402_paid"))
=============================================================================
