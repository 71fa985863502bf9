----------------------------- MODULE Hindsight -----------------------------
(***************************************************************************)
(* The post-mortem of past proposals (agents/postmortem.py): each cycle    *)
(* reads the oldest rows of the proposals table, asks for a lesson at each *)
(* checkpoint that is due, writes it to the graph at once, and records the *)
(* checkpoints it did in the row's extras when it is done with the         *)
(* proposal.  Meanwhile other processes merge keys of their own into the   *)
(* same extras (core/proposals.py update_state, the position monitor), and *)
(* the janitor deletes old rows that never became a trade.                 *)
(***************************************************************************)
EXTENDS Naturals, FiniteSets

CONSTANTS
  NProposals,   \* proposals 1 .. NProposals, the oldest first
  Traded,       \* those that became a trade
  Checkpoints,  \* the schedule, as ages
  Window,       \* rows a cycle reads (2000)
  Cap,          \* postmortem_max_per_cycle
  Retention,    \* proposals_days, as an age
  MaxAge,       \* bound of the model: nothing changes as rows grow older than this
  MaxMerges,    \* bound of the model: merges of others into extras
  MaxFaults     \* bound of the model: checkpoints and saves that fail, crashes

Proposals == 1 .. NProposals

ASSUME HindsightAssumption ==
  /\ NProposals \in Nat /\ Traded \subseteq Proposals
  /\ Checkpoints \subseteq 1 .. MaxAge /\ IsFiniteSet(Checkpoints)
  /\ Window \in Nat /\ Cap \in Nat \ {0} /\ Retention \in Nat
  /\ {MaxAge, MaxMerges, MaxFaults} \subseteq Nat

VARIABLES
  age,      \* of each proposal; a row is read from age 1 on
  table,    \* the proposals whose row is there
  priced,   \* those without a trade whose symbol has had a price within the day
  done,     \* per row, postmortem_done
  lessons,  \* how many lessons the library has per proposal and checkpoint
  cycle,    \* the running cycle: what is due, what it read and adds as done
  merge,    \* the merge of another process, between its read and its write
  nmerges,
  nfaults,
  breaks    \* ghost: what may make a lesson be written again

vars == <<age, table, priced, done, lessons, cycle, merge, nmerges, nfaults, breaks>>

Off == [on |-> FALSE]

HindsightTypeOK ==
  /\ age \in [Proposals -> 0 .. MaxAge] /\ table \subseteq Proposals
  /\ priced \subseteq Proposals /\ done \in [Proposals -> SUBSET Checkpoints]
  /\ lessons \in [Proposals -> [Checkpoints -> Nat]]
  /\ cycle.on => /\ cycle.due \in [Proposals -> SUBSET Checkpoints]
                 /\ cycle.did \in [Proposals -> SUBSET Checkpoints]
                 /\ cycle.unsaved \subseteq Proposals
                 /\ cycle.written \in 0 .. Cap
  /\ merge.on => merge.done \subseteq Checkpoints
  /\ nmerges \in 0 .. MaxMerges /\ nfaults \in 0 .. MaxFaults

Init ==
  /\ age = [p \in Proposals |-> 0]
  /\ table = Proposals /\ priced \in SUBSET (Proposals \ Traded)
  /\ done = [p \in Proposals |-> {}]
  /\ lessons = [p \in Proposals |-> [c \in Checkpoints |-> 0]]
  /\ cycle = Off /\ merge = Off
  /\ nmerges = 0 /\ nfaults = 0 /\ breaks = 0

Fault == nfaults < MaxFaults /\ nfaults' = nfaults + 1

-----------------------------------------------------------------------------
(***************************************************************************)
(* A cycle.                                                                *)
(***************************************************************************)
Readable == {p \in table : age[p] >= 1}

\* Broken variant of Candidates: the newest rows.
NewestFirst == {p \in Readable : Cardinality({q \in Readable : q > p}) < Window}

\* The oldest rows, those with every checkpoint done included.
Candidates == {p \in Readable : Cardinality({q \in Readable : q < p}) < Window}

StartCycle ==
  /\ ~ cycle.on
  /\ cycle' = [on |-> TRUE, did |-> done, unsaved |-> {}, written |-> 0,
               due |-> [p \in Proposals |->
                 IF p \in Candidates THEN {c \in Checkpoints \ done[p] : c <= age[p]} ELSE {}]]
  /\ UNCHANGED <<age, table, priced, done, lessons, merge, nmerges, nfaults, breaks>>

Left == {p \in Proposals : cycle.due[p] # {}}
Full == cycle.written >= Cap

\* The proposal at hand is the oldest with something due; it is saved before the next.
\* The cap is looked at after every checkpoint.
AtHand(p, c) ==
  /\ cycle.on /\ ~ Full
  /\ p \in Left /\ \A q \in Left : p <= q
  /\ c \in cycle.due[p] /\ \A d \in cycle.due[p] : c <= d
  /\ cycle.unsaved \subseteq {p}

\* The ledger has the price of a trade; for a proposal without one there is a price as
\* long as the symbol's is sampled, which is done for open positions, and a day longer.
HasPrice(p) == p \in Traded \cup priced

NoPrice(p, c) ==
  /\ AtHand(p, c) /\ ~ HasPrice(p)
  /\ cycle' = [cycle EXCEPT !.due[p] = @ \ {c}]
  /\ UNCHANGED <<age, table, priced, done, lessons, merge, nmerges, nfaults, breaks>>

\* Price, model and embedding were there: the lesson goes to the library.
WriteLesson(p, c) ==
  /\ AtHand(p, c) /\ HasPrice(p)
  /\ lessons' = [lessons EXCEPT ![p][c] = @ + 1]
  /\ cycle' = [cycle EXCEPT !.due[p] = @ \ {c}, !.did[p] = @ \cup {c},
                            !.unsaved = {p}, !.written = @ + 1]
  /\ UNCHANGED <<age, table, priced, done, merge, nmerges, nfaults, breaks>>

\* Broken variant of Missed: the checkpoint counts as done all the same.
MissedButMarked(p, c) ==
  /\ AtHand(p, c)
  /\ Fault
  /\ cycle' = [cycle EXCEPT !.due[p] = @ \ {c}, !.did[p] = @ \cup {c},
                            !.unsaved = {p}]
  /\ UNCHANGED <<age, table, priced, done, lessons, merge, nmerges, breaks>>

\* The ledger cannot be read, no answer, no embedding, or the library does not take it:
\* the checkpoint is left for the next cycle.
Missed(p, c) ==
  /\ AtHand(p, c)
  /\ Fault
  /\ cycle' = [cycle EXCEPT !.due[p] = @ \ {c}]
  /\ UNCHANGED <<age, table, priced, done, lessons, merge, nmerges, breaks>>

\* The library took it, and its answer was lost: left for the next cycle all the same.
LessonUnheard(p, c) ==
  /\ AtHand(p, c) /\ HasPrice(p)
  /\ Fault
  /\ lessons' = [lessons EXCEPT ![p][c] = @ + 1]
  /\ cycle' = [cycle EXCEPT !.due[p] = @ \ {c}]
  /\ breaks' = breaks + 1
  /\ UNCHANGED <<age, table, priced, done, merge, nmerges>>

Finished(p) == p \in cycle.unsaved /\ (cycle.due[p] = {} \/ Full)

\* postmortem_done is set whole, from what the cycle read at its start; a deleted row
\* is passed over.
Save(p) ==
  /\ cycle.on /\ Finished(p)
  /\ done' = IF p \in table THEN [done EXCEPT ![p] = cycle.did[p]] ELSE done
  /\ cycle' = [cycle EXCEPT !.unsaved = {}]
  /\ UNCHANGED <<age, table, priced, lessons, merge, nmerges, nfaults, breaks>>

EndCycle ==
  /\ cycle.on /\ cycle.unsaved = {}
  /\ Full \/ Left = {}
  /\ cycle' = Off
  /\ UNCHANGED <<age, table, priced, done, lessons, merge, nmerges, nfaults, breaks>>

\* The container restarts, or a query's error ends the cycle: what was written and not
\* saved will be written again.
Breaks ==
  /\ cycle.on
  /\ Fault
  /\ cycle' = Off
  /\ breaks' = IF cycle.unsaved = {} THEN breaks ELSE breaks + 1
  /\ UNCHANGED <<age, table, priced, done, lessons, merge, nmerges>>

-----------------------------------------------------------------------------
(***************************************************************************)
(* The others.                                                             *)
(***************************************************************************)
\* Extras are read, merged and written whole, without a lock.
MergeRead(p) ==
  /\ ~ merge.on /\ p \in table /\ nmerges < MaxMerges
  /\ nmerges' = nmerges + 1
  /\ merge' = [on |-> TRUE, row |-> p, done |-> done[p]]
  /\ UNCHANGED <<age, table, priced, done, lessons, cycle, nfaults, breaks>>

MergeWrite ==
  /\ merge.on
  /\ done' = IF merge.row \in table THEN [done EXCEPT ![merge.row] = merge.done] ELSE done
  /\ breaks' = IF done' = done THEN breaks ELSE breaks + 1
  /\ merge' = Off
  /\ UNCHANGED <<age, table, priced, lessons, cycle, nmerges, nfaults>>

\* Rows of proposals that never became a trade, in batches.
SweepProposal(p) ==
  /\ p \in table \ Traded /\ age[p] > Retention
  /\ table' = table \ {p}
  /\ UNCHANGED <<age, priced, done, lessons, cycle, merge, nmerges, nfaults, breaks>>

\* Each proposal is at least as old as those published after it.
GrowOlder(p) ==
  /\ age[p] < MaxAge
  /\ \A q \in Proposals : q < p => age[q] > age[p]
  /\ age' = [age EXCEPT ![p] = @ + 1]
  /\ UNCHANGED <<table, priced, done, lessons, cycle, merge, nmerges, nfaults, breaks>>

\* A position of the symbol is opened, or was closed a day ago.
PriceChanges(p) ==
  /\ p \notin Traded
  /\ priced' = IF p \in priced THEN priced \ {p} ELSE priced \cup {p}
  /\ UNCHANGED <<age, table, done, lessons, cycle, merge, nmerges, nfaults, breaks>>

-----------------------------------------------------------------------------
CycleStep ==
  \/ StartCycle \/ EndCycle
  \/ \E p \in Proposals :
       \/ Save(p)
       \/ \E c \in Checkpoints : NoPrice(p, c) \/ WriteLesson(p, c)

Next ==
  \/ CycleStep \/ Breaks \/ MergeWrite
  \/ \E p \in Proposals :
       \/ MergeRead(p) \/ SweepProposal(p) \/ GrowOlder(p) \/ PriceChanges(p)
       \/ \E c \in Checkpoints : Missed(p, c) \/ LessonUnheard(p, c)

Spec == Init /\ [][Next]_vars

\* The cycle loop of the agent runs for ever; nobody else has to do anything.
FairSpec == Spec /\ WF_vars(CycleStep)

\* A checkpoint marked done has its lesson, and a lesson is written once, but for one
\* more each time a cycle broke off before saving, the library's answer was lost or
\* another process's merge put back an older postmortem_done (postmortem.py:275,
\* "Persist `done` ONCE per proposal").
LessonOnce ==
  \A p \in Proposals : \A c \in Checkpoints :
    /\ c \in done[p] => lessons[p][c] >= 1
    /\ lessons[p][c] <= 1 + breaks

AmongOldest(p) == p \in table /\ Cardinality({q \in table : q < p}) < Window

\* What is due for a proposal that stays among the oldest rows and whose symbol has a
\* price is reviewed, whatever failed before and however many others are due
\* (postmortem.py:225, "so we work through the backlog").
ReviewedInWindow ==
  \A p \in Proposals : \A c \in Checkpoints :
    <>[](AmongOldest(p) /\ HasPrice(p) /\ age[p] >= c) => <>[](c \in done[p])

\* Of the rows a cycle reads, those that never became a trade are reviewed as well
\* (postmortem.py:3, "For every proposal (executed AND dropped/rejected), wakes up at
\* scheduled checkpoints").
DroppedReviewed ==
  \A p \in Proposals : \A c \in Checkpoints :
    <>[](AmongOldest(p) /\ age[p] >= c) => <>[](c \in done[p])

\* Every proposal comes to each checkpoint of its schedule (the same words).
EveryProposalReviewed ==
  \A p \in Proposals : \A c \in Checkpoints : <>[](age[p] >= c) => <>(c \in done[p])
=============================================================================
