---------------------------- MODULE LearningProofs ----------------------------
(***************************************************************************)
(* Of Hindsight, for any number of proposals, checkpoints, merges and      *)
(* failures: a checkpoint has its lesson, and one only but for what broke. *)
(* Of SeedJob, for any number of tasks, starts and restarts: a run of the  *)
(* seed that is shown as done left no batch out.  The types of both.       *)
(***************************************************************************)
EXTENDS Hindsight, SeedJob, TLAPS

-----------------------------------------------------------------------------
(***************************************************************************)
(* The lessons.  A checkpoint that neither the row nor the running cycle   *)
(* knows as done has been written as often as something broke at most.     *)
(***************************************************************************)
Snapshot == [Proposals -> SUBSET Checkpoints]
Round == [on : {TRUE}, due : Snapshot, did : Snapshot, unsaved : SUBSET Proposals, written : Nat]
Merging == [on : {TRUE}, row : Proposals, done : SUBSET Checkpoints]

LessonTyped ==
  /\ table \subseteq Proposals /\ done \in Snapshot
  /\ lessons \in [Proposals -> [Checkpoints -> Nat]]
  /\ cycle \in Round \cup {Off} /\ merge \in Merging \cup {Off}
  /\ breaks \in Nat

\* What a row, a cycle or a merge on its way says is done has its lesson.
HasLesson(p, c) ==
  \/ c \in done[p]
  \/ cycle.on /\ c \in cycle.did[p]
  \/ merge.on /\ merge.row = p /\ c \in merge.done

\* What the row will miss: not saved as done, and no cycle about to save it.
Lost(p, c) ==
  /\ p \in table /\ c \notin done[p]
  /\ ~ (cycle.on /\ p \in cycle.unsaved /\ c \in cycle.did[p])

\* What the running cycle asks for, or will save as not done.
Open(p, c) ==
  /\ cycle.on
  /\ c \in cycle.due[p] \/ (p \in table /\ c \notin cycle.did[p])

LessonInv ==
  /\ LessonTyped
  /\ cycle.on => \A p \in Proposals : cycle.due[p] \cap cycle.did[p] = {}
  /\ cycle.on => \A p, q \in cycle.unsaved : p = q
  /\ \A p \in Proposals : \A c \in Checkpoints :
       /\ HasLesson(p, c) => lessons[p][c] >= 1
       /\ lessons[p][c] <= 1 + breaks
       /\ Lost(p, c) \/ Open(p, c) => lessons[p][c] <= breaks

LEMMA LessonsBegin == Init => LessonInv
<1> SUFFICES ASSUME Init PROVE LessonInv
  OBVIOUS
<1>1. LessonTyped
  BY DEF Init, LessonTyped, Snapshot
<1> QED
  BY <1>1 DEF Init, LessonInv, HasLesson, Lost, Open, Off

\* The step leaves lessons and breaks alone, and makes nothing done or lost that was not.
LEMMA LessonsStay ==
  ASSUME LessonInv, UNCHANGED <<lessons, breaks>>,
         LessonTyped',
         cycle'.on => \A p \in Proposals : cycle'.due[p] \cap cycle'.did[p] = {},
         cycle'.on => \A p, q \in cycle'.unsaved : p = q,
         \A p \in Proposals : \A c \in Checkpoints :
           /\ HasLesson(p, c)' => HasLesson(p, c)
           /\ (Lost(p, c) \/ Open(p, c))' => Lost(p, c) \/ Open(p, c)
  PROVE  LessonInv'
BY DEF LessonInv

\* Something broke: every lesson may be written once more.
LEMMA OneMoreBreak ==
  ASSUME LessonInv, UNCHANGED lessons, breaks' = breaks + 1,
         LessonTyped',
         cycle'.on => \A p \in Proposals : cycle'.due[p] \cap cycle'.did[p] = {},
         cycle'.on => \A p, q \in cycle'.unsaved : p = q,
         \A p \in Proposals : \A c \in Checkpoints : HasLesson(p, c)' => HasLesson(p, c)
  PROVE  LessonInv'
<1>1. \A p \in Proposals : \A c \in Checkpoints :
        /\ lessons'[p][c] \in Nat /\ lessons'[p][c] <= breaks'
        /\ HasLesson(p, c)' => lessons'[p][c] >= 1
  BY DEF LessonInv, LessonTyped
<1>2. breaks' \in Nat
  BY DEF LessonTyped
<1> QED
  BY <1>1, <1>2 DEF LessonInv

LEMMA CycleRecord ==
  ASSUME LessonInv, cycle.on
  PROVE  cycle \in Round
BY DEF LessonInv, LessonTyped, Off

LEMMA MergeRecord ==
  ASSUME LessonInv, merge.on
  PROVE  merge \in Merging
BY DEF LessonInv, LessonTyped, Off

LEMMA StartCycleKeeps ==
  ASSUME LessonInv, StartCycle
  PROVE  LessonInv'
<1> DEFINE Due == [p \in Proposals |->
                    IF p \in Candidates THEN {c \in Checkpoints \ done[p] : c <= age[p]} ELSE {}]
<1>1. /\ UNCHANGED <<lessons, breaks, table, done, merge>> /\ ~ cycle.on
      /\ cycle' = [on |-> TRUE, did |-> done, unsaved |-> {}, written |-> 0, due |-> Due]
  BY DEF StartCycle
<1>2. done \in Snapshot /\ Due \in Snapshot
  BY DEF LessonInv, LessonTyped, Snapshot
<1>3. \A p \in Proposals : Due[p] \cap done[p] = {} /\ (Due[p] # {} => p \in table)
  BY DEF Candidates, Readable
<1> HIDE DEF Due
<1>4. cycle' \in Round
  BY <1>1, <1>2 DEF Round
<1>5. LessonTyped'
  BY <1>1, <1>4 DEF LessonInv, LessonTyped
<1>6. ASSUME NEW p \in Proposals, NEW c \in Checkpoints
      PROVE  /\ HasLesson(p, c)' => HasLesson(p, c)
             /\ (Lost(p, c) \/ Open(p, c))' => Lost(p, c) \/ Open(p, c)
  <2>1. HasLesson(p, c)' => HasLesson(p, c)
    BY <1>1 DEF HasLesson
  <2>2. Lost(p, c)' => Lost(p, c)
    BY <1>1 DEF Lost
  <2>3. Open(p, c)' => p \in table /\ c \notin done[p]
    BY <1>1, <1>3 DEF Open
  <2> QED
    BY <1>1, <2>1, <2>2, <2>3 DEF Lost
<1> QED
  BY <1>1, <1>3, <1>5, <1>6, LessonsStay

LEMMA WriteKeeps ==
  ASSUME LessonInv, NEW p \in Proposals, NEW c \in Checkpoints, WriteLesson(p, c)
  PROVE  LessonInv'
<1>1. /\ UNCHANGED <<breaks, table, done, merge>> /\ AtHand(p, c)
      /\ lessons' = [lessons EXCEPT ![p][c] = @ + 1]
      /\ cycle' = [cycle EXCEPT !.due[p] = @ \ {c}, !.did[p] = @ \cup {c},
                                !.unsaved = {p}, !.written = @ + 1]
  BY DEF WriteLesson
<1>2. cycle.on /\ c \in cycle.due[p] /\ cycle.unsaved \subseteq {p} /\ cycle \in Round
  BY <1>1, CycleRecord DEF AtHand
<1>3. /\ cycle' \in Round /\ cycle'.on /\ cycle'.unsaved = {p}
      /\ cycle'.due = [cycle.due EXCEPT ![p] = @ \ {c}]
      /\ cycle'.did = [cycle.did EXCEPT ![p] = @ \cup {c}]
  <2>1. cycle.due \in Snapshot /\ cycle.did \in Snapshot /\ cycle.written \in Nat
    BY <1>2 DEF Round
  <2>2. /\ [cycle.due EXCEPT ![p] = @ \ {c}] \in Snapshot
        /\ [cycle.did EXCEPT ![p] = @ \cup {c}] \in Snapshot
    BY <2>1 DEF Snapshot
  <2>3. cycle' = [on |-> cycle.on, due |-> [cycle.due EXCEPT ![p] = @ \ {c}],
                  did |-> [cycle.did EXCEPT ![p] = @ \cup {c}],
                  unsaved |-> {p}, written |-> cycle.written + 1]
    BY <1>1, <1>2 DEF Round
  <2> QED
    BY <1>2, <2>1, <2>2, <2>3 DEF Round
<1>4. lessons \in [Proposals -> [Checkpoints -> Nat]] /\ breaks \in Nat
  BY DEF LessonInv, LessonTyped
<1>5. /\ lessons' \in [Proposals -> [Checkpoints -> Nat]]
      /\ lessons'[p][c] = lessons[p][c] + 1
      /\ \A q \in Proposals : \A d \in Checkpoints :
           q # p \/ d # c => lessons'[q][d] = lessons[q][d]
  BY <1>1, <1>4
<1>6. LessonTyped'
  BY <1>1, <1>3, <1>5 DEF LessonInv, LessonTyped
<1>7. lessons[p][c] \in Nat /\ lessons[p][c] <= breaks
  BY <1>2, <1>4 DEF LessonInv, Open
<1>8. cycle.due \in Snapshot /\ cycle.did \in Snapshot
  BY <1>2 DEF Round
<1>9. \A q \in Proposals : cycle'.due[q] \cap cycle'.did[q] = {}
  BY <1>2, <1>3, <1>8 DEF LessonInv, Snapshot
<1>10. ~ Lost(p, c)' /\ ~ Open(p, c)'
  BY <1>3, <1>8 DEF Lost, Open, Snapshot
<1>11. ASSUME NEW q \in Proposals, NEW d \in Checkpoints, q # p \/ d # c
       PROVE  /\ HasLesson(q, d)' => HasLesson(q, d)
              /\ (Lost(q, d) \/ Open(q, d))' => Lost(q, d) \/ Open(q, d)
  <2>1. cycle'.due[q] \subseteq cycle.due[q] /\ (d \in cycle'.did[q] <=> d \in cycle.did[q])
    BY <1>3, <1>8, <1>11 DEF Snapshot
  <2>2. HasLesson(q, d)' => HasLesson(q, d)
    BY <1>1, <1>2, <2>1 DEF HasLesson
  <2>3. Open(q, d)' => Open(q, d)
    BY <1>1, <1>2, <2>1 DEF Open
  <2>4. Lost(q, d)' => Lost(q, d)
    BY <1>1, <1>2, <1>3, <2>1 DEF Lost
  <2> QED
    BY <2>2, <2>3, <2>4
<1>12. ASSUME NEW q \in Proposals, NEW d \in Checkpoints
       PROVE  /\ HasLesson(q, d)' => lessons'[q][d] >= 1
              /\ lessons'[q][d] <= 1 + breaks'
              /\ (Lost(q, d) \/ Open(q, d))' => lessons'[q][d] <= breaks'
  <2>1. CASE q = p /\ d = c
    BY <1>1, <1>4, <1>5, <1>7, <1>10, <2>1
  <2>2. CASE q # p \/ d # c
    BY <1>1, <1>5, <1>11, <2>2 DEF LessonInv
  <2> QED
    BY <2>1, <2>2
<1> QED
  BY <1>3, <1>6, <1>9, <1>12 DEF LessonInv

LEMMA MissedKeeps ==
  ASSUME LessonInv, NEW p \in Proposals, NEW c \in Checkpoints, Missed(p, c) \/ NoPrice(p, c)
  PROVE  LessonInv'
<1>1. /\ UNCHANGED <<lessons, breaks, table, done, merge>> /\ cycle.on /\ cycle \in Round
      /\ cycle' = [cycle EXCEPT !.due[p] = @ \ {c}]
  BY CycleRecord DEF Missed, NoPrice, AtHand
<1>2. /\ cycle' \in Round /\ cycle'.on /\ cycle'.unsaved = cycle.unsaved /\ cycle'.did = cycle.did
      /\ cycle'.due = [cycle.due EXCEPT ![p] = @ \ {c}] /\ cycle.due \in Snapshot
  BY <1>1 DEF Round, Snapshot
<1>3. \A q \in Proposals : cycle'.due[q] \subseteq cycle.due[q]
  BY <1>2 DEF Snapshot
<1>4. LessonTyped'
  BY <1>1, <1>2 DEF LessonInv, LessonTyped
<1>5. \A q \in Proposals : cycle'.due[q] \cap cycle'.did[q] = {}
  BY <1>1, <1>2, <1>3 DEF LessonInv
<1>6. \A q, r \in cycle'.unsaved : q = r
  BY <1>1, <1>2 DEF LessonInv
<1>7. \A q \in Proposals : \A d \in Checkpoints :
        /\ HasLesson(q, d)' => HasLesson(q, d)
        /\ (Lost(q, d) \/ Open(q, d))' => Lost(q, d) \/ Open(q, d)
  BY <1>1, <1>2, <1>3 DEF HasLesson, Lost, Open
<1> QED
  BY <1>1, <1>4, <1>5, <1>6, <1>7, LessonsStay

LEMMA UnheardKeeps ==
  ASSUME LessonInv, NEW p \in Proposals, NEW c \in Checkpoints, LessonUnheard(p, c)
  PROVE  LessonInv'
<1>1. /\ UNCHANGED <<table, done, merge>> /\ AtHand(p, c) /\ breaks' = breaks + 1
      /\ lessons' = [lessons EXCEPT ![p][c] = @ + 1]
      /\ cycle' = [cycle EXCEPT !.due[p] = @ \ {c}]
  BY DEF LessonUnheard
<1>2. cycle.on /\ c \in cycle.due[p] /\ cycle \in Round
  BY <1>1, CycleRecord DEF AtHand
<1>3. /\ cycle' \in Round /\ cycle'.on /\ cycle'.unsaved = cycle.unsaved /\ cycle'.did = cycle.did
      /\ cycle'.due = [cycle.due EXCEPT ![p] = @ \ {c}] /\ cycle.due \in Snapshot
  BY <1>1, <1>2 DEF Round, Snapshot
<1>4. lessons \in [Proposals -> [Checkpoints -> Nat]] /\ breaks \in Nat
  BY DEF LessonInv, LessonTyped
<1>5. /\ lessons' \in [Proposals -> [Checkpoints -> Nat]]
      /\ lessons'[p][c] = lessons[p][c] + 1
      /\ \A q \in Proposals : \A d \in Checkpoints :
           q # p \/ d # c => lessons'[q][d] = lessons[q][d]
  BY <1>1, <1>4
<1>6. LessonTyped' /\ breaks' \in Nat
  BY <1>1, <1>3, <1>4, <1>5 DEF LessonInv, LessonTyped
<1>7. lessons[p][c] <= breaks
  BY <1>2, <1>4 DEF LessonInv, Open
<1>8. /\ \A q \in Proposals : cycle'.due[q] \cap cycle'.did[q] = {}
      /\ \A q, r \in cycle'.unsaved : q = r
  BY <1>2, <1>3 DEF LessonInv, Snapshot
<1>9. ASSUME NEW q \in Proposals, NEW d \in Checkpoints
      PROVE  /\ HasLesson(q, d)' => lessons'[q][d] >= 1
             /\ lessons'[q][d] <= breaks'
  <2>1. HasLesson(q, d)' => HasLesson(q, d)
    BY <1>1, <1>2, <1>3 DEF HasLesson
  <2>2. /\ HasLesson(q, d) => lessons[q][d] >= 1
        /\ lessons[q][d] <= 1 + breaks /\ lessons[q][d] \in Nat
    BY <1>4 DEF LessonInv
  <2>3. CASE q = p /\ d = c
    BY <1>1, <1>4, <1>5, <1>7, <2>1, <2>2, <2>3
  <2>4. CASE q # p \/ d # c
    BY <1>1, <1>4, <1>5, <2>1, <2>2, <2>4
  <2> QED
    BY <2>3, <2>4
<1>10. \A q \in Proposals : \A d \in Checkpoints : lessons'[q][d] <= 1 + breaks'
  BY <1>5, <1>6, <1>9
<1> QED
  BY <1>3, <1>6, <1>8, <1>9, <1>10 DEF LessonInv

LEMMA SaveKeeps ==
  ASSUME LessonInv, NEW p \in Proposals, Save(p)
  PROVE  LessonInv'
<1>1. /\ UNCHANGED <<lessons, breaks, table, merge>> /\ cycle.on /\ cycle \in Round
      /\ p \in cycle.unsaved
      /\ done' = IF p \in table THEN [done EXCEPT ![p] = cycle.did[p]] ELSE done
      /\ cycle' = [cycle EXCEPT !.unsaved = {}]
  BY CycleRecord DEF Save, Finished
<1>2. /\ cycle' \in Round /\ cycle'.on /\ cycle'.unsaved = {} /\ cycle'.did = cycle.did
      /\ cycle'.due = cycle.due /\ cycle.did \in Snapshot /\ done \in Snapshot
  BY <1>1 DEF Round, LessonInv, LessonTyped
<1>3. /\ done' \in Snapshot
      /\ p \in table => done'[p] = cycle.did[p]
      /\ \A q \in Proposals : q # p \/ p \notin table => done'[q] = done[q]
  BY <1>1, <1>2 DEF Snapshot
<1>4. LessonTyped'
  BY <1>1, <1>2, <1>3 DEF LessonInv, LessonTyped
<1>5. \A q \in Proposals : cycle'.due[q] \cap cycle'.did[q] = {}
  BY <1>1, <1>2 DEF LessonInv
<1>6. ASSUME NEW q \in Proposals, NEW d \in Checkpoints
      PROVE  /\ HasLesson(q, d)' => HasLesson(q, d)
             /\ (Lost(q, d) \/ Open(q, d))' => Lost(q, d) \/ Open(q, d)
  <2>1. HasLesson(q, d)' => HasLesson(q, d)
    BY <1>1, <1>2, <1>3 DEF HasLesson
  <2>2. Open(q, d)' => Open(q, d)
    BY <1>1, <1>2 DEF Open
  <2>3. CASE q = p
    <3>1. Lost(p, d)' => Open(p, d)
      BY <1>1, <1>3 DEF Lost, Open
    <3> QED
      BY <2>1, <2>2, <2>3, <3>1
  <2>4. CASE q # p
    <3>1. q \notin cycle.unsaved
      BY <1>1, <2>4 DEF LessonInv
    <3>2. table' = table /\ done'[q] = done[q]
      BY <1>1, <1>3, <2>4
    <3>3. Lost(q, d)' => Lost(q, d)
      BY <3>1, <3>2 DEF Lost
    <3> QED
      BY <2>1, <2>2, <3>3
  <2> QED
    BY <2>1, <2>2, <2>3, <2>4
<1> QED
  BY <1>1, <1>2, <1>4, <1>5, <1>6, LessonsStay

LEMMA EndKeeps ==
  ASSUME LessonInv, EndCycle \/ Breaks
  PROVE  LessonInv'
<1>1. /\ UNCHANGED <<lessons, table, done, merge>> /\ cycle.on /\ cycle' = Off
      /\ cycle.unsaved = {} => breaks' = breaks
      /\ cycle.unsaved # {} => breaks' = breaks + 1
  BY DEF EndCycle, Breaks
<1>2. LessonTyped' /\ ~ cycle'.on
  BY <1>1 DEF LessonInv, LessonTyped, Off
<1>3. \A q \in Proposals : \A d \in Checkpoints :
        /\ HasLesson(q, d)' => HasLesson(q, d)
        /\ cycle.unsaved = {} /\ (Lost(q, d) \/ Open(q, d))' => Lost(q, d)
  BY <1>1, <1>2 DEF HasLesson, Lost, Open
<1>4. CASE cycle.unsaved = {}
  BY <1>1, <1>2, <1>3, <1>4, LessonsStay
<1>5. CASE cycle.unsaved # {}
  BY <1>1, <1>2, <1>3, <1>5, OneMoreBreak
<1> QED
  BY <1>4, <1>5

LEMMA MergeReadKeeps ==
  ASSUME LessonInv, NEW p \in Proposals, MergeRead(p)
  PROVE  LessonInv'
<1>1. /\ UNCHANGED <<lessons, breaks, table, done, cycle>>
      /\ merge' = [on |-> TRUE, row |-> p, done |-> done[p]]
  BY DEF MergeRead
<1>2. done[p] \subseteq Checkpoints
  BY DEF LessonInv, LessonTyped, Snapshot
<1>3. LessonTyped'
  BY <1>1, <1>2 DEF LessonInv, LessonTyped, Merging
<1>4. \A q \in Proposals : \A d \in Checkpoints :
        /\ HasLesson(q, d)' => HasLesson(q, d)
        /\ (Lost(q, d) \/ Open(q, d))' => Lost(q, d) \/ Open(q, d)
  BY <1>1 DEF HasLesson, Lost, Open
<1>5. /\ cycle'.on => \A q \in Proposals : cycle'.due[q] \cap cycle'.did[q] = {}
      /\ cycle'.on => \A q, r \in cycle'.unsaved : q = r
  BY <1>1 DEF LessonInv
<1> QED
  BY <1>1, <1>3, <1>4, <1>5, LessonsStay

LEMMA MergeWriteKeeps ==
  ASSUME LessonInv, MergeWrite
  PROVE  LessonInv'
<1>1. /\ UNCHANGED <<lessons, table, cycle>> /\ merge.on /\ merge' = Off /\ merge \in Merging
      /\ done' = IF merge.row \in table THEN [done EXCEPT ![merge.row] = merge.done] ELSE done
      /\ breaks' = IF done' = done THEN breaks ELSE breaks + 1
  BY MergeRecord DEF MergeWrite
<1>2. done \in Snapshot /\ breaks \in Nat /\ ~ merge'.on /\ merge.row \in Proposals
  BY <1>1 DEF LessonInv, LessonTyped, Off, Merging
<1>3. /\ done' \in Snapshot
      /\ \A q \in Proposals : done'[q] = done[q] \/ (q = merge.row /\ done'[q] = merge.done)
  BY <1>1, <1>2 DEF Snapshot, Merging
<1>4. LessonTyped'
  BY <1>1, <1>2, <1>3 DEF LessonInv, LessonTyped
<1>5. \A q \in Proposals : \A d \in Checkpoints : HasLesson(q, d)' => HasLesson(q, d)
  BY <1>1, <1>2, <1>3 DEF HasLesson
<1>6. /\ cycle'.on => \A q \in Proposals : cycle'.due[q] \cap cycle'.did[q] = {}
      /\ cycle'.on => \A q, r \in cycle'.unsaved : q = r
  BY <1>1 DEF LessonInv
<1>7. CASE done' = done
  <2>1. \A q \in Proposals : \A d \in Checkpoints :
          (Lost(q, d) \/ Open(q, d))' => Lost(q, d) \/ Open(q, d)
    BY <1>1, <1>7 DEF Lost, Open
  <2> QED
    BY <1>1, <1>4, <1>5, <1>6, <1>7, <2>1, LessonsStay
<1>8. CASE done' # done
  BY <1>1, <1>4, <1>5, <1>6, <1>8, OneMoreBreak
<1> QED
  BY <1>7, <1>8

LEMMA OthersKeep ==
  ASSUME LessonInv, UNCHANGED <<lessons, breaks, done, cycle, merge>>, table' \subseteq table
  PROVE  LessonInv'
<1>1. LessonTyped'
  BY DEF LessonInv, LessonTyped
<1>2. \A q \in Proposals : \A d \in Checkpoints :
        /\ HasLesson(q, d)' => HasLesson(q, d)
        /\ (Lost(q, d) \/ Open(q, d))' => Lost(q, d) \/ Open(q, d)
  BY DEF HasLesson, Lost, Open
<1>3. /\ cycle'.on => \A q \in Proposals : cycle'.due[q] \cap cycle'.did[q] = {}
      /\ cycle'.on => \A q, r \in cycle'.unsaved : q = r
  BY DEF LessonInv
<1> QED
  BY <1>1, <1>2, <1>3, LessonsStay

LEMMA LessonStep == LessonInv /\ [Next]_vars => LessonInv'
<1> SUFFICES ASSUME LessonInv, [Next]_vars PROVE LessonInv'
  OBVIOUS
<1>1. CASE CycleStep
  BY <1>1, StartCycleKeeps, EndKeeps, SaveKeeps, WriteKeeps, MissedKeeps DEF CycleStep
<1>2. CASE Breaks \/ MergeWrite
  BY <1>2, EndKeeps, MergeWriteKeeps
<1>3. CASE \E p \in Proposals : MergeRead(p)
  BY <1>3, MergeReadKeeps
<1>4. CASE \E p \in Proposals : SweepProposal(p) \/ GrowOlder(p) \/ PriceChanges(p)
  BY <1>4, OthersKeep DEF SweepProposal, GrowOlder, PriceChanges
<1>5. CASE \E p \in Proposals : \E c \in Checkpoints : Missed(p, c) \/ LessonUnheard(p, c)
  BY <1>5, MissedKeeps, UnheardKeeps
<1>6. CASE UNCHANGED vars
  BY <1>6, OthersKeep DEF vars
<1> QED
  BY <1>1, <1>2, <1>3, <1>4, <1>5, <1>6 DEF Next

\* A checkpoint marked done has its lesson, and gets no second one but for what broke
\* off or was put back (agents/postmortem.py:275).
THEOREM LessonOnceAlways == Spec => []LessonOnce
<1>1. LessonInv => LessonOnce
  BY DEF LessonInv, LessonOnce, HasLesson
<1> QED
  BY LessonsBegin, LessonStep, <1>1, PTL DEF Spec

\* What the types of the lessons leave open: ages, the cap of a cycle, the bounds.
Bounded ==
  /\ age \in [Proposals -> 0 .. MaxAge] /\ priced \subseteq Proposals
  /\ cycle.on => cycle.written <= Cap
  /\ nmerges \in 0 .. MaxMerges /\ nfaults \in 0 .. MaxFaults

LEMMA BoundedBegins == Init => Bounded
BY HindsightAssumption DEF Init, Bounded, Off

\* A cycle is not full when it writes, so that it ends with the cap's number at most.
LEMMA BoundedStep == LessonInv /\ Bounded /\ [Next]_vars => Bounded'
<1> SUFFICES ASSUME LessonInv, Bounded, [Next]_vars PROVE Bounded'
  OBVIOUS
<1>1. /\ NProposals \in Nat /\ Cap \in Nat \ {0}
      /\ MaxAge \in Nat /\ MaxMerges \in Nat /\ MaxFaults \in Nat
  BY HindsightAssumption
<1>2. cycle.on => cycle \in Round
  BY CycleRecord
<1>3. CASE StartCycle \/ EndCycle
  BY <1>1, <1>3 DEF StartCycle, EndCycle, Bounded, Off
<1>4. ASSUME NEW p \in Proposals, Save(p)
      PROVE  Bounded'
  <2>1. cycle'.written = cycle.written /\ cycle.on /\ UNCHANGED <<age, priced, nmerges, nfaults>>
    BY <1>2, <1>4 DEF Save, Round
  <2> QED
    BY <2>1 DEF Bounded
<1>5. ASSUME NEW p \in Proposals, NEW c \in Checkpoints, WriteLesson(p, c)
      PROVE  Bounded'
  <2>1. /\ cycle.on /\ ~ (cycle.written >= Cap) /\ cycle.written \in Nat
        /\ UNCHANGED <<age, priced, nmerges, nfaults>>
    BY <1>2, <1>5 DEF WriteLesson, AtHand, Full, Round
  <2>2. cycle'.written = cycle.written + 1
    BY <1>2, <1>5, <2>1 DEF WriteLesson, Round
  <2> QED
    BY <1>1, <2>1, <2>2 DEF Bounded
<1>6. ASSUME NEW p \in Proposals, NEW c \in Checkpoints,
             Missed(p, c) \/ LessonUnheard(p, c)
      PROVE  Bounded'
  <2>1. /\ cycle'.written = cycle.written /\ cycle.on /\ UNCHANGED <<age, priced, nmerges>>
        /\ nfaults < MaxFaults /\ nfaults' = nfaults + 1
    BY <1>2, <1>6 DEF Missed, LessonUnheard, AtHand, Fault, Round
  <2> QED
    BY <1>1, <2>1 DEF Bounded
<1>12. ASSUME NEW p \in Proposals, NEW c \in Checkpoints, NoPrice(p, c)
      PROVE  Bounded'
  <2>1. cycle'.written = cycle.written /\ cycle.on /\ UNCHANGED <<age, priced, nmerges, nfaults>>
    BY <1>2, <1>12 DEF NoPrice, AtHand, Round
  <2> QED
    BY <2>1 DEF Bounded
<1>7. CASE Breaks
  BY <1>1, <1>7 DEF Breaks, Fault, Bounded, Off
<1>8. CASE MergeWrite
  BY <1>8 DEF MergeWrite, Bounded
<1>9. ASSUME NEW p \in Proposals, MergeRead(p) \/ SweepProposal(p)
      PROVE  Bounded'
  BY <1>1, <1>9 DEF MergeRead, SweepProposal, Bounded
<1>10. ASSUME NEW p \in Proposals, GrowOlder(p) \/ PriceChanges(p)
       PROVE  Bounded'
  BY <1>1, <1>10 DEF GrowOlder, PriceChanges, Bounded
<1>11. CASE UNCHANGED vars
  BY <1>11 DEF vars, Bounded
<1> QED
  BY <1>3, <1>4, <1>5, <1>6, <1>7, <1>8, <1>9, <1>10, <1>11, <1>12 DEF Next, CycleStep

\* Marks and lessons are of known proposals and checkpoints, and a cycle writes no more
\* than postmortem_max_per_cycle lessons (agents/postmortem.py:265).
THEOREM HindsightTypeCorrect == Spec => []HindsightTypeOK
<1>1. LessonInv /\ Bounded => HindsightTypeOK
  <2> SUFFICES ASSUME LessonInv, Bounded PROVE HindsightTypeOK
    OBVIOUS
  <2>1. cycle.on => cycle \in Round
    BY CycleRecord
  <2>2. merge.on => merge \in Merging
    BY MergeRecord
  <2>3. cycle.on => cycle.written \in 0 .. Cap
    BY <2>1, HindsightAssumption DEF Bounded, Round
  <2> QED
    BY <2>1, <2>2, <2>3 DEF LessonInv, LessonTyped, Bounded, HindsightTypeOK, Snapshot, Round,
                            Merging
<1>2. Init => LessonInv /\ Bounded
  BY LessonsBegin, BoundedBegins
<1>3. LessonInv /\ Bounded /\ [Next]_vars => (LessonInv /\ Bounded)'
  BY LessonStep, BoundedStep
<1> QED
  BY <1>1, <1>2, <1>3, PTL DEF Spec

-----------------------------------------------------------------------------
(***************************************************************************)
(* The seed.  While it is clear who runs it, the only task alive and the   *)
(* status have every batch before their place asked for.                   *)
(***************************************************************************)
JobRecord == [pc : {"placing", "reading", "writing", "top", "asking"},
              batches : 1 .. MaxBatches, at : 0 .. MaxBatches, resume : BOOLEAN]

SeedTyped ==
  /\ status \in [state : SeedState, batches : 0 .. MaxBatches, next : 0 .. MaxBatches]
  /\ fresh \in BOOLEAN /\ muddled \in BOOLEAN
  /\ job \in [Jobs -> JobRecord \cup {None}]
  /\ tried \subseteq 0 .. MaxBatches - 1
  /\ nstarts \in 0 .. MaxStarts /\ ncrashes \in 0 .. MaxCrashes

\* What a task relies on whoever runs beside it: it asks for batches of its own run, and
\* a new run begins at the first.
OwnPlace(r) ==
  /\ r.pc = "asking" => r.at < r.batches
  /\ ~ r.resume => r.pc # "reading"
  /\ ~ r.resume /\ r.pc \in {"placing", "writing"} => r.at = 0

\* What the batches before n are.
Behind(n) == 0 .. n - 1

\* Of the only task: the status speaks of its run, and what it passed was asked for.
Follows(r) ==
  /\ r.pc \in {"top", "asking"} => status.batches = r.batches /\ Behind(r.at) \subseteq tried
  /\ r.pc = "writing" /\ r.resume => Behind(r.at) \subseteq tried

Clear ==
  /\ \A i, j \in Jobs : Alive(i) /\ Alive(j) => i = j
  /\ Behind(status.next) \subseteq tried
  /\ \A j \in Jobs : Alive(j) => Follows(job[j])
  /\ status.state = "done" => Behind(status.batches) \subseteq tried

SeedInv ==
  /\ SeedTyped
  /\ \A j \in Jobs : Alive(j) => OwnPlace(job[j])
  /\ ~ muddled => Clear

LEMMA SeedBegins == SeedInit => SeedInv
<1> SUFFICES ASSUME SeedInit PROVE SeedInv
  OBVIOUS
<1>1. status = NoStatus /\ NoStatus.next = 0 /\ NoStatus.state = "none"
  BY DEF SeedInit, NoStatus
<1>2. \A j \in Jobs : ~ Alive(j)
  BY DEF SeedInit, Alive
<1>3. SeedTyped
  <2>1. MaxBatches \in Nat /\ MaxStarts \in Nat /\ MaxCrashes \in Nat
    BY SeedAssumption
  <2>2. status \in [state : SeedState, batches : 0 .. MaxBatches, next : 0 .. MaxBatches]
    BY <1>1, <2>1 DEF NoStatus, SeedState
  <2>3. fresh \in BOOLEAN /\ muddled \in BOOLEAN
    BY DEF SeedInit
  <2>4. job \in [Jobs -> JobRecord \cup {None}]
    BY DEF SeedInit
  <2> QED
    BY <2>1, <2>2, <2>3, <2>4 DEF SeedInit, SeedTyped
<1>4. Clear
  BY <1>1, <1>2 DEF Clear, Behind, SeedInit
<1> QED
  BY <1>2, <1>3, <1>4 DEF SeedInv

\* A task alive is a record, and None is none.
LEMMA AliveRecord ==
  ASSUME SeedTyped, NEW j \in Jobs
  PROVE  Alive(j) <=> job[j] \in JobRecord
<1>1. None \notin JobRecord
  <2>1. None.pc = "none"
    BY DEF None
  <2>2. \A r \in JobRecord : r.pc # "none"
    BY DEF JobRecord
  <2> QED
    BY <2>1, <2>2
<1> HIDE DEF None
<1> QED
  BY <1>1 DEF SeedTyped, Alive

\* Task j moves on to r, or ends.
LEMMA JobMoves ==
  ASSUME SeedTyped, NEW j \in Jobs, NEW r \in JobRecord \cup {None}, job' = [job EXCEPT ![j] = r]
  PROVE  /\ job' \in [Jobs -> JobRecord \cup {None}]
         /\ job'[j] = r
         /\ \A i \in Jobs \ {j} : job'[i] = job[i] /\ (Alive(i)' <=> Alive(i))
         /\ Alive(j)' <=> r # None
BY DEF SeedTyped, Alive

\* What a move of task j has to keep.
LEMMA MoveKeeps ==
  ASSUME SeedInv, NEW j \in Jobs, NEW r \in JobRecord \cup {None}, job' = [job EXCEPT ![j] = r],
         SeedTyped', r # None => OwnPlace(r),
         ~ muddled' => /\ \A i \in Jobs \ {j} : ~ Alive(i)
                       /\ Behind(status'.next) \subseteq tried'
                       /\ r # None => Follows(r)'
                       /\ status'.state = "done" => Behind(status'.batches) \subseteq tried'
  PROVE  SeedInv'
<1>1. /\ job'[j] = r
      /\ \A i \in Jobs \ {j} : job'[i] = job[i] /\ (Alive(i)' <=> Alive(i))
      /\ Alive(j)' <=> r # None
  BY JobMoves DEF SeedInv
<1>2. \A i \in Jobs : Alive(i)' => OwnPlace(job'[i])
  BY <1>1 DEF SeedInv
<1>3. ASSUME ~ muddled' PROVE Clear'
  <2>1. \A i \in Jobs \ {j} : ~ Alive(i)'
    BY <1>1, <1>3
  <2>2. \A i \in Jobs : Alive(i)' => Follows(job[i])'
    <3>1. ASSUME NEW i \in Jobs, Alive(i)' PROVE i = j
      BY <2>1, <3>1
    <3>2. Alive(j)' => Follows(job[j])'
      <4>1. Alive(j)' => Follows(r)'
        BY <1>1, <1>3
      <4> QED
        BY <1>1, <4>1 DEF Follows
    <3> QED
      BY <3>1, <3>2
  <2> QED
    BY <1>3, <2>1, <2>2 DEF Clear
<1> QED
  BY <1>2, <1>3 DEF SeedInv

\* Steps of a task that is alive.
LEMMA TaskKeeps ==
  ASSUME SeedInv, NEW j \in Jobs, JobStep(j) \/ BatchFails(j) \/ JobFails(j)
  PROVE  SeedInv'
<1>0. PICK r : r = job[j]
  OBVIOUS
<1>1. MaxBatches \in Nat /\ MaxCrashes \in Nat
  BY SeedAssumption
<1>2. /\ Alive(j) /\ r \in JobRecord /\ OwnPlace(r)
      /\ ~ muddled => Clear /\ Follows(r) /\ \A i \in Jobs \ {j} : ~ Alive(i)
  <2>1. Alive(j)
    BY DEF JobStep, Place, ReadNext, WriteStatus, BatchBegin, BatchDone, JobDone, BatchFails,
           JobFails, At
  <2> QED
    BY <1>0, <2>1, AliveRecord DEF SeedInv, Clear
<1>3. /\ status.next \in 0 .. MaxBatches /\ status.batches \in 0 .. MaxBatches
      /\ status.state \in SeedState
      /\ status \in [state : SeedState, batches : 0 .. MaxBatches, next : 0 .. MaxBatches]
      /\ tried \subseteq 0 .. MaxBatches - 1
  BY DEF SeedInv, SeedTyped
<1>4. /\ r.batches \in 1 .. MaxBatches /\ r.at \in 0 .. MaxBatches /\ r.resume \in BOOLEAN
      /\ r.pc \in {"placing", "reading", "writing", "top", "asking"}
  BY <1>2 DEF JobRecord
<1>5. Crash => ncrashes' \in 0 .. MaxCrashes
  BY <1>1 DEF Crash, SeedInv, SeedTyped
<1>6. CASE Place(j)
  <2>0. PICK q : q = [r EXCEPT !.pc = IF r.resume THEN "reading" ELSE "writing"]
    OBVIOUS
  <2>1. /\ q \in JobRecord /\ q.at = r.at /\ q.resume = r.resume
        /\ q.pc = IF r.resume THEN "reading" ELSE "writing"
    BY <1>2, <2>0 DEF JobRecord
  <2>2. job' = [job EXCEPT ![j] = q]
    BY <1>0, <1>6, <2>0 DEF Place, Goes
  <2>3. /\ status' = status \/ status' = [status EXCEPT !.state = "running", !.batches = r.batches]
        /\ UNCHANGED <<tried, muddled, nstarts>>
    BY <1>0, <1>6 DEF Place
  <2>4. /\ status' \in [state : SeedState, batches : 0 .. MaxBatches, next : 0 .. MaxBatches]
        /\ status'.next = status.next
        /\ status'.state = "done" => status' = status
    <3>1. CASE status' = status
      BY <1>3, <3>1
    <3>2. CASE status' = [status EXCEPT !.state = "running", !.batches = r.batches]
      <4>1. status'.state = "running" /\ status'.next = status.next /\ r.batches \in 0 .. MaxBatches
        BY <1>3, <1>4, <3>2
      <4>2. "running" \in SeedState
        BY DEF SeedState
      <4> QED
        BY <1>3, <3>2, <4>1, <4>2
    <3> QED
      BY <2>3, <3>1, <3>2
  <2>5. fresh' \in BOOLEAN
    BY <1>6 DEF Place, SeedInv, SeedTyped
  <2>6. SeedTyped'
    BY <1>5, <1>6, <2>1, <2>2, <2>3, <2>4, <2>5, JobMoves DEF Place, SeedInv, SeedTyped
  <2>7. OwnPlace(q)
    BY <1>0, <1>2, <1>4, <1>6, <2>1 DEF OwnPlace, Place, At
  <2>8. Follows(q)'
    BY <1>4, <2>1 DEF Follows
  <2>9. ~ muddled' => /\ \A i \in Jobs \ {j} : ~ Alive(i)
                      /\ Behind(status'.next) \subseteq tried'
                      /\ status'.state = "done" => Behind(status'.batches) \subseteq tried'
    BY <1>2, <2>3, <2>4 DEF Clear
  <2> QED
    BY <2>1, <2>2, <2>6, <2>7, <2>8, <2>9, MoveKeeps
<1>7. CASE ReadNext(j)
  <2>0. PICK q : q = [r EXCEPT !.at = status.next, !.pc = "writing"]
    OBVIOUS
  <2>1. q \in JobRecord /\ q.at = status.next /\ q.resume = r.resume /\ q.pc = "writing"
    BY <1>2, <1>3, <2>0 DEF JobRecord
  <2>2. job' = [job EXCEPT ![j] = q] /\ UNCHANGED <<status, fresh, tried, muddled, nstarts, ncrashes>>
    BY <1>0, <1>7, <2>0 DEF ReadNext
  <2>3. SeedTyped'
    BY <2>1, <2>2, JobMoves DEF SeedInv, SeedTyped
  <2>4. OwnPlace(q)
    BY <1>0, <1>2, <1>7, <2>1 DEF OwnPlace, ReadNext, At
  <2>5. ~ muddled => Follows(q)'
    BY <1>2, <2>1, <2>2 DEF Follows, Clear
  <2>6. ~ muddled' => /\ \A i \in Jobs \ {j} : ~ Alive(i)
                      /\ Behind(status'.next) \subseteq tried'
                      /\ Follows(q)'
                      /\ status'.state = "done" => Behind(status'.batches) \subseteq tried'
    BY <1>2, <2>2, <2>5 DEF Clear
  <2> QED
    BY <2>1, <2>2, <2>3, <2>4, <2>6, MoveKeeps
<1>8. CASE WriteStatus(j)
  <2>0. PICK q : q = [r EXCEPT !.pc = "top"]
    OBVIOUS
  <2> DEFINE s == [state |-> "running", batches |-> r.batches, next |-> r.at]
  <2>1. q \in JobRecord /\ q.at = r.at /\ q.batches = r.batches /\ q.resume = r.resume /\ q.pc = "top"
    BY <1>2, <2>0 DEF JobRecord
  <2>2. job' = [job EXCEPT ![j] = q] /\ status' = s /\ fresh' = TRUE /\ UNCHANGED <<nstarts, ncrashes>>
    BY <1>0, <1>8, <2>0 DEF WriteStatus, Goes
  <2>3. /\ s \in [state : SeedState, batches : 0 .. MaxBatches, next : 0 .. MaxBatches]
        /\ s.state = "running" /\ s.batches = r.batches /\ s.next = r.at
    BY <1>4 DEF SeedState
  <2>4. tried' \subseteq 0 .. MaxBatches - 1
    BY <1>3, <1>8 DEF WriteStatus
  <2>5. muddled' \in BOOLEAN
    BY <1>8 DEF WriteStatus, SeedInv, SeedTyped
  <2>6. SeedTyped'
    BY <2>1, <2>2, <2>3, <2>4, <2>5, JobMoves DEF SeedInv, SeedTyped
  <2>7. OwnPlace(q)
    BY <1>2, <2>1 DEF OwnPlace
  <2>8. ~ muddled' => Behind(r.at) \subseteq tried' /\ \A i \in Jobs \ {j} : ~ Alive(i)
    <3>1. CASE r.resume
      BY <1>0, <1>2, <1>8, <3>1 DEF WriteStatus, Follows, At
    <3>2. CASE ~ r.resume
      <4>1. r.at = 0
        BY <1>0, <1>2, <1>8, <3>2 DEF OwnPlace, WriteStatus, At
      <4>2. Behind(r.at) = {}
        BY <4>1 DEF Behind
      <4> QED
        BY <1>0, <1>8, <3>2, <4>2 DEF WriteStatus, Alive
    <3> QED
      BY <3>1, <3>2
  <2>9. ~ muddled' => Follows(q)'
    BY <2>1, <2>2, <2>3, <2>8 DEF Follows
  <2>10. status'.state # "done" /\ status'.next = r.at
    BY <2>2, <2>3
  <2>11. ~ muddled' => /\ \A i \in Jobs \ {j} : ~ Alive(i)
                       /\ Behind(status'.next) \subseteq tried'
                       /\ Follows(q)'
    BY <2>8, <2>9, <2>10
  <2> QED
    BY <2>1, <2>2, <2>6, <2>7, <2>10, <2>11, MoveKeeps
<1>9. CASE BatchBegin(j)
  <2>0. PICK q : q = [r EXCEPT !.pc = "asking"]
    OBVIOUS
  <2>1. q \in JobRecord /\ q.at = r.at /\ q.batches = r.batches /\ q.resume = r.resume /\ q.pc = "asking"
    BY <1>2, <2>0 DEF JobRecord
  <2>2. /\ job' = [job EXCEPT ![j] = q] /\ status' = [status EXCEPT !.next = r.at] /\ fresh' = TRUE
        /\ UNCHANGED <<tried, muddled, nstarts, ncrashes>>
    BY <1>0, <1>9, <2>0 DEF BatchBegin, Goes, Mark
  <2>3. /\ status' \in [state : SeedState, batches : 0 .. MaxBatches, next : 0 .. MaxBatches]
        /\ status'.next = r.at /\ status'.state = status.state /\ status'.batches = status.batches
    BY <1>3, <1>4, <2>2
  <2>4. SeedTyped'
    BY <2>1, <2>2, <2>3, JobMoves DEF SeedInv, SeedTyped
  <2>5. OwnPlace(q)
    BY <1>0, <1>2, <1>9, <2>1 DEF OwnPlace, BatchBegin
  <2>6. ~ muddled' => Behind(r.at) \subseteq tried' /\ status'.batches = r.batches
    BY <1>0, <1>2, <1>9, <2>2, <2>3 DEF Follows, BatchBegin, At
  <2>7. ~ muddled' => /\ \A i \in Jobs \ {j} : ~ Alive(i)
                      /\ Behind(status'.next) \subseteq tried'
                      /\ Follows(q)'
                      /\ status'.state = "done" => Behind(status'.batches) \subseteq tried'
    BY <1>2, <2>1, <2>2, <2>3, <2>6 DEF Follows, Clear
  <2> QED
    BY <2>1, <2>2, <2>4, <2>5, <2>7, MoveKeeps
\* The batch in hand is tried, whether the model answers or not.
<1>10. CASE BatchDone(j) \/ BatchFails(j)
  <2>0. PICK q : q = [r EXCEPT !.pc = "top", !.at = r.at + 1]
    OBVIOUS
  <2>1. r.pc = "asking" /\ r.at < r.batches
    BY <1>0, <1>2, <1>10 DEF OwnPlace, BatchDone, BatchFails, At
  <2>2. r.at + 1 \in 0 .. MaxBatches /\ r.at \in 0 .. MaxBatches - 1
    BY <1>1, <1>4, <2>1
  <2>3. q \in JobRecord /\ q.at = r.at + 1 /\ q.batches = r.batches /\ q.resume = r.resume /\ q.pc = "top"
    BY <1>2, <2>0, <2>2 DEF JobRecord
  <2>4. /\ job' = [job EXCEPT ![j] = q] /\ tried' = tried \cup {r.at}
        /\ UNCHANGED <<muddled, nstarts>>
        /\ status' = status \/ status' = [status EXCEPT !.next = r.at + 1]
    BY <1>0, <1>10, <2>0 DEF BatchDone, BatchFails, Next1
  <2>5. /\ status' \in [state : SeedState, batches : 0 .. MaxBatches, next : 0 .. MaxBatches]
        /\ status'.next \in {status.next, r.at + 1}
        /\ status'.state = status.state /\ status'.batches = status.batches
    BY <1>3, <2>2, <2>4
  <2>6. fresh' \in BOOLEAN
    BY <1>10 DEF BatchDone, BatchFails, SeedInv, SeedTyped
  <2>7. ncrashes' \in 0 .. MaxCrashes
    BY <1>5, <1>10 DEF BatchDone, BatchFails, SeedInv, SeedTyped
  <2>8. SeedTyped'
    BY <1>3, <2>2, <2>3, <2>4, <2>5, <2>6, <2>7, JobMoves DEF SeedInv, SeedTyped
  <2>9. OwnPlace(q)
    BY <2>1, <2>3, <1>2 DEF OwnPlace
  <2>10. Behind(r.at + 1) = Behind(r.at) \cup {r.at}
    BY <2>2 DEF Behind
  <2>11. ~ muddled' => Behind(r.at + 1) \subseteq tried' /\ status'.batches = r.batches
    BY <1>2, <2>1, <2>4, <2>5, <2>10 DEF Follows
  <2>12. ~ muddled' => /\ \A i \in Jobs \ {j} : ~ Alive(i)
                       /\ Behind(status'.next) \subseteq tried'
                       /\ Follows(q)'
                       /\ status'.state = "done" => Behind(status'.batches) \subseteq tried'
    BY <1>2, <2>3, <2>4, <2>5, <2>11 DEF Follows, Clear
  <2> QED
    BY <2>3, <2>4, <2>8, <2>9, <2>12, MoveKeeps
<1>11. CASE JobDone(j) \/ JobFails(j)
  <2>1. /\ job' = [job EXCEPT ![j] = None] /\ UNCHANGED <<fresh, tried, muddled, nstarts>>
        /\ \/ status' = [status EXCEPT !.state = "failed"] \/ status' = status
           \/ /\ status' = [status EXCEPT !.state = "done"]
              /\ r.pc = "top" /\ r.at >= r.batches
    BY <1>0, <1>11 DEF JobDone, JobFails, Ends, At
  <2>2. /\ status' \in [state : SeedState, batches : 0 .. MaxBatches, next : 0 .. MaxBatches]
        /\ status'.next = status.next /\ status'.batches = status.batches
        /\ status'.state = "done" => status.state = "done" \/ (r.pc = "top" /\ r.at >= r.batches)
    BY <1>3, <2>1 DEF SeedState
  <2>3. ncrashes' \in 0 .. MaxCrashes
    BY <1>5, <1>11 DEF JobDone, JobFails, SeedInv, SeedTyped
  <2>4. SeedTyped'
    BY <2>1, <2>2, <2>3, JobMoves DEF SeedInv, SeedTyped
  <2>5. r.at >= r.batches => Behind(r.batches) \subseteq Behind(r.at)
    BY <1>4 DEF Behind
  <2>6. ~ muddled' => /\ \A i \in Jobs \ {j} : ~ Alive(i)
                      /\ Behind(status'.next) \subseteq tried'
                      /\ status'.state = "done" => Behind(status'.batches) \subseteq tried'
    BY <1>2, <2>1, <2>2, <2>5 DEF Follows, Clear
  <2> HIDE DEF None
  <2> QED
    BY <2>1, <2>4, <2>6, MoveKeeps
<1> QED
  BY <1>6, <1>7, <1>8, <1>9, <1>10, <1>11 DEF JobStep

LEMMA StartKeeps ==
  ASSUME SeedInv, NEW j \in Jobs, NEW b \in 1 .. MaxBatches, Start(j, b)
  PROVE  SeedInv'
<1>1. NewJob(b, FALSE) \in JobRecord
  BY SeedAssumption DEF NewJob, JobRecord
<1>2. PICK q \in JobRecord : q = NewJob(b, FALSE)
  BY <1>1
<1>3. q.pc = "placing" /\ q.at = 0 /\ q.resume = FALSE
  BY <1>2 DEF NewJob
<1>4. job' = [job EXCEPT ![j] = q] /\ UNCHANGED <<status, fresh, tried, ncrashes>>
  BY <1>2 DEF Start
<1>5. nstarts' \in 0 .. MaxStarts
  BY SeedAssumption DEF Start, SeedInv, SeedTyped
<1>6. muddled' \in BOOLEAN
  BY DEF Start, SeedInv, SeedTyped
<1>7. SeedTyped'
  BY <1>4, <1>5, <1>6, JobMoves DEF SeedInv, SeedTyped
<1>8. OwnPlace(q)
  BY <1>3 DEF OwnPlace
<1>9. Follows(q)'
  BY <1>3 DEF Follows
<1>10. ~ muddled' => ~ muddled /\ \A i \in Jobs : ~ Alive(i)
  BY DEF Start
<1>11. ~ muddled' => /\ \A i \in Jobs \ {j} : ~ Alive(i)
                     /\ Behind(status'.next) \subseteq tried'
                     /\ status'.state = "done" => Behind(status'.batches) \subseteq tried'
  BY <1>4, <1>10 DEF SeedInv, Clear
<1> QED
  BY <1>4, <1>7, <1>8, <1>9, <1>11, MoveKeeps

\* The page's other actions leave the tasks alone.
LEMMA PageKeeps ==
  ASSUME SeedInv, Dismiss \/ GrowsStale \/ UNCHANGED seedVars
  PROVE  SeedInv'
<1>1. CASE Dismiss
  <2>1. /\ status' = NoStatus /\ fresh' = FALSE /\ UNCHANGED <<job, tried, nstarts, ncrashes>>
        /\ ~ muddled' => ~ muddled /\ \A j \in Jobs : ~ Alive(j)
    BY <1>1 DEF Dismiss
  <2>2. /\ NoStatus \in [state : SeedState, batches : 0 .. MaxBatches, next : 0 .. MaxBatches]
        /\ NoStatus.next = 0 /\ NoStatus.state = "none"
    BY SeedAssumption DEF NoStatus, SeedState
  <2>3. muddled' \in BOOLEAN
    BY <1>1 DEF Dismiss, SeedInv, SeedTyped
  <2>4. SeedTyped'
    BY <2>1, <2>2, <2>3 DEF SeedInv, SeedTyped
  <2>5. \A j \in Jobs : (Alive(j)' <=> Alive(j)) /\ job'[j] = job[j]
    BY <2>1 DEF Alive
  <2>6. ~ muddled' => Clear'
    <3>1. Behind(status'.next) = {} /\ status'.state # "done"
      BY <2>1, <2>2 DEF Behind
    <3> QED
      BY <2>1, <2>5, <3>1 DEF Clear
  <2> QED
    BY <2>4, <2>5, <2>6 DEF SeedInv
<1>2. CASE GrowsStale \/ UNCHANGED seedVars
  <2>1. UNCHANGED <<status, job, tried, muddled, nstarts, ncrashes>> /\ fresh' \in BOOLEAN
    BY <1>2 DEF GrowsStale, seedVars, SeedInv, SeedTyped
  <2> QED
    BY <2>1 DEF SeedInv, SeedTyped, Clear, Follows, Alive
<1> QED
  BY <1>1, <1>2

\* A restart leaves one task at most, which goes on where the status says.
LEMMA RestartKeeps ==
  ASSUME SeedInv, NEW j \in Jobs, Restart(j)
  PROVE  SeedInv'
<1>1. /\ status \in [state : SeedState, batches : 0 .. MaxBatches, next : 0 .. MaxBatches]
      /\ MaxCrashes \in Nat /\ MaxBatches \in Nat
      /\ UNCHANGED <<fresh, tried, nstarts>> /\ (~ muddled' => ~ muddled)
  BY SeedAssumption DEF SeedInv, SeedTyped, Restart
<1>2. ncrashes' \in 0 .. MaxCrashes /\ muddled' \in BOOLEAN
  BY <1>1 DEF Restart, Crash, SeedInv, SeedTyped
<1>3. CASE Interrupted /\ status.next < status.batches
  <2>1. PICK q : q = NewJob(status.batches, TRUE)
    OBVIOUS
  <2>2. status.batches \in 1 .. MaxBatches
    BY <1>1, <1>3 DEF Interrupted
  <2>3. q \in JobRecord /\ q.pc = "placing" /\ q.resume = TRUE
    BY <1>1, <2>1, <2>2 DEF NewJob, JobRecord
  <2>4. job' = [i \in Jobs |-> IF i = j THEN q ELSE None] /\ status' = status
    <3>1. ~ (status.next >= status.batches)
      <4>1. status.next \in 0 .. MaxBatches /\ status.batches \in 0 .. MaxBatches
        BY <1>1
      <4> QED
        BY <1>1, <1>3, <4>1
    <3>2. status' = status
      BY <3>1 DEF Restart
    <3>3. job' = [i \in Jobs |-> IF i = j THEN q ELSE None]
      BY <1>3, <2>1 DEF Restart
    <3> QED
      BY <3>2, <3>3
  <2>5. SeedTyped'
    BY <1>1, <1>2, <2>3, <2>4 DEF SeedInv, SeedTyped
  <2>6. \A i \in Jobs : Alive(i)' => i = j /\ job'[i] = q
    BY <2>4 DEF Alive
  <2>7. OwnPlace(q)
    BY <2>3 DEF OwnPlace
  <2>8. Follows(q)'
    BY <2>3 DEF Follows
  <2>9. \A i \in Jobs : Alive(i)' => Follows(job[i])'
    BY <2>6, <2>8 DEF Follows
  <2>10. ~ muddled' => Clear'
    BY <1>1, <2>4, <2>6, <2>9 DEF SeedInv, Clear
  <2> QED
    BY <2>5, <2>6, <2>7, <2>10 DEF SeedInv
<1>4. CASE ~ (Interrupted /\ status.next < status.batches)
  <2>1. /\ job' = [i \in Jobs |-> None]
        /\ \/ status' = status
           \/ status' = [status EXCEPT !.state = "done"] /\ status.next >= status.batches
    BY <1>4 DEF Restart
  <2>2. \A i \in Jobs : ~ Alive(i)'
    BY <2>1 DEF Alive
  <2>3. /\ status' \in [state : SeedState, batches : 0 .. MaxBatches, next : 0 .. MaxBatches]
        /\ status'.next = status.next /\ status'.batches = status.batches
        /\ status'.state = "done" => status.state = "done" \/ status.next >= status.batches
    BY <1>1, <2>1 DEF SeedState
  <2>4. job' \in [Jobs -> JobRecord \cup {None}]
    BY <2>1
  <2>5. SeedTyped'
    BY <1>1, <1>2, <2>3, <2>4 DEF SeedInv, SeedTyped
  <2>6. status.next >= status.batches => Behind(status.batches) \subseteq Behind(status.next)
    BY <1>1 DEF Behind
  <2>7. ~ muddled' => Clear'
    BY <1>1, <2>2, <2>3, <2>6 DEF SeedInv, Clear
  <2> QED
    BY <2>2, <2>5, <2>7 DEF SeedInv
<1> QED
  BY <1>3, <1>4

\* A seed shown as done asked for each of its batches, through any number of restarts,
\* failures and second starts, unless two jobs met or a run died unwritten.
THEOREM NoBatchLeftOut == SeedSpec => []EveryBatchTried
<1>1. SeedInv /\ [SeedNext]_seedVars => SeedInv'
  BY TaskKeeps, StartKeeps, PageKeeps, RestartKeeps DEF SeedNext
<1>2. SeedInv => EveryBatchTried
  BY DEF SeedInv, Clear, EveryBatchTried, Behind
<1> QED
  BY SeedBegins, <1>1, <1>2, PTL DEF SeedSpec

\* A seed's record and the tasks' places stay within the seed's batches, whoever starts,
\* dismisses or restarts it (the hash of agents/historian.py:63-80).
THEOREM SeedTypeCorrect == SeedSpec => []SeedTypeOK
<1>1. SeedInv => SeedTypeOK
  BY AliveRecord DEF SeedInv, SeedTyped, SeedTypeOK, JobRecord
<1>2. SeedInv /\ [SeedNext]_seedVars => SeedInv'
  BY TaskKeeps, StartKeeps, PageKeeps, RestartKeeps DEF SeedNext
<1> QED
  BY SeedBegins, <1>1, <1>2, PTL DEF SeedSpec

=============================================================================
