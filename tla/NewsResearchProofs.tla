-------------------------- MODULE NewsResearchProofs --------------------------
(***************************************************************************)
(* For every set of stories, loops, buckets and limits, and however much   *)
(* fails: the types of NewsResearch, no repeated broadcast, a marked row   *)
(* with its node, the quota and the room of a bucket, and one research per *)
(* event.                                                                  *)
(***************************************************************************)
EXTENDS NewsResearch, SequenceTheorems, TLAPS

-----------------------------------------------------------------------------
(***************************************************************************)
(* The source loops.                                                       *)
(***************************************************************************)
InHand == [pc : {"hash", "store", "compare", "archive", "duplicate", "publish"}, s : Stories]

\* Past the look at the hashes the story is one this loop never sent, past the second
\* call it is recorded.
Recorded(l) ==
  /\ loop[l].pc \in {"store", "compare", "archive", "publish"} => sent[<<l, loop[l].s>>] = 0
  /\ loop[l].pc \in {"compare", "archive", "publish"} => loop[l].s \in hashes
  /\ loop[l].pc = "publish" => loop[l].s \in archived

Scraped ==
  /\ hashes \subseteq Stories /\ prints \subseteq Stories /\ archived \subseteq Stories
  /\ loop \in [Loops -> InHand \cup {Idle}]
  /\ sent \in [Loops \X Stories -> 0 .. 1]
  /\ \A l \in Loops, s \in Stories : sent[<<l, s>>] = 1 => s \in hashes
  /\ \A l \in Loops : loop[l] # Idle => Recorded(l)
  /\ nfetches \in 0 .. MaxFetches

(***************************************************************************)
(* Graph ingestion.                                                        *)
(***************************************************************************)
Handler == [pc : {"extract", "write", "link", "mark", "publish"}, s : Stories, id : Nat]

\* The node of the story in hand is there once it has an id, with its edges once they
\* were written.
Written ==
  /\ ing.s \in archived
  /\ ing.pc \in {"extract", "write"} => ing.id = 0
  /\ ing.pc \in {"link", "mark", "publish"} => ing.id \in DOMAIN graph /\ graph[ing.id] = ing.s
  /\ ing.pc \in {"mark", "publish"} => ing.id \in linked

Ingested ==
  /\ raw \in Seq(Stories) /\ letters \subseteq archived
  /\ \A i \in DOMAIN raw : raw[i] \in archived
  /\ ing \in Handler \cup {Idle}
  /\ graph \in Seq(Stories) /\ Len(graph) <= MaxNodes
  /\ linked \subseteq DOMAIN graph /\ marked \in [Stories -> 0 .. MaxNodes]
  /\ ing # Idle => Written
  /\ MarkedIsLinked
  /\ enriched \in Seq(Event)
  /\ nfaults \in 0 .. MaxFaults

(***************************************************************************)
(* The strategist.                                                         *)
(***************************************************************************)
Thought == [pc : {"screen", "ask", "council", "done"}, e : Event]
           \cup [pc : {"quota", "size", "count", "publish", "done"}, e : Event, b : Buckets]

\* A bucket that was seen whole has kept to its limits ...
WithinLimits(b) ==
  /\ published[b] <= count[b] /\ count[b] <= MaxPerDay
  /\ Held(b) <= Target

\* ... and has room for the proposal that is being made.
RoomForOne(b) ==
  /\ strat.pc \in {"size", "count"} => count[b] < MaxPerDay
  /\ strat.pc = "publish" => published[b] < count[b]
  /\ strat.pc \in {"count", "publish"} => Held(b) < Target

Planned ==
  /\ strat \in Thought \cup {Idle}
  /\ strat # Idle /\ strat.pc \in {"ask", "council", "quota", "size", "count", "publish"}
       => strat.e.id # 0
  /\ returned \subseteq Event /\ missing \subseteq Event
  /\ {count, published, waiting, open, bare} \subseteq [Buckets -> Nat]
  /\ blind \subseteq Buckets
  /\ \A b \in Buckets \ blind : WithinLimits(b)
  /\ strat # Idle /\ strat.pc \in {"size", "count", "publish"} /\ strat.b \notin blind
       => RoomForOne(strat.b)

(***************************************************************************)
(* The historian.                                                          *)
(***************************************************************************)
Inquiry == [pc : {"check", "ask", "replay"}, id : 1 .. MaxNodes]

\* An event is marked as seen before its model is asked.
Researched ==
  /\ requests \in Seq(1 .. MaxNodes) /\ seen \subseteq 1 .. MaxNodes
  /\ hist \in Inquiry \cup {Idle}
  /\ asked \in [1 .. MaxNodes -> 0 .. 1]
  /\ \A id \in 1 .. MaxNodes : asked[id] = 1 => id \in seen
  /\ hist # Idle /\ hist.pc = "ask" => hist.id \in seen /\ asked[hist.id] = 0
  /\ today \in 0 .. ResearchCap + nfaults

IInv == Scraped /\ Ingested /\ Planned /\ Researched

-----------------------------------------------------------------------------
LEMMA Numbers ==
  /\ {MaxNodes, MaxFetches, MaxFaults, MaxPerDay, Target, ResearchCap} \subseteq Nat
BY IntakeAssumption, ResearchAssumption

LEMMA InvImplies ==
  IInv => /\ TypeOK /\ NoRebroadcast /\ MarkedIsLinked
          /\ QuotaHolds /\ RoomWhenSighted /\ ResearchedOnce
<1> SUFFICES ASSUME IInv
             PROVE  /\ TypeOK /\ NoRebroadcast /\ MarkedIsLinked
                    /\ QuotaHolds /\ RoomWhenSighted /\ ResearchedOnce
  OBVIOUS
<1> USE Numbers
<1>1. \A p \in Loops \X Stories : sent[p] \in 0 .. 1
  BY DEF IInv, Scraped
<1>2. IntakeTypeOK
  <2>1. sent \in [Loops \X Stories -> Nat]
    BY DEF IInv, Scraped
  <2>2. \A l \in Loops :
       loop[l] = Idle \/ /\ loop[l].s \in Stories
                         /\ loop[l].pc \in {"hash", "store", "compare", "archive",
                                            "duplicate", "publish"}
    BY DEF IInv, Scraped, InHand
  <2>3. ing = Idle \/ /\ ing.s \in Stories /\ ing.id \in 0 .. Len(graph)
                      /\ ing.pc \in {"extract", "write", "link", "mark", "publish"}
    BY LenProperties DEF IInv, Ingested, Handler, Written
  <2> QED
    BY <2>1, <2>2, <2>3 DEF IInv, Scraped, Ingested, IntakeTypeOK
<1>3. TypeOK
  <2>1. strat = Idle \/ /\ strat.e \in Event
                        /\ strat.pc \in {"screen", "ask", "council", "quota", "size",
                                         "count", "publish", "done"}
                        /\ strat.pc \in {"quota", "size", "count", "publish"} => strat.b \in Buckets
    BY DEF IInv, Planned, Thought
  <2>2. hist = Idle \/ /\ hist.id \in 1 .. MaxNodes
                       /\ hist.pc \in {"check", "ask", "replay"}
    BY DEF IInv, Researched, Inquiry
  <2>3. asked \in [1 .. MaxNodes -> Nat]
    BY DEF IInv, Researched
  <2> QED
    BY <1>2, <2>1, <2>2, <2>3 DEF IInv, Planned, Researched, TypeOK
<1>4. NoRebroadcast
  BY <1>1 DEF IInv, Scraped, NoRebroadcast
<1>5. QuotaHolds /\ RoomWhenSighted
  <2>1. \A b \in Buckets : b \in blind \/ WithinLimits(b)
    BY DEF IInv, Planned
  <2>2. \A b \in Buckets : /\ published[b] \in Nat /\ count[b] \in Nat
                           /\ Held(b) \in Nat
    BY DEF IInv, Planned, Held
  <2> QED
    BY <2>1, <2>2 DEF QuotaHolds, RoomWhenSighted, WithinLimits
<1>6. ResearchedOnce
  BY DEF IInv, Researched, ResearchedOnce
<1> QED
  BY <1>3, <1>4, <1>5, <1>6 DEF IInv, Ingested

LEMMA InitInv == Init => IInv
<1> SUFFICES ASSUME Init PROVE IInv
  OBVIOUS
<1> USE Numbers
<1>1. Scraped
  BY DEF Init, IntakeInit, Scraped
<1>2. Ingested
  BY EmptySeq, LenProperties DEF Init, IntakeInit, Ingested, MarkedIsLinked
<1>3. Planned
  <2>1. \A b \in Buckets : WithinLimits(b)
    BY DEF Init, WithinLimits, Held
  <2> QED
    BY <2>1 DEF Init, Planned
<1>4. Researched
  BY EmptySeq DEF Init, IntakeInit, Researched
<1> QED
  BY <1>1, <1>2, <1>3, <1>4 DEF IInv
-----------------------------------------------------------------------------
(***************************************************************************)
(* The source loops: the steps of one of them, everything else.            *)
(***************************************************************************)
LEMMA LoopChanges ==
  ASSUME [Next]_vars
  PROVE  \/ \E l \in Loops : LoopStep(l)
         \/ UNCHANGED intake
BY DEF Next, IntakeNext, IngestStep, StrategistStep, HistorianStep, vars, ivars, intake, nodes,
       TakeRaw, Extract, GiveUpStory, WriteEvent, Link, MarkIngested, PublishEvent, IngestFails,
       ReplayRaw, strategistOf, historianOf, TakeEvent, TooWeak, LookUp, NoTrade, Unconvinced,
       Convinced, Council, CheckQuota, Size, Count, PublishProposal, Finish, StrategistFails,
       ReplayEvent, LedgerMoves, TakeRequest, Claim, Study, Republish, StudyFails, Midnight, ResetCount

LEMMA ScrapedStep ==
  ASSUME Scraped, [Next]_vars
  PROVE  Scraped' /\ archived \subseteq archived'
<1> USE Numbers
<1>1. CASE UNCHANGED intake
  BY <1>1 DEF Scraped, intake, Recorded
<1>2. ASSUME NEW l \in Loops, LoopStep(l)
      PROVE  Scraped' /\ archived \subseteq archived'
  <2>a. /\ loop[l] # Idle => loop[l] \in InHand /\ Recorded(l)
        /\ \A k \in Loops : loop[k] # Idle => Recorded(k)
        /\ loop \in [Loops -> InHand \cup {Idle}] /\ sent \in [Loops \X Stories -> 0 .. 1]
        /\ hashes \subseteq Stories /\ prints \subseteq Stories /\ archived \subseteq Stories
        /\ nfetches \in 0 .. MaxFetches
        /\ \A k \in Loops, s \in Stories : sent[<<k, s>>] = 1 => s \in hashes
    BY DEF Scraped
  <2>1. ASSUME NEW s \in Stories, Fetch(l, s) PROVE Scraped' /\ archived' = archived
    <3> DEFINE x == [pc |-> "hash", s |-> s]
    <3>1. /\ loop' = [loop EXCEPT ![l] = x] /\ nfetches' = nfetches + 1 /\ nfetches < MaxFetches
          /\ UNCHANGED <<hashes, prints, archived, sent>>
      BY <2>1 DEF Fetch
    <3>2. x \in InHand /\ x.pc = "hash"
      BY DEF InHand
    <3>3. \A k \in Loops : loop'[k] # Idle => Recorded(k)'
      BY <2>a, <3>1, <3>2 DEF Recorded
    <3>4. loop' \in [Loops -> InHand \cup {Idle}] /\ nfetches' \in 0 .. MaxFetches
      BY <2>a, <3>1, <3>2
    <3> QED
      BY <2>a, <3>1, <3>3, <3>4 DEF Scraped
  <2>2. ASSUME NEW pc \in {"store", "compare", "archive", "duplicate", "publish"},
               loop[l] # Idle, Goes(l, pc)
        PROVE  /\ loop' \in [Loops -> InHand \cup {Idle}]
               /\ loop'[l].pc = pc /\ loop'[l].s = loop[l].s
               /\ \A k \in Loops \ {l} : loop'[k] = loop[k]
    BY <2>a, <2>2 DEF Goes, InHand
  <2>3. CASE ReadHash(l)
    <3>1. PICK pc \in {"store", "duplicate"} :
            /\ loop[l] # Idle /\ Goes(l, pc) /\ UNCHANGED <<hashes, prints, archived, sent, nfetches>>
            /\ pc = "store" => loop[l].s \notin hashes
      BY <2>3 DEF ReadHash, Has, LooksNew
    <3>2. pc = "store" => sent[<<l, loop[l].s>>] = 0
      BY <2>a, <3>1 DEF InHand
    <3>3. \A k \in Loops : loop'[k] # Idle => Recorded(k)'
      BY <2>a, <2>2, <3>1, <3>2 DEF Recorded
    <3> QED
      BY <2>a, <2>2, <3>1, <3>3 DEF Scraped
  <2>4. CASE StoreHash(l)
    <3>1. PICK pc \in {"compare", "archive"} :
            /\ loop[l] # Idle /\ loop[l].pc = "store" /\ Goes(l, pc)
            /\ hashes' = hashes \cup {loop[l].s}
            /\ UNCHANGED <<prints, archived, sent, nfetches>>
      BY <2>4 DEF StoreHash, Has
    <3>2. \A k \in Loops : loop'[k] # Idle => Recorded(k)'
      BY <2>a, <2>2, <3>1 DEF Recorded
    <3>3. hashes' \subseteq Stories
      BY <2>a, <3>1 DEF InHand
    <3> QED
      BY <2>a, <2>2, <3>1, <3>2, <3>3 DEF Scraped
  <2>5. CASE Compare(l)
    <3>1. PICK pc \in {"duplicate", "archive"} :
            /\ loop[l] # Idle /\ loop[l].pc = "compare" /\ Goes(l, pc)
            /\ prints' = prints \cup {loop[l].s}
            /\ UNCHANGED <<hashes, archived, sent, nfetches>>
      BY <2>5 DEF Compare, Has
    <3>2. \A k \in Loops : loop'[k] # Idle => Recorded(k)'
      BY <2>a, <2>2, <3>1 DEF Recorded
    <3>3. prints' \subseteq Stories
      BY <2>a, <3>1 DEF InHand
    <3> QED
      BY <2>a, <2>2, <3>1, <3>2, <3>3 DEF Scraped
  <2>6. CASE Archive(l)
    <3>1. /\ loop[l] # Idle /\ loop[l].pc = "archive" /\ Goes(l, "publish")
          /\ archived' = archived \cup {loop[l].s}
          /\ UNCHANGED <<hashes, prints, sent, nfetches>>
      BY <2>6 DEF Archive, Has
    <3>2. \A k \in Loops : loop'[k] # Idle => Recorded(k)'
      BY <2>a, <2>2, <3>1 DEF Recorded
    <3>3. archived' \subseteq Stories
      BY <2>a, <3>1 DEF InHand
    <3> QED
      BY <2>a, <2>2, <3>1, <3>2, <3>3 DEF Scraped
  <2>7. CASE PublishRaw(l)
    <3>1. /\ loop[l] # Idle /\ loop[l].pc = "publish" /\ Ends(l)
          /\ sent' = [sent EXCEPT ![<<l, loop[l].s>>] = @ + 1]
          /\ UNCHANGED <<hashes, prints, archived, nfetches>>
      BY <2>7 DEF PublishRaw, Has
    <3>2. /\ <<l, loop[l].s>> \in Loops \X Stories /\ sent[<<l, loop[l].s>>] = 0
          /\ loop[l].s \in hashes
      BY <2>a, <3>1 DEF InHand, Recorded
    <3>3. /\ sent' \in [Loops \X Stories -> 0 .. 1]
          /\ \A k \in Loops, s \in Stories : sent'[<<k, s>>] = 1 => s \in hashes
      BY <2>a, <3>1, <3>2
    <3>4. \A k \in Loops : k # l => loop'[k] = loop[k] /\ (loop[k] # Idle =>
             sent'[<<k, loop[k].s>>] = sent[<<k, loop[k].s>>])
      <4> SUFFICES ASSUME NEW k \in Loops, k # l
                   PROVE  loop'[k] = loop[k] /\ (loop[k] # Idle =>
                            sent'[<<k, loop[k].s>>] = sent[<<k, loop[k].s>>])
        OBVIOUS
      <4>1. loop[k] # Idle => loop[k] \in InHand
        BY <2>a
      <4> QED
        BY <2>a, <3>1, <4>1 DEF Ends, InHand
    <3>5. loop' \in [Loops -> InHand \cup {Idle}] /\ loop'[l] = Idle
      BY <2>a, <3>1 DEF Ends
    <3>6. \A k \in Loops : loop'[k] # Idle => Recorded(k)'
      BY <2>a, <3>1, <3>4, <3>5 DEF Recorded
    <3> QED
      BY <2>a, <3>1, <3>3, <3>5, <3>6 DEF Scraped
  <2>8. CASE ArchiveDuplicate(l) \/ Discard(l) \/ PollFails(l)
    <3>1. Ends(l) /\ UNCHANGED <<hashes, prints, archived, sent, nfetches>>
      BY <2>8 DEF ArchiveDuplicate, Discard, PollFails
    <3>2. loop' \in [Loops -> InHand \cup {Idle}]
      BY <2>a, <3>1 DEF Ends
    <3>3. \A k \in Loops : loop'[k] # Idle => Recorded(k)'
      BY <2>a, <3>1 DEF Recorded, Ends
    <3> QED
      BY <2>a, <3>1, <3>2, <3>3 DEF Scraped
  <2> QED
    BY <1>2, <2>1, <2>3, <2>4, <2>5, <2>6, <2>7, <2>8 DEF LoopStep, Archive
<1> QED
  BY <1>1, <1>2, LoopChanges DEF intake
-----------------------------------------------------------------------------
(***************************************************************************)
(* Graph ingestion.                                                        *)
(***************************************************************************)
LEMMA IngestChanges ==
  ASSUME [Next]_vars
  PROVE  \/ IngestStep \/ IngestFails
         \/ \E s \in letters : ReplayRaw(s)
         \/ \E l \in Loops : PublishRaw(l)
         \/ UNCHANGED <<raw, ing, nodes, letters>>
BY DEF Next, IntakeNext, LoopStep, StrategistStep, HistorianStep, vars, ivars, nodes, rest,
       Fetch, ReadHash, StoreHash, Compare, ArchiveDuplicate, Archive, Discard, PollFails,
       strategistOf, historianOf, TakeEvent, TooWeak, LookUp, NoTrade, Unconvinced,
       Convinced, Council, CheckQuota, Size, Count, PublishProposal, Finish, StrategistFails,
       ReplayEvent, LedgerMoves, TakeRequest, Claim, Study, Republish, StudyFails, Midnight, ResetCount

LEMMA EnrichedChanges ==
  ASSUME [Next]_vars
  PROVE  \/ PublishEvent \/ TakeEvent \/ Republish
         \/ \E e \in returned : ReplayEvent(e)
         \/ UNCHANGED enriched
BY DEF Next, IntakeNext, IngestStep, LoopStep, StrategistStep, HistorianStep, vars, ivars, rest,
       Fetch, ReadHash, StoreHash, Compare, ArchiveDuplicate, Archive, Discard, PublishRaw, PollFails,
       TakeRaw, Extract, GiveUpStory, WriteEvent, Link, MarkIngested, IngestFails, ReplayRaw,
       TooWeak, LookUp, NoTrade, Unconvinced, Convinced, Council, CheckQuota, Size, Count,
       PublishProposal, Finish, StrategistFails, LedgerMoves, TakeRequest, Claim, Study,
       StudyFails, Midnight, ResetCount

LEMMA FaultsCounted ==
  ASSUME [Next]_vars
  PROVE  Fault \/ UNCHANGED nfaults
BY DEF Next, IntakeNext, IngestStep, LoopStep, StrategistStep, HistorianStep, vars, ivars, rest,
       Fetch, ReadHash, StoreHash, Compare, ArchiveDuplicate, Archive, Discard, PublishRaw, PollFails,
       TakeRaw, Extract, GiveUpStory, WriteEvent, Link, MarkIngested, PublishEvent, IngestFails,
       ReplayRaw, TakeEvent, TooWeak, LookUp, NoTrade, Unconvinced, Convinced, Council, CheckQuota,
       Size, Count, PublishProposal, Finish, StrategistFails, ReplayEvent, LedgerMoves, TakeRequest,
       Claim, Study, Republish, StudyFails, Midnight, ResetCount

LEMMA FaultsType ==
  ASSUME IInv, [Next]_vars
  PROVE  /\ nfaults' \in 0 .. MaxFaults /\ nfaults <= nfaults'
         /\ Fault => nfaults' = nfaults + 1
<1>1. MaxFaults \in Nat /\ nfaults \in 0 .. MaxFaults
  BY Numbers DEF IInv, Ingested
<1>2. Fault => nfaults' = nfaults + 1 /\ nfaults < MaxFaults
  BY DEF Fault
<1> QED
  BY <1>1, <1>2, FaultsCounted

\* What was appended to a stream, and what is left of it, has the stream's type.
LEMMA StreamType ==
  ASSUME NEW S, NEW q \in Seq(S)
  PROVE  /\ \A x \in S : Append(q, x) \in Seq(S)
         /\ q # <<>> => Head(q) \in S /\ Tail(q) \in Seq(S)
         /\ \A x \in S : \A i \in DOMAIN Append(q, x) :
              (i \in DOMAIN q /\ Append(q, x)[i] = q[i]) \/ Append(q, x)[i] = x
         /\ q # <<>> => /\ Head(q) = q[1] /\ 1 \in DOMAIN q
                        /\ \A i \in DOMAIN Tail(q) : i + 1 \in DOMAIN q /\ Tail(q)[i] = q[i + 1]
<1>1. \A x \in S : \A i \in DOMAIN Append(q, x) :
        (i \in DOMAIN q /\ Append(q, x)[i] = q[i]) \/ Append(q, x)[i] = x
  <2> TAKE x \in S
  <2>1. /\ Append(q, x) \in Seq(S) /\ Len(Append(q, x)) = Len(q) + 1
        /\ \A i \in 1 .. Len(q) : Append(q, x)[i] = q[i]
        /\ Append(q, x)[Len(q) + 1] = x
    BY AppendProperties
  <2>2. DOMAIN Append(q, x) = 1 .. Len(q) + 1 /\ DOMAIN q = 1 .. Len(q) /\ Len(q) \in Nat
    BY <2>1, LenProperties
  <2> QED
    BY <2>1, <2>2
<1>2. q # <<>> => /\ Head(q) = q[1] /\ 1 \in DOMAIN q
                  /\ \A i \in DOMAIN Tail(q) : i + 1 \in DOMAIN q /\ Tail(q)[i] = q[i + 1]
  <2> SUFFICES ASSUME q # <<>>
               PROVE  /\ Head(q) = q[1] /\ 1 \in DOMAIN q
                      /\ \A i \in DOMAIN Tail(q) : i + 1 \in DOMAIN q /\ Tail(q)[i] = q[i + 1]
    OBVIOUS
  <2>1. Len(q) \in Nat \ {0} /\ DOMAIN q = 1 .. Len(q)
    BY LenProperties, EmptySeq
  <2>2. Tail(q) \in Seq(S) /\ Len(Tail(q)) = Len(q) - 1
        /\ \A i \in 1 .. Len(Tail(q)) : Tail(q)[i] = q[i + 1]
    BY HeadTailProperties
  <2>3. DOMAIN Tail(q) = 1 .. Len(q) - 1
    BY <2>2, LenProperties
  <2> QED
    BY <2>1, <2>2, <2>3, HeadTailProperties
<1> QED
  BY <1>1, <1>2, AppendProperties, HeadTailProperties

LEMMA EnrichedStep ==
  ASSUME IInv, [Next]_vars
  PROVE  enriched' \in Seq(Event)
<1> USE Numbers
<1>a. enriched \in Seq(Event)
  BY DEF IInv, Ingested
<1>1. CASE PublishEvent
  <2>1. ing # Idle /\ ing.pc = "publish" /\ enriched' = Append(enriched, [id |-> ing.id, again |-> FALSE])
    BY <1>1 DEF PublishEvent, Ingesting, NewEvent
  <2>2. ing.id \in DOMAIN graph /\ graph \in Seq(Stories) /\ Len(graph) <= MaxNodes
    BY <2>1 DEF IInv, Ingested, Written
  <2>3. ing.id \in 0 .. MaxNodes
    BY <2>2, LenProperties
  <2>4. [id |-> ing.id, again |-> FALSE] \in Event
    BY <2>3 DEF Event
  <2> QED
    BY <1>a, <2>1, <2>4, StreamType
<1>2. CASE Republish
  <2>1. [id |-> 0, again |-> TRUE] \in Event
    BY DEF Event
  <2> QED
    BY <1>2, <1>a, <2>1, StreamType DEF Republish
<1>3. CASE TakeEvent
  BY <1>3, <1>a, StreamType DEF TakeEvent
<1>4. CASE \E e \in returned : ReplayEvent(e)
  <2>1. PICK e \in Event : enriched' = Append(enriched, e)
    BY <1>4 DEF ReplayEvent, IInv, Planned
  <2> QED
    BY <1>a, <2>1, StreamType
<1> QED
  BY <1>1, <1>2, <1>3, <1>4, <1>a, EnrichedChanges

LEMMA IngestedStep ==
  ASSUME IInv, [Next]_vars
  PROVE  Ingested'
<1> USE Numbers
<1>a. /\ raw \in Seq(Stories) /\ letters \subseteq archived
      /\ \A i \in DOMAIN raw : raw[i] \in archived
      /\ ing \in Handler \cup {Idle}
      /\ graph \in Seq(Stories) /\ Len(graph) <= MaxNodes
      /\ linked \subseteq DOMAIN graph /\ marked \in [Stories -> 0 .. MaxNodes]
      /\ ing # Idle => Written
      /\ MarkedIsLinked
      /\ archived \subseteq archived' /\ archived \subseteq Stories
      /\ \A l \in Loops : loop[l] # Idle => loop[l] \in InHand /\ Recorded(l)
  BY ScrapedStep DEF IInv, Ingested, Scraped
<1>b. enriched' \in Seq(Event) /\ nfaults' \in 0 .. MaxFaults
  BY EnrichedStep, FaultsType
<1>c. ASSUME UNCHANGED <<graph, linked, marked>>, raw' \in Seq(Stories),
             \A i \in DOMAIN raw' : raw'[i] \in archived,
             letters' \subseteq archived, ing' \in Handler \cup {Idle},
             ing' # Idle => Written'
      PROVE  Ingested'
  <2>1. MarkedIsLinked'
    BY <1>a, <1>c DEF MarkedIsLinked
  <2> QED
    BY <1>a, <1>b, <1>c, <2>1 DEF Ingested
<1>d. ASSUME UNCHANGED <<raw, letters, graph, linked, marked>>, UNCHANGED ing \/ ing' = Idle
      PROVE  Ingested'
  BY <1>a, <1>c, <1>d DEF Written
<1>e. ASSUME NEW s \in archived, UNCHANGED ing, UNCHANGED <<graph, linked, marked>>,
             raw' = Append(raw, s), letters' \subseteq letters
      PROVE  Ingested'
  <2>1. raw' \in Seq(Stories) /\ \A i \in DOMAIN raw' : raw'[i] \in archived
    <3>1. s \in Stories /\ raw' = Append(raw, s)
      BY <1>a, <1>e
    <3>2. /\ Append(raw, s) \in Seq(Stories)
          /\ \A i \in DOMAIN Append(raw, s) :
               (i \in DOMAIN raw /\ Append(raw, s)[i] = raw[i]) \/ Append(raw, s)[i] = s
      BY <1>a, <3>1, StreamType
    <3> QED
      BY <1>a, <3>1, <3>2
  <2> QED
    BY <1>a, <1>c, <1>e, <2>1 DEF Written
<1>1. ASSUME NEW l \in Loops, PublishRaw(l) PROVE Ingested'
  <2>1. loop[l].s \in archived
    BY <1>1, <1>a DEF PublishRaw, Has, Recorded
  <2> QED
    BY <1>1, <1>e, <2>1 DEF PublishRaw, nodes
<1>2. ASSUME NEW s \in letters, ReplayRaw(s) PROVE Ingested'
  BY <1>2, <1>a, <1>e DEF ReplayRaw, nodes
<1>3. CASE IngestFails
  <2>1. letters' \subseteq archived
    BY <1>3, <1>a DEF IngestFails, Written
  <2> QED
    BY <1>3, <1>a, <1>c, <2>1 DEF IngestFails, nodes
<1>4. CASE TakeRaw
  <2> DEFINE x == [pc |-> "extract", s |-> Head(raw), id |-> 0]
  <2>1. ing' = x /\ raw # <<>> /\ raw' = Tail(raw) /\ UNCHANGED <<graph, linked, marked, letters>>
    BY <1>4 DEF TakeRaw, nodes
  <2>2. Head(raw) \in archived /\ raw' \in Seq(Stories) /\ \A i \in DOMAIN raw' : raw'[i] \in archived
    BY <1>a, <2>1, StreamType
  <2>3. x \in Handler /\ x.pc = "extract" /\ x.id = 0 /\ x.s = Head(raw)
    BY <1>a, <2>2 DEF Handler
  <2>4. Written'
    BY <1>a, <2>1, <2>2, <2>3 DEF Written
  <2> QED
    BY <1>a, <1>c, <2>1, <2>2, <2>3, <2>4
<1>5. ASSUME NEW pc \in {"write", "mark", "publish"}, ing # Idle, IngGoes(pc)
      PROVE  /\ ing' \in Handler /\ ing'.pc = pc /\ ing'.s = ing.s /\ ing'.id = ing.id
  BY <1>a, <1>5 DEF IngGoes, Handler
<1>6. CASE Extract
  <2>1. ing # Idle /\ ing.pc = "extract" /\ IngGoes("write")
        /\ UNCHANGED <<raw, letters, graph, linked, marked>>
    BY <1>6 DEF Extract, Ingesting, nodes
  <2>2. Written'
    BY <1>5, <1>a, <2>1 DEF Written
  <2> QED
    BY <1>5, <1>a, <1>c, <2>1, <2>2
<1>7. CASE GiveUpStory
  BY <1>7, <1>d DEF GiveUpStory, AfterLimit, nodes
<1>8. CASE WriteEvent
  <2>1. /\ ing # Idle /\ ing.pc = "write" /\ Len(graph) < MaxNodes
        /\ graph' = Append(graph, ing.s)
        /\ ing' = [ing EXCEPT !.pc = "link", !.id = Len(graph) + 1]
        /\ UNCHANGED <<raw, letters, linked, marked>>
    BY <1>8 DEF WriteEvent, Ingesting, AfterWrite
  <2>2. /\ ing.s \in Stories /\ ing.s \in archived /\ Len(graph) \in Nat
        /\ DOMAIN graph = 1 .. Len(graph)
    BY <1>a, <2>1, LenProperties DEF Handler, Written
  <2>3. /\ graph' \in Seq(Stories) /\ Len(graph') = Len(graph) + 1
        /\ DOMAIN graph' = 1 .. Len(graph) + 1
        /\ \A i \in DOMAIN graph : graph'[i] = graph[i]
        /\ graph'[Len(graph) + 1] = ing.s
    BY <1>a, <2>1, <2>2, AppendProperties, LenProperties
  <2>4. /\ ing' \in Handler /\ ing'.pc = "link" /\ ing'.s = ing.s /\ ing'.id = Len(graph) + 1
    <3>1. ing \in Handler
      BY <1>a, <2>1
    <3>2. Len(graph) + 1 \in Nat
      BY <2>2
    <3> QED
      BY <2>1, <3>1, <3>2 DEF Handler
  <2>5. Written' /\ linked' \subseteq DOMAIN graph' /\ Len(graph') <= MaxNodes
    BY <1>a, <2>1, <2>2, <2>3, <2>4 DEF Written
  <2>6. MarkedIsLinked'
    BY <1>a, <2>1, <2>3 DEF MarkedIsLinked
  <2> QED
    BY <1>a, <1>b, <2>1, <2>3, <2>4, <2>5, <2>6 DEF Ingested
<1>9. CASE Link
  <2>1. /\ ing # Idle /\ ing.pc = "link" /\ IngGoes("mark") /\ linked' = linked \cup {ing.id}
        /\ UNCHANGED <<raw, letters, graph, marked>>
    BY <1>9 DEF Link, Ingesting
  <2>2. Written' /\ linked' \subseteq DOMAIN graph' /\ MarkedIsLinked'
    BY <1>5, <1>a, <2>1 DEF Written, MarkedIsLinked
  <2> QED
    BY <1>5, <1>a, <1>b, <2>1, <2>2 DEF Ingested
<1>10. CASE MarkIngested
  <2>1. /\ ing # Idle /\ ing.pc = "mark" /\ IngGoes("publish")
        /\ marked' = [marked EXCEPT ![ing.s] = ing.id]
        /\ UNCHANGED <<raw, letters, graph, linked>>
    BY <1>10 DEF MarkIngested, Ingesting
  <2>2. /\ ing.s \in Stories /\ ing.id \in linked /\ graph[ing.id] = ing.s /\ ing.s \in archived
        /\ ing.id \in 0 .. MaxNodes
    <3>1. ing.id \in DOMAIN graph /\ Len(graph) \in Nat /\ DOMAIN graph = 1 .. Len(graph)
      BY <1>a, <2>1, LenProperties DEF Written
    <3> QED
      BY <1>a, <2>1, <3>1 DEF Written, Handler
  <2>3. marked' \in [Stories -> 0 .. MaxNodes] /\ Written' /\ MarkedIsLinked'
    BY <1>5, <1>a, <2>1, <2>2 DEF Written, MarkedIsLinked
  <2> QED
    BY <1>5, <1>a, <1>b, <2>1, <2>3 DEF Ingested
<1>11. CASE PublishEvent
  BY <1>11, <1>d DEF PublishEvent, nodes
<1>12. CASE UNCHANGED <<raw, ing, nodes, letters>>
  BY <1>12, <1>d DEF nodes
<1> QED
  BY <1>1, <1>2, <1>3, <1>4, <1>6, <1>7, <1>8, <1>9, <1>10, <1>11, <1>12, IngestChanges
  DEF IngestStep
-----------------------------------------------------------------------------
(***************************************************************************)
(* The strategist.                                                         *)
(***************************************************************************)
LEMMA PlanChanges ==
  ASSUME [Next]_vars
  PROVE  \/ StrategistStep \/ StrategistFails
         \/ \E e \in returned : ReplayEvent(e)
         \/ \E b \in Buckets : LedgerMoves(b) \/ ResetCount(b)
         \/ Midnight
         \/ UNCHANGED svars
BY DEF Next, HistorianStep, vars, historianOf, TakeRequest, Claim, Study, Republish, StudyFails

LEMMA ThoughtMoves ==
  ASSUME IInv, strat # Idle,
         NEW pc \in {"ask", "council", "size", "count", "publish", "done"}, Moves(pc),
         pc \in {"size", "count", "publish"} => strat.pc \in {"quota", "size", "count"},
         pc \in {"ask", "council"} => strat.pc \in {"screen", "ask"}
  PROVE  /\ strat' \in Thought /\ strat'.pc = pc /\ strat'.e = strat.e
         /\ pc \in {"size", "count", "publish"} => strat'.b = strat.b
<1>1. strat \in Thought
  BY DEF IInv, Planned
<1>2. CASE strat \in [pc : {"screen", "ask", "council", "done"}, e : Event]
  BY <1>2 DEF Moves, Thought
<1>3. CASE strat \in [pc : {"quota", "size", "count", "publish", "done"}, e : Event, b : Buckets]
  BY <1>3 DEF Moves, Thought
<1> QED
  BY <1>1, <1>2, <1>3 DEF Thought

\* Arithmetic the provers want by itself.
LEMMA Wider ==
  ASSUME NEW t, NEW r \in Nat, NEW n \in Nat, NEW m \in Nat, t \in 0 .. r + n, n <= m
  PROVE  t \in 0 .. r + m
OBVIOUS

LEMMA OneMore ==
  ASSUME NEW t, NEW r \in Nat, NEW n \in Nat, NEW m \in Nat, t \in 0 .. r + n, n <= m,
         t < r \/ m = n + 1
  PROVE  t + 1 \in 0 .. r + m
OBVIOUS

LEMMA NothingYet ==
  ASSUME NEW r \in Nat, NEW m \in Nat
  PROVE  0 \in 0 .. r + m
OBVIOUS

LEMMA PlannedStep ==
  ASSUME IInv, [Next]_vars
  PROVE  Planned'
<1> USE Numbers
<1>a. /\ strat \in Thought \cup {Idle}
      /\ strat # Idle /\ strat.pc \in {"ask", "council", "quota", "size", "count", "publish"}
           => strat.e.id # 0
      /\ strat # Idle => strat.e \in Event
      /\ strat # Idle /\ strat.pc \in {"quota", "size", "count", "publish"} => strat.b \in Buckets
      /\ returned \subseteq Event /\ missing \subseteq Event
      /\ {count, published, waiting, open, bare} \subseteq [Buckets -> Nat]
      /\ blind \subseteq Buckets
      /\ \A b \in Buckets \ blind : WithinLimits(b)
      /\ strat # Idle /\ strat.pc \in {"size", "count", "publish"} /\ strat.b \notin blind
           => RoomForOne(strat.b)
      /\ enriched \in Seq(Event)
  BY DEF IInv, Planned, Ingested, Thought
<1>b. Idle.pc = "idle" /\ MaxPerDay \in Nat /\ Target \in Nat
  BY DEF Idle
<1>c. \A b \in Buckets : /\ count[b] \in Nat /\ published[b] \in Nat
                         /\ waiting[b] \in Nat /\ open[b] \in Nat /\ bare[b] \in Nat
                         /\ Held(b) \in Nat
  <2>1. /\ count \in [Buckets -> Nat] /\ published \in [Buckets -> Nat]
        /\ waiting \in [Buckets -> Nat] /\ open \in [Buckets -> Nat] /\ bare \in [Buckets -> Nat]
    BY <1>a
  <2> QED
    BY ONLY <2>1 DEF Held
\* The handler ends or goes on to a place that promises nothing.
<1>d. ASSUME UNCHANGED <<quotas, books>>, returned' \subseteq Event, missing' \subseteq Event,
             strat' \in Thought \cup {Idle},
             strat' # Idle => /\ strat'.pc \notin {"size", "count", "publish"}
                              /\ strat'.pc # "screen" /\ strat'.pc # "done" => strat'.e.id # 0
      PROVE  Planned'
  <2>1. \A b \in Buckets \ blind : WithinLimits(b)'
    BY <1>a, <1>d DEF WithinLimits, Held, quotas, books
  <2> QED
    BY <1>a, <1>d, <2>1 DEF Planned, quotas, books
<1>1. CASE TakeEvent
  <2>1. strat' = [pc |-> "screen", e |-> Head(enriched)] /\ Head(enriched) \in Event
        /\ UNCHANGED <<quotas, books, returned, missing>>
    BY <1>1, <1>a, StreamType DEF TakeEvent
  <2>2. strat' \in Thought /\ strat'.pc = "screen"
    BY <2>1 DEF Thought
  <2> QED
    BY <1>a, <1>d, <2>1, <2>2
<1>2. CASE TooWeak \/ Unconvinced \/ Finish
  BY <1>2, <1>a, <1>d DEF TooWeak, Unconvinced, Finish
<1>3. CASE LookUp
  <2>1. CASE InGraph(strat.e)
    <3>1. Moves("ask") /\ strat # Idle /\ strat.pc = "screen" /\ UNCHANGED <<quotas, books, returned, missing>>
      BY <1>3, <2>1 DEF LookUp, Thinks
    <3>2. strat' \in Thought /\ strat'.pc = "ask" /\ strat'.e = strat.e
      BY <3>1, ThoughtMoves
    <3>3. strat'.e.id # 0
      BY <2>1, <3>2 DEF InGraph
    <3> QED
      BY <1>a, <1>d, <3>1, <3>2, <3>3
  <2>2. CASE ~ InGraph(strat.e)
    <3>1. strat' = Idle /\ missing' \subseteq Event /\ UNCHANGED <<quotas, books, returned>>
      BY <1>3, <1>a, <2>2 DEF LookUp, Thinks
    <3> QED
      BY <1>a, <1>d, <3>1
  <2> QED
    BY <2>1, <2>2
<1>4. CASE NoTrade
  <2>1. Moves("done") /\ strat # Idle /\ UNCHANGED <<quotas, books, returned, missing>>
    BY <1>4 DEF NoTrade, Thinks
  <2>2. strat' \in Thought /\ strat'.pc = "done"
    BY <2>1, ThoughtMoves
  <2> QED
    BY <1>a, <1>d, <2>1, <2>2
<1>5. CASE Convinced
  <2>1. Moves("council") /\ strat # Idle /\ strat.pc = "ask"
        /\ UNCHANGED <<quotas, books, returned, missing>>
    BY <1>5 DEF Convinced, Thinks
  <2>2. strat' \in Thought /\ strat'.pc = "council" /\ strat'.e = strat.e
    BY <2>1, ThoughtMoves
  <2> QED
    BY <1>a, <1>d, <2>1, <2>2
<1>6. CASE Council
  <2>1. PICK b \in Buckets : strat' = Idle \/ strat' = [pc |-> "quota", e |-> strat.e, b |-> b]
    BY <1>6 DEF Council
  <2>2. strat # Idle /\ strat.pc = "council" /\ UNCHANGED <<quotas, books, returned, missing>>
    BY <1>6 DEF Council, Thinks
  <2>3. strat' # Idle => strat' \in Thought /\ strat'.pc = "quota" /\ strat'.e = strat.e
    BY <1>a, <2>1, <2>2 DEF Thought
  <2> QED
    BY <1>a, <1>d, <2>2, <2>3
\* The handler goes on with a bucket.
<1>e. ASSUME NEW pc \in {"size", "count", "publish"}, NEW from \in {"quota", "size", "count"},
             NEW c \in Buckets, strat.b = c, strat # Idle, strat.pc = from, Moves(pc),
             UNCHANGED <<published, waiting, open, bare, returned, missing>>,
             blind \subseteq blind', blind' \subseteq blind \cup {c},
             count' \in [Buckets -> Nat],
             \A b \in Buckets \ blind' : WithinLimits(b)',
             c \notin blind' => RoomForOne(c)'
      PROVE  Planned'
  <2>1. /\ strat' \in Thought /\ strat'.pc = pc /\ strat'.e = strat.e /\ strat'.b = c
    BY <1>e, ThoughtMoves
  <2>2. strat.e.id # 0
    BY <1>a, <1>e
  <2>3. strat'.b \notin blind' => RoomForOne(strat.b)'
    <3>1. c \notin blind' => /\ strat'.pc \in {"size", "count"} => count'[c] < MaxPerDay
                             /\ strat'.pc = "publish" => published'[c] < count'[c]
                             /\ strat'.pc \in {"count", "publish"} => Held(c)' < Target
      BY <1>e DEF RoomForOne
    <3> QED
      BY <2>1, <3>1 DEF RoomForOne
  <2>4. {count', published', waiting', open', bare'} \subseteq [Buckets -> Nat] /\ blind' \subseteq Buckets
    BY <1>a, <1>e, <2>2
  <2> QED
    BY <1>a, <1>e, <2>1, <2>2, <2>3, <2>4 DEF Planned
<1>7. CASE CheckQuota
  <2>0. PICK c \in Buckets : strat.b = c
    BY <1>7, <1>a DEF CheckQuota, Thinks
  <2>1. /\ strat.b = c /\ strat # Idle /\ strat.pc = "quota" /\ strat.b \in Buckets
        /\ UNCHANGED <<count, published, waiting, open, bare, returned, missing>>
    BY <1>7, <1>a, <2>0 DEF CheckQuota, Thinks, quotas
  <2>2. CASE strat' = Idle /\ blind' = blind
    BY <1>a, <1>d, <2>1, <2>2 DEF quotas, books
  <2>3. CASE strat' = [strat EXCEPT !.pc = "size"] /\ HasQuota(strat.b) /\ blind' = blind
    <3>1. Moves("size") /\ strat'.pc = "size"
      BY <2>1, <2>3, ThoughtMoves DEF Moves
    <3>2. RoomForOne(c)' /\ \A b \in Buckets \ blind' : WithinLimits(b)'
      BY <1>a, <2>1, <2>3, <3>1 DEF RoomForOne, WithinLimits, Held, HasQuota
    <3> QED
      BY <1>a, <1>e, <2>1, <2>3, <3>1, <3>2
  <2>4. CASE Moves("size") /\ blind' = blind \cup {strat.b}
    <3>1. \A b \in Buckets \ blind' : WithinLimits(b)'
      BY <1>a, <2>1, <2>4 DEF WithinLimits, Held
    <3> QED
      BY <1>a, <1>e, <2>1, <2>4, <3>1
  <2> QED
    BY <1>7, <2>2, <2>3, <2>4 DEF CheckQuota, Moves
<1>8. CASE Size
  <2>0. PICK c \in Buckets : strat.b = c
    BY <1>8, <1>a DEF Size, Thinks
  <2>1. /\ strat.b = c /\ strat # Idle /\ strat.pc = "size" /\ strat.b \in Buckets
        /\ UNCHANGED <<count, published, waiting, open, bare, returned, missing>>
        /\ strat.b \notin blind => RoomForOne(strat.b)
    BY <1>8, <1>a, <2>0 DEF Size, Thinks, quotas
  <2>5. blind' \in {blind, blind \cup {strat.b}}
    BY <1>8 DEF Size
  <2>6. \A b \in Buckets \ blind' : WithinLimits(b)'
    BY <1>a, <2>1, <2>5 DEF WithinLimits, Held
  <2>2. CASE strat' = Idle
    <3>1. blind' \subseteq Buckets
      BY <1>a, <2>1, <2>5
    <3> QED
      BY <1>a, <2>1, <2>2, <2>6, <3>1 DEF Planned
  <2>3. CASE /\ strat' = [strat EXCEPT !.pc = "count"] /\ HasRoom(strat.b)
             /\ blind' = IF waiting[strat.b] + bare[strat.b] > 0 THEN blind \cup {strat.b} ELSE blind
    <3>1. Moves("count") /\ strat'.pc = "count"
      BY <2>1, <2>3, ThoughtMoves DEF Moves
    <3>2. c \notin blind' => RoomForOne(c)'
      BY <1>a, <1>c, <2>1, <2>3, <3>1 DEF RoomForOne, HasRoom, Held
    <3> QED
      BY <1>a, <1>e, <2>1, <2>5, <2>6, <3>1, <3>2
  <2>4. CASE Moves("count") /\ blind' = blind \cup {strat.b}
    BY <1>a, <1>e, <2>1, <2>4, <2>6
  <2> QED
    BY <1>8, <2>2, <2>3, <2>4 DEF Size
<1>9. CASE Count
  <2>0. PICK c \in Buckets : strat.b = c
    BY <1>9, <1>a DEF Count, Thinks
  <2>1. /\ strat.b = c /\ strat # Idle /\ strat.pc = "count" /\ strat.b \in Buckets /\ Moves("publish")
        /\ UNCHANGED <<published, waiting, open, bare, returned, missing>>
        /\ strat.b \notin blind => RoomForOne(strat.b)
    BY <1>9, <1>a, <2>0 DEF Count, Thinks
  <2>2. strat'.pc = "publish"
    BY <2>1, ThoughtMoves
  <2>3. CASE count' = [count EXCEPT ![strat.b] = @ + 1] /\ blind' = blind
    <3>1. /\ count' \in [Buckets -> Nat] /\ count'[strat.b] = count[strat.b] + 1
          /\ \A b \in Buckets : b # strat.b => count'[b] = count[b]
      BY <1>a, <1>c, <2>1, <2>3
    <3>2. strat.b \notin blind => WithinLimits(strat.b)
      BY <1>a, <2>1
    <3>3. c \notin blind' => RoomForOne(c)'
      BY <1>c, <2>1, <2>2, <2>3, <3>1, <3>2 DEF RoomForOne, WithinLimits, Held
    <3>4. \A b \in Buckets \ blind' : WithinLimits(b)'
      <4> SUFFICES ASSUME NEW b \in Buckets \ blind' PROVE WithinLimits(b)'
        OBVIOUS
      <4>1. CASE b # strat.b
        BY <1>a, <2>1, <2>3, <3>1, <4>1 DEF WithinLimits, Held
      <4>2. CASE b = strat.b
        BY <1>b, <1>c, <2>1, <2>3, <3>1, <3>2, <4>2 DEF WithinLimits, RoomForOne, Held
      <4> QED
        BY <4>1, <4>2
    <3> QED
      BY <1>a, <1>e, <2>1, <2>3, <3>1, <3>3, <3>4
  <2>4. CASE blind' = blind \cup {strat.b} /\ count' = count
    <3>1. \A b \in Buckets \ blind' : WithinLimits(b)'
      BY <1>a, <2>1, <2>4 DEF WithinLimits, Held
    <3> QED
      BY <1>a, <1>e, <2>1, <2>4, <3>1
  <2> QED
    BY <1>9, <2>3, <2>4 DEF Count
<1>10. CASE PublishProposal
  <2>1. /\ strat # Idle /\ strat.pc = "publish" /\ strat.b \in Buckets /\ Moves("done")
        /\ UNCHANGED <<count, open, blind, returned, missing>>
        /\ published' = [published EXCEPT ![strat.b] = @ + 1]
        /\ strat.b \notin blind => RoomForOne(strat.b)
    BY <1>10, <1>a DEF PublishProposal, Thinks
  <2>2. strat' \in Thought /\ strat'.pc = "done"
    BY <2>1, ThoughtMoves
  <2>3. /\ published' \in [Buckets -> Nat] /\ published'[strat.b] = published[strat.b] + 1
        /\ \A b \in Buckets : b # strat.b => published'[b] = published[b]
    BY <1>a, <1>c, <2>1
  <2>8. PICK c \in Buckets : strat.b = c
    BY <2>1
  <2>9. /\ waiting \in [Buckets -> Nat] /\ open \in [Buckets -> Nat] /\ bare \in [Buckets -> Nat]
        /\ open' = open
    BY <1>a, <2>1
  <2>7. /\ waiting' \in [Buckets -> Nat] /\ bare' \in [Buckets -> Nat]
        /\ Held(c)' = Held(c) + 1
        /\ \A b \in Buckets : b # c => Held(b)' = Held(b)
    <3>1. CASE waiting' = [waiting EXCEPT ![c] = @ + 1] /\ bare' = bare
      BY ONLY <2>9, <3>1, c \in Buckets DEF Held
    <3>2. CASE bare' = [bare EXCEPT ![c] = @ + 1] /\ waiting' = waiting
      BY ONLY <2>9, <3>2, c \in Buckets DEF Held
    <3> QED
      BY <1>10, <2>8, <3>1, <3>2 DEF PublishProposal
  <2>4. \A b \in Buckets \ blind' : WithinLimits(b)'
    <3> SUFFICES ASSUME NEW b \in Buckets \ blind' PROVE WithinLimits(b)'
      OBVIOUS
    <3>1. WithinLimits(b)
      BY <1>a, <2>1
    <3>2. CASE b # strat.b
      BY <2>1, <2>3, <2>7, <2>8, <3>1, <3>2 DEF WithinLimits
    <3>3. CASE b = strat.b
      BY <1>b, <1>c, <2>1, <2>3, <2>7, <2>8, <3>1, <3>3 DEF WithinLimits, RoomForOne
    <3> QED
      BY <3>2, <3>3
  <2>5. {count', published', waiting', open', bare'} \subseteq [Buckets -> Nat]
    <3>1. count' \in [Buckets -> Nat] /\ open' \in [Buckets -> Nat]
      BY <1>a, <2>1
    <3> QED
      BY ONLY <2>3, <2>7, <3>1
  <2>6. strat' # Idle /\ strat'.pc \notin {"ask", "council", "quota", "size", "count", "publish"}
    BY <1>b, <2>2
  <2> QED
    BY <1>a, <2>1, <2>2, <2>4, <2>5, <2>6 DEF Planned
<1>11. CASE StrategistFails
  BY <1>11, <1>a, <1>d DEF StrategistFails
<1>12. CASE \E e \in returned : ReplayEvent(e)
  <2>1. strat' = strat /\ returned' \subseteq returned /\ UNCHANGED <<quotas, books, missing>>
    BY <1>12 DEF ReplayEvent
  <2>2. \A b \in Buckets : (WithinLimits(b)' <=> WithinLimits(b)) /\ (RoomForOne(b)' <=> RoomForOne(b))
    BY <2>1 DEF WithinLimits, RoomForOne, Held, quotas, books
  <2> QED
    BY <1>a, <2>1, <2>2 DEF Planned, quotas, books
<1>13. ASSUME NEW c \in Buckets, LedgerMoves(c) PROVE Planned'
  <2>1. strat' = strat /\ UNCHANGED <<count, published, returned, blind, missing>>
    BY <1>13 DEF LedgerMoves, quotas
  <2>4. waiting \in [Buckets -> Nat] /\ open \in [Buckets -> Nat] /\ bare \in [Buckets -> Nat]
    BY <1>a
  <2>2. /\ waiting' \in [Buckets -> Nat] /\ open' \in [Buckets -> Nat] /\ bare' \in [Buckets -> Nat]
        /\ \A b \in Buckets : Held(b)' <= Held(b)
    <3>1. CASE /\ waiting[c] > 0 /\ waiting' = [waiting EXCEPT ![c] = @ - 1]
               /\ open' \in {open, [open EXCEPT ![c] = @ + 1]} /\ bare' = bare
      <4>1. waiting' \in [Buckets -> Nat] /\ open' \in [Buckets -> Nat] /\ bare' \in [Buckets -> Nat]
        BY ONLY <2>4, <3>1, c \in Buckets
      <4>2. /\ waiting'[c] = waiting[c] - 1 /\ open'[c] <= open[c] + 1
            /\ \A b \in Buckets : b # c => waiting'[b] = waiting[b] /\ open'[b] = open[b]
        BY ONLY <2>4, <3>1, c \in Buckets
      <4> QED
        BY ONLY <2>4, <3>1, <4>1, <4>2 DEF Held
    <3>2. CASE open[c] > 0 /\ open' = [open EXCEPT ![c] = @ - 1] /\ UNCHANGED <<waiting, bare>>
      BY ONLY <2>4, <3>2, c \in Buckets DEF Held
    <3>3. CASE bare[c] > 0 /\ bare' = [bare EXCEPT ![c] = @ - 1] /\ UNCHANGED <<waiting, open>>
      BY ONLY <2>4, <3>3, c \in Buckets DEF Held
    <3> QED
      BY <1>13, <3>1, <3>2, <3>3 DEF LedgerMoves
  <2>3. \A b \in Buckets : /\ WithinLimits(b) => WithinLimits(b)'
                           /\ RoomForOne(b) => RoomForOne(b)'
    <3> SUFFICES ASSUME NEW b \in Buckets
                 PROVE  /\ WithinLimits(b) => WithinLimits(b)'
                        /\ RoomForOne(b) => RoomForOne(b)'
      OBVIOUS
    <3>1. Held(b)' <= Held(b) /\ Held(b)' \in Nat
      BY <2>2 DEF Held
    <3> QED
      BY <1>b, <1>c, <2>1, <3>1 DEF WithinLimits, RoomForOne
  <2> QED
    BY <1>a, <2>1, <2>2, <2>3 DEF Planned
<1>14. ASSUME NEW buckets \in SUBSET Buckets, CountsAnew(buckets),
              UNCHANGED <<strat, returned, missing, waiting, open, bare>>
       PROVE  Planned'
  <2>1. /\ count' \in [Buckets -> Nat] /\ published' \in [Buckets -> Nat]
        /\ blind \subseteq blind' /\ blind' \subseteq Buckets
        /\ \A b \in buckets : count'[b] = 0 /\ published'[b] = 0
        /\ \A b \in Buckets \ buckets : count'[b] = count[b] /\ published'[b] = published[b]
    BY <1>14, <1>c, <1>a DEF CountsAnew
  <2>2. \A b \in Buckets \ blind' : WithinLimits(b)'
    <3> SUFFICES ASSUME NEW b \in Buckets \ blind' PROVE WithinLimits(b)'
      OBVIOUS
    <3>1. WithinLimits(b) /\ Held(b)' = Held(b)
      BY <1>14, <1>a, <2>1 DEF Held
    <3>2. CASE b \in buckets
      BY <1>b, <2>1, <3>1, <3>2 DEF WithinLimits
    <3>3. CASE b \notin buckets
      BY <2>1, <3>1, <3>3 DEF WithinLimits
    <3> QED
      BY <3>2, <3>3
  <2>3. ASSUME strat # Idle, strat.pc \in {"size", "count", "publish"}, strat.b \notin blind'
        PROVE  RoomForOne(strat.b)'
    <3>1. strat.b \in Buckets \ buckets /\ RoomForOne(strat.b)
      BY <1>14, <1>a, <2>1, <2>3 DEF CountsAnew
    <3> QED
      BY <1>14, <2>1, <3>1 DEF RoomForOne, Held
  <2>4. {count', published', waiting', open', bare'} \subseteq [Buckets -> Nat]
    BY <1>14, <1>a, <2>1
  <2> QED
    BY <1>14, <1>a, <2>1, <2>2, <2>3, <2>4 DEF Planned
<1>16. CASE Midnight \/ \E b \in Buckets : ResetCount(b)
  BY <1>14, <1>16 DEF Midnight, ResetCount
<1>15. CASE UNCHANGED svars
  <2>1. \A b \in Buckets : (WithinLimits(b)' <=> WithinLimits(b)) /\ (RoomForOne(b)' <=> RoomForOne(b))
    BY <1>15 DEF WithinLimits, RoomForOne, Held, svars, quotas, books
  <2> QED
    BY <1>15, <1>a, <2>1 DEF Planned, svars, quotas, books
<1> QED
  BY <1>1, <1>2, <1>3, <1>4, <1>5, <1>6, <1>7, <1>8, <1>9, <1>10, <1>11, <1>12, <1>13, <1>15,
     <1>16, PlanChanges
  DEF StrategistStep

-----------------------------------------------------------------------------
(***************************************************************************)
(* The historian.                                                          *)
(***************************************************************************)
LEMMA ResearchChanges ==
  ASSUME [Next]_vars
  PROVE  \/ NoTrade \/ HistorianStep \/ StudyFails \/ Midnight
         \/ UNCHANGED hvars
BY DEF Next, StrategistStep, vars, hvars, TakeEvent, TooWeak, LookUp, Unconvinced, Convinced, Council,
       CheckQuota, Size, Count, PublishProposal, Finish, StrategistFails, ReplayEvent, LedgerMoves,
       ResetCount

LEMMA ResearchedStep ==
  ASSUME IInv, [Next]_vars
  PROVE  Researched'
<1>a. /\ requests \in Seq(1 .. MaxNodes) /\ seen \subseteq 1 .. MaxNodes
      /\ hist \in Inquiry \cup {Idle}
      /\ asked \in [1 .. MaxNodes -> 0 .. 1]
      /\ \A id \in 1 .. MaxNodes : asked[id] = 1 => id \in seen
      /\ hist # Idle /\ hist.pc = "ask" => hist.id \in seen /\ asked[hist.id] = 0
      /\ hist # Idle => hist.id \in 1 .. MaxNodes
      /\ today \in 0 .. ResearchCap + nfaults
      /\ nfaults \in Nat /\ ResearchCap \in Nat
  BY Numbers DEF IInv, Researched, Ingested, Inquiry
<1>b. nfaults' \in Nat /\ nfaults <= nfaults' /\ (Fault => nfaults' = nfaults + 1)
  BY Numbers, FaultsType
<1>c. today \in 0 .. ResearchCap + nfaults'
  BY <1>a, <1>b, Wider
<1>1. CASE NoTrade
  <2>1. UNCHANGED <<hist, seen, asked, today>> /\ strat # Idle /\ strat.pc = "ask"
        /\ (requests' = requests \/ requests' = Append(requests, strat.e.id))
    BY <1>1 DEF NoTrade, Thinks
  <2>2. strat.e.id \in 1 .. MaxNodes
    <3>1. strat.e \in Event /\ strat.e.id # 0
      BY <2>1 DEF IInv, Planned, Thought
    <3> QED
      BY <3>1 DEF Event
  <2>3. requests' \in Seq(1 .. MaxNodes)
    <3>1. requests \in Seq(1 .. MaxNodes)
      BY <1>a
    <3>2. Append(requests, strat.e.id) \in Seq(1 .. MaxNodes)
      BY <2>2, <3>1, AppendProperties
    <3> QED
      BY <2>1, <3>1, <3>2
  <2> QED
    BY <1>a, <1>c, <2>1, <2>3 DEF Researched
<1>2. CASE TakeRequest
  <2>1. /\ requests # <<>> /\ hist' = [pc |-> "check", id |-> Head(requests)]
        /\ requests' = Tail(requests) /\ UNCHANGED <<seen, asked, today>>
    BY <1>2 DEF TakeRequest
  <2>2. Head(requests) \in 1 .. MaxNodes /\ requests' \in Seq(1 .. MaxNodes)
    BY <1>a, <2>1, HeadTailProperties
  <2>3. hist' \in Inquiry /\ hist'.pc = "check"
    BY <2>1, <2>2 DEF Inquiry
  <2> QED
    BY <1>a, <1>c, <2>1, <2>2, <2>3 DEF Researched
<1>3. CASE Claim
  <2>1. hist # Idle /\ hist.pc = "check" /\ UNCHANGED <<requests, asked>>
    BY <1>3 DEF Claim, Studies
  <2>2. CASE hist' = Idle /\ UNCHANGED <<seen, today>>
    BY <1>a, <1>c, <2>1, <2>2 DEF Researched
  <2>3. CASE Claims /\ hist.id \notin seen /\ (Fault \/ today < ResearchCap)
    <3>1. /\ seen' = seen \cup {hist.id} /\ today' = today + 1
          /\ hist' = [hist EXCEPT !.pc = "ask"]
      BY <2>3 DEF Claims
    <3>2. hist' \in Inquiry /\ hist'.pc = "ask" /\ hist'.id = hist.id
      BY <1>a, <2>1, <3>1 DEF Inquiry
    <3>3. asked[hist.id] = 0 /\ hist.id \in 1 .. MaxNodes
      BY <1>a, <2>1, <2>3
    <3>4. today' \in 0 .. ResearchCap + nfaults'
      BY <1>a, <1>b, <2>3, <3>1, OneMore
    <3> QED
      BY <1>a, <2>1, <3>1, <3>2, <3>3, <3>4 DEF Researched
  <2>4. Known(hist.id) \/ (hist.id \notin seen /\ today < ResearchCap)
    BY <1>a DEF Known
  <2> QED
    BY <1>3, <2>2, <2>3, <2>4 DEF Claim
<1>4. CASE Study
  <2>1. /\ hist # Idle /\ hist.pc = "ask" /\ asked' = [asked EXCEPT ![hist.id] = @ + 1]
        /\ hist' = [hist EXCEPT !.pc = "replay"] /\ UNCHANGED <<requests, seen, today>>
    BY <1>4 DEF Study, Studies
  <2>2. hist' \in Inquiry /\ hist'.pc = "replay"
    BY <1>a, <2>1 DEF Inquiry
  <2>3. hist.id \in 1 .. MaxNodes /\ hist.id \in seen /\ asked[hist.id] = 0
    BY <1>a, <2>1
  <2>4. /\ asked' \in [1 .. MaxNodes -> 0 .. 1]
        /\ \A id \in 1 .. MaxNodes : asked'[id] = 1 => id \in seen
    BY <1>a, <2>1, <2>3
  <2> QED
    BY <1>a, <1>c, <2>1, <2>2, <2>4 DEF Researched
<1>5. CASE Republish
  BY <1>5, <1>a, <1>c DEF Republish, Researched
<1>6. CASE StudyFails
  <2>1. hist' = Idle /\ UNCHANGED <<requests, asked, today>> /\ seen \subseteq seen'
        /\ seen' \subseteq 1 .. MaxNodes
    BY <1>6, <1>a DEF StudyFails
  <2> QED
    BY <1>a, <1>c, <2>1 DEF Researched
<1>7. CASE Midnight
  <2>1. today' = 0 /\ UNCHANGED <<requests, hist, seen, asked>>
    BY <1>7 DEF Midnight
  <2>2. today' \in 0 .. ResearchCap + nfaults'
    BY <1>a, <1>b, <2>1, NothingYet
  <2> QED
    BY <1>a, <2>1, <2>2 DEF Researched
<1>8. CASE UNCHANGED hvars
  BY <1>8, <1>a, <1>c DEF Researched, hvars
<1> QED
  BY <1>1, <1>2, <1>3, <1>4, <1>5, <1>6, <1>7, <1>8, ResearchChanges DEF HistorianStep

-----------------------------------------------------------------------------
(***************************************************************************)
(* The theorems.  The fairness plays no part in them.                      *)
(***************************************************************************)
LEMMA Inductive == IInv /\ [Next]_vars => IInv'
BY ScrapedStep, IngestedStep, PlannedStep, ResearchedStep DEF IInv

LEMMA InvariantHolds == FairSpec => []IInv
BY InitInv, Inductive, PTL DEF FairSpec

\* Streams carry stories and events of the graph, handlers are in one of their places,
\* and the day's count of researches passes its cap by the failed reads at most.
THEOREM NewsTypeCorrect == FairSpec => []TypeOK
BY InvImplies, InvariantHolds, PTL

\* No loop publishes a story twice (agents/scraper/dedup.py:185-187).
THEOREM NeverRebroadcast == FairSpec => []NoRebroadcast
BY InvImplies, InvariantHolds, PTL

\* A marked row has its node with its edges (agents/graph_ingestion.py:190-197).
THEOREM MarksAreLinked == FairSpec => []MarkedIsLinked
BY InvImplies, InvariantHolds, PTL

\* A bucket keeps to its quota while the counter is readable (agents/strategist.py:134-137).
THEOREM QuotaKept == FairSpec => []QuotaHolds
BY InvImplies, InvariantHolds, PTL

\* A bucket is not overfilled that was sized in full sight of it (agents/strategist.py:166).
THEOREM RoomKept == FairSpec => []RoomWhenSighted
BY InvImplies, InvariantHolds, PTL

\* An event costs one research (agents/historian.py:397).
THEOREM ResearchedOnceAlways == FairSpec => []ResearchedOnce
BY InvImplies, InvariantHolds, PTL
=============================================================================
