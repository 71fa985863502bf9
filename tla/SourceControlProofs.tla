-------------------------- MODULE SourceControlProofs --------------------------
(***************************************************************************)
(* For every set of agents, requests and poll loops.  Of HaltControl: its  *)
(* types, and that the agents' flags and system:state agree.  Of           *)
(* SourceControl: its types, and that a cancelled source stays cancelled.  *)
(* Of RedditSource: its types, how far refusals are counted, and that no   *)
(* post is lost but by a poll that breaks off.  Of TelegramListener: that  *)
(* what counts as joined was joined.                                       *)
(***************************************************************************)
EXTENDS SourceControl, TelegramListener, RedditSource, SequenceTheorems, FiniteSetTheorems, TLAPS

-----------------------------------------------------------------------------
(***************************************************************************)
(* The types of HaltControl.                                               *)
(***************************************************************************)
LEMMA SendType ==
  ASSUME HaltTypeOK, NEW kind \in Kinds, NEW to \in Agents \cup {Everyone}, Send(kind, to)
  PROVE  /\ inbox' \in [Agents -> Seq(Message)]
         /\ apart' \subseteq Agents
         /\ muddled' \in BOOLEAN
<1>1. [kind |-> kind, to |-> to] \in Message
  BY DEF Message
<1>2. inbox' \in [Agents -> Seq(Message)]
  BY <1>1 DEF Send, HaltTypeOK
<1>3. apart' \subseteq Agents
  BY DEF Send, HaltTypeOK, Subscribed
<1>4. muddled' \in BOOLEAN
  BY DEF Send, HaltTypeOK
<1> QED
  BY <1>2, <1>3, <1>4

LEMMA CommandsType ==
  ASSUME HaltTypeOK, CountCommand
  PROVE  ncommands' \in 0 .. MaxCommands
BY HaltAssumption DEF HaltTypeOK, CountCommand

LEMMA FaultsType ==
  ASSUME HaltTypeOK, nfaults < MaxFaults, nfaults' = nfaults + 1
  PROVE  nfaults' \in 0 .. MaxFaults
BY HaltAssumption DEF HaltTypeOK

LEMMA AgentStepType ==
  ASSUME HaltTypeOK, NEW a \in Agents, Boot(a) \/ Follow(a) \/ Die(a) \/ Disconnect(a)
  PROVE  HaltTypeOK'
<1>1. CASE Boot(a)
  BY <1>1 DEF Boot, HaltTypeOK, Places
<1>2. CASE SetupRead(a)
  BY <1>2 DEF SetupRead, Goto, HaltTypeOK, Places
<1>3. CASE SetupWrite(a)
  BY <1>3 DEF SetupWrite, Goto, HaltTypeOK, Places
<1>4. CASE ReadState(a)
  BY <1>4 DEF ReadState, BootsHalted, HaltTypeOK, Places
<1>5. CASE Subscribe(a)
  BY <1>5 DEF Subscribe, Goto, HaltTypeOK, Places
<1>6. CASE Receive(a)
  <2>1. inbox' \in [Agents -> Seq(Message)]
    BY <1>6 DEF Receive, HaltTypeOK
  <2>2. agent' \in [Agents -> [pc : Places, halted : BOOLEAN]]
    BY <1>6 DEF Receive, HaltTypeOK, Places
  <2> QED
    BY <1>6, <2>1, <2>2 DEF Receive, HaltTypeOK
<1>7. CASE Store(a)
  BY <1>7 DEF Store, Goto, HaltTypeOK, Places
<1>8. CASE Reconnect(a)
  BY <1>8 DEF Reconnect, Goto, HaltTypeOK, Places
<1>9. CASE Die(a)
  <2>1. agent' \in [Agents -> [pc : Places, halted : BOOLEAN]]
    BY <1>9 DEF Die, HaltTypeOK, Places
  <2>2. inbox' \in [Agents -> Seq(Message)]
    BY <1>9 DEF Die, HaltTypeOK
  <2>3. muddled' \in BOOLEAN
    BY <1>9 DEF Die, HaltTypeOK
  <2> QED
    BY <1>9, <2>1, <2>2, <2>3, FaultsType DEF Die, HaltTypeOK
<1>10. CASE Disconnect(a)
  <2>1. agent' \in [Agents -> [pc : Places, halted : BOOLEAN]]
    BY <1>10 DEF Disconnect, Goto, HaltTypeOK, Places
  <2>2. inbox' \in [Agents -> Seq(Message)]
    BY <1>10 DEF Disconnect, HaltTypeOK
  <2>3. muddled' \in BOOLEAN
    BY <1>10 DEF Disconnect, HaltTypeOK
  <2> QED
    BY <1>10, <2>1, <2>2, <2>3, FaultsType DEF Disconnect, HaltTypeOK
<1> QED
  BY <1>1, <1>2, <1>3, <1>4, <1>5, <1>6, <1>7, <1>8, <1>9, <1>10 DEF Follow

LEMMA PublishedType ==
  ASSUME HaltTypeOK, NEW kind \in Kinds, NEW to \in Agents \cup {Everyone}, Published(kind, to)
  PROVE  HaltTypeOK'
BY SendType, CommandsType DEF Published, HaltTypeOK

LEMMA NoticeType ==
  ASSUME HaltTypeOK, Notice
  PROVE  HaltTypeOK'
<1>1. ASSUME NEW kind \in Kinds, BotCommand(kind)
      PROVE  HaltTypeOK'
  BY <1>1, PublishedType DEF BotCommand
<1>2. ASSUME NEW kind \in Kinds, NEW a \in Agents, AgentCommand(kind, a)
      PROVE  HaltTypeOK'
  BY <1>2, PublishedType DEF AgentCommand
<1>3. CASE BudgetHalt \/ SpikeHalt
  BY <1>3, PublishedType DEF BudgetHalt, SpikeHalt, Kinds
<1>4. ASSUME NEW a \in Critical, FindDead(a)
      PROVE  HaltTypeOK'
  BY <1>4 DEF FindDead, HaltTypeOK
<1>5. ASSUME NEW a \in Critical, FindAlive(a)
      PROVE  HaltTypeOK'
  BY <1>5 DEF FindAlive, HaltTypeOK
<1>6. CASE HaltForDead
  <2>1. watcher \in Agents
    BY <1>6, HaltAssumption DEF HaltForDead, HaltTypeOK
  <2>2. Send("halt", watcher) /\ "halt" \in Kinds
    BY <1>6 DEF HaltForDead, Kinds
  <2>3. /\ inbox' \in [Agents -> Seq(Message)] /\ apart' \subseteq Agents
        /\ muddled' \in BOOLEAN
    BY <2>1, <2>2, SendType
  <2> QED
    BY <1>6, <2>3 DEF HaltForDead, HaltTypeOK
<1> QED
  BY <1>1, <1>2, <1>3, <1>4, <1>5, <1>6 DEF Notice

LEMMA RequestType ==
  ASSUME HaltTypeOK, NEW r \in Requests,
         WriteState(r) \/ \E kind \in Kinds : Command(r, kind)
  PROVE  HaltTypeOK'
<1>1. CASE WriteState(r)
  BY <1>1 DEF WriteState, StateOf, HaltTypeOK
<1>2. ASSUME NEW kind \in Kinds, Command(r, kind)
      PROVE  HaltTypeOK'
  <2>1. Send(kind, Everyone) /\ CountCommand
    BY <1>2 DEF Command
  <2>2. /\ inbox' \in [Agents -> Seq(Message)] /\ apart' \subseteq Agents
        /\ muddled' \in BOOLEAN /\ ncommands' \in 0 .. MaxCommands
    BY <2>1, SendType, CommandsType
  <2> QED
    BY <1>2, <2>2 DEF Command, HaltTypeOK
<1> QED
  BY <1>1, <1>2

LEMMA HaltTypeInit == HaltInit => HaltTypeOK
<1> SUFFICES ASSUME HaltInit PROVE HaltTypeOK
  OBVIOUS
<1>1. <<>> \in Seq(Message)
  OBVIOUS
<1>2. inbox \in [Agents -> Seq(Message)] /\ agent \in [Agents -> [pc : Places, halted : BOOLEAN]]
  BY <1>1 DEF HaltInit, Places
<1>3. 0 \in 0 .. MaxCommands /\ 0 \in 0 .. MaxFaults
  BY HaltAssumption
<1>4. muddled \in BOOLEAN
  BY DEF HaltInit
<1> QED
  BY <1>2, <1>3, <1>4 DEF HaltInit, HaltTypeOK

LEMMA HaltTypeStep ==
  ASSUME HaltTypeOK, [HaltNext]_haltVars
  PROVE  HaltTypeOK'
<1>1. CASE UNCHANGED haltVars
  BY <1>1 DEF haltVars, HaltTypeOK
<1> QED
  BY <1>1, AgentStepType, RequestType, NoticeType DEF HaltNext

\* Every variable of the kill switch has its type, whoever commands, dies or loses its
\* connection (agents/base.py:318-342, agents/orchestrator.py, dashboard/app.py:613-646).
THEOREM HaltTypeCorrect == HaltSpec => []HaltTypeOK
BY HaltTypeInit, HaltTypeStep, PTL DEF HaltSpec

-----------------------------------------------------------------------------
(***************************************************************************)
(* What the agents come to agree on.  As long as nothing is muddled there  *)
(* is a last word: the kind of the last message for all that somebody got. *)
(* Every queue of messages ends with it, every request still to be written *)
(* writes it, and an agent that is not apart and waits for nothing follows *)
(* it; the state follows it, or somebody is about to write it.             *)
(***************************************************************************)
HasAll(q) == \E i \in DOMAIN q : q[i].to = Everyone

EndsWith(q, word) ==
  \A i \in DOMAIN q :
    q[i].to = Everyone /\ (\A j \in DOMAIN q : j > i => q[j].to # Everyone) => q[i].kind = word

\* A message for a alone is followed by one for all.
Covered(q, a) ==
  \A i \in DOMAIN q : q[i].to = a => \E j \in DOMAIN q : j > i /\ q[j].to = Everyone

Follows(a, word) ==
  /\ EndsWith(inbox[a], word)
  /\ inbox[a] # <<>> => agent[a].pc \in {"listening", "storing"}
  /\ At(a, "storing") /\ ~ HasAll(inbox[a]) => (agent[a].halted <=> word = "halt")
  /\ a \notin apart => Covered(inbox[a], a)
  /\ /\ a \notin apart /\ ~ HasAll(inbox[a])
     /\ agent[a].pc \in {"subscribing", "listening", "storing", "offline"}
     => (agent[a].halted <=> word = "halt")

Writer(a) == At(a, "storing") \/ HasAll(inbox[a])

StateFollows(word) ==
  \/ state = "HALTED" <=> word = "halt"
  \/ \E a \in Agents : Writer(a)
  \/ \E r \in Requests : request[r] # None

LastWord(word) ==
  /\ \A r \in Requests : request[r] \in {None, word}
  /\ \A a \in Agents : Follows(a, word)
  /\ StateFollows(word)

Listeners == \A a \in Agents : inbox[a] # <<>> => agent[a].pc \in {"listening", "storing"}

HaltInv ==
  /\ HaltTypeOK /\ Listeners
  /\ ~ muddled => \E word \in Kinds : LastWord(word)

LEMMA EmptyQueue ==
  ASSUME NEW q, q = <<>>, NEW word, NEW a
  PROVE  ~ HasAll(q) /\ EndsWith(q, word) /\ Covered(q, a)
BY DEF HasAll, EndsWith, Covered

\* A message for all at the end of a queue is its last word.
LEMMA AllAppended ==
  ASSUME NEW q \in Seq(Message), NEW word \in Kinds, NEW a \in Agents
  PROVE  LET p == Append(q, [kind |-> word, to |-> Everyone])
         IN  HasAll(p) /\ EndsWith(p, word) /\ Covered(p, a) /\ p # <<>>
<1> DEFINE m == [kind |-> word, to |-> Everyone]
           p == Append(q, m)
<1>1. /\ Len(p) = Len(q) + 1 /\ DOMAIN p = 1 .. Len(p) /\ Len(q) \in Nat
      /\ \A i \in 1 .. Len(q) : p[i] = q[i]
      /\ p[Len(q) + 1] = m
  OBVIOUS
<1>2. m.to = Everyone /\ m.kind = word
  OBVIOUS
<1> HIDE DEF m, p
<1>3. Len(p) \in DOMAIN p /\ p[Len(p)].to = Everyone /\ p[Len(p)].kind = word
  BY <1>1, <1>2
<1>4. \A i \in DOMAIN p : i = Len(p) \/ i < Len(p)
  BY <1>1
<1>5. HasAll(p)
  BY <1>3 DEF HasAll
<1>6. EndsWith(p, word)
  BY <1>3, <1>4 DEF EndsWith
<1>7. Covered(p, a)
  BY <1>3, <1>4, HaltAssumption DEF Covered
<1>8. p # <<>>
  BY <1>1
<1> QED
  BY <1>5, <1>6, <1>7, <1>8 DEF m, p

\* A message for one agent changes nothing for the others.
LEMMA OneAppended ==
  ASSUME NEW q \in Seq(Message), NEW kind \in Kinds, NEW to \in Agents
  PROVE  LET p == Append(q, [kind |-> kind, to |-> to])
         IN  /\ HasAll(p) <=> HasAll(q)
             /\ \A word : EndsWith(q, word) => EndsWith(p, word)
             /\ \A a \in Agents \ {to} : Covered(q, a) => Covered(p, a)
<1> DEFINE m == [kind |-> kind, to |-> to]
           p == Append(q, m)
<1>1. /\ Len(p) = Len(q) + 1 /\ DOMAIN p = 1 .. Len(p) /\ Len(q) \in Nat
      /\ \A i \in 1 .. Len(q) : p[i] = q[i]
      /\ p[Len(q) + 1] = m /\ DOMAIN q = 1 .. Len(q)
  OBVIOUS
<1>2. m.to = to /\ to # Everyone
  BY HaltAssumption
<1> HIDE DEF m, p
<1>3. /\ \A i \in DOMAIN q : i \in DOMAIN p /\ p[i] = q[i]
      /\ \A i \in DOMAIN p : i \in DOMAIN q \/ (i = Len(q) + 1 /\ p[i].to = to)
  BY <1>1, <1>2
<1>4. HasAll(p) <=> HasAll(q)
  BY <1>2, <1>3 DEF HasAll
<1>5. ASSUME NEW word, EndsWith(q, word)
      PROVE  EndsWith(p, word)
  BY <1>2, <1>3, <1>5 DEF EndsWith
<1>6. ASSUME NEW a \in Agents \ {to}, Covered(q, a)
      PROVE  Covered(p, a)
  BY <1>2, <1>3, <1>6 DEF Covered
<1> QED
  BY <1>4, <1>5, <1>6 DEF m, p

LEMMA HeadTaken ==
  ASSUME NEW q \in Seq(Message), q # <<>>
  PROVE  /\ Head(q) \in Message
         /\ \A word : EndsWith(q, word) =>
              /\ EndsWith(Tail(q), word)
              /\ Head(q).to = Everyone /\ ~ HasAll(Tail(q)) => Head(q).kind = word
         /\ \A a : Covered(q, a) =>
              Covered(Tail(q), a) /\ (Head(q).to = a => HasAll(Tail(q)))
         /\ HasAll(Tail(q)) => HasAll(q)
         /\ HasAll(q) => HasAll(Tail(q)) \/ Head(q).to = Everyone
<1>1. /\ Len(q) \in Nat \ {0} /\ DOMAIN q = 1 .. Len(q) /\ Len(Tail(q)) = Len(q) - 1
      /\ DOMAIN Tail(q) = 1 .. Len(q) - 1
      /\ \A i \in 1 .. Len(q) - 1 : Tail(q)[i] = q[i + 1]
      /\ Head(q) = q[1]
  OBVIOUS
<1> DEFINE p == Tail(q)
<1>2. /\ \A i \in DOMAIN p : i + 1 \in DOMAIN q /\ p[i] = q[i + 1] /\ i \in Nat
      /\ \A i \in DOMAIN q : i = 1 \/ (i - 1 \in DOMAIN p /\ p[i - 1] = q[i] /\ i \in Nat)
      /\ 1 \in DOMAIN q
  BY <1>1
<1> HIDE DEF p
<1>3. Head(q) \in Message
  BY <1>1, <1>2
<1>4. ASSUME NEW word, EndsWith(q, word)
      PROVE  /\ EndsWith(p, word)
             /\ Head(q).to = Everyone /\ ~ HasAll(p) => Head(q).kind = word
  <2>1. EndsWith(p, word)
    <3> SUFFICES ASSUME NEW i \in DOMAIN p, p[i].to = Everyone,
                        \A j \in DOMAIN p : j > i => p[j].to # Everyone
                 PROVE  p[i].kind = word
      BY DEF EndsWith
    <3>1. i + 1 \in DOMAIN q /\ q[i + 1] = p[i]
      BY <1>2
    <3>2. ASSUME NEW j \in DOMAIN q, j > i + 1
          PROVE  q[j].to # Everyone
      <4>1. j \in Nat /\ i \in Nat /\ j # 1
        BY <1>1, <1>2, <3>2
      <4>2. j - 1 \in DOMAIN p /\ p[j - 1] = q[j]
        BY <1>2, <4>1
      <4>3. j - 1 > i
        BY <3>2, <4>1
      <4> QED
        BY <4>2, <4>3
    <3> QED
      BY <1>4, <3>1, <3>2 DEF EndsWith
  <2>2. ASSUME Head(q).to = Everyone, ~ HasAll(p)
        PROVE  Head(q).kind = word
    <3>1. ASSUME NEW j \in DOMAIN q, j > 1
          PROVE  q[j].to # Everyone
      <4>1. j - 1 \in DOMAIN p /\ p[j - 1] = q[j]
        BY <1>1, <1>2, <3>1
      <4> QED
        BY <2>2, <4>1 DEF HasAll
    <3> QED
      BY <1>1, <1>2, <1>4, <2>2, <3>1 DEF EndsWith
  <2> QED
    BY <2>1, <2>2
<1>5. ASSUME NEW a, Covered(q, a)
      PROVE  Covered(p, a) /\ (Head(q).to = a => HasAll(p))
  <2>1. Covered(p, a)
    <3> SUFFICES ASSUME NEW i \in DOMAIN p, p[i].to = a
                 PROVE  \E j \in DOMAIN p : j > i /\ p[j].to = Everyone
      BY DEF Covered
    <3>1. PICK j \in DOMAIN q : j > i + 1 /\ q[j].to = Everyone
      BY <1>2, <1>5 DEF Covered
    <3>2. j - 1 \in DOMAIN p /\ p[j - 1] = q[j] /\ j - 1 > i
      BY <1>1, <1>2, <3>1
    <3> QED
      BY <3>1, <3>2
  <2>2. ASSUME Head(q).to = a
        PROVE  HasAll(p)
    <3>1. PICK j \in DOMAIN q : j > 1 /\ q[j].to = Everyone
      BY <1>1, <1>2, <1>5, <2>2 DEF Covered
    <3>2. j - 1 \in DOMAIN p /\ p[j - 1] = q[j]
      BY <1>1, <1>2, <3>1
    <3> QED
      BY <3>1, <3>2 DEF HasAll
  <2> QED
    BY <2>1, <2>2
<1>6. HasAll(p) => HasAll(q)
  BY <1>2 DEF HasAll
<1>7. HasAll(q) => HasAll(p) \/ Head(q).to = Everyone
  BY <1>1, <1>2 DEF HasAll
<1> QED
  BY <1>3, <1>4, <1>5, <1>6, <1>7 DEF p

-----------------------------------------------------------------------------
(***************************************************************************)
(* Messages keep a last word.                                              *)
(***************************************************************************)
LEMMA SendAllKeeps ==
  ASSUME HaltInv, NEW kind \in Kinds, Send(kind, Everyone), UNCHANGED <<state, agent>>,
         \/ UNCHANGED request
         \/ \E r \in Requests : request[r] = None /\ request' = [request EXCEPT ![r] = kind]
  PROVE  Listeners' /\ (~ muddled' => \E word \in Kinds : LastWord(word)')
<1>1. \A a \in Agents : inbox'[a] = IF a \in Subscribed
                                     THEN Append(inbox[a], [kind |-> kind, to |-> Everyone])
                                     ELSE inbox[a]
  BY DEF Send
<1>2. \A a \in Agents \ Subscribed :
        /\ inbox[a] = <<>> /\ ~ At(a, "storing") /\ ~ At(a, "listening")
        /\ agent[a].pc \in {"subscribing", "offline"} => a \in apart'
  BY DEF Send, HaltInv, Listeners, Subscribed, At
<1>3. Listeners'
  BY <1>1, <1>2 DEF Listeners, Subscribed
<1>4. ASSUME ~ muddled'
      PROVE  \A r \in Requests : request[r] = None
  BY <1>4 DEF Send, Quiet
<1>5. ASSUME ~ muddled', NEW word \in Kinds, NEW a \in Agents, a \in Subscribed => word = kind
      PROVE  Follows(a, word)'
  <2>1. CASE a \in Subscribed
    <3>1. inbox[a] \in Seq(Message)
      BY DEF HaltInv, HaltTypeOK
    <3>2. HasAll(inbox'[a]) /\ EndsWith(inbox'[a], word) /\ Covered(inbox'[a], a)
      BY <1>1, <1>5, <2>1, <3>1, AllAppended
    <3>3. agent[a].pc \in {"listening", "storing"}
      BY <2>1 DEF Subscribed
    <3> QED
      BY <3>2, <3>3 DEF Follows, HasAll, EndsWith, Covered
  <2>2. CASE a \notin Subscribed
    <3>1. inbox'[a] = <<>> /\ ~ At(a, "storing") /\ ~ At(a, "listening")
      BY <1>1, <1>2, <2>2
    <3>2. EndsWith(inbox'[a], word) /\ Covered(inbox'[a], a)
      BY <3>1, EmptyQueue
    <3> QED
      BY <1>2, <2>2, <3>1, <3>2 DEF Follows, HasAll, EndsWith, Covered, At
  <2> QED
    BY <2>1, <2>2
<1>6. ASSUME ~ muddled', Subscribed # {} \/ \E r \in Requests : request'[r] = kind
      PROVE  LastWord(kind)'
  <2>1. \A r \in Requests : request'[r] \in {None, kind}
    BY <1>4, <1>6 DEF HaltInv, HaltTypeOK
  <2>2. StateFollows(kind)'
    <3>1. CASE Subscribed # {}
      <4>1. PICK a \in Agents : a \in Subscribed
        BY <3>1 DEF Subscribed
      <4>2. inbox[a] \in Seq(Message)
        BY DEF HaltInv, HaltTypeOK
      <4>3. HasAll(inbox'[a])
        BY <1>1, <4>1, <4>2, AllAppended
      <4> QED
        BY <4>3 DEF StateFollows, Writer, HasAll
    <3>2. CASE \E r \in Requests : request'[r] = kind
      BY <3>2 DEF StateFollows, None, Kinds
    <3> QED
      BY <1>6, <3>1, <3>2
  <2> QED
    BY <1>5, <1>6, <2>1, <2>2 DEF LastWord
<1>7. ASSUME ~ muddled', Subscribed = {}, \A r \in Requests : request'[r] # kind
      PROVE  \E word \in Kinds : LastWord(word)'
  <2>1. UNCHANGED request
    BY <1>7 DEF HaltInv, HaltTypeOK
  <2>2. PICK word \in Kinds : state = "HALTED" <=> word = "halt"
    BY DEF Kinds
  <2>3. StateFollows(word)'
    BY <2>2 DEF StateFollows
  <2> QED
    BY <1>4, <1>5, <1>7, <2>1, <2>3 DEF LastWord
<1> QED
  BY <1>3, <1>6, <1>7

LEMMA SendOneKeeps ==
  ASSUME HaltInv, NEW kind \in Kinds, NEW to \in Agents, Send(kind, to),
         UNCHANGED <<state, agent, request>>
  PROVE  Listeners' /\ (~ muddled' => \E word \in Kinds : LastWord(word)')
<1>1. /\ \A a \in Agents : inbox'[a] = IF a \in Subscribed
                                       THEN Append(inbox[a], [kind |-> kind, to |-> to])
                                       ELSE inbox[a]
      /\ apart' = apart \cup ({to} \cap Subscribed) /\ muddled' = muddled
  BY HaltAssumption DEF Send
<1>2. Listeners'
  BY <1>1 DEF HaltInv, Listeners, Subscribed
<1>3. ASSUME NEW word \in Kinds, LastWord(word)
      PROVE  LastWord(word)'
  <2>1. ASSUME NEW a \in Agents
        PROVE  Follows(a, word)' /\ (HasAll(inbox'[a]) <=> HasAll(inbox[a]))
    <3>1. Follows(a, word) /\ inbox[a] \in Seq(Message)
      BY <1>3 DEF LastWord, HaltInv, HaltTypeOK
    <3>2. CASE a \notin Subscribed
      <4>1. inbox'[a] = inbox[a] /\ (a \notin apart' <=> a \notin apart)
        BY <1>1, <3>2
      <4> QED
        BY <3>1, <4>1 DEF Follows, At, HasAll, EndsWith, Covered
    <3>3. CASE a \in Subscribed
      <4>1. /\ HasAll(inbox'[a]) <=> HasAll(inbox[a])
            /\ EndsWith(inbox'[a], word)
            /\ a # to /\ Covered(inbox[a], a) => Covered(inbox'[a], a)
        BY <1>1, <3>1, <3>3, OneAppended DEF Follows
      <4>2. a \notin apart' => a \notin apart /\ a # to
        BY <1>1, <3>3
      <4>3. agent[a].pc \in {"listening", "storing"}
        BY <3>3 DEF Subscribed
      <4> QED
        BY <3>1, <4>1, <4>2, <4>3 DEF Follows, At, HasAll, EndsWith, Covered
    <3> QED
      BY <3>2, <3>3
  <2>2. StateFollows(word)'
    BY <1>3, <2>1 DEF LastWord, StateFollows, Writer, At, HasAll
  <2> QED
    BY <1>3, <2>1, <2>2 DEF LastWord
<1> QED
  BY <1>1, <1>2, <1>3 DEF HaltInv

-----------------------------------------------------------------------------
(***************************************************************************)
(* So does every step of an agent.                                         *)
(***************************************************************************)
OthersSame(a) ==
  /\ \A b \in Agents \ {a} :
       agent'[b] = agent[b] /\ inbox'[b] = inbox[b] /\ (b \in apart' <=> b \in apart)
  /\ UNCHANGED request

\* It is enough to look at the agent itself.
LEMMA OneAgent ==
  ASSUME NEW word \in Kinds, LastWord(word), NEW a \in Agents, OthersSame(a),
         Follows(a, word)',
         \/ state' = "HALTED" <=> word = "halt"
         \/ state' = state /\ (Writer(a) => Writer(a)')
         \/ Writer(a)'
  PROVE  LastWord(word)'
<1>1. ASSUME NEW b \in Agents, b # a
      PROVE  Follows(b, word)' /\ (Writer(b) => Writer(b)')
  <2>1. /\ agent'[b] = agent[b] /\ inbox'[b] = inbox[b]
        /\ b \in apart' <=> b \in apart
    BY <1>1 DEF OthersSame
  <2>2. Follows(b, word)
    BY DEF LastWord
  <2> QED
    BY <2>1, <2>2 DEF Follows, At, Writer, HasAll, EndsWith, Covered
<1>2. UNCHANGED request
  BY DEF OthersSame
<1>3. StateFollows(word)'
  BY <1>1, <1>2 DEF LastWord, StateFollows
<1>4. \A b \in Agents : Follows(b, word)'
  BY <1>1
<1>5. \A r \in Requests : request'[r] \in {None, word}
  BY <1>2 DEF LastWord
<1> QED
  BY <1>3, <1>4, <1>5 DEF LastWord

\* An agent that does not follow the messages and has none.
LEMMA Elsewhere ==
  ASSUME NEW word \in Kinds, NEW a \in Agents, inbox'[a] = <<>>,
         agent'[a].pc \in {"new", "setup", "seeding", "booting", "dead"}
  PROVE  Follows(a, word)'
<1>1. EndsWith(inbox'[a], word) /\ Covered(inbox'[a], a)
  BY EmptyQueue
<1> QED
  BY <1>1 DEF Follows, At, EndsWith, Covered, HasAll

LEMMA BootKeeps ==
  ASSUME HaltInv, NEW a \in Agents, Boot(a) \/ SetupRead(a) \/ SetupWrite(a),
         NEW word \in Kinds, LastWord(word), ~ muddled'
  PROVE  LastWord(word)'
<1>1. /\ agent[a].pc \in {"new", "dead", "setup", "seeding"}
      /\ agent'[a].pc \in {"setup", "seeding", "booting"}
      /\ UNCHANGED <<inbox, apart, request>>
      /\ \A b \in Agents \ {a} : agent'[b] = agent[b]
  BY DEF Boot, SetupRead, SetupWrite, Goto, At, HaltInv, HaltTypeOK
<1>2. inbox'[a] = <<>> /\ OthersSame(a)
  BY <1>1 DEF HaltInv, Listeners, OthersSame
<1>3. ~ Writer(a)
  BY <1>1, <1>2, EmptyQueue DEF Writer, At
<1>4. state' = state \/ (state = "unset" /\ state' = "RUNNING")
  BY DEF Boot, SetupRead, SetupWrite
<1>5. CASE state' = state
  BY <1>1, <1>2, <1>3, <1>5, Elsewhere, OneAgent
<1>6. CASE state = "unset" /\ state' = "RUNNING"
  <2>1. Follows(a, word)'
    BY <1>1, <1>2, Elsewhere
  <2>2. ASSUME NEW b \in Agents
        PROVE  Follows(b, word)' /\ (Writer(b) => Writer(b)')
    <3>1. CASE b = a
      BY <1>3, <2>1, <3>1
    <3>2. CASE b # a
      <4>1. Follows(b, word) /\ agent'[b] = agent[b] /\ UNCHANGED <<inbox, apart>>
        BY <1>1, <3>2 DEF LastWord
      <4> QED
        BY <4>1 DEF Follows, At, Writer, HasAll, EndsWith, Covered
    <3> QED
      BY <3>1, <3>2
  <2>3. StateFollows(word)'
    BY <1>1, <1>6, <2>2 DEF LastWord, StateFollows
  <2> QED
    BY <1>1, <2>2, <2>3 DEF LastWord
<1> QED
  BY <1>4, <1>5, <1>6

LEMMA QuietFollows ==
  ASSUME NEW word \in Kinds, LastWord(word), Quiet
  PROVE  state = "HALTED" <=> word = "halt"
<1>1. \A a \in Agents : ~ Writer(a)
  BY EmptyQueue DEF Quiet, Writer, At
<1> QED
  BY <1>1 DEF LastWord, StateFollows, Quiet

LEMMA ReadStateKeeps ==
  ASSUME HaltInv, NEW a \in Agents, ReadState(a), NEW word \in Kinds, LastWord(word)
  PROVE  LastWord(word)'
<1>1. /\ agent[a].pc = "booting"
      /\ agent'[a] = [pc |-> "subscribing", halted |-> BootsHalted]
      /\ \A b \in Agents \ {a} : agent'[b] = agent[b]
      /\ UNCHANGED <<state, inbox, request>>
  BY DEF ReadState, At, HaltInv, HaltTypeOK
<1>2. inbox'[a] = <<>> /\ OthersSame(a)
  BY <1>1 DEF HaltInv, Listeners, OthersSame, ReadState
<1>3. ~ Writer(a)
  BY <1>1, <1>2, EmptyQueue DEF Writer, At
<1>4. a \notin apart' => (agent'[a].halted <=> word = "halt")
  <2>1. a \notin apart' => Quiet
    BY DEF ReadState
  <2>2. agent'[a].halted = BootsHalted
    BY <1>1
  <2> QED
    BY <2>1, <2>2, QuietFollows DEF BootsHalted
<1>5. EndsWith(inbox'[a], word) /\ Covered(inbox'[a], a)
  BY <1>2, EmptyQueue
<1>6. Follows(a, word)'
  BY <1>1, <1>2, <1>4, <1>5 DEF Follows, At, EndsWith, Covered, HasAll
<1> QED
  BY <1>1, <1>2, <1>3, <1>6, OneAgent

LEMMA SubscribeKeeps ==
  ASSUME HaltInv, NEW a \in Agents, Subscribe(a) \/ Reconnect(a),
         NEW word \in Kinds, LastWord(word)
  PROVE  LastWord(word)'
<1>1. /\ agent[a].pc \in {"subscribing", "offline"}
      /\ agent'[a].pc = "listening" /\ agent'[a].halted = agent[a].halted
      /\ \A b \in Agents \ {a} : agent'[b] = agent[b]
      /\ UNCHANGED <<state, inbox, request, apart>>
  BY DEF Subscribe, Reconnect, Goto, At, HaltInv, HaltTypeOK
<1>2. inbox[a] = <<>> /\ OthersSame(a) /\ Follows(a, word)
  BY <1>1 DEF HaltInv, Listeners, OthersSame, LastWord
<1>3. ~ Writer(a)
  BY <1>1, <1>2, EmptyQueue DEF Writer, At
<1>4. Follows(a, word)'
  BY <1>1, <1>2 DEF Follows, At, EndsWith, Covered, HasAll
<1> QED
  BY <1>1, <1>2, <1>3, <1>4, OneAgent

LEMMA ReceiveKeeps ==
  ASSUME HaltInv, NEW a \in Agents, Receive(a), NEW word \in Kinds, LastWord(word)
  PROVE  LastWord(word)'
<1> DEFINE m == Head(inbox[a])
<1>1. /\ At(a, "listening") /\ inbox[a] # <<>> /\ inbox[a] \in Seq(Message)
      /\ inbox'[a] = Tail(inbox[a])
      /\ UNCHANGED <<state, request, apart>>
  BY DEF Receive, HaltInv, HaltTypeOK
<1>2. OthersSame(a)
  BY DEF Receive, OthersSame, HaltInv, HaltTypeOK
<1>3. Follows(a, word)
  BY DEF LastWord
<1> DEFINE q == inbox[a]
<1>4. /\ m \in Message
      /\ EndsWith(q, word) => /\ EndsWith(Tail(q), word)
                              /\ m.to = Everyone /\ ~ HasAll(Tail(q)) => m.kind = word
      /\ \A b : Covered(q, b) => Covered(Tail(q), b) /\ (m.to = b => HasAll(Tail(q)))
      /\ HasAll(q) => HasAll(Tail(q)) \/ m.to = Everyone
  <2> HIDE DEF q
  <2>1. q \in Seq(Message) /\ q # <<>>
    BY <1>1 DEF q
  <2>2. m = Head(q)
    BY DEF q
  <2>3. /\ Head(q) \in Message
        /\ EndsWith(q, word) =>
             /\ EndsWith(Tail(q), word)
             /\ Head(q).to = Everyone /\ ~ HasAll(Tail(q)) => Head(q).kind = word
        /\ \A b : Covered(q, b) => Covered(Tail(q), b) /\ (Head(q).to = b => HasAll(Tail(q)))
        /\ HasAll(q) => HasAll(Tail(q)) \/ Head(q).to = Everyone
    BY <2>1, HeadTaken
  <2> HIDE DEF m
  <2> QED
    BY <2>2, <2>3, Zenon
<1>5. /\ EndsWith(inbox'[a], word)
      /\ m.to = Everyone /\ ~ HasAll(inbox'[a]) => m.kind = word
      /\ \A b : Covered(inbox[a], b) =>
                  Covered(inbox'[a], b) /\ (m.to = b => HasAll(inbox'[a]))
      /\ HasAll(inbox[a]) => HasAll(inbox'[a]) \/ m.to = Everyone
  <2>1. EndsWith(inbox[a], word)
    BY <1>3 DEF Follows
  <2> HIDE DEF m
  <2> QED
    BY <1>1, <1>4, <2>1, Zenon
<1>6. CASE m.to = Everyone
  <2>1. agent'[a] = [pc |-> "storing", halted |-> m.kind = "halt"]
    BY <1>6 DEF Receive, WritesState, HaltInv, HaltTypeOK
  <2>2. agent'[a].pc = "storing" /\ agent'[a].halted = (m.kind = "halt")
    BY <2>1
  <2>3. ~ HasAll(inbox'[a]) => (agent'[a].halted <=> word = "halt")
    BY <1>5, <1>6, <2>2
  <2>4. Follows(a, word)'
    BY <1>1, <1>3, <1>5, <2>2, <2>3 DEF Follows, At, HasAll, EndsWith, Covered
  <2>5. Writer(a)'
    BY <2>2 DEF Writer, At
  <2> QED
    BY <1>2, <2>4, <2>5, OneAgent
<1>7. CASE m.to = a /\ m.to # Everyone
  <2>1. agent'[a] = [pc |-> "listening", halted |-> m.kind = "halt"]
    BY <1>7 DEF Receive, WritesState, HaltInv, HaltTypeOK
  <2>2. agent'[a].pc = "listening"
    BY <2>1
  <2>3. a \notin apart => HasAll(inbox'[a]) /\ Covered(inbox'[a], a)
    BY <1>3, <1>5, <1>7 DEF Follows
  <2>4. Follows(a, word)'
    BY <1>1, <1>3, <1>5, <2>2, <2>3 DEF Follows, At, HasAll, EndsWith, Covered
  <2>5. Writer(a) => Writer(a)'
    BY <1>1, <1>5, <1>7, <2>2 DEF Writer, At, HasAll
  <2> QED
    BY <1>1, <1>2, <2>4, <2>5, OneAgent
<1>8. CASE m.to \notin {Everyone, a}
  <2>1. agent' = agent
    BY <1>8 DEF Receive
  <2>2. HasAll(inbox[a]) => HasAll(inbox'[a])
    BY <1>5, <1>8
  <2>3. Follows(a, word)'
    BY <1>1, <1>3, <1>5, <2>1, <2>2 DEF Follows, At, HasAll, EndsWith, Covered
  <2>4. Writer(a) => Writer(a)'
    BY <2>1, <2>2 DEF Writer, At, HasAll
  <2> QED
    BY <1>1, <1>2, <2>3, <2>4, OneAgent
<1> QED
  BY <1>6, <1>7, <1>8

LEMMA StoreKeeps ==
  ASSUME HaltInv, NEW a \in Agents, Store(a), NEW word \in Kinds, LastWord(word)
  PROVE  LastWord(word)'
<1>1. /\ At(a, "storing") /\ agent'[a].pc = "listening"
      /\ agent'[a].halted = agent[a].halted
      /\ UNCHANGED <<inbox, request, apart>>
  BY DEF Store, Goto, HaltInv, HaltTypeOK
<1>2. OthersSame(a)
  BY DEF Store, Goto, OthersSame, HaltInv, HaltTypeOK
<1>3. Follows(a, word)
  BY DEF LastWord
<1>4. Follows(a, word)'
  BY <1>1, <1>3 DEF Follows, At, HasAll, EndsWith, Covered
<1>5. state' = "HALTED" <=> agent[a].halted
  BY DEF Store
<1>6. (state' = "HALTED" <=> word = "halt") \/ Writer(a)'
  BY <1>1, <1>3, <1>5 DEF Follows, Writer, HasAll
<1> QED
  BY <1>2, <1>4, <1>6, OneAgent

\* What an agent had in hand is lost, which muddles things, unless it had nothing.
LEMMA LossKeeps ==
  ASSUME HaltInv, NEW a \in Agents, Die(a) \/ Disconnect(a),
         NEW word \in Kinds, LastWord(word), ~ muddled'
  PROVE  LastWord(word)'
<1>1. /\ inbox[a] = <<>> /\ inbox'[a] = <<>> /\ ~ At(a, "storing")
      /\ UNCHANGED <<state, request>>
  BY DEF Die, Disconnect, At, HaltInv, HaltTypeOK
<1>2. OthersSame(a)
  BY DEF Die, Disconnect, Goto, OthersSame, HaltInv, HaltTypeOK
<1>3. ~ Writer(a)
  BY <1>1, EmptyQueue DEF Writer
<1>4. Follows(a, word)
  BY DEF LastWord
<1>5. CASE Die(a)
  <2>1. agent'[a].pc = "dead"
    BY <1>5 DEF Die, HaltInv, HaltTypeOK
  <2> QED
    BY <1>1, <1>2, <1>3, <2>1, Elsewhere, OneAgent
<1>6. CASE Disconnect(a)
  <2>1. /\ At(a, "listening") /\ agent'[a].pc = "offline" /\ agent'[a].halted = agent[a].halted
        /\ a \in apart' <=> a \in apart
    BY <1>1, <1>6 DEF Disconnect, Goto, HaltInv, HaltTypeOK
  <2>2. Follows(a, word)'
    BY <1>1, <1>4, <2>1 DEF Follows, At, HasAll, EndsWith, Covered
  <2> QED
    BY <1>1, <1>2, <1>3, <2>2, OneAgent
<1> QED
  BY <1>5, <1>6

LEMMA ListenersStep ==
  ASSUME HaltInv, NEW a \in Agents, Boot(a) \/ Follow(a) \/ Die(a) \/ Disconnect(a)
  PROVE  Listeners'
<1>1. \A b \in Agents \ {a} : agent'[b] = agent[b] /\ inbox'[b] = inbox[b]
  BY DEF Boot, Follow, SetupRead, SetupWrite, ReadState, Subscribe, Receive, Store, Reconnect,
         Die, Disconnect, Goto, HaltInv, HaltTypeOK
<1>2. inbox'[a] = <<>> \/ agent'[a].pc \in {"listening", "storing"}
  <2>1. CASE Boot(a) \/ SetupRead(a) \/ SetupWrite(a) \/ ReadState(a)
    BY <2>1 DEF Boot, SetupRead, SetupWrite, ReadState, At, HaltInv, Listeners
  <2>2. CASE Subscribe(a) \/ Receive(a) \/ Store(a) \/ Reconnect(a)
    BY <2>2 DEF Subscribe, Receive, Store, Reconnect, At, Goto, HaltInv, HaltTypeOK
  <2>3. CASE Die(a) \/ Disconnect(a)
    BY <2>3 DEF Die, Disconnect, HaltInv, HaltTypeOK
  <2> QED
    BY <2>1, <2>2, <2>3 DEF Follow
<1> QED
  BY <1>1, <1>2 DEF Listeners, HaltInv

LEMMA HaltInvStep ==
  ASSUME HaltInv, [HaltNext]_haltVars
  PROVE  HaltInv'
<1>1. HaltTypeOK'
  BY HaltTypeStep DEF HaltInv
<1>2. ASSUME NEW a \in Agents, Boot(a) \/ Follow(a) \/ Die(a) \/ Disconnect(a)
      PROVE  Listeners' /\ (~ muddled' => \E word \in Kinds : LastWord(word)')
  <2>1. SUFFICES ASSUME ~ muddled' PROVE \E word \in Kinds : LastWord(word)'
    BY <1>2, ListenersStep
  <2>2. ~ muddled
    BY <1>2, <2>1 DEF Boot, Follow, SetupRead, SetupWrite, ReadState, Subscribe, Receive, Store,
                     Reconnect, Die, Disconnect
  <2>3. PICK word \in Kinds : LastWord(word)
    BY <2>2 DEF HaltInv
  <2>4. LastWord(word)'
    BY <1>2, <2>1, <2>3, BootKeeps, ReadStateKeeps, SubscribeKeeps, ReceiveKeeps, StoreKeeps,
       LossKeeps DEF Follow
  <2> QED
    BY <2>4
<1>3. ASSUME NEW r \in Requests, NEW kind \in Kinds, Command(r, kind)
      PROVE  Listeners' /\ (~ muddled' => \E word \in Kinds : LastWord(word)')
  BY <1>3, SendAllKeeps DEF Command
<1>4. ASSUME NEW r \in Requests, WriteState(r)
      PROVE  Listeners' /\ (~ muddled' => \E word \in Kinds : LastWord(word)')
  <2>1. Listeners' /\ muddled' = muddled
    BY <1>4 DEF WriteState, HaltInv, Listeners
  <2>2. ASSUME NEW word \in Kinds, LastWord(word)
        PROVE  LastWord(word)'
    <3>1. request[r] = word
      BY <1>4, <2>2 DEF WriteState, LastWord
    <3>2. state' = "HALTED" <=> word = "halt"
      BY <1>4, <3>1 DEF WriteState, StateOf, Kinds
    <3>3. \A a \in Agents : Follows(a, word)'
      BY <1>4, <2>2 DEF WriteState, LastWord, Follows, At, HasAll, EndsWith, Covered
    <3>4. \A q \in Requests : request'[q] \in {None, word}
      BY <1>4, <2>2 DEF WriteState, LastWord, HaltInv, HaltTypeOK
    <3> QED
      BY <3>2, <3>3, <3>4 DEF LastWord, StateFollows
  <2> QED
    BY <2>1, <2>2 DEF HaltInv
<1>5. ASSUME Notice
      PROVE  Listeners' /\ (~ muddled' => \E word \in Kinds : LastWord(word)')
  <2>1. ASSUME NEW kind \in Kinds, Published(kind, Everyone)
        PROVE  Listeners' /\ (~ muddled' => \E word \in Kinds : LastWord(word)')
    BY <2>1, SendAllKeeps DEF Published
  <2>2. ASSUME NEW kind \in Kinds, NEW to \in Agents, Published(kind, to)
        PROVE  Listeners' /\ (~ muddled' => \E word \in Kinds : LastWord(word)')
    BY <2>2, SendOneKeeps DEF Published
  <2>3. CASE HaltForDead
    <3>1. watcher \in Agents /\ Send("halt", watcher) /\ "halt" \in Kinds
      BY <2>3, HaltAssumption DEF HaltForDead, HaltInv, HaltTypeOK, Kinds
    <3> QED
      BY <2>3, <3>1, SendOneKeeps DEF HaltForDead
  <2>4. ASSUME UNCHANGED <<state, agent, inbox, request, apart, muddled>>
        PROVE  Listeners' /\ (~ muddled' => \E word \in Kinds : LastWord(word)')
    BY <2>4 DEF HaltInv, Listeners, LastWord, Follows, StateFollows, Writer, At, HasAll, EndsWith,
                Covered
  <2> QED
    BY <1>5, <2>1, <2>2, <2>3, <2>4
    DEF Notice, BotCommand, AgentCommand, BudgetHalt, SpikeHalt, FindDead, FindAlive, Kinds
<1>6. ASSUME UNCHANGED haltVars
      PROVE  Listeners' /\ (~ muddled' => \E word \in Kinds : LastWord(word)')
  BY <1>6 DEF haltVars, HaltInv, Listeners, LastWord, Follows, StateFollows, Writer, At, HasAll,
              EndsWith, Covered
<1>7. Listeners' /\ (~ muddled' => \E word \in Kinds : LastWord(word)')
  BY <1>2, <1>3, <1>4, <1>5, <1>6 DEF HaltNext
<1> QED
  BY <1>1, <1>7 DEF HaltInv

LEMMA HaltBegins == HaltInit => HaltInv
<1> SUFFICES ASSUME HaltInit PROVE HaltInv
  OBVIOUS
<1>1. HaltTypeOK
  BY HaltTypeInit
<1>2. \A a \in Agents : inbox[a] = <<>> /\ agent[a].pc = "new"
  BY DEF HaltInit
<1>3. "resume" \in Kinds
  BY DEF Kinds
<1>4. \A a \in Agents : EndsWith(inbox[a], "resume") /\ Covered(inbox[a], a)
  BY <1>2, EmptyQueue
<1>5. \A a \in Agents : Follows(a, "resume")
  BY <1>2, <1>4 DEF Follows, At
<1>6. LastWord("resume")
  BY <1>5 DEF LastWord, StateFollows, HaltInit
<1> QED
  BY <1>1, <1>2, <1>3, <1>6 DEF HaltInv, Listeners

\* Once nothing is on its way and nothing was muddled, every agent that listens and is not
\* apart is halted exactly when system:state says so, whoever wrote it last and however
\* often agents died and came back (agents/base.py:318-342, dashboard/app.py:633-646).
THEOREM FlagsAgree == HaltSpec => []AgentsAgree
<1>1. HaltInv => AgentsAgree
  <2> SUFFICES ASSUME HaltInv, Quiet, ~ muddled, NEW a \in Agents \ apart, At(a, "listening")
               PROVE  agent[a].halted <=> state = "HALTED"
    BY DEF AgentsAgree
  <2>1. PICK word \in Kinds : LastWord(word)
    BY DEF HaltInv
  <2>2. state = "HALTED" <=> word = "halt"
    BY <2>1, QuietFollows
  <2>3. ~ HasAll(inbox[a])
    BY EmptyQueue DEF Quiet
  <2>4. agent[a].halted <=> word = "halt"
    BY <2>1, <2>3 DEF LastWord, Follows, At
  <2> QED
    BY <2>2, <2>4
<1> QED
  BY HaltBegins, HaltInvStep, <1>1, PTL DEF HaltSpec

-----------------------------------------------------------------------------
(***************************************************************************)
(* The types of the source.                                                *)
(***************************************************************************)
Flag == [status : {"", "idle", "polling", "error", "halted"}, by : {"", "user", "system"}]

Loop == [pc : {"top", "marking", "starting", "polling", "ended"}, halted : BOOLEAN]

\* What TypeOK says of the variables that are not HaltControl's.
SourceTypeOK ==
  /\ flag \in Flag /\ loops \in Seq(Loop)
  /\ sweep \in [Sweepers -> {"idle", "looking", "clearing"}]
  /\ pressed \in {"none", "idle", "halted"}
  /\ cancel \in {"none", "clean", "raced", "paged"} /\ ncancels \in 0 .. MaxCancels

Typed == HaltTypeOK /\ SourceTypeOK

LEMMA TypedIsTypeOK == Typed => TypeOK
BY DEF Typed, TypeOK, SourceTypeOK, Flag, Loop

LEMMA LoopToType ==
  ASSUME SourceTypeOK, NEW i \in DOMAIN loops,
         NEW pc \in {"top", "marking", "starting", "polling", "ended"}, LoopTo(i, pc)
  PROVE  /\ loops' \in Seq(Loop) /\ DOMAIN loops' = DOMAIN loops /\ loops'[i].pc = pc
         /\ \A j \in DOMAIN loops : j # i => loops'[j] = loops[j]
<1>1. loops \in Seq(Loop) /\ loops[i] \in Loop
  BY DEF SourceTypeOK
<1>2. [loops[i] EXCEPT !.pc = pc] \in Loop /\ [loops[i] EXCEPT !.pc = pc].pc = pc
  BY <1>1 DEF Loop
<1>3. loops' = [loops EXCEPT ![i] = [loops[i] EXCEPT !.pc = pc]]
  BY DEF LoopTo
<1>4. loops' \in Seq(Loop)
  BY <1>1, <1>2, <1>3, ExceptSeq
<1>5. DOMAIN loops' = DOMAIN loops /\ loops'[i].pc = pc
  BY <1>2, <1>3
<1>6. \A j \in DOMAIN loops : j # i => loops'[j] = loops[j]
  BY <1>3
<1> QED
  BY <1>4, <1>5, <1>6

LEMMA LoopTyped ==
  ASSUME Typed, NEW i \in DOMAIN loops, LoopStep(i) \/ LoopEnds(i)
  PROVE  Typed'
<1>1. SourceTypeOK /\ HaltTypeOK
  BY DEF Typed
<1>2. loops' \in Seq(Loop)
  BY <1>1, LoopToType DEF LoopStep, SeeHalt, MarkHalted, SeeStatus, StartPoll, EndPoll, LoopEnds
<1>3. flag' \in Flag
  <2>1. flag \in Flag /\ [status |-> "halted", by |-> "system"] \in Flag
    BY <1>1 DEF SourceTypeOK, Flag
  <2>2. \A status \in {"idle", "error", "polling"} : [flag EXCEPT !.status = status] \in Flag
    BY <2>1 DEF Flag
  <2> QED
    BY <2>1, <2>2
    DEF LoopStep, SeeHalt, MarkHalted, SeeStatus, StartPoll, EndPoll, LoopEnds
<1>4. SourceTypeOK'
  BY <1>1, <1>2, <1>3 DEF LoopStep, SeeHalt, MarkHalted, SeeStatus, StartPoll, EndPoll, LoopEnds,
                          SourceTypeOK
<1>5. HaltTypeOK'
  <2>1. CASE LoopStep(i)
    BY <1>1, <2>1 DEF LoopStep, SeeHalt, MarkHalted, SeeStatus, StartPoll, EndPoll, haltVars,
                      HaltTypeOK
  <2>2. CASE LoopEnds(i)
    BY <1>1, <2>2, FaultsType DEF LoopEnds, HaltTypeOK
  <2> QED
    BY <2>1, <2>2
<1> QED
  BY <1>4, <1>5 DEF Typed

LEMMA ScraperTyped ==
  ASSUME Typed, BootScraper \/ KillScraper \/ CrashScraper
  PROVE  Typed'
<1>1. SourceTypeOK /\ HaltTypeOK /\ Scraper \in Agents
  BY SourceAssumption DEF Typed
<1>2. HaltTypeOK'
  BY <1>1, AgentStepType DEF BootScraper, KillScraper, CrashScraper
<1>3. loops' \in Seq(Loop)
  <2>1. CASE BootScraper
    <3>1. [pc |-> "top", halted |-> FALSE] \in Loop
      BY DEF Loop
    <3> QED
      BY <1>1, <2>1, <3>1 DEF BootScraper, SourceTypeOK
  <2>2. CASE KillScraper
    BY <2>2 DEF KillScraper
  <2>3. CASE CrashScraper
    <3>1. agent[Scraper].halted \in BOOLEAN /\ loops \in Seq(Loop)
      BY <1>1 DEF HaltTypeOK, SourceTypeOK
    <3>2. loops' = [loops EXCEPT ![Len(loops)].halted = agent[Scraper].halted]
      BY <2>3 DEF CrashScraper
    <3>3. ASSUME NEW i \in DOMAIN loops, NEW h \in BOOLEAN
          PROVE  [loops[i] EXCEPT !.halted = h] \in Loop
      <4>1. loops[i] \in Loop
        BY <3>1
      <4> QED
        BY <4>1 DEF Loop
    <3>4. CASE Len(loops) \in DOMAIN loops
      BY <3>1, <3>2, <3>3, <3>4, ExceptSeq
    <3>5. CASE Len(loops) \notin DOMAIN loops
      <4>1. loops = <<>>
        BY <3>1, <3>5
      <4>2. DOMAIN loops = {}
        BY <4>1
      <4>3. loops' = loops
        BY <3>2, <4>1, <4>2
      <4> QED
        BY <3>1, <4>3
    <3> QED
      BY <3>4, <3>5
  <2> QED
    BY <2>1, <2>2, <2>3
<1> QED
  BY <1>1, <1>2, <1>3 DEF Typed, BootScraper, KillScraper, CrashScraper, SourceTypeOK

LEMMA SweepTyped ==
  ASSUME Typed,
         \/ CancelSource \/ ResumeSource \/ StartRound
         \/ PressToggle \/ PressRunNow \/ WritePressed
         \/ \E r \in Requests : EndRequest(r)
         \/ \E k \in Sweepers : SweepStep(k)
  PROVE  Typed'
<1>1. SourceTypeOK /\ HaltTypeOK
  BY DEF Typed
<1>2. Cleared \in Flag /\ [status |-> "halted", by |-> "user"] \in Flag
  BY DEF Cleared, Flag
<1>3. CASE CancelSource
  <2>1. ncancels' \in 0 .. MaxCancels
    BY <1>1, <1>3, SourceAssumption DEF CancelSource, SourceTypeOK
  <2> QED
    BY <1>1, <1>2, <1>3, <2>1 DEF Typed, CancelSource, haltVars, SourceTypeOK, HaltTypeOK
<1>4. CASE ResumeSource
  BY <1>1, <1>2, <1>4 DEF Typed, ResumeSource, haltVars, SourceTypeOK, HaltTypeOK
<1>5. CASE StartRound
  BY <1>1, <1>5 DEF Typed, StartRound, haltVars, SourceTypeOK, HaltTypeOK, Sweepers
<1>6. ASSUME NEW r \in Requests, EndRequest(r)
      PROVE  Typed'
  <2>1. HaltTypeOK'
    BY <1>1, <1>6, RequestType DEF EndRequest
  <2>2. sweep' \in [Sweepers -> {"idle", "looking", "clearing"}]
    BY <1>1, <1>6 DEF EndRequest, SourceTypeOK
  <2> QED
    BY <1>1, <1>6, <2>1, <2>2 DEF Typed, EndRequest, SourceTypeOK
<1>7. ASSUME NEW k \in Sweepers, SweepStep(k)
      PROVE  Typed'
  BY <1>1, <1>2, <1>7
  DEF Typed, SweepStep, LookAtSource, ClearSource, haltVars, SourceTypeOK, HaltTypeOK
<1>8. CASE PressToggle
  <2>1. ncancels' \in 0 .. MaxCancels
    BY <1>1, <1>8, SourceAssumption DEF PressToggle, SourceTypeOK
  <2> QED
    BY <1>1, <1>8, <2>1 DEF Typed, PressToggle, haltVars, SourceTypeOK, HaltTypeOK
<1>9. CASE PressRunNow
  BY <1>1, <1>9 DEF Typed, PressRunNow, haltVars, SourceTypeOK, HaltTypeOK
<1>10. CASE WritePressed
  <2>1. flag' \in Flag
    <3>1. flag \in Flag /\ pressed \in {"idle", "halted"}
      BY <1>1, <1>10 DEF WritePressed, SourceTypeOK
    <3> QED
      BY <1>10, <3>1 DEF WritePressed, Flag
  <2> QED
    BY <1>1, <1>10, <2>1 DEF Typed, WritePressed, haltVars, SourceTypeOK, HaltTypeOK
<1> QED
  BY <1>3, <1>4, <1>5, <1>6, <1>7, <1>8, <1>9, <1>10

LEMMA SourceTypeStep ==
  ASSUME Typed, [Next]_vars
  PROVE  Typed'
<1>1. CASE HaltStep
  <2>1. HaltTypeOK' /\ UNCHANGED sourceVars
    BY <1>1, AgentStepType, RequestType, NoticeType DEF Typed, HaltStep
  <2> QED
    BY <2>1 DEF Typed, sourceVars, SourceTypeOK
<1>2. CASE UNCHANGED vars
  BY <1>2 DEF Typed, vars, haltVars, sourceVars, HaltTypeOK, SourceTypeOK
<1> QED
  BY <1>1, <1>2, LoopTyped, ScraperTyped, SweepTyped DEF Next

LEMMA SourceTypeInit == Init => Typed
<1> SUFFICES ASSUME Init PROVE Typed
  OBVIOUS
<1>1. HaltTypeOK
  BY HaltTypeInit DEF Init
<1>2. flag \in Flag
  BY DEF Init, Flag
<1>3. loops \in Seq(Loop) /\ ncancels \in 0 .. MaxCancels
  <2>1. loops = <<>> /\ ncancels = 0
    BY DEF Init
  <2> QED
    BY <2>1, SourceAssumption, EmptySeq
<1>4. SourceTypeOK
  BY <1>2, <1>3 DEF Init, SourceTypeOK
<1> QED
  BY <1>1, <1>4 DEF Typed

-----------------------------------------------------------------------------
(***************************************************************************)
(* The cancellation.  While it stands clean nobody is about to write: no   *)
(* sweeper is past its look, and no loop is past its read of the status.   *)
(* A loop that is about to mark a halt ends the clean state when it does.  *)
(***************************************************************************)
CancelInv ==
  /\ Typed
  /\ CancelHolds
  /\ cancel = "clean" => \A k \in Sweepers : sweep[k] # "clearing"

LEMMA LoopKeepsCancel ==
  ASSUME CancelInv, NEW i \in DOMAIN loops, LoopStep(i) \/ LoopEnds(i)
  PROVE  CancelInv'
<1>1. Typed'
  BY LoopTyped DEF CancelInv
<1> SUFFICES ASSUME cancel' = "clean"
             PROVE  /\ flag' = [status |-> "halted", by |-> "user"]
                    /\ pressed' # "halted"
                    /\ \A j \in DOMAIN loops' : loops'[j].pc \notin {"starting", "polling"}
                    /\ \A k \in Sweepers : sweep'[k] # "clearing"
  BY <1>1 DEF CancelInv, CancelHolds
<1>2. cancel = "clean" /\ ~ MarkHalted(i) /\ UNCHANGED <<sweep, pressed>>
  BY DEF LoopStep, SeeHalt, MarkHalted, SeeStatus, StartPoll, EndPoll, LoopEnds
<1>3. /\ flag = [status |-> "halted", by |-> "user"] /\ pressed # "halted"
      /\ \A j \in DOMAIN loops : loops[j].pc \notin {"starting", "polling"}
      /\ \A k \in Sweepers : sweep[k] # "clearing"
  BY <1>2 DEF CancelInv, CancelHolds
<1>4. SeeHalt(i) \/ LoopEnds(i)
  BY <1>2, <1>3 DEF LoopStep, SeeStatus, ReadsHalted, StartPoll, EndPoll
<1>5. UNCHANGED flag /\ (LoopTo(i, "marking") \/ LoopTo(i, "ended"))
  BY <1>4 DEF SeeHalt, LoopEnds
<1>6. SourceTypeOK
  BY DEF CancelInv, Typed
<1> QED
  BY <1>2, <1>3, <1>5, <1>6, LoopToType

LEMMA OthersKeepCancel ==
  ASSUME CancelInv,
         \/ HaltStep \/ BootScraper \/ KillScraper \/ CrashScraper
         \/ CancelSource \/ ResumeSource \/ StartRound
         \/ PressToggle \/ PressRunNow \/ WritePressed
         \/ \E r \in Requests : EndRequest(r)
         \/ \E k \in Sweepers : SweepStep(k)
         \/ UNCHANGED vars,
         Typed'
  PROVE  CancelInv'
<1>1. SourceTypeOK
  BY DEF CancelInv, Typed
<1> SUFFICES ASSUME cancel' = "clean"
             PROVE  /\ flag' = [status |-> "halted", by |-> "user"]
                    /\ pressed' # "halted"
                    /\ \A j \in DOMAIN loops' : loops'[j].pc \notin {"starting", "polling"}
                    /\ \A k \in Sweepers : sweep'[k] # "clearing"
  BY DEF CancelInv, CancelHolds
<1>2. CASE CancelSource
  BY <1>2 DEF CancelSource, UnderWay
<1>3. CASE ResumeSource
  BY <1>3 DEF ResumeSource
<1>4. CASE HaltStep \/ UNCHANGED vars
  BY <1>4 DEF HaltStep, vars, sourceVars, CancelInv, CancelHolds
<1>5. CASE BootScraper \/ KillScraper \/ CrashScraper
  <2>1. UNCHANGED <<flag, sweep, pressed, cancel>>
    BY <1>5 DEF BootScraper, KillScraper, CrashScraper
  <2>2. \A j \in DOMAIN loops' : \/ loops'[j].pc = "top"
                                 \/ j \in DOMAIN loops /\ loops'[j].pc = loops[j].pc
    <3>1. CASE BootScraper
      BY <1>1, <3>1 DEF BootScraper, SourceTypeOK
    <3>2. CASE KillScraper
      BY <3>2 DEF KillScraper
    <3>3. CASE CrashScraper
      <4>1. loops' = [loops EXCEPT ![Len(loops)].halted = agent[Scraper].halted]
        BY <3>3 DEF CrashScraper
      <4>2. \A j \in DOMAIN loops : loops[j] \in Loop
        BY <1>1 DEF SourceTypeOK
      <4> QED
        BY <4>1, <4>2 DEF Loop
    <3> QED
      BY <1>5, <3>1, <3>2, <3>3
  <2> QED
    BY <2>1, <2>2 DEF CancelInv, CancelHolds
<1>6. ASSUME NEW r \in Requests, EndRequest(r)
      PROVE  /\ UNCHANGED <<flag, loops, pressed, cancel>>
             /\ \A k \in Sweepers : sweep[k] # "clearing" => sweep'[k] # "clearing"
  BY <1>1, <1>6 DEF EndRequest, SourceTypeOK
<1>7. CASE StartRound
  BY <1>1, <1>7 DEF StartRound, SourceTypeOK, CancelInv, CancelHolds
<1>8. ASSUME NEW k \in Sweepers, SweepStep(k)
      PROVE  /\ flag' = [status |-> "halted", by |-> "user"]
             /\ pressed' # "halted"
             /\ \A j \in DOMAIN loops' : loops'[j].pc \notin {"starting", "polling"}
             /\ \A q \in Sweepers : sweep'[q] # "clearing"
  <2>1. cancel = "clean"
    BY <1>8 DEF SweepStep, LookAtSource, ClearSource
  <2>2. LookAtSource(k) /\ ~ BySystem
    BY <1>8, <2>1 DEF SweepStep, ClearSource, CancelInv, CancelHolds, BySystem
  <2> QED
    BY <1>1, <2>1, <2>2 DEF LookAtSource, SourceTypeOK, CancelInv, CancelHolds
<1>9. CASE PressToggle \/ PressRunNow
  BY <1>9 DEF PressToggle, PressRunNow, CancelInv, CancelHolds
<1>10. CASE WritePressed
  BY <1>10 DEF WritePressed
<1> QED
  BY <1>2, <1>3, <1>4, <1>5, <1>6, <1>7, <1>8, <1>9, <1>10 DEF CancelInv, CancelHolds

\* Every variable of the scraper's control has its type, the poll loops that a crash left
\* behind included (agents/scraper/runner.py:60-150).
THEOREM SourceTypeCorrect == FairSpec => []TypeOK
BY SourceTypeInit, SourceTypeStep, TypedIsTypeOK, PTL DEF FairSpec

\* A source cancelled on the workflow page when nobody was past its look at the hash stays
\* cancelled until somebody resumes it, on either page, or the system halts before
\* (dashboard/routes/workflow.py:556-563): no loop of however many polls it, no sweep
\* clears the flag and no button of the news page halts it in nobody's name.
THEOREM CancelStands == FairSpec => []CancelHolds
<1>1. Init => CancelInv
  BY SourceTypeInit DEF Init, CancelInv, CancelHolds
<1>2. CancelInv /\ [Next]_vars => CancelInv'
  BY SourceTypeStep, LoopKeepsCancel, OthersKeepCancel DEF CancelInv, Next
<1>3. CancelInv => CancelHolds
  BY DEF CancelInv
<1> QED
  BY <1>1, <1>2, <1>3, PTL DEF FairSpec

-----------------------------------------------------------------------------
(***************************************************************************)
(* The rotation of Reddit.                                                 *)
(***************************************************************************)
Poll == [on : BOOLEAN, todo : Seq(Subs), ok : SUBSET Subs, refused : SUBSET Subs,
         got : SUBSET Subs]
Counters == [Subs -> 0 .. Quarantine + MaxTroubles]

\* What the counter of s is, or is about to be.
Count(s) == fails[s] + (IF s \in poll.refused THEN 1 ELSE 0)

RedditInv ==
  /\ RedditTypeOK
  /\ ~ poll.on => poll = NoPoll
  /\ SeenIsAccountedFor /\ OverrunsAreTroubles

LEMMA ListFacts ==
  /\ N \in Nat \ {0} /\ PerCycle \in Nat \ {0} /\ Quarantine \in Nat \ {0}
  /\ MaxTroubles \in Nat /\ SeenCap \in Nat
  /\ Asked \in Nat /\ NoPoll \in Poll
  /\ \A i \in 1 .. N : Subreddits[i] \in Subs
<1>1. /\ Subreddits \in Seq(Subs) /\ Subreddits # <<>> /\ PerCycle \in Nat \ {0}
      /\ Quarantine \in Nat \ {0} /\ MaxTroubles \in Nat /\ SeenCap \in Nat
  BY RedditAssumption
<1>2. N \in Nat \ {0} /\ \A i \in 1 .. N : Subreddits[i] \in Subs
  <2> HIDE DEF Subs
  <2> QED
    BY <1>1, EmptySeq DEF N
<1>3. NoPoll \in Poll
  BY DEF NoPoll, Poll
<1> QED
  BY <1>1, <1>2, <1>3 DEF Asked

\* What is left after division by the number of subreddits is a place in the list.
LEMMA WrapsAround ==
  ASSUME NEW a \in Nat
  PROVE  a % N \in 0 .. N - 1
BY ListFacts

LEMMA SliceType ==
  ASSUME RedditTypeOK
  PROVE  Slice \in Seq(Subs) /\ NextOffset \in 0 .. N - 1
<1>1. offset \in Nat /\ N \in Nat \ {0} /\ Asked \in Nat
  BY ListFacts DEF RedditTypeOK
<1>2. NextOffset \in 0 .. N - 1
  BY <1>1, WrapsAround DEF NextOffset
<1>3. ASSUME NEW i \in 1 .. Asked
      PROVE  Subreddits[((offset + i - 1) % N) + 1] \in Subs
  <2>1. offset + i - 1 \in Nat
    BY <1>1
  <2>2. (offset + i - 1) % N \in 0 .. N - 1
    BY <2>1, WrapsAround
  <2>3. ((offset + i - 1) % N) + 1 \in 1 .. N
    BY <1>1, <2>2
  <2> QED
    BY <2>3, ListFacts
<1>4. Slice \in [1 .. Asked -> Subs]
  BY <1>3 DEF Slice
<1> HIDE DEF Subs
<1> QED
  BY <1>1, <1>2, <1>4

LEMMA RedditStarts == RedditInit => RedditInv
<1> SUFFICES ASSUME RedditInit PROVE RedditInv
  OBVIOUS
<1>1. NoPoll \in Poll /\ NoPoll.got = {} /\ NoPoll.refused = {} /\ NoPoll.on = FALSE
  BY ListFacts DEF NoPoll
<1>2. RedditTypeOK
  BY <1>1, ListFacts DEF RedditInit, RedditTypeOK, Poll
<1>3. OverrunsAreTroubles
  <2>1. ntroubles = 0 /\ poll.refused = {} /\ \A s \in Subs : fails[s] = 0
    BY <1>1 DEF RedditInit
  <2> QED
    BY <2>1, ListFacts DEF OverrunsAreTroubles
<1> QED
  BY <1>1, <1>2, <1>3 DEF RedditInit, RedditInv, SeenIsAccountedFor

LEMMA RedditFields ==
  ASSUME RedditInv
  PROVE  /\ poll \in Poll /\ fails \in Counters /\ fails \in [Subs -> Nat]
         /\ poll.todo \in Seq(Subs) /\ poll.got \subseteq Subs /\ poll.refused \subseteq Subs
         /\ poll.ok \subseteq Subs
         /\ ~ poll.on => poll.got = {} /\ poll.refused = {} /\ poll.todo = <<>>
<1>1. poll \in Poll /\ fails \in Counters /\ (~ poll.on => poll = NoPoll)
  BY DEF RedditInv, RedditTypeOK, Poll, Counters
<1>2. fails \in [Subs -> Nat]
  BY <1>1, ListFacts DEF Counters
<1> QED
  BY <1>1, <1>2 DEF Poll, NoPoll

LEMMA TroubleCounts ==
  ASSUME RedditInv, Trouble
  PROVE  ntroubles' \in 0 .. MaxTroubles /\ ntroubles' = ntroubles + 1
BY ListFacts DEF Trouble, RedditInv, RedditTypeOK

LEMMA CountTypes ==
  ASSUME RedditInv
  PROVE  /\ ntroubles \in 0 .. MaxTroubles /\ \A s \in Subs : fails[s] \in Nat /\ Count(s) \in Nat
         /\ \A s \in Subs : Count(s) =< Quarantine + ntroubles
BY ListFacts DEF RedditInv, RedditTypeOK, OverrunsAreTroubles, Count

\* Counters within the bound of the failed calls have their type.
LEMMA BoundedCounters ==
  ASSUME NEW f, NEW m \in 0 .. MaxTroubles, f \in [Subs -> Nat],
         \A s \in Subs : f[s] =< Quarantine + m
  PROVE  f \in Counters
<1> SUFFICES ASSUME NEW s \in Subs PROVE f[s] \in 0 .. Quarantine + MaxTroubles
  BY DEF Counters
<1> QED
  BY ListFacts

\* No counter rises and nothing is refused: the bound stays.
LEMMA OverrunsStay ==
  ASSUME RedditInv, fails' \in [Subs -> Nat], \A s \in Subs : fails'[s] =< fails[s],
         poll'.refused \subseteq poll.refused,
         ntroubles' \in 0 .. MaxTroubles, ntroubles' >= ntroubles
  PROVE  OverrunsAreTroubles' /\ fails' \in Counters
<1>1. ASSUME NEW s \in Subs
      PROVE  /\ fails'[s] + (IF s \in poll'.refused THEN 1 ELSE 0) =< Quarantine + ntroubles'
             /\ fails'[s] =< Quarantine + ntroubles'
  <2>1. /\ fails[s] \in Nat /\ ntroubles \in Nat
        /\ fails[s] + (IF s \in poll.refused THEN 1 ELSE 0) =< Quarantine + ntroubles
    BY CountTypes DEF Count
  <2>2. fails'[s] \in Nat /\ fails'[s] =< fails[s]
    OBVIOUS
  <2> QED
    BY <2>1, <2>2, ListFacts
<1>2. fails' \in Counters
  BY <1>1, BoundedCounters
<1> QED
  BY <1>1, <1>2 DEF OverrunsAreTroubles

LEMMA BeginPollKeeps ==
  ASSUME RedditInv, BeginPoll
  PROVE  RedditInv'
<1>1. /\ poll' = [NoPoll EXCEPT !.on = TRUE, !.todo = Slice]
      /\ offset' = NextOffset /\ unreset' = FALSE /\ UNCHANGED <<seen, public, handed, cut>>
      /\ poll.got = {}
  BY RedditFields DEF BeginPoll
<1>2. Slice \in Seq(Subs) /\ NextOffset \in 0 .. N - 1
  BY SliceType DEF RedditInv
<1>3. poll' \in Poll /\ poll'.on /\ poll'.got = {} /\ poll'.refused = {}
  BY <1>1, <1>2 DEF NoPoll, Poll
<1>4. fails' \in [Subs -> Nat] /\ \A s \in Subs : fails'[s] = 0 \/ fails'[s] = fails[s]
  BY RedditFields, ListFacts DEF BeginPoll, Counters
<1>5. ntroubles' \in 0 .. MaxTroubles /\ ntroubles' >= ntroubles
  BY TroubleCounts DEF BeginPoll, RedditInv, RedditTypeOK
<1>7. \A s \in Subs : fails'[s] =< Quarantine + ntroubles'
  BY <1>4, <1>5, CountTypes, ListFacts DEF Count
<1>8. fails' \in Counters
  BY <1>4, <1>5, <1>7, BoundedCounters
<1>9. OverrunsAreTroubles'
  BY <1>3, <1>4, <1>7 DEF OverrunsAreTroubles
<1>6. RedditTypeOK'
  BY <1>1, <1>2, <1>3, <1>5, <1>8 DEF RedditInv, RedditTypeOK, Poll, Counters
<1> QED
  BY <1>1, <1>3, <1>6, <1>9 DEF RedditInv, SeenIsAccountedFor

\* A subreddit of the poll under way is dealt with: only its own counter changes.
LEMMA AskedKeeps ==
  ASSUME RedditInv, NEW s \in Subs, Next1(s),
         NEW q \in Poll, poll' = q, q.on = poll.on, q.todo = Tail(poll.todo),
         poll.got \subseteq q.got, q.refused \subseteq poll.refused \cup {s},
         fails' \in [Subs -> Nat], \A t \in Subs \ {s} : fails'[t] = fails[t],
         fails'[s] + (IF s \in q.refused THEN 1 ELSE 0) =< Quarantine + ntroubles',
         ntroubles' \in 0 .. MaxTroubles, ntroubles' >= ntroubles,
         seen' \subseteq Subs, seen' \subseteq seen \cup q.got \cup handed \cup cut,
         UNCHANGED <<offset, unreset, public, handed, cut>>
  PROVE  RedditInv'
<1>1. ASSUME NEW t \in Subs
      PROVE  fails'[t] + (IF t \in q.refused THEN 1 ELSE 0) =< Quarantine + ntroubles'
  <2>1. CASE t # s
    <3>1. fails'[t] = fails[t] /\ (t \in q.refused => t \in poll.refused)
      BY <2>1
    <3>2. fails[t] \in Nat /\ ntroubles \in Nat /\ fails[t] + (IF t \in poll.refused THEN 1 ELSE 0) =< Quarantine + ntroubles
      BY CountTypes DEF Count
    <3> QED
      BY <3>1, <3>2, ListFacts
  <2> QED
    BY <2>1
<1>2. OverrunsAreTroubles'
  BY <1>1 DEF OverrunsAreTroubles
<1>3. \A t \in Subs : fails'[t] =< Quarantine + ntroubles'
  BY <1>1, ListFacts
<1>4. fails' \in Counters
  BY <1>3, BoundedCounters
<1>5. RedditTypeOK'
  BY <1>4 DEF RedditInv, RedditTypeOK, Poll, Counters
<1>6. poll'.on
  BY RedditFields DEF Next1
<1>7. SeenIsAccountedFor'
  BY DEF RedditInv, SeenIsAccountedFor
<1> QED
  BY <1>2, <1>5, <1>6, <1>7 DEF RedditInv

LEMMA SubredditKeeps ==
  ASSUME RedditInv, NEW s \in Subs,
         Skip(s) \/ Answers(s) \/ Unreachable(s) \/ Refused(s) \/ OtherError(s)
  PROVE  RedditInv'
<1>1. Next1(s) /\ poll \in Poll /\ poll.todo # <<>> /\ poll.todo \in Seq(Subs)
  BY RedditFields DEF Skip, Answers, Unreachable, Refused, OtherError, Asks, Next1
<1>2. Tail(poll.todo) \in Seq(Subs)
  BY <1>1, EmptySeq, HeadTailProperties
<1>3. /\ Rest \in Poll /\ Rest.todo = Tail(poll.todo) /\ Rest.on = poll.on
      /\ Rest.ok = poll.ok /\ Rest.refused = poll.refused /\ Rest.got = poll.got
  BY <1>1, <1>2 DEF Rest, Poll
<1>4. /\ fails \in [Subs -> Nat] /\ seen \subseteq Subs /\ ntroubles \in 0 .. MaxTroubles
      /\ [fails EXCEPT ![s] = 0] \in [Subs -> Nat] /\ [fails EXCEPT ![s] = 0][s] = 0
      /\ fails[s] + (IF s \in poll.refused THEN 1 ELSE 0) =< Quarantine + ntroubles
  BY RedditFields, CountTypes, ListFacts DEF RedditInv, RedditTypeOK, Counters, Count
<1>10. ASSUME Asks(s)
       PROVE  /\ ntroubles' \in 0 .. MaxTroubles /\ ntroubles' >= ntroubles
              /\ fails[s] < Quarantine \/ ntroubles' = ntroubles + 1
  BY <1>4, <1>10, TroubleCounts DEF Asks
<1>5. CASE Skip(s) \/ OtherError(s)
  <2>1. /\ poll' = Rest /\ UNCHANGED <<fails, seen, offset, unreset, public, handed, cut>>
        /\ ntroubles' \in 0 .. MaxTroubles /\ ntroubles' >= ntroubles
    BY <1>4, <1>5, TroubleCounts DEF Skip, OtherError
  <2>2. fails'[s] + (IF s \in Rest.refused THEN 1 ELSE 0) =< Quarantine + ntroubles'
    BY <1>3, <1>4, <2>1, ListFacts
  <2> QED
    BY <1>1, <1>3, <1>4, <2>1, <2>2, AskedKeeps
<1>6. CASE Answers(s)
  <2> DEFINE q == [Rest EXCEPT !.ok = @ \cup {s}, !.got = @ \cup (Posts(s) \ seen)]
  <2>1. /\ poll' = q /\ seen' = seen \cup Posts(s)
        /\ fails' = [fails EXCEPT ![s] = 0] \/ fails' = fails
        /\ ntroubles' # ntroubles \/ fails' = [fails EXCEPT ![s] = 0]
        /\ UNCHANGED <<offset, unreset, public, handed, cut>>
    BY <1>6 DEF Answers
  <2>2. Posts(s) \subseteq Subs /\ Asks(s)
    BY <1>6 DEF Posts, Answers
  <2>3. /\ q \in Poll /\ q.todo = Rest.todo /\ q.on = Rest.on /\ q.refused = Rest.refused
        /\ q.got = Rest.got \cup (Posts(s) \ seen)
    BY <1>3, <2>2 DEF Poll
  <2> HIDE DEF q
  <2>4. ntroubles' \in 0 .. MaxTroubles /\ ntroubles' >= ntroubles
    BY <1>10, <2>2
  <2>5. fails' \in [Subs -> Nat] /\ \A t \in Subs \ {s} : fails'[t] = fails[t]
    BY <1>4, <2>1
  <2>6. fails'[s] + (IF s \in q.refused THEN 1 ELSE 0) =< Quarantine + ntroubles'
    <3>1. CASE fails' = fails
      BY <1>3, <1>4, <2>3, <2>4, <3>1, ListFacts
    <3>2. CASE fails' = [fails EXCEPT ![s] = 0]
      <4>1. fails'[s] = 0
        BY <1>4, <3>2
      <4> QED
        BY <1>4, <2>4, <4>1, ListFacts
    <3> QED
      BY <2>1, <3>1, <3>2
  <2>7. seen' \subseteq Subs /\ seen' \subseteq seen \cup q.got \cup handed \cup cut
    BY <1>4, <2>1, <2>2, <2>3
  <2> QED
    BY <1>1, <1>3, <2>1, <2>3, <2>4, <2>5, <2>6, <2>7, AskedKeeps
<1>7. CASE Unreachable(s)
  <2> DEFINE q == [Rest EXCEPT !.ok = @ \cup {s}]
  <2>1. /\ poll' = q /\ fails' = [fails EXCEPT ![s] = 0]
        /\ UNCHANGED <<seen, offset, unreset, public, handed, cut>>
        /\ ntroubles' \in 0 .. MaxTroubles /\ ntroubles' >= ntroubles
    BY <1>4, <1>7, TroubleCounts DEF Unreachable
  <2>2. /\ q \in Poll /\ q.todo = Rest.todo /\ q.on = Rest.on /\ q.refused = Rest.refused
        /\ q.got = Rest.got
    BY <1>3 DEF Poll
  <2> HIDE DEF q
  <2>3. fails' \in [Subs -> Nat] /\ fails'[s] = 0 /\ \A t \in Subs \ {s} : fails'[t] = fails[t]
    BY <1>4, <2>1
  <2>5. ntroubles' \in Nat /\ Quarantine \in Nat \ {0}
    BY <2>1, ListFacts
  <2>4. fails'[s] + (IF s \in q.refused THEN 1 ELSE 0) =< Quarantine + ntroubles'
    BY <2>3, <2>5
  <2> QED
    BY <1>1, <1>3, <1>4, <2>1, <2>2, <2>3, <2>4, AskedKeeps
<1>8. CASE Refused(s)
  <2> DEFINE q == [Rest EXCEPT !.refused = @ \cup {s}]
  <2>1. /\ poll' = q /\ Asks(s)
        /\ UNCHANGED <<fails, seen, offset, unreset, public, handed, cut>>
    BY <1>8 DEF Refused
  <2>2. /\ q \in Poll /\ q.todo = Rest.todo /\ q.on = Rest.on /\ q.got = Rest.got
        /\ q.refused = Rest.refused \cup {s}
    BY <1>3 DEF Poll
  <2> HIDE DEF q
  <2>3. /\ ntroubles' \in 0 .. MaxTroubles /\ ntroubles' >= ntroubles
        /\ fails[s] < Quarantine \/ ntroubles' = ntroubles + 1
    BY <1>10, <2>1
  <2>4. fails'[s] + (IF s \in q.refused THEN 1 ELSE 0) =< Quarantine + ntroubles'
    <3>1. /\ fails'[s] = fails[s] /\ fails[s] \in Nat
          /\ ntroubles \in Nat /\ ntroubles' \in Nat /\ Quarantine \in Nat
      BY <1>4, <2>1, <2>3, ListFacts
    <3>2. fails[s] =< Quarantine + ntroubles
      BY <1>4, <3>1
    <3>3. fails[s] + 1 =< Quarantine + ntroubles'
      BY <2>3, <3>1, <3>2
    <3> QED
      BY <3>1, <3>3
  <2> QED
    BY <1>1, <1>3, <1>4, <2>1, <2>2, <2>3, <2>4, AskedKeeps
<1> QED
  BY <1>5, <1>6, <1>7, <1>8

LEMMA FinishPollKeeps ==
  ASSUME RedditInv, FinishPoll
  PROVE  RedditInv'
<1>1. PICK counted \in SUBSET poll.refused :
        /\ (counted = poll.refused /\ UNCHANGED ntroubles) \/ Trouble
        /\ fails' = [s \in Subs |-> IF poll.ok # {} /\ s \in counted THEN fails[s] + 1
                                    ELSE fails[s]]
  BY DEF FinishPoll
<1>2. /\ poll.on /\ poll' = NoPoll /\ handed' = handed \cup poll.got
      /\ UNCHANGED <<offset, unreset, public, cut>> /\ seen' \subseteq seen
  BY DEF FinishPoll
<1>3. ntroubles' \in 0 .. MaxTroubles /\ ntroubles' >= ntroubles
  BY <1>1, TroubleCounts, CountTypes
<1>4. NoPoll \in Poll /\ NoPoll.refused = {}
  BY ListFacts DEF NoPoll
<1>5. ASSUME NEW s \in Subs
      PROVE  fails'[s] \in Nat /\ fails'[s] =< Quarantine + ntroubles'
  <2>1. fails'[s] = fails[s] \/ (s \in poll.refused /\ fails'[s] = fails[s] + 1)
    BY <1>1
  <2>2. /\ fails[s] \in Nat /\ ntroubles \in Nat
        /\ fails[s] + (IF s \in poll.refused THEN 1 ELSE 0) =< Quarantine + ntroubles
    BY CountTypes DEF Count
  <2> QED
    BY <1>3, <2>1, <2>2, ListFacts
<1>6. fails' \in [Subs -> Nat]
  <2>1. DOMAIN fails' = Subs /\ fails' = [s \in Subs |-> fails'[s]]
    BY <1>1
  <2> QED
    BY <1>5, <2>1
<1>7. fails' \in Counters
  BY <1>3, <1>5, <1>6, BoundedCounters
<1>8. RedditTypeOK'
  BY <1>2, <1>3, <1>4, <1>7, RedditFields DEF RedditInv, RedditTypeOK, Poll, Counters
<1>9. OverrunsAreTroubles'
  BY <1>2, <1>4, <1>5 DEF OverrunsAreTroubles
<1> QED
  BY <1>2, <1>4, <1>8, <1>9 DEF RedditInv, SeenIsAccountedFor

\* A poll ends early, the scraper restarts, a day passes, the site changes its mind.
LEMMA EndsOrPassesKeeps ==
  ASSUME RedditInv,
         \/ RateLimited \/ CutOff \/ RestartScraper \/ Blocks \/ UNCHANGED redditVars
         \/ \E s \in Subs : FailsExpire(s)
  PROVE  RedditInv'
<1>1. NoPoll \in Poll /\ NoPoll.refused = {} /\ NoPoll.got = {}
  BY ListFacts DEF NoPoll
<1>2. CASE RateLimited
  <2>1. /\ poll' = [poll EXCEPT !.todo = <<>>] /\ poll.on
        /\ UNCHANGED <<offset, fails, seen, unreset, public, handed, cut>>
        /\ ntroubles' \in 0 .. MaxTroubles /\ ntroubles' >= ntroubles
    BY <1>2, RedditFields, TroubleCounts, CountTypes DEF RateLimited
  <2>2. poll' \in Poll /\ poll'.on /\ poll'.got = poll.got /\ poll'.refused = poll.refused
    BY <2>1, RedditFields, EmptySeq DEF Poll
  <2>3. RedditTypeOK'
    BY <2>1, <2>2 DEF RedditInv, RedditTypeOK, Poll
  <2>4. OverrunsAreTroubles'
    BY <2>1, <2>2, RedditFields, OverrunsStay
  <2> QED
    BY <2>1, <2>2, <2>3, <2>4 DEF RedditInv, SeenIsAccountedFor
<1>3. CASE CutOff
  <2>1. /\ poll' = NoPoll /\ cut' = cut \cup poll.got
        /\ UNCHANGED <<offset, fails, seen, unreset, public, handed>>
        /\ ntroubles' \in 0 .. MaxTroubles /\ ntroubles' >= ntroubles
    BY <1>3, TroubleCounts, CountTypes DEF CutOff
  <2>2. RedditTypeOK'
    BY <1>1, <2>1, RedditFields DEF RedditInv, RedditTypeOK, Poll
  <2>3. OverrunsAreTroubles'
    BY <1>1, <2>1, RedditFields, CountTypes, OverrunsStay
  <2> QED
    BY <1>1, <2>1, <2>2, <2>3 DEF RedditInv, SeenIsAccountedFor
<1>4. CASE RestartScraper
  <2>1. /\ poll' = NoPoll /\ offset' = 0 /\ seen' = {} /\ unreset' = TRUE
        /\ UNCHANGED <<fails, public, handed, cut>> /\ ntroubles' \in 0 .. MaxTroubles /\ ntroubles' >= ntroubles
    BY <1>4, TroubleCounts, CountTypes DEF RestartScraper
  <2>2. RedditTypeOK'
    BY <1>1, <2>1, ListFacts DEF RedditInv, RedditTypeOK, Poll
  <2>3. OverrunsAreTroubles'
    BY <1>1, <2>1, RedditFields, CountTypes, OverrunsStay
  <2> QED
    BY <1>1, <2>1, <2>2, <2>3 DEF RedditInv, SeenIsAccountedFor
<1>5. CASE Blocks
  <2>1. /\ public' \in SUBSET Subs /\ ntroubles' \in 0 .. MaxTroubles /\ ntroubles' >= ntroubles
        /\ UNCHANGED <<offset, fails, seen, unreset, poll, handed, cut>>
    BY <1>5, TroubleCounts, CountTypes DEF Blocks
  <2>2. OverrunsAreTroubles'
    BY <2>1, RedditFields, CountTypes, OverrunsStay
  <2> QED
    BY <2>1, <2>2 DEF RedditInv, RedditTypeOK, SeenIsAccountedFor
<1>6. ASSUME NEW s \in Subs, FailsExpire(s) PROVE RedditInv'
  <2>1. /\ fails' = [fails EXCEPT ![s] = 0]
        /\ UNCHANGED <<offset, seen, unreset, poll, public, handed, cut, ntroubles>>
    BY <1>6 DEF FailsExpire
  <2>2. fails' \in [Subs -> Nat] /\ \A t \in Subs : fails'[t] =< fails[t]
    BY <2>1, RedditFields
  <2>3. OverrunsAreTroubles' /\ fails' \in Counters
    BY <2>1, <2>2, CountTypes, OverrunsStay
  <2> QED
    BY <2>1, <2>3, RedditFields DEF RedditInv, RedditTypeOK, SeenIsAccountedFor, Counters
<1>7. CASE UNCHANGED redditVars
  BY <1>7 DEF redditVars, RedditInv, RedditTypeOK, SeenIsAccountedFor, OverrunsAreTroubles
<1> QED
  BY <1>2, <1>3, <1>4, <1>5, <1>6, <1>7

LEMMA RedditStep == RedditInv /\ [RedditNext]_redditVars => RedditInv'
BY BeginPollKeeps, SubredditKeeps, FinishPollKeeps, EndsOrPassesKeeps DEF RedditNext, PollStep

\* A subreddit is counted out at the limit, and beyond it only as often as a call failed
\* (reddit.py:134-140), and the rotation stays on the list (reddit.py:92), however many
\* subreddits it has and however many a poll asks for.
THEOREM RedditTypeCorrect == RedditSpec => [](RedditTypeOK /\ OverrunsAreTroubles)
<1>1. RedditInv => RedditTypeOK /\ OverrunsAreTroubles
  BY DEF RedditInv
<1> QED
  BY RedditStarts, RedditStep, <1>1, PTL DEF RedditSpec

\* What is marked as seen was handed on or is about to be, unless the poll that held it
\* broke off (reddit.py:180).
THEOREM SeenAlwaysAccountedFor == RedditSpec => []SeenIsAccountedFor
<1>1. RedditInv => SeenIsAccountedFor
  BY DEF RedditInv
<1> QED
  BY RedditStarts, RedditStep, <1>1, PTL DEF RedditSpec

-----------------------------------------------------------------------------
(***************************************************************************)
(* The Telegram listener.  "joined" is on its way to a row in the          *)
(* listener's hands or in a message's counter; wherever it is, the channel *)
(* was joined before.                                                      *)
(***************************************************************************)
Really(l) == l \notin Bad /\ \E a \in Accounts : <<a, l>> \in member

ListenerTyped ==
  /\ owner \in Seq(Accounts) /\ valid \subseteq Sessions /\ rows \in [Links -> Row]
  /\ DOMAIN listener = {"pc", "client", "seen", "list", "link", "row"}
  /\ listener.row \in Row

JoinedInv ==
  /\ ListenerTyped
  /\ \A l \in Links : rows[l] = "joined" => Really(l)
  /\ listener.row = "joined" => listener.pc = "note" /\ Really(listener.link)
  /\ bump # NoLink => Really(bump)

LEMMA TelegramStarts == TelegramInit => JoinedInv
<1> SUFFICES ASSUME TelegramInit PROVE JoinedInv
  OBVIOUS
<1>1. owner = <<>> /\ Len(owner) = 0 /\ owner \in Seq(Accounts)
  BY EmptySeq DEF TelegramInit
<1>2. /\ DOMAIN listener = {"pc", "client", "seen", "list", "link", "row"}
      /\ listener.row = "none"
  BY DEF TelegramInit, Offline
<1>3. ListenerTyped
  BY <1>1, <1>2 DEF TelegramInit, ListenerTyped, Row
<1> QED
  BY <1>1, <1>2, <1>3 DEF TelegramInit, JoinedInv

\* Sessions come and go, and what was joined stays joined: accounts do not leave.
LEMMA PeopleKeepJoined ==
  ASSUME JoinedInv, UNCHANGED <<listener, bump, member>>,
         owner' \in Seq(Accounts), valid' \subseteq Sessions', rows' \in [Links -> Row],
         \A l \in Links : rows'[l] = "joined" => rows[l] = "joined"
  PROVE  JoinedInv'
<1>1. ListenerTyped'
  BY DEF JoinedInv, ListenerTyped
<1> QED
  BY <1>1 DEF JoinedInv, Really

LEMMA LoginKeepsJoined ==
  ASSUME JoinedInv, NEW a \in Accounts, SignIn(a)
  PROVE  JoinedInv'
<1>1. /\ owner' = Append(owner, a) /\ valid' = valid \cup {Len(owner')}
      /\ UNCHANGED <<rows, listener, bump, member>>
  BY DEF SignIn
<1>2. owner \in Seq(Accounts) /\ valid \subseteq 1 .. Len(owner) /\ rows \in [Links -> Row]
  BY DEF JoinedInv, ListenerTyped, Sessions
<1>3. owner' \in Seq(Accounts) /\ Len(owner') = Len(owner) + 1 /\ Len(owner) \in Nat
  BY <1>1, <1>2, AppendProperties, LenProperties
<1>4. valid' \subseteq Sessions'
  <2> SUFFICES ASSUME NEW n \in valid' PROVE n \in 1 .. Len(owner')
    BY DEF Sessions
  <2>1. n \in 1 .. Len(owner) \/ n = Len(owner')
    BY <1>1, <1>2
  <2>2. \A m \in Nat : n \in 1 .. m \/ n = m + 1 => n \in 1 .. m + 1
    OBVIOUS
  <2> QED
    BY <1>3, <2>1, <2>2
<1> QED
  BY <1>1, <1>2, <1>3, <1>4, PeopleKeepJoined

LEMMA PageKeepsJoined ==
  ASSUME JoinedInv,
         \/ SendCode \/ RestartDashboard \/ CacheExpires \/ UNCHANGED tgVars
         \/ \E n \in signed : StoreSession(n)
         \/ \E g \in Pages : Unlink(g) \/ PageStep(g) \/ \E l \in Links : Edit(g, l)
  PROVE  JoinedInv'
<1>1. /\ UNCHANGED <<listener, bump, member, owner>> /\ valid' \subseteq valid
      /\ \/ rows' = rows
         \/ \E g \in Pages : rows' = [rows EXCEPT ![page[g].link] = "none"]
         \/ rows' = [l \in Links |-> "none"]
  BY DEF SendCode, RestartDashboard, CacheExpires, StoreSession, people, tgVars, Unlink, PageStep, SaveList,
         DropRow, LogOut, Forget, ClearRows, Edit
<1>2. /\ owner' \in Seq(Accounts) /\ valid' \subseteq Sessions' /\ rows \in [Links -> Row]
  BY <1>1 DEF JoinedInv, ListenerTyped, Sessions
<1>3. /\ rows' \in [Links -> Row]
      /\ \A l \in Links : rows'[l] = "joined" => rows[l] = "joined"
  BY <1>1, <1>2 DEF Row
<1> QED
  BY <1>1, <1>2, <1>3, PeopleKeepJoined

\* The listener's steps that write no row and join no channel; the word in its hands is
\* dropped or stays at its place.
LEMMA LoopKeepsJoined ==
  ASSUME JoinedInv,
         \/ Look \/ LookFails \/ Connect \/ ReadConfig \/ LoopFails \/ RestartListener
  PROVE  JoinedInv'
<1>1. /\ UNCHANGED <<rows, owner, valid, member>> /\ bump' \in {bump, NoLink}
      /\ DOMAIN listener' = {"pc", "client", "seen", "list", "link", "row"}
      /\ listener'.row \in Row /\ listener'.row # "joined"
  <2>1. CASE LoopFails \/ RestartListener
    <3>1. /\ listener' = Offline /\ UNCHANGED <<rows, owner, valid, member>>
          /\ bump' \in {bump, NoLink}
      BY <2>1 DEF LoopFails, RestartListener, people
    <3>2. /\ DOMAIN Offline = {"pc", "client", "seen", "list", "link", "row"}
          /\ Offline.row = "none"
      BY DEF Offline
    <3> QED
      BY <3>1, <3>2 DEF Row
  <2>2. CASE Look \/ LookFails \/ Connect \/ ReadConfig
    <3>1. listener.row # "joined"
      BY <2>2 DEF Look, LookFails, Connect, ReadConfig, On, JoinedInv
    <3>2. UNCHANGED <<rows, owner, valid, member, bump>>
      BY <2>2 DEF Look, LookFails, Connect, ReadConfig, people
    <3>3. DOMAIN listener' = DOMAIN listener /\ listener'.row = listener.row
      BY <2>2 DEF Look, LookFails, Connect, ReadConfig, JoinedInv, ListenerTyped
    <3> QED
      BY <3>1, <3>2, <3>3 DEF JoinedInv, ListenerTyped
  <2> QED
    BY <2>1, <2>2
<1>2. ListenerTyped'
  BY <1>1 DEF JoinedInv, ListenerTyped, Sessions
<1> QED
  BY <1>1, <1>2 DEF JoinedInv, Really

LEMMA ReadRowsKeepsJoined ==
  ASSUME JoinedInv, ReadRows
  PROVE  JoinedInv'
<1>1. /\ UNCHANGED <<owner, valid, member, bump>>
      /\ rows' = [l \in Links |-> IF Stale(l) THEN "none" ELSE rows[l]]
      /\ DOMAIN listener' = DOMAIN listener /\ listener'.row = listener.row
      /\ listener.row # "joined"
  BY DEF ReadRows, people, On, JoinedInv, ListenerTyped
<1>2. ListenerTyped'
  BY <1>1 DEF JoinedInv, ListenerTyped, Sessions, Row
<1> QED
  BY <1>1, <1>2 DEF JoinedInv, Really

LEMMA JoinKeepsJoined ==
  ASSUME JoinedInv, Join \/ JoinFails
  PROVE  JoinedInv'
<1>1. /\ UNCHANGED <<rows, owner, valid, bump>> /\ member \subseteq member'
      /\ \E row \in {"joined", "retry", "flood"} :
           /\ listener' = [listener EXCEPT !.pc = "note", !.row = row]
           /\ row = "joined" => /\ listener.client \in valid /\ listener.link \notin Bad
                                /\ <<owner[listener.client], listener.link>> \in member'
  BY DEF Join, JoinFails, Joined, people
<1>2. PICK row \in {"joined", "retry", "flood"} :
        /\ listener' = [listener EXCEPT !.pc = "note", !.row = row]
        /\ row = "joined" => /\ listener.client \in valid /\ listener.link \notin Bad
                             /\ <<owner[listener.client], listener.link>> \in member'
  BY <1>1
<1>3. /\ DOMAIN listener' = DOMAIN listener /\ listener'.row = row /\ listener'.pc = "note"
      /\ listener'.link = listener.link
  BY <1>2 DEF JoinedInv, ListenerTyped
<1>4. ListenerTyped'
  BY <1>1, <1>3 DEF JoinedInv, ListenerTyped, Sessions, Row
<1>5. \A l : Really(l) => Really(l)'
  BY <1>1 DEF Really
<1>6. \A n \in valid : owner[n] \in Accounts
  <2>1. owner \in Seq(Accounts) /\ valid \subseteq 1 .. Len(owner)
    BY DEF JoinedInv, ListenerTyped, Sessions
  <2> QED
    BY <2>1, ElementOfSeq
<1>7. row = "joined" => Really(listener.link)'
  BY <1>2, <1>3, <1>6 DEF Really
<1> QED
  BY <1>1, <1>3, <1>4, <1>5, <1>7 DEF JoinedInv

\* "joined" is written: from the listener's hands, or from a counter's.
LEMMA WriteKeepsJoined ==
  ASSUME JoinedInv, NoteRow \/ WriteCount
  PROVE  JoinedInv'
<1>1. UNCHANGED <<owner, valid, member>> /\ bump' \in {bump, NoLink}
  BY DEF NoteRow, WriteCount, people
<1>2. /\ DOMAIN listener' = DOMAIN listener
      /\ \/ listener' = listener
         \/ listener'.row = "none"
  BY DEF NoteRow, WriteCount, JoinedInv, ListenerTyped
<1>3. \E l, row : /\ rows' = [rows EXCEPT ![l] = row] /\ row \in Row
                  /\ row = "joined" => Really(l)
  <2>1. CASE NoteRow
    BY <2>1 DEF NoteRow, JoinedInv, ListenerTyped
  <2>2. CASE WriteCount
    BY <2>2 DEF WriteCount, JoinedInv, Row
  <2> QED
    BY <2>1, <2>2
<1>4. PICK l, row : /\ rows' = [rows EXCEPT ![l] = row] /\ row \in Row
                    /\ row = "joined" => Really(l)
  BY <1>3
<1>5. rows' \in [Links -> Row] /\ \A k \in Links : rows'[k] = IF k = l THEN row ELSE rows[k]
  BY <1>4 DEF JoinedInv, ListenerTyped
<1>6. ListenerTyped'
  BY <1>1, <1>2, <1>5 DEF JoinedInv, ListenerTyped, Sessions, Row
<1> QED
  BY <1>1, <1>2, <1>4, <1>5, <1>6 DEF JoinedInv, Really

\* A flood wait ends, and a message of a channel that is read begins to be counted.
LEMMA MessageKeepsJoined ==
  ASSUME JoinedInv, NEW l \in Links, FloodEnds(l) \/ CountMessage(l)
  PROVE  JoinedInv'
<1>1. CASE FloodEnds(l)
  <2>1. /\ rows' = [rows EXCEPT ![l] = "retry"] /\ UNCHANGED <<listener, bump, member, owner, valid>>
        /\ rows \in [Links -> Row]
    BY <1>1 DEF FloodEnds, people, JoinedInv, ListenerTyped
  <2>2. rows' \in [Links -> Row] /\ \A k \in Links : rows'[k] = "joined" => rows[k] = "joined"
    BY <2>1 DEF Row
  <2>3. owner' \in Seq(Accounts) /\ valid' \subseteq Sessions'
    BY <2>1 DEF JoinedInv, ListenerTyped, Sessions
  <2> QED
    BY <2>1, <2>2, <2>3, PeopleKeepJoined
<1>2. CASE CountMessage(l)
  <2>1. /\ bump' = l /\ rows[l] = "joined" /\ UNCHANGED <<rows, listener, member, owner, valid>>
    BY <1>2 DEF CountMessage, Ingests, people
  <2>2. ListenerTyped'
    BY <2>1 DEF JoinedInv, ListenerTyped, Sessions
  <2> QED
    BY <2>1, <2>2 DEF JoinedInv, Really
<1> QED
  BY <1>1, <1>2

LEMMA JoinedStep == JoinedInv /\ [TelegramNext]_tgVars => JoinedInv'
BY LoginKeepsJoined, PageKeepsJoined, LoopKeepsJoined, ReadRowsKeepsJoined, JoinKeepsJoined,
   WriteKeepsJoined, MessageKeepsJoined
DEF TelegramNext, ListenerStep

\* A row that says joined is of a channel one of the accounts joined, for any channels,
\* accounts, edits, logins and failures (agents/scraper/telegram_user.py:185).
THEOREM JoinedWasJoined == TelegramSpec => []JoinedIsMember
<1>1. JoinedInv => JoinedIsMember
  BY DEF JoinedInv, JoinedIsMember, Really
<1> QED
  BY TelegramStarts, JoinedStep, <1>1, PTL DEF TelegramSpec

=============================================================================
