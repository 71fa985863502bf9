---------------------------- MODULE LlmGatewayProofs ----------------------------
(***************************************************************************)
(* For every set of call sites and models, every list of fallbacks and     *)
(* every budget, and for any sharing of clients among the calls: type      *)
(* correctness of LlmGateway, that answers stay within the budget but for  *)
(* what escaped the counter, that the counter is the bill, and that a call *)
(* that saw the free mode only does not ask the paid model.                *)
(***************************************************************************)
EXTENDS LlmGateway, WellFoundedInduction, TLAPS

-----------------------------------------------------------------------------
(***************************************************************************)
(* What the choice of a model returns.                                     *)
(***************************************************************************)
LEMMA LeastExists ==
  ASSUME NEW S, S \subseteq Nat, S # {}
  PROVE  \E i \in S : \A j \in S : i <= j
<1>1. PICK i \in S : \A j \in S : <<j, i>> \notin OpToRel(<, Nat)
  BY WFMin, NatLessThanWellFounded, Zenon
<1>2. \A j \in S : ~ (j < i)
  BY <1>1 DEF OpToRel
<1> QED
  BY <1>2

LEMMA FreeModels ==
  /\ Free \subseteq Models /\ Paid \in Models /\ Paid \notin Free /\ NoModel \notin Models
  /\ \A i \in DOMAIN Fallbacks : Fallbacks[i] \in Free
  /\ FreeDefault \in Free /\ Fallbacks[1] \in Free
  /\ Listed \subseteq Free
BY GatewayAssumption DEF Free, Models, Range

LEMMA NextFreeIsFree ==
  ASSUME NEW a, NEW tried, NEW relaxed
  PROVE  NextFree(a, tried, relaxed) \in Free \cup {NoModel}
<1> DEFINE curated == {i \in DOMAIN Fallbacks : Fallbacks[i] \in Allowed(a, tried)}
           live == (catalog \cap Allowed(a, tried)) \ (IF relaxed THEN {} ELSE garbage)
           first == CHOOSE i \in curated : \A j \in curated : i <= j
<1>1. Allowed(a, tried) \subseteq Free
  BY DEF Allowed
<1>2. CASE curated # {}
  <2>1. curated \subseteq Nat
    BY GatewayAssumption
  <2>2. \E i \in curated : \A j \in curated : i <= j
    BY <2>1, <1>2, LeastExists
  <2>3. first \in curated
    BY <2>2
  <2>4. Fallbacks[first] \in Free
    BY <2>3, <1>1
  <2> QED
    BY <2>4, <1>2 DEF NextFree
<1>3. CASE curated = {}
  BY <1>3, <1>1 DEF NextFree
<1> QED
  BY <1>2, <1>3

LEMMA CandidateIsFree ==
  ASSUME NEW a, NEW tried
  PROVE  Candidate(a, tried) \in Free \cup {NoModel}
BY NextFreeIsFree DEF Candidate

LEMMA ResolveIsModel ==
  ASSUME NEW a \in Clients, override \in [Clients -> Models \cup {NoModel}]
  PROVE  /\ Resolve(a) \in Models
         /\ OnlyFree(a) => Resolve(a) \in Free
BY FreeModels DEF Resolve, OnlyFree, Models

-----------------------------------------------------------------------------
(***************************************************************************)
(* Types.                                                                  *)
(***************************************************************************)
Trying == {"send", "walk", "retry"}

TypeInv ==
  /\ TypeOK
  /\ \A c \in Calls : call[c].pc \in Trying => call[c].tries < MaxAttempts

LEMMA AttemptedType ==
  ASSUME NEW r \in CallType, r.tries < MaxAttempts
  PROVE  /\ Attempted(r) \in CallType
         /\ Attempted(r).pc \in {"send", "spent"}
         /\ Attempted(r).pc = "send" => Attempted(r).tries < MaxAttempts
         /\ Attempted(r).model = r.model
<1>1. r.tries + 1 \in 0 .. MaxAttempts
  BY GatewayAssumption DEF CallType
<1>2. r = [pc |-> r.pc, model |-> r.model, tried |-> r.tried, rejected |-> r.rejected,
           tries |-> r.tries, retries |-> r.retries, rounds |-> r.rounds,
           rescued |-> r.rescued, fellBack |-> r.fellBack, bumped |-> r.bumped]
  BY DEF CallType
<1>3. Attempted(r) = [r EXCEPT !.tries = r.tries + 1,
                               !.pc = IF r.tries + 1 < MaxAttempts THEN "send" ELSE "spent"]
  BY DEF Attempted
<1>4. Attempted(r).tries = r.tries + 1 /\ Attempted(r).model = r.model
      /\ Attempted(r).pc = IF r.tries + 1 < MaxAttempts THEN "send" ELSE "spent"
  BY <1>2, <1>3
<1>5. Attempted(r) \in CallType
  BY <1>1, <1>3 DEF CallType
<1> QED
  BY <1>1, <1>4, <1>5

LEMMA AnewType ==
  ASSUME NEW r \in CallType
  PROVE  /\ \A m \in Models : LET s == [Anew(r) EXCEPT !.pc = "send", !.model = m]
                            IN  /\ s \in CallType /\ s.tries < MaxAttempts
                                /\ s.pc = "send" /\ s.model = m
         /\ LET s == [Anew(r) EXCEPT !.pc = "charge"]
            IN  /\ s \in CallType /\ s.pc = "charge" /\ s.pc \notin Trying
                /\ s.model = r.model
<1>1. Anew(r) \in CallType /\ Anew(r).tries = 0 /\ Anew(r).model = r.model
  <2>1. 0 \in 0 .. MaxAttempts /\ 0 \in 0 .. MaxRetries - 1
    BY GatewayAssumption
  <2> QED
    BY <2>1 DEF Anew, CallType
<1>2. MaxAttempts \in Nat \ {0}
  BY GatewayAssumption
<1> HIDE DEF Anew
<1>3. [Anew(r) EXCEPT !.pc = "charge"] \in CallType
  BY <1>1 DEF CallType
<1>4. /\ [Anew(r) EXCEPT !.pc = "charge"].pc = "charge"
      /\ [Anew(r) EXCEPT !.pc = "charge"].model = r.model
  BY <1>1 DEF CallType
<1>5. ASSUME NEW m \in Models
      PROVE  /\ [Anew(r) EXCEPT !.pc = "send", !.model = m] \in CallType
             /\ [Anew(r) EXCEPT !.pc = "send", !.model = m].pc = "send"
             /\ [Anew(r) EXCEPT !.pc = "send", !.model = m].model = m
             /\ [Anew(r) EXCEPT !.pc = "send", !.model = m].tries = 0
  BY <1>1 DEF CallType
<1>6. [Anew(r) EXCEPT !.pc = "charge"].pc \notin Trying
  BY <1>4 DEF Trying
<1>7. 0 < MaxAttempts
  BY <1>2
<1> QED
  BY <1>3, <1>4, <1>5, <1>6, <1>7, Zenon

LEMMA IdleType == Idle \in CallType
BY GatewayAssumption DEF Idle, CallType

LEMMA ClientType ==
  ASSUME NEW c \in Calls
  PROVE  Client(c) \in Clients
BY DEF Clients

LEMMA SetType ==
  ASSUME TypeInv, NEW c \in Calls, NEW r \in CallType, Set(c, r),
         r.pc \in Trying => r.tries < MaxAttempts
  PROVE  /\ call' \in [Calls -> CallType]
         /\ \A d \in Calls : call'[d].pc \in Trying => call'[d].tries < MaxAttempts
BY DEF TypeInv, TypeOK, Set

LEMMA UseType ==
  ASSUME TypeInv, NEW c \in Calls, NEW m \in Models, Use(c, m)
  PROVE  self' \in [Clients -> Models]
BY ClientType DEF TypeInv, TypeOK, Use

LEMMA CallTyped ==
  ASSUME TypeInv, NEW c \in Calls
  PROVE  /\ call[c] \in CallType
         /\ call[c].pc \in Trying => call[c].tries < MaxAttempts
         /\ self[Client(c)] \in Models
         /\ call[c].model \in Models \cup {NoModel}
         /\ call[c].tried \subseteq Models \cup {NoModel}
         /\ call[c].rejected \subseteq Models
BY ClientType DEF TypeInv, TypeOK, CallType

\* A record that differs from one of the calls in these fields only.
LEMMA FieldsType ==
  ASSUME NEW r \in CallType
  PROVE  /\ \A pc \in {"idle", "pick", "send", "walk", "retry", "spent", "last", "charge",
                        "halt", "parse", "again"} : [r EXCEPT !.pc = pc] \in CallType
         /\ \A m \in Models, t \in SUBSET (Models \cup {NoModel}) :
              [r EXCEPT !.model = m, !.tried = t] \in CallType
BY DEF CallType

LEMMA RefreshTyped ==
  ASSUME TypeInv, NEW c \in Calls, NEW r \in CallType, Refresh(c, r)
  PROVE  TypeInv'
<1>1. PICK read \in BOOLEAN :
        /\ Use(c, IF read THEN Resolve(Client(c)) ELSE Paid)
        /\ Set(c, [r EXCEPT !.pc = "pick"])
        /\ allFree' \subseteq allFree \cup {c}
        /\ UNCHANGED <<config, nevents, pinned, Marks, unreachable, books>>
  BY DEF Refresh
<1>2. self' \in [Clients -> Models]
  <2>1. (IF read THEN Resolve(Client(c)) ELSE Paid) \in Models
    BY ResolveIsModel, FreeModels, ClientType DEF TypeInv, TypeOK
  <2> QED
    BY <1>1, <2>1, UseType
<1>3. [r EXCEPT !.pc = "pick"] \in CallType /\ [r EXCEPT !.pc = "pick"].pc = "pick"
  <2>1. [r EXCEPT !.pc = "pick"] \in CallType
    BY FieldsType
  <2>2. [r EXCEPT !.pc = "pick"].pc = "pick"
    BY DEF CallType
  <2> QED
    BY <2>1, <2>2
<1>4. /\ call' \in [Calls -> CallType]
      /\ \A d \in Calls : call'[d].pc \in Trying => call'[d].tries < MaxAttempts
  BY <1>1, <1>3, SetType DEF Trying
<1> QED
  BY <1>1, <1>2, <1>4 DEF TypeInv, TypeOK, config, Marks, books

LEMMA PickedModel ==
  ASSUME TypeInv, NEW c \in Calls, Pick(c)
  PROVE  \E m \in Models :
           /\ self[Client(c)] \in Free => m \in Free
           /\ Use(c, m)
           /\ Set(c, [Anew(call[c]) EXCEPT !.pc = "send", !.model = m])
           /\ UNCHANGED <<config, nevents, pinned, Marks, unreachable, books, allFree>>
<1> DEFINE a  == Client(c)
           m0 == self[a]
           n1 == NextFree(a, {m0}, FALSE)
           m1 == IF IsDead(m0) /\ n1 # NoModel THEN n1 ELSE m0
           n2 == NextFree(a, {m1}, FALSE)
           m2 == IF Provider(m1) \in unreachable[a] /\ n2 # NoModel THEN n2 ELSE m1
<1>1. n1 \in Free \cup {NoModel} /\ n2 \in Free \cup {NoModel}
  BY NextFreeIsFree
<1>2. m0 \in Models
  BY CallTyped
<1>3. m2 \in Models /\ (m0 \in Free => m2 \in Free)
  BY <1>1, <1>2, FreeModels
<1>4. /\ Use(c, m2)
      /\ Set(c, [Anew(call[c]) EXCEPT !.pc = "send", !.model = m2])
      /\ UNCHANGED <<config, nevents, pinned, Marks, unreachable, books, allFree>>
  BY DEF Pick
<1> HIDE DEF m0, m2
<1>5. self[Client(c)] \in Free => m2 \in Free
  BY <1>3 DEF m0
<1> QED
  BY <1>3, <1>4, <1>5

LEMMA AnsweredTyped ==
  ASSUME TypeInv, NEW c \in Calls, Answered(c)
  PROVE  TypeInv'
<1> DEFINE r == [Anew(call[c]) EXCEPT !.pc = "charge"]
<1>1. r \in CallType /\ r.pc \notin Trying
  BY CallTyped, AnewType
<1>2. Set(c, r)
  BY DEF Answered
<1> HIDE DEF r
<1>3. /\ call' \in [Calls -> CallType]
      /\ \A d \in Calls : call'[d].pc \in Trying => call'[d].tries < MaxAttempts
  BY <1>1, <1>2, SetType
<1> QED
  BY <1>3 DEF Answered, TypeInv, TypeOK, config, Marks, books

LEMMA GiveUpTyped ==
  ASSUME TypeInv, NEW c \in Calls, GiveUp(c)
  PROVE  TypeInv'
<1> DEFINE r == Idle
<1>1. r \in CallType /\ (r.pc \in Trying => r.tries < MaxAttempts)
  BY CallTyped, GatewayAssumption, IdleType DEF CallType, Trying, Idle
<1>2. Set(c, r)
  BY DEF GiveUp
<1> HIDE DEF r
<1>3. /\ call' \in [Calls -> CallType]
      /\ \A d \in Calls : call'[d].pc \in Trying => call'[d].tries < MaxAttempts
  BY <1>1, <1>2, SetType
<1> QED
  BY <1>3 DEF GiveUp, TypeInv, TypeOK, config, Marks, books


LEMMA OverBudgetTyped ==
  ASSUME TypeInv, NEW c \in Calls, OverBudget(c)
  PROVE  TypeInv'
<1> DEFINE r == Idle
<1>1. r \in CallType /\ (r.pc \in Trying => r.tries < MaxAttempts)
  BY CallTyped, GatewayAssumption, IdleType DEF CallType, Trying, Idle
<1>2. Set(c, r)
  BY DEF OverBudget
<1> HIDE DEF r
<1>3. /\ call' \in [Calls -> CallType]
      /\ \A d \in Calls : call'[d].pc \in Trying => call'[d].tries < MaxAttempts
  BY <1>1, <1>2, SetType
<1> QED
  BY <1>3 DEF OverBudget, TypeInv, TypeOK, config, Marks, books


LEMMA AcceptTyped ==
  ASSUME TypeInv, NEW c \in Calls, Accept(c)
  PROVE  TypeInv'
<1> DEFINE r == Idle
<1>1. r \in CallType /\ (r.pc \in Trying => r.tries < MaxAttempts)
  BY CallTyped, GatewayAssumption, IdleType DEF CallType, Trying, Idle
<1>2. Set(c, r)
  BY DEF Accept
<1> HIDE DEF r
<1>3. /\ call' \in [Calls -> CallType]
      /\ \A d \in Calls : call'[d].pc \in Trying => call'[d].tries < MaxAttempts
  BY <1>1, <1>2, SetType
<1> QED
  BY <1>3 DEF Accept, TypeInv, TypeOK, config, Marks, books


LEMMA ErrsTyped ==
  ASSUME TypeInv, NEW c \in Calls, Errs(c)
  PROVE  TypeInv'
<1> DEFINE r == [call[c] EXCEPT !.pc = "retry"]
<1>1. r \in CallType /\ (r.pc \in Trying => r.tries < MaxAttempts)
  BY CallTyped, GatewayAssumption DEF CallType, Trying, Errs, Doing
<1>2. Set(c, r)
  BY DEF Errs
<1> HIDE DEF r
<1>3. /\ call' \in [Calls -> CallType]
      /\ \A d \in Calls : call'[d].pc \in Trying => call'[d].tries < MaxAttempts
  BY <1>1, <1>2, SetType
<1> QED
  BY <1>3, GatewayAssumption DEF Errs, Event, TypeInv, TypeOK, config, Marks, books

LEMMA PickTyped ==
  ASSUME TypeInv, NEW c \in Calls, Pick(c)
  PROVE  TypeInv'
<1>1. PICK m \in Models :
        /\ Use(c, m)
        /\ Set(c, [Anew(call[c]) EXCEPT !.pc = "send", !.model = m])
        /\ UNCHANGED <<config, nevents, pinned, Marks, unreachable, books, allFree>>
  BY PickedModel
<1>2. self' \in [Clients -> Models]
  BY <1>1, UseType
<1>3. /\ call' \in [Calls -> CallType]
      /\ \A d \in Calls : call'[d].pc \in Trying => call'[d].tries < MaxAttempts
  <2>1. LET s == [Anew(call[c]) EXCEPT !.pc = "send", !.model = m]
        IN  s \in CallType /\ s.tries < MaxAttempts
    BY AnewType, CallTyped, Zenon
  <2> QED
    BY <1>1, <2>1, SetType, Zenon
<1> QED
  BY <1>1, <1>2, <1>3 DEF TypeInv, TypeOK, config, Marks, books

LEMMA EventTyped ==
  ASSUME TypeInv, Event
  PROVE  nevents' \in 0 .. MaxEvents
BY GatewayAssumption DEF TypeInv, TypeOK, Event

LEMMA ShrinkTyped ==
  ASSUME TypeInv, NEW c \in Calls, Shrink(c)
  PROVE  TypeInv'
<1>1. call[c] \in CallType /\ call[c].tries < MaxAttempts
  BY CallTyped DEF Shrink, Doing, Trying
<1>2. /\ Attempted(call[c]) \in CallType
      /\ Attempted(call[c]).pc \in Trying => Attempted(call[c]).tries < MaxAttempts
  BY <1>1, AttemptedType DEF Trying
<1>3. /\ call' \in [Calls -> CallType]
      /\ \A d \in Calls : call'[d].pc \in Trying => call'[d].tries < MaxAttempts
  BY <1>2, SetType DEF Shrink
<1> QED
  BY <1>3, EventTyped DEF Shrink, TypeInv, TypeOK, config, Marks, books

LEMMA NoKeyTyped ==
  ASSUME TypeInv, NEW c \in Calls, NoKey(c)
  PROVE  TypeInv'
<1>1. /\ call[c] \in CallType /\ call[c].tries < MaxAttempts
      /\ call[c].model \in Models \cup {NoModel}
  BY CallTyped DEF NoKey, Doing, Trying
<1>2. \A pc \in {"walk", "retry"} : /\ [call[c] EXCEPT !.pc = pc] \in CallType
                                    /\ [call[c] EXCEPT !.pc = pc].tries < MaxAttempts
  BY <1>1 DEF CallType
<1>3. Set(c, [call[c] EXCEPT !.pc = "walk"]) \/ Set(c, [call[c] EXCEPT !.pc = "retry"])
  BY DEF NoKey
<1>4. /\ call' \in [Calls -> CallType]
      /\ \A d \in Calls : call'[d].pc \in Trying => call'[d].tries < MaxAttempts
  BY <1>2, <1>3, SetType
<1>5. garbage' \subseteq Models
  BY FreeModels DEF NoKey, TypeInv, TypeOK, IsFree
<1>6. unreachable' \in [Clients -> SUBSET Providers]
  <2>1. Provider(call[c].model) \in Providers
    BY DEF Provider, Providers
  <2> QED
    BY <2>1, ClientType DEF NoKey, TypeInv, TypeOK
<1> QED
  BY <1>4, <1>5, <1>6 DEF NoKey, TypeInv, TypeOK, config, books

LEMMA FreeFailsTyped ==
  ASSUME TypeInv, NEW c \in Calls, FreeFails(c)
  PROVE  TypeInv'
<1>1. call[c] \in CallType /\ call[c].tries < MaxAttempts
  BY CallTyped DEF FreeFails, Doing, Trying
<1>2. /\ [call[c] EXCEPT !.pc = "walk"] \in CallType
      /\ [call[c] EXCEPT !.pc = "walk"].tries < MaxAttempts
  BY <1>1 DEF CallType
<1>3. /\ call' \in [Calls -> CallType]
      /\ \A d \in Calls : call'[d].pc \in Trying => call'[d].tries < MaxAttempts
  BY <1>2, SetType DEF FreeFails
<1>4. dead' \subseteq Free /\ garbage' \subseteq Models
  BY FreeModels DEF FreeFails, TypeInv, TypeOK, IsFree
<1> QED
  BY <1>3, <1>4, EventTyped DEF FreeFails, TypeInv, TypeOK, config, books

LEMMA WalkedOn ==
  ASSUME TypeInv, NEW c \in Calls, WalkOn(c)
  PROVE  \E m \in Free :
           /\ Use(c, m)
           /\ \E r \in CallType : /\ r.model = m /\ r.tries < MaxAttempts
                                /\ Set(c, Attempted(r))
<1> DEFINE m == Candidate(Client(c), Tried(c))
           r == [call[c] EXCEPT !.model = m, !.tried = Tried(c)]
<1>1. m \in Free /\ Use(c, m) /\ Set(c, Attempted(r))
  BY CandidateIsFree DEF WalkOn
<1>2. /\ call[c] \in CallType /\ call[c].tries < MaxAttempts
      /\ call[c].tried \subseteq Models \cup {NoModel}
      /\ call[c].model \in Models \cup {NoModel}
  BY CallTyped DEF WalkOn, Doing, Trying
<1>3. Tried(c) \subseteq Models \cup {NoModel}
  BY <1>2 DEF Tried
<1> HIDE DEF m
<1>4. r \in CallType /\ r.model = m /\ r.tries < MaxAttempts
  BY <1>1, <1>2, <1>3, FreeModels DEF CallType
<1> QED
  BY <1>1, <1>4

LEMMA WalkOnTyped ==
  ASSUME TypeInv, NEW c \in Calls, WalkOn(c)
  PROVE  TypeInv'
<1>1. PICK m \in Free :
        /\ Use(c, m)
        /\ \E r \in CallType : r.model = m /\ r.tries < MaxAttempts /\ Set(c, Attempted(r))
  BY WalkedOn
<1>2. PICK r \in CallType : r.tries < MaxAttempts /\ Set(c, Attempted(r))
  BY <1>1
<1>3. /\ call' \in [Calls -> CallType]
      /\ \A d \in Calls : call'[d].pc \in Trying => call'[d].tries < MaxAttempts
  BY <1>2, AttemptedType, SetType DEF Trying
<1>4. self' \in [Clients -> Models]
  BY <1>1, UseType, FreeModels
<1> QED
  BY <1>3, <1>4 DEF WalkOn, TypeInv, TypeOK, config, Marks, books

LEMMA RescueTyped ==
  ASSUME TypeInv, NEW c \in Calls, Rescue(c)
  PROVE  TypeInv'
<1> DEFINE r == [call[c] EXCEPT !.model = Paid, !.rescued = TRUE]
<1>1. call[c] \in CallType /\ (call[c].pc \in Trying => call[c].tries < MaxAttempts)
  BY CallTyped
<1>2. r \in CallType /\ r.tries = call[c].tries /\ r.pc = call[c].pc
  BY <1>1, FreeModels DEF CallType
<1>3. [r EXCEPT !.pc = "last"] \in CallType /\ [r EXCEPT !.pc = "last"].pc = "last"
  <2> HIDE DEF r
  <2> QED
    BY <1>2 DEF CallType
<1>6. /\ pinned' \in BOOLEAN /\ allFree' \subseteq allFree
      /\ UNCHANGED <<config, nevents, Marks, unreachable, books>>
  BY DEF Rescue, TypeInv, TypeOK
<1>4. CASE Doing(c, "spent")
  <2>1. Set(c, [r EXCEPT !.pc = "last"])
    BY <1>4 DEF Rescue
  <2>2. /\ call' \in [Calls -> CallType]
      /\ \A d \in Calls : call'[d].pc \in Trying => call'[d].tries < MaxAttempts
    BY <2>1, <1>3, SetType DEF Trying
  <2>3. self' \in [Clients -> Models]
    BY UseType, FreeModels DEF Rescue
  <2> QED
    BY <1>6, <2>2, <2>3 DEF TypeInv, TypeOK, config, Marks, books
<1>5. CASE ~ Doing(c, "spent")
  <2>1. Set(c, Attempted(r)) /\ Doing(c, "walk")
    BY <1>5 DEF Rescue, Exhausted
  <2>2. r.tries < MaxAttempts
    BY <2>1, <1>1, <1>2 DEF Doing, Trying
  <2> HIDE DEF r
  <2>3. /\ call' \in [Calls -> CallType]
      /\ \A d \in Calls : call'[d].pc \in Trying => call'[d].tries < MaxAttempts
    BY <2>1, <2>2, <1>2, AttemptedType, SetType DEF Trying
  <2>4. self' \in [Clients -> Models]
    BY UseType, FreeModels DEF Rescue
  <2> QED
    BY <1>6, <2>3, <2>4 DEF TypeInv, TypeOK, config, Marks, books
<1> QED
  BY <1>4, <1>5

LEMMA RescueFailsTyped ==
  ASSUME TypeInv, NEW c \in Calls, RescueFails(c)
  PROVE  TypeInv'
<1>1. /\ call' \in [Calls -> CallType]
      /\ \A d \in Calls : call'[d].pc \in Trying => call'[d].tries < MaxAttempts
  BY IdleType, SetType DEF RescueFails, Idle, Trying
<1>2. unreachable' \in [Clients -> SUBSET Providers]
  <2>1. Provider(Paid) \in Providers
    BY DEF Provider, Providers
  <2> QED
    BY <2>1, ClientType DEF RescueFails, TypeInv, TypeOK
<1> QED
  BY <1>1, <1>2 DEF RescueFails, TypeInv, TypeOK, config, books

\* The free model of the fallback, and what becomes of the call.
LEMMA CreditFailed ==
  ASSUME TypeInv, NEW c \in Calls, CreditFails(c)
  PROVE  \/ \E m \in Free, r \in CallType :
              /\ mode = "auto" /\ Use(c, m) /\ Set(c, Attempted(r))
              /\ r.model = m /\ r.tries < MaxAttempts
         \/ UNCHANGED self /\ Set(c, [call[c] EXCEPT !.pc = "retry"])
<1> DEFINE free == IF "google" \in Keyed THEN Fallbacks[1] ELSE FreeDefault
           r == [call[c] EXCEPT !.model = free, !.fellBack = TRUE]
<1>1. call[c] \in CallType /\ call[c].tries < MaxAttempts
  BY CallTyped DEF CreditFails, Doing, Trying
<1>2. free \in Free
  BY FreeModels
<1>3. \/ mode = "auto" /\ Use(c, free) /\ Set(c, Attempted(r))
      \/ UNCHANGED self /\ Set(c, [call[c] EXCEPT !.pc = "retry"])
  BY DEF CreditFails, FallsBack, ModeRead
<1> HIDE DEF free
<1>4. r \in CallType /\ r.tries < MaxAttempts /\ r.model = free
  BY <1>1, <1>2, FreeModels DEF CallType
<1> HIDE DEF r
<1> QED
  BY <1>2, <1>3, <1>4

LEMMA CreditFailsTyped ==
  ASSUME TypeInv, NEW c \in Calls, CreditFails(c)
  PROVE  TypeInv'
<1>1. pinned' \in BOOLEAN /\ paid402' \in BOOLEAN
  BY DEF CreditFails, TypeInv, TypeOK
<1>2. CASE \E m \in Free, r \in CallType :
             /\ mode = "auto" /\ Use(c, m) /\ Set(c, Attempted(r))
             /\ r.model = m /\ r.tries < MaxAttempts
  <2>1. PICK m \in Free, r \in CallType :
          Use(c, m) /\ Set(c, Attempted(r)) /\ r.tries < MaxAttempts
    BY <1>2
  <2>2. /\ call' \in [Calls -> CallType]
        /\ \A d \in Calls : call'[d].pc \in Trying => call'[d].tries < MaxAttempts
    BY <2>1, AttemptedType, SetType DEF Trying
  <2>3. self' \in [Clients -> Models]
    BY <2>1, FreeModels, UseType
  <2> QED
    BY <1>1, <2>2, <2>3, EventTyped DEF CreditFails, TypeInv, TypeOK, config, books
<1>3. CASE UNCHANGED self /\ Set(c, [call[c] EXCEPT !.pc = "retry"])
  <2>1. call[c] \in CallType /\ call[c].tries < MaxAttempts
    BY CallTyped DEF CreditFails, Doing, Trying
  <2>2. /\ [call[c] EXCEPT !.pc = "retry"] \in CallType
        /\ [call[c] EXCEPT !.pc = "retry"].tries < MaxAttempts
    BY <2>1 DEF CallType
  <2>3. /\ call' \in [Calls -> CallType]
        /\ \A d \in Calls : call'[d].pc \in Trying => call'[d].tries < MaxAttempts
    BY <2>2, <1>3, SetType
  <2> QED
    BY <1>1, <1>3, <2>3, EventTyped DEF CreditFails, TypeInv, TypeOK, config, books
<1> QED
  BY <1>2, <1>3, CreditFailed

LEMMA RetryTyped ==
  ASSUME TypeInv, NEW c \in Calls, Retry(c)
  PROVE  TypeInv'
<1> DEFINE r == [call[c] EXCEPT !.retries = @ + 1]
<1>1. call[c] \in CallType /\ call[c].tries < MaxAttempts
  BY CallTyped DEF Retry, Doing, Trying
<1>2. CASE call[c].retries + 1 < MaxRetries
  <2>1. call[c].retries + 1 \in 0 .. MaxRetries - 1
    BY <1>1, <1>2, GatewayAssumption DEF CallType
  <2>2. r \in CallType /\ r.tries < MaxAttempts
    BY <1>1, <2>1 DEF CallType
  <2>3. Set(c, Attempted(r))
    BY <1>2 DEF Retry
  <2> HIDE DEF r
  <2>4. /\ call' \in [Calls -> CallType]
      /\ \A d \in Calls : call'[d].pc \in Trying => call'[d].tries < MaxAttempts
    BY <2>2, <2>3, AttemptedType, SetType DEF Trying
  <2> QED
    BY <2>4 DEF Retry, TypeInv, TypeOK, config, Marks, books
<1>3. CASE ~ (call[c].retries + 1 < MaxRetries)
  <2>1. /\ call' \in [Calls -> CallType]
      /\ \A d \in Calls : call'[d].pc \in Trying => call'[d].tries < MaxAttempts
    BY <1>3, IdleType, SetType DEF Retry, Idle, Trying
  <2> QED
    BY <2>1 DEF Retry, TypeInv, TypeOK, config, Marks, books
<1> QED
  BY <1>2, <1>3

LEMMA MissTyped ==
  ASSUME TypeInv, NEW why \in Reasons, NEW n \in Nat, Miss(why, n)
  PROVE  /\ missed' \in [Reasons -> Nat]
         /\ missed'[why] = missed[why] + n
         /\ \A w \in Reasons \ {why} : missed'[w] = missed[w]
BY DEF TypeInv, TypeOK, Miss

\* What an answer costs, and what the counter makes of it.
LEMMA Costs ==
  ASSUME NEW c \in Calls
  PROVE  TrueCost(c) \in {0, 1} /\ TrueCost(c) \in Nat
BY DEF TrueCost

LEMMA Counted ==
  ASSUME TypeInv, NEW c \in Calls, NEW told \in BOOLEAN, Count(c, told)
  PROVE  /\ spent' \in Nat /\ missed' \in [Reasons -> Nat] /\ phantom' \in BOOLEAN
         /\ \A w \in Reasons \ {"misread"} : missed'[w] = missed[w]
         /\ spent + missed["misread"] + TrueCost(c) <= spent' + missed'["misread"]
         /\ ~ phantom' => /\ ~ phantom
                          /\ spent' + missed'["misread"]
                             = spent + missed["misread"] + TrueCost(c)
<1> DEFINE n == IF IsFree(self[Client(c)]) /\ ~ told THEN TrueCost(c) ELSE 0
<1>1. n \in Nat /\ "misread" \in Reasons /\ Miss("misread", n)
  BY Costs DEF Count, Reasons
<1>2. /\ missed' \in [Reasons -> Nat]
      /\ missed'["misread"] = missed["misread"] + n
      /\ \A w \in Reasons \ {"misread"} : missed'[w] = missed[w]
  BY <1>1, MissTyped
<1>3. spent \in Nat /\ missed["misread"] \in Nat /\ phantom \in BOOLEAN
  BY DEF TypeInv, TypeOK, Reasons
<1>4. spent' = spent + Cost(c, told) /\ Cost(c, told) \in {0, 1}
  BY Costs DEF Count, Cost
<1>5. phantom' \in BOOLEAN /\ (phantom \/ (IsFree(call[c].model) /\ ~ IsFree(self[Client(c)]))
                               <=> phantom')
  BY <1>3 DEF Count
<1>6. TrueCost(c) <= Cost(c, told) + n
  BY DEF TrueCost, Cost
<1>7. (IsFree(call[c].model) /\ ~ IsFree(self[Client(c)])) \/ Cost(c, told) + n = TrueCost(c)
  BY DEF TrueCost, Cost
<1> HIDE DEF n
<1>8. spent' \in Nat
  BY <1>3, <1>4
<1>9. spent + missed["misread"] + TrueCost(c) <= spent' + missed'["misread"]
  BY <1>1, <1>2, <1>3, <1>4, <1>6, Costs
<1>10. ASSUME ~ phantom'
       PROVE  /\ ~ phantom
              /\ spent' + missed'["misread"] = spent + missed["misread"] + TrueCost(c)
  <2>1. ~ phantom /\ Cost(c, told) + n = TrueCost(c)
    BY <1>5, <1>7, <1>10
  <2> QED
    BY <2>1, <1>1, <1>2, <1>3, <1>4, Costs
<1> QED
  BY <1>2, <1>5, <1>8, <1>9, <1>10

LEMMA BillTyped ==
  ASSUME TypeInv, NEW c \in Calls, Charge(c) \/ Unreported(c) \/ ChargeFails(c)
  PROVE  /\ {spent', billed', served'} \subseteq Nat
         /\ missed' \in [Reasons -> Nat] /\ phantom' \in BOOLEAN
<1>1. {spent, billed, served} \subseteq Nat /\ missed \in [Reasons -> Nat]
      /\ phantom \in BOOLEAN
  BY DEF TypeInv, TypeOK
<1>2. billed' = billed + TrueCost(c)
      /\ (served' = served \/ served' = served + TrueCost(c))
  BY DEF Charge, Unreported, ChargeFails
<1>3. \/ \E told \in BOOLEAN : Count(c, told)
      \/ UNCHANGED <<spent, phantom>> /\ (\E why \in {"bare", "failed"} : Miss(why, TrueCost(c)))
  BY DEF Charge, Unreported, ChargeFails
<1>4. CASE \E told \in BOOLEAN : Count(c, told)
  BY <1>1, <1>2, <1>4, Counted, Costs
<1>5. CASE UNCHANGED <<spent, phantom>> /\ (\E why \in {"bare", "failed"} : Miss(why, TrueCost(c)))
  <2>1. missed' \in [Reasons -> Nat]
    BY <1>5, MissTyped, Costs DEF Reasons
  <2> QED
    BY <1>1, <1>2, <1>5, <2>1, Costs
<1> QED
  BY <1>3, <1>4, <1>5

LEMMA ChargeTyped ==
  ASSUME TypeInv, NEW c \in Calls, Charge(c) \/ Unreported(c) \/ ChargeFails(c)
  PROVE  TypeInv'
<1>1. call[c] \in CallType
  BY CallTyped
<1>2. \A pc \in {"parse", "halt"} : /\ [call[c] EXCEPT !.pc = pc] \in CallType
                                    /\ [call[c] EXCEPT !.pc = pc].pc \notin Trying
  BY <1>1 DEF CallType, Trying
<1>3. \/ Set(c, [call[c] EXCEPT !.pc = "parse"]) \/ Set(c, [call[c] EXCEPT !.pc = "halt"])
      \/ Set(c, Idle)
  BY DEF Charge, Unreported, ChargeFails
<1>4. Idle \in CallType /\ Idle.pc \notin Trying
  BY IdleType DEF Idle, Trying
<1>5. /\ call' \in [Calls -> CallType]
      /\ \A d \in Calls : call'[d].pc \in Trying => call'[d].tries < MaxAttempts
  BY <1>2, <1>3, <1>4, SetType
<1>6. nevents' \in 0 .. MaxEvents
  BY EventTyped DEF Charge, Unreported, ChargeFails, TypeInv, TypeOK
<1>7. UNCHANGED <<config, pinned, Marks, unreachable, self, allFree>>
  BY DEF Charge, Unreported, ChargeFails
<1> QED
  BY <1>5, <1>6, <1>7, BillTyped DEF TypeInv, TypeOK, config, Marks

LEMMA NextRoundType ==
  ASSUME NEW r \in CallType
  PROVE  NextRound(r) \in CallType /\ NextRound(r).pc \in {"again", "idle"}
<1>1. CASE r.rounds < MaxRounds
  <2>1. r.rounds + 1 \in 0 .. MaxRounds
    BY <1>1, GatewayAssumption DEF CallType
  <2> QED
    BY <2>1, <1>1 DEF NextRound, CallType
<1>2. CASE ~ (r.rounds < MaxRounds)
  BY <1>2, IdleType DEF NextRound, Idle
<1> QED
  BY <1>1, <1>2

LEMMA TruncatedTyped ==
  ASSUME TypeInv, NEW c \in Calls, Truncated(c)
  PROVE  TypeInv'
<1>1. [call[c] EXCEPT !.bumped = TRUE] \in CallType
  BY CallTyped DEF CallType
<1>2. /\ call' \in [Calls -> CallType]
      /\ \A d \in Calls : call'[d].pc \in Trying => call'[d].tries < MaxAttempts
  BY <1>1, NextRoundType, SetType DEF Truncated, Trying
<1> QED
  BY <1>2, EventTyped DEF Truncated, TypeInv, TypeOK, config, Marks, books

LEMMA GarbledTyped ==
  ASSUME TypeInv, NEW c \in Calls, Garbled(c)
  PROVE  TypeInv'
<1> DEFINE m == self[Client(c)]
           next == NextFree(Client(c), call[c].rejected \cup {m}, FALSE)
           r == [call[c] EXCEPT !.rejected = @ \cup {m}]
<1>1. m \in Models /\ next \in Free \cup {NoModel}
  BY CallTyped, NextFreeIsFree
<1>2. /\ garbage' \in {garbage, garbage \cup {m}}
      /\ \/ Set(c, Idle) /\ UNCHANGED self
         \/ Set(c, NextRound(r)) /\ next # NoModel /\ Use(c, next)
  BY DEF Garbled
<1> HIDE DEF m, next
<1>3. r \in CallType
  BY <1>1, CallTyped DEF CallType
<1> HIDE DEF r
<1>4. /\ call' \in [Calls -> CallType]
      /\ \A d \in Calls : call'[d].pc \in Trying => call'[d].tries < MaxAttempts
  BY <1>2, <1>3, IdleType, NextRoundType, SetType DEF Idle, Trying
<1>5. self' \in [Clients -> Models]
  BY <1>1, <1>2, UseType, FreeModels DEF TypeInv, TypeOK
<1>6. garbage' \subseteq Models
  BY <1>1, <1>2 DEF TypeInv, TypeOK
<1> QED
  BY <1>4, <1>5, <1>6, EventTyped DEF Garbled, TypeInv, TypeOK, config, books

LEMMA OutsideTyped ==
  ASSUME TypeInv,
         \/ \E m \in Modes, a \in Clients, o \in Retired \cup {Paid, NoModel} : SaveModels(m, a, o)
         \/ \E found \in SUBSET Listed : RefreshCatalog(found)
         \/ Expire \/ DashboardBoots
  PROVE  TypeInv'
<1> USE EventTyped DEF TypeInv, TypeOK, config, Marks, books
<1>1. ASSUME NEW m \in Modes, NEW a \in Clients, NEW o \in Retired \cup {Paid, NoModel},
             SaveModels(m, a, o)
      PROVE  TypeInv'
  <2>1. o \in Models \cup {NoModel}
    BY DEF Models, Free
  <2>2. override' \in [Clients -> Models \cup {NoModel}]
    BY <1>1, <2>1 DEF SaveModels
  <2> QED
    BY <1>1, <2>2 DEF SaveModels
<1>2. ASSUME NEW found \in SUBSET Listed, RefreshCatalog(found)
      PROVE  TypeInv'
  <2>1. override' \in [Clients -> Models \cup {NoModel}]
    BY <1>2 DEF RefreshCatalog
  <2>2. dead' \subseteq Free
    BY <1>2 DEF RefreshCatalog, Free
  <2> QED
    BY <1>2, <2>1, <2>2 DEF RefreshCatalog
<1>3. CASE Expire
  BY <1>3 DEF Expire
<1>4. CASE DashboardBoots
  <2>1. missed' \in [Reasons -> Nat]
    BY <1>4, MissTyped DEF DashboardBoots, Reasons
  <2> QED
    BY <1>4, <2>1 DEF DashboardBoots
<1> QED
  BY <1>1, <1>2, <1>3, <1>4

LEMMA TypeStep ==
  ASSUME TypeInv, [Next]_vars
  PROVE  TypeInv'
<1>1. ASSUME NEW c \in Calls, Begin(c)
      PROVE  TypeInv'
  <2>1. [Idle EXCEPT !.rounds = 1] \in CallType
    BY IdleType, GatewayAssumption DEF CallType
  <2> QED
    BY <1>1, <2>1, RefreshTyped DEF Begin
<1>2. ASSUME NEW c \in Calls, Again(c)
      PROVE  TypeInv'
  BY <1>2, CallTyped, RefreshTyped DEF Again
<1>3. ASSUME NEW c \in Calls, CallStep(c)
      PROVE  TypeInv'
  BY <1>2, <1>3, PickTyped, AnsweredTyped, ShrinkTyped, NoKeyTyped, FreeFailsTyped, WalkOnTyped,
     RescueTyped, GiveUpTyped, RescueFailsTyped, CreditFailsTyped, ErrsTyped, RetryTyped,
     ChargeTyped, OverBudgetTyped, AcceptTyped, TruncatedTyped, GarbledTyped DEF CallStep
<1>4. CASE UNCHANGED vars
  BY <1>4 DEF vars, TypeInv, TypeOK
<1> QED
  BY <1>1, <1>3, <1>4, OutsideTyped DEF Next

LEMMA TypeInit == Init => TypeInv
<1> SUFFICES ASSUME Init PROVE TypeInv
  OBVIOUS
<1>1. call \in [Calls -> CallType] /\ \A c \in Calls : call[c].pc \notin Trying
  BY IdleType DEF Init, Idle, Trying
<1>2. 0 \in 0 .. MaxEvents
  BY GatewayAssumption
<1>3. /\ mode \in Modes
      /\ dead \subseteq Free /\ garbage \subseteq Models /\ catalog \subseteq Listed
      /\ {spent, billed, served} \subseteq Nat /\ allFree \subseteq Calls
      /\ nevents \in 0 .. MaxEvents
  BY <1>2 DEF Init
<1>6. missed \in [Reasons -> Nat] /\ phantom \in BOOLEAN
  BY DEF Init
<1>4. /\ override \in [Clients -> Models \cup {NoModel}]
      /\ unreachable \in [Clients -> SUBSET Providers]
      /\ self \in [Clients -> Models]
  BY FreeModels DEF Init
<1>5. pinned \in BOOLEAN /\ paid402 \in BOOLEAN
  BY DEF Init
<1> QED
  BY <1>1, <1>3, <1>4, <1>5, <1>6 DEF TypeInv, TypeOK

\* Every variable of the gateway has its type: an attempt stays within MAX_ATTEMPTS, a
\* retry within its own bound, a structured answer within its rounds (core/llm.py:872,
\* 1091, 1228), whatever fails.
THEOREM GatewayTypeCorrect == Spec => []TypeOK
<1>1. TypeInv => TypeOK
  BY DEF TypeInv
<1> QED
  BY TypeInit, TypeStep, <1>1, PTL DEF Spec

-----------------------------------------------------------------------------
(***************************************************************************)
(* The books.  What is handed back was counted before and held against the *)
(* cap, or is among what the counter does not show.                        *)
(***************************************************************************)
LEMMA BooksChange ==
  ASSUME [Next]_vars
  PROVE  \/ \E c \in Calls : Charge(c) \/ Unreported(c) \/ ChargeFails(c)
         \/ DashboardBoots
         \/ UNCHANGED books
<1>1. ASSUME NEW c \in Calls, CallStep(c)
      PROVE  Charge(c) \/ Unreported(c) \/ ChargeFails(c) \/ UNCHANGED books
  <2>1. CASE Again(c) \/ Pick(c)
    BY <2>1 DEF Again, Refresh, Pick
  <2>2. CASE Answered(c) \/ Shrink(c) \/ NoKey(c) \/ FreeFails(c) \/ WalkOn(c) \/ Rescue(c)
    BY <2>2 DEF Answered, Shrink, NoKey, FreeFails, WalkOn, Rescue
  <2>3. CASE GiveUp(c) \/ RescueFails(c) \/ CreditFails(c) \/ Errs(c) \/ Retry(c)
    BY <2>3 DEF GiveUp, RescueFails, CreditFails, Errs, Retry
  <2>4. CASE OverBudget(c) \/ Accept(c) \/ Truncated(c) \/ Garbled(c)
    BY <2>4 DEF OverBudget, Accept, Truncated, Garbled
  <2> QED
    BY <1>1, <2>1, <2>2, <2>3, <2>4 DEF CallStep
<1>2. ASSUME NEW c \in Calls, Begin(c)
      PROVE  UNCHANGED books
  BY <1>2 DEF Begin, Refresh
<1>3. ASSUME NEW m \in Modes, NEW a \in Clients, NEW o \in Retired \cup {Paid, NoModel},
             SaveModels(m, a, o)
      PROVE  UNCHANGED books
  BY <1>3 DEF SaveModels
<1>4. ASSUME NEW found \in SUBSET Listed, RefreshCatalog(found)
      PROVE  UNCHANGED books
  BY <1>4 DEF RefreshCatalog
<1>5. CASE Expire
  BY <1>5 DEF Expire
<1>6. CASE UNCHANGED vars
  BY <1>6 DEF vars, books
<1> QED
  BY <1>1, <1>2, <1>3, <1>4, <1>5, <1>6 DEF Next

\* Off the counter, and handed back all the same.
Escaped == missed["wiped"] + missed["bare"] + missed["misread"]

BudgetInv ==
  /\ TypeInv
  /\ served <= spent + Escaped /\ served < Cap + Escaped

LEMMA BudgetStep ==
  ASSUME BudgetInv, [Next]_vars
  PROVE  BudgetInv'
<1>1. TypeInv' /\ TypeInv
  BY TypeStep DEF BudgetInv
<1>2. /\ {spent, billed, served} \subseteq Nat /\ Cap \in Nat \ {0}
      /\ \A w \in Reasons : missed[w] \in Nat /\ missed'[w] \in Nat
      /\ {"wiped", "bare", "failed", "misread"} = Reasons
  BY <1>1, GatewayAssumption DEF TypeInv, TypeOK, Reasons
<1>3. ASSUME NEW c \in Calls, Charge(c)
      PROVE  BudgetInv'
  <2>1. PICK told \in BOOLEAN : Count(c, told)
    BY <1>3 DEF Charge
  <2>2. /\ missed'["wiped"] = missed["wiped"] /\ missed'["bare"] = missed["bare"]
        /\ spent + missed["misread"] + TrueCost(c) <= spent' + missed'["misread"]
        /\ spent' \in Nat
    BY <1>1, <1>2, <2>1, Counted, Zenon
  <2>3. missed["misread"] <= missed'["misread"]
    <3> DEFINE n == IF IsFree(self[Client(c)]) /\ ~ told THEN TrueCost(c) ELSE 0
    <3>1. n \in Nat /\ "misread" \in Reasons /\ Miss("misread", n)
      BY <2>1, Costs DEF Count, Reasons
    <3> HIDE DEF n
    <3> QED
      BY <3>1, <1>1, <1>2, MissTyped
  <2>4. served' = IF spent' < Cap THEN served + TrueCost(c) ELSE served
    BY <1>3 DEF Charge, Within
  <2> QED
    BY <1>1, <1>2, <2>2, <2>3, <2>4, Costs DEF BudgetInv, Escaped
<1>4. ASSUME NEW c \in Calls, Unreported(c)
      PROVE  BudgetInv'
  <2>1. Miss("bare", TrueCost(c)) /\ served' = served + TrueCost(c) /\ UNCHANGED spent
    BY <1>4 DEF Unreported
  <2>2. /\ missed'["bare"] = missed["bare"] + TrueCost(c)
        /\ missed'["wiped"] = missed["wiped"] /\ missed'["misread"] = missed["misread"]
    BY <1>1, <2>1, MissTyped, Costs DEF Reasons
  <2> QED
    BY <1>1, <1>2, <2>1, <2>2, Costs DEF BudgetInv, Escaped
<1>5. ASSUME NEW c \in Calls, ChargeFails(c)
      PROVE  BudgetInv'
  <2>1. UNCHANGED served
    BY <1>5 DEF ChargeFails
  <2>2. CASE UNCHANGED <<spent, phantom>> /\ Miss("failed", TrueCost(c))
    <3>1. /\ missed'["bare"] = missed["bare"]
          /\ missed'["wiped"] = missed["wiped"] /\ missed'["misread"] = missed["misread"]
      BY <1>1, <2>2, MissTyped, Costs DEF Reasons
    <3> QED
      BY <1>1, <1>2, <2>1, <2>2, <3>1 DEF BudgetInv, Escaped
  <2>3. CASE \E told \in BOOLEAN : Count(c, told)
    <3>1. PICK told \in BOOLEAN : Count(c, told)
      BY <2>3
    <3>2. /\ missed'["wiped"] = missed["wiped"] /\ missed'["bare"] = missed["bare"]
          /\ spent + missed["misread"] + TrueCost(c) <= spent' + missed'["misread"]
          /\ spent' \in Nat
      BY <1>1, <1>2, <3>1, Counted, Zenon
    <3>3. missed["misread"] <= missed'["misread"]
      <4> DEFINE n == IF IsFree(self[Client(c)]) /\ ~ told THEN TrueCost(c) ELSE 0
      <4>1. n \in Nat /\ "misread" \in Reasons /\ Miss("misread", n)
        BY <3>1, Costs DEF Count, Reasons
      <4> HIDE DEF n
      <4> QED
        BY <4>1, <1>1, <1>2, MissTyped
    <3> QED
      BY <1>1, <1>2, <2>1, <3>2, <3>3, Costs DEF BudgetInv, Escaped
  <2> QED
    BY <1>5, <2>2, <2>3 DEF ChargeFails
<1>6. CASE DashboardBoots
  <2>1. spent' = 0 /\ Miss("wiped", spent) /\ UNCHANGED served
    BY <1>6 DEF DashboardBoots
  <2>2. /\ missed'["wiped"] = missed["wiped"] + spent
        /\ missed'["bare"] = missed["bare"] /\ missed'["misread"] = missed["misread"]
    BY <1>1, <1>2, <2>1, MissTyped DEF Reasons
  <2> QED
    BY <1>1, <1>2, <2>1, <2>2 DEF BudgetInv, Escaped
<1>7. CASE UNCHANGED books
  BY <1>1, <1>7 DEF books, BudgetInv, Escaped
<1> QED
  BY <1>3, <1>4, <1>5, <1>6, <1>7, BooksChange

\* The day's answers cost less than the budget, however many calls are billed at once
\* and whoever shares a client; beyond it by no more than what a boot of the dashboard
\* wiped off the counter, what bore no usage, and what was charged as a free model's
\* (core/llm.py:704-771, 1160-1184).
THEOREM AnswersWithinBudget == Spec => []WithinBudget
<1>1. Init => BudgetInv
  <2> SUFFICES ASSUME Init PROVE BudgetInv
    OBVIOUS
  <2>1. TypeInv
    BY TypeInit
  <2>2. spent = 0 /\ served = 0 /\ missed["wiped"] = 0 /\ missed["bare"] = 0
        /\ missed["misread"] = 0
    BY DEF Init, Reasons
  <2> QED
    BY <2>1, <2>2, GatewayAssumption DEF BudgetInv, Escaped
<1>2. BudgetInv => WithinBudget
  <2> SUFFICES ASSUME BudgetInv PROVE WithinBudget
    OBVIOUS
  <2>1. {missed["wiped"], missed["bare"], missed["misread"]} \subseteq Nat
        /\ served \in Nat /\ Cap \in Nat
    BY GatewayAssumption DEF BudgetInv, TypeInv, TypeOK, Reasons
  <2> QED
    BY <2>1 DEF BudgetInv, WithinBudget, Escaped
<1> QED
  BY <1>1, BudgetStep, <1>2, PTL DEF Spec

Shown == spent + missed["wiped"] + missed["bare"] + missed["failed"] + missed["misread"]
BooksInv == TypeInv /\ billed <= Shown /\ (~ phantom => Shown = billed)

LEMMA BooksStep ==
  ASSUME BooksInv, [Next]_vars
  PROVE  BooksInv'
<1>1. TypeInv' /\ TypeInv
  BY TypeStep DEF BooksInv
<1>2. /\ {spent, billed, served} \subseteq Nat /\ phantom \in BOOLEAN
      /\ \A w \in Reasons : missed[w] \in Nat /\ missed'[w] \in Nat
      /\ {"wiped", "bare", "failed", "misread"} = Reasons
  BY <1>1 DEF TypeInv, TypeOK, Reasons
<1>3. ASSUME NEW c \in Calls, Charge(c) \/ Unreported(c) \/ ChargeFails(c)
      PROVE  BooksInv'
  <2>1. billed' = billed + TrueCost(c)
    BY <1>3 DEF Charge, Unreported, ChargeFails
  <2>2. CASE \E told \in BOOLEAN : Count(c, told)
    <3>1. /\ missed'["wiped"] = missed["wiped"] /\ missed'["bare"] = missed["bare"]
          /\ missed'["failed"] = missed["failed"]
          /\ spent + missed["misread"] + TrueCost(c) <= spent' + missed'["misread"]
          /\ spent' \in Nat
      BY <1>1, <1>2, <2>2, Counted, Zenon
    <3>2. ~ phantom' => /\ ~ phantom
                        /\ spent' + missed'["misread"]
                           = spent + missed["misread"] + TrueCost(c)
      BY <1>1, <2>2, Counted, Zenon
    <3>3. (billed <= Shown)'
      BY <1>2, <2>1, <3>1, Costs DEF BooksInv, Shown
    <3>4. ASSUME ~ phantom'
          PROVE  Shown' = billed'
      <4>1. Shown = billed
        BY <3>2, <3>4 DEF BooksInv
      <4>2. spent' + missed'["misread"] = spent + missed["misread"] + TrueCost(c)
        BY <3>2, <3>4
      <4>3. {missed["wiped"], missed["bare"], missed["misread"], missed["failed"],
             missed'["misread"], TrueCost(c), spent, billed} \subseteq Nat
        BY <1>2, Costs
      <4> QED
        BY <2>1, <3>1, <4>1, <4>2, <4>3 DEF Shown
    <3> QED
      BY <1>1, <3>3, <3>4 DEF BooksInv
  <2>3. ASSUME NEW why \in {"bare", "failed"}, UNCHANGED <<spent, phantom>>,
               Miss(why, TrueCost(c))
        PROVE  BooksInv'
    <3>1. /\ missed'[why] = missed[why] + TrueCost(c)
          /\ \A w \in Reasons \ {why} : missed'[w] = missed[w]
      BY <1>1, <2>3, MissTyped, Costs DEF Reasons
    <3>2. Shown' = Shown + TrueCost(c)
      <4>1. CASE why = "bare"
        BY <3>1, <4>1, <1>2, <2>3, Costs DEF Shown, Reasons
      <4>2. CASE why = "failed"
        BY <3>1, <4>2, <1>2, <2>3, Costs DEF Shown, Reasons
      <4> QED
        BY <4>1, <4>2
    <3>3. Shown \in Nat
      BY <1>2 DEF Shown
    <3> QED
      BY <1>1, <1>2, <2>1, <2>3, <3>2, <3>3, Costs DEF BooksInv
  <2> QED
    BY <1>3, <2>2, <2>3 DEF Charge, Unreported, ChargeFails
<1>4. CASE DashboardBoots
  <2>1. spent' = 0 /\ Miss("wiped", spent) /\ UNCHANGED <<billed, phantom>>
    BY <1>4 DEF DashboardBoots
  <2>2. /\ missed'["wiped"] = missed["wiped"] + spent /\ missed'["failed"] = missed["failed"]
        /\ missed'["bare"] = missed["bare"] /\ missed'["misread"] = missed["misread"]
    BY <1>1, <1>2, <2>1, MissTyped DEF Reasons
  <2>3. Shown' = Shown
    BY <1>2, <2>1, <2>2 DEF Shown
  <2> QED
    BY <1>1, <2>1, <2>3 DEF BooksInv
<1>5. CASE UNCHANGED books
  BY <1>1, <1>5 DEF books, BooksInv, Shown
<1> QED
  BY <1>3, <1>4, <1>5, BooksChange

\* The day's counter, with what was wiped, bore no usage, met a failing counter or was
\* charged as a free model's, is what the providers billed; free answers are charged for
\* only when another call of the client had set self.model (core/llm.py:689-701,
\* 1160-1184).  No assumption is made on who shares a client.
THEOREM CounterIsTheBill == Spec => []BooksMatch
<1>1. Init => BooksInv
  <2> SUFFICES ASSUME Init PROVE BooksInv
    OBVIOUS
  <2>1. spent = 0 /\ billed = 0 /\ missed["wiped"] = 0 /\ missed["bare"] = 0
        /\ missed["misread"] = 0 /\ missed["failed"] = 0
    BY DEF Init, Reasons
  <2> QED
    BY <2>1, TypeInit DEF BooksInv, Shown
<1>2. BooksInv => BooksMatch
  BY DEF BooksInv, BooksMatch, Shown
<1> QED
  BY <1>1, BooksStep, <1>2, PTL DEF Spec

-----------------------------------------------------------------------------
(***************************************************************************)
(* The model a free call asks.  It starts with self.model, which is a free *)
(* one unless another call of the client has replaced it, and each model   *)
(* it moves to is free.                                                    *)
(***************************************************************************)
Working == {"send", "walk", "retry", "spent", "last", "charge"}

StaysFree(c) ==
  c \in allFree => /\ OnlyFree(Client(c))
                   /\ call[c].pc = "pick" => self[Client(c)] \in Free
                   /\ call[c].pc \in Working => call[c].model \in Free

\* What a step of c does to the other calls, those of its own client among them.
OthersKeep(c) ==
  /\ UNCHANGED <<mode, override>>
  /\ \A d \in Calls \ {c} :
       /\ call'[d] = call[d]
       /\ d \in allFree' => /\ d \in allFree
                            /\ self[Client(d)] \in Free => self'[Client(d)] \in Free

\* Where a step of c takes its own call and its client's model.
LEMMA NewCall ==
  ASSUME TypeInv, NEW c \in Calls, NEW r, Set(c, r)
  PROVE  call'[c] = r /\ \A d \in Calls \ {c} : call'[d] = call[d]
BY DEF Set, TypeInv, TypeOK

LEMMA NewModel ==
  ASSUME TypeInv, NEW c \in Calls, NEW m, Use(c, m)
  PROVE  self'[Client(c)] = m /\ \A a \in Clients \ {Client(c)} : self'[a] = self[a]
BY ClientType DEF Use, TypeInv, TypeOK

LEMMA NewModelOthers ==
  ASSUME TypeInv, NEW c \in Calls, NEW m \in Models, NEW r, Use(c, m), Set(c, r),
         UNCHANGED <<mode, override>>,
         allFree' \subseteq (allFree \ Crossed(c, m)) \cup {c}
  PROVE  OthersKeep(c)
<1>1. \A d \in Calls \ {c} : call'[d] = call[d]
  BY NewCall
<1>2. ASSUME NEW d \in Calls \ {c}, d \in allFree', self[Client(d)] \in Free
      PROVE  self'[Client(d)] \in Free
  <2>1. d \notin Crossed(c, m) /\ Client(d) \in Clients
    BY <1>2, ClientType
  <2>2. CASE Client(d) = Client(c)
    <3>1. m # Paid
      BY <2>1, <2>2 DEF Crossed
    <3> QED
      BY <2>2, <3>1, NewModel, FreeModels DEF Models
  <2>3. CASE Client(d) # Client(c)
    BY <1>2, <2>1, <2>3, NewModel
  <2> QED
    BY <2>2, <2>3
<1>3. \A d \in Calls \ {c} : d \in allFree' => d \in allFree
  OBVIOUS
<1> QED
  BY <1>1, <1>2, <1>3 DEF OthersKeep

LEMMA RefreshKeeps ==
  ASSUME TypeInv, NEW c \in Calls, NEW r \in CallType, Refresh(c, r)
  PROVE  StaysFree(c)' /\ OthersKeep(c)
<1>1. PICK read \in BOOLEAN :
        LET m == IF read THEN Resolve(Client(c)) ELSE Paid
            stays == read /\ OnlyFree(Client(c)) /\ (c \in allFree \/ Doing(c, "idle"))
        IN  /\ Use(c, m)
            /\ Set(c, [r EXCEPT !.pc = "pick"])
            /\ allFree' = (allFree \ ({c} \cup Crossed(c, m))) \cup (IF stays THEN {c} ELSE {})
            /\ UNCHANGED <<config, nevents, pinned, Marks, unreachable, books>>
  BY DEF Refresh
<1> DEFINE m == IF read THEN Resolve(Client(c)) ELSE Paid
<1>2. m \in Models
  BY ResolveIsModel, FreeModels, ClientType DEF TypeInv, TypeOK
<1>3. /\ Use(c, m) /\ Set(c, [r EXCEPT !.pc = "pick"])
      /\ allFree' \subseteq (allFree \ Crossed(c, m)) \cup {c}
      /\ c \in allFree' => read /\ OnlyFree(Client(c))
      /\ UNCHANGED <<mode, override>>
  BY <1>1 DEF config
<1>4. c \in allFree' => m \in Free
  BY <1>3, ResolveIsModel, ClientType DEF TypeInv, TypeOK
<1> HIDE DEF m
<1>5. [r EXCEPT !.pc = "pick"].pc = "pick"
  BY DEF CallType
<1>6. call'[c].pc = "pick" /\ self'[Client(c)] = m
  BY <1>3, <1>5, NewCall, NewModel
<1>7. StaysFree(c)'
  BY <1>3, <1>4, <1>6 DEF StaysFree, OnlyFree, Working
<1> QED
  BY <1>2, <1>3, <1>7, NewModelOthers

\* Steps that touch neither a model nor the configuration.
LEMMA SameModelKeeps ==
  ASSUME TypeInv, NEW c \in Calls, StaysFree(c), NEW r, Set(c, r),
         UNCHANGED <<mode, override, self, allFree>>,
         r.pc \in Working => r.model = call[c].model /\ call[c].pc \in Working,
         r.pc # "pick"
  PROVE  StaysFree(c)' /\ OthersKeep(c)
<1>1. call'[c] = r /\ \A d \in Calls \ {c} : call'[d] = call[d]
  BY NewCall
<1>2. OthersKeep(c)
  BY <1>1 DEF OthersKeep
<1>3. StaysFree(c)'
  BY <1>1 DEF StaysFree, OnlyFree
<1> QED
  BY <1>2, <1>3

\* Steps that move the call and its client to the same model.
LEMMA NewModelKeeps ==
  ASSUME TypeInv, NEW c \in Calls, StaysFree(c), NEW m \in Models, NEW r, Set(c, r), Use(c, m),
         UNCHANGED <<mode, override>>, r.model = m, r.pc # "pick",
         allFree' \subseteq allFree \ Crossed(c, m), c \in allFree => m \in Free
  PROVE  StaysFree(c)' /\ OthersKeep(c)
<1>1. call'[c] = r
  BY NewCall
<1>2. StaysFree(c)'
  BY <1>1 DEF StaysFree, OnlyFree
<1>3. OthersKeep(c)
  BY NewModelOthers
<1> QED
  BY <1>2, <1>3

LEMMA FreeCrossesNone ==
  ASSUME NEW c \in Calls, NEW m \in Free
  PROVE  Crossed(c, m) = {}
BY FreeModels DEF Crossed

LEMMA PickKeeps ==
  ASSUME TypeInv, NEW c \in Calls, StaysFree(c), Pick(c)
  PROVE  StaysFree(c)' /\ OthersKeep(c)
<1>1. PICK m \in Models :
        /\ self[Client(c)] \in Free => m \in Free
        /\ Use(c, m)
        /\ Set(c, [Anew(call[c]) EXCEPT !.pc = "send", !.model = m])
        /\ UNCHANGED <<config, nevents, pinned, Marks, unreachable, books, allFree>>
  BY PickedModel
<1> DEFINE r == [Anew(call[c]) EXCEPT !.pc = "send", !.model = m]
<1>2. r.model = m /\ r.pc = "send"
  BY AnewType, CallTyped, Zenon
<1>3. Set(c, r) /\ UNCHANGED <<mode, override, allFree>>
  BY <1>1 DEF config
<1> HIDE DEF r
<1>4. call'[c] = r /\ \A d \in Calls \ {c} : call'[d] = call[d]
  BY <1>3, NewCall
<1>5. StaysFree(c)'
  <2>1. call[c].pc = "pick"
    BY DEF Pick, Doing
  <2> QED
    BY <1>1, <1>2, <1>3, <1>4, <2>1 DEF StaysFree, OnlyFree
<1>6. ASSUME NEW d \in Calls \ {c}, self[Client(d)] \in Free
      PROVE  self'[Client(d)] \in Free
  <2>1. CASE Client(d) = Client(c)
    BY <1>1, <1>6, <2>1, NewModel
  <2>2. CASE Client(d) # Client(c)
    BY <1>1, <1>6, <2>2, NewModel, ClientType
  <2> QED
    BY <2>1, <2>2
<1> QED
  BY <1>3, <1>4, <1>5, <1>6 DEF OthersKeep

LEMMA AnsweredKeeps ==
  ASSUME TypeInv, NEW c \in Calls, StaysFree(c), Answered(c)
  PROVE  StaysFree(c)' /\ OthersKeep(c)
<1> DEFINE r == [Anew(call[c]) EXCEPT !.pc = "charge"]
<1>1. r.pc = "charge" /\ r.model = call[c].model
  BY AnewType, CallTyped
<1>2. Set(c, r) /\ UNCHANGED <<mode, override, self, allFree>> /\ call[c].pc \in Working
  BY DEF Answered, Doing, Working, config
<1> HIDE DEF r
<1> QED
  BY <1>1, <1>2, SameModelKeeps

LEMMA AttemptKeeps ==
  ASSUME TypeInv, NEW c \in Calls, StaysFree(c), NEW r \in CallType,
         call[c].pc \in Working, r.tries < MaxAttempts, r.model = call[c].model,
         Set(c, Attempted(r)), UNCHANGED <<mode, override, self, allFree>>
  PROVE  StaysFree(c)' /\ OthersKeep(c)
<1>1. Attempted(r).model = call[c].model /\ Attempted(r).pc # "pick"
  BY AttemptedType
<1> QED
  BY <1>1, SameModelKeeps

LEMMA MoveKeeps ==
  ASSUME TypeInv, NEW c \in Calls, StaysFree(c),
         NEW pc \in {"walk", "retry", "parse", "halt", "idle"},
         pc \in Working => call[c].pc \in Working,
         Set(c, [call[c] EXCEPT !.pc = pc]), UNCHANGED <<mode, override, self, allFree>>
  PROVE  StaysFree(c)' /\ OthersKeep(c)
<1> DEFINE r == [call[c] EXCEPT !.pc = pc]
<1>1. r.pc = pc /\ r.model = call[c].model
  BY CallTyped DEF CallType
<1>2. Set(c, r)
  OBVIOUS
<1> HIDE DEF r
<1> QED
  BY <1>1, <1>2, SameModelKeeps

LEMMA EndKeeps ==
  ASSUME TypeInv, NEW c \in Calls, StaysFree(c), Set(c, Idle),
         UNCHANGED <<mode, override, self, allFree>>
  PROVE  StaysFree(c)' /\ OthersKeep(c)
<1>1. Idle.pc = "idle"
  BY DEF Idle
<1> HIDE DEF Idle
<1> QED
  BY <1>1, SameModelKeeps DEF Working

LEMMA AttemptsKeep ==
  ASSUME TypeInv, NEW c \in Calls, StaysFree(c),
         Shrink(c) \/ NoKey(c) \/ FreeFails(c) \/ Errs(c) \/ Retry(c)
  PROVE  StaysFree(c)' /\ OthersKeep(c)
<1>1. /\ call[c] \in CallType /\ call[c].tries < MaxAttempts
      /\ call[c].pc \in {"send", "retry"}
  BY CallTyped DEF Shrink, NoKey, FreeFails, Errs, Retry, Doing, Trying
<1>2. call[c].pc \in Working
  BY <1>1 DEF Working
<1>3. UNCHANGED <<mode, override, self, allFree>>
  BY DEF Shrink, NoKey, FreeFails, Errs, Retry, config
<1>4. CASE Shrink(c)
  BY <1>1, <1>2, <1>3, <1>4, AttemptKeeps DEF Shrink
<1>5. CASE NoKey(c) \/ FreeFails(c) \/ Errs(c)
  <2>1. Set(c, [call[c] EXCEPT !.pc = "walk"]) \/ Set(c, [call[c] EXCEPT !.pc = "retry"])
    BY <1>5 DEF NoKey, FreeFails, Errs
  <2> QED
    BY <2>1, <1>2, <1>3, MoveKeeps
<1>6. CASE Retry(c)
  <2> DEFINE r == [call[c] EXCEPT !.retries = @ + 1]
  <2>1. Set(c, Idle) \/ (Set(c, Attempted(r)) /\ call[c].retries + 1 < MaxRetries)
    BY <1>6 DEF Retry
  <2>2. call[c].retries + 1 < MaxRetries => r \in CallType
    <3>1. call[c].retries + 1 < MaxRetries => call[c].retries + 1 \in 0 .. MaxRetries - 1
      BY <1>1, GatewayAssumption DEF CallType
    <3> QED
      BY <1>1, <3>1 DEF CallType
  <2>3. r.tries = call[c].tries /\ r.model = call[c].model
    BY <1>1 DEF CallType
  <2> HIDE DEF r
  <2> QED
    BY <1>1, <1>2, <1>3, <2>1, <2>2, <2>3, AttemptKeeps, EndKeeps
<1> QED
  BY <1>4, <1>5, <1>6

LEMMA EndsKeep ==
  ASSUME TypeInv, NEW c \in Calls, StaysFree(c),
         \/ GiveUp(c) \/ RescueFails(c) \/ OverBudget(c) \/ Accept(c) \/ Truncated(c)
         \/ Charge(c) \/ Unreported(c) \/ ChargeFails(c)
  PROVE  StaysFree(c)' /\ OthersKeep(c)
<1>1. UNCHANGED <<mode, override, self, allFree>>
  BY DEF GiveUp, RescueFails, OverBudget, Accept, Charge, Unreported, ChargeFails, Truncated,
     config
<1>2. CASE GiveUp(c) \/ RescueFails(c) \/ OverBudget(c) \/ Accept(c) \/ ChargeFails(c)
  BY <1>1, <1>2, EndKeeps DEF GiveUp, RescueFails, OverBudget, Accept, ChargeFails
<1>3. CASE Charge(c) \/ Unreported(c)
  <2>1. Set(c, [call[c] EXCEPT !.pc = "parse"]) \/ Set(c, [call[c] EXCEPT !.pc = "halt"])
    BY <1>3 DEF Charge, Unreported
  <2> QED
    BY <2>1, <1>1, MoveKeeps DEF Working
<1>4. CASE Truncated(c)
  <2> DEFINE r == NextRound([call[c] EXCEPT !.bumped = TRUE])
  <2>1. [call[c] EXCEPT !.bumped = TRUE] \in CallType
    BY CallTyped DEF CallType
  <2>2. r.pc \in {"again", "idle"} /\ Set(c, r)
    BY <1>4, <2>1, NextRoundType DEF Truncated
  <2> HIDE DEF r
  <2> QED
    BY <2>2, <1>1, SameModelKeeps DEF Working
<1> QED
  BY <1>2, <1>3, <1>4

LEMMA WalkOnKeeps ==
  ASSUME TypeInv, NEW c \in Calls, StaysFree(c), WalkOn(c)
  PROVE  StaysFree(c)' /\ OthersKeep(c)
<1>1. PICK m \in Free :
        /\ Use(c, m)
        /\ \E r \in CallType : r.model = m /\ r.tries < MaxAttempts /\ Set(c, Attempted(r))
  BY WalkedOn
<1>2. PICK r : r.model = m /\ r.pc # "pick" /\ Set(c, r)
  BY <1>1, AttemptedType
<1>3. UNCHANGED <<mode, override, allFree>>
  BY DEF WalkOn, config
<1> QED
  BY <1>1, <1>2, <1>3, FreeModels, FreeCrossesNone, NewModelKeeps

\* It looks at the mode first: a call that is to stay free is not rescued.
LEMMA RescueKeeps ==
  ASSUME TypeInv, NEW c \in Calls, StaysFree(c), Rescue(c)
  PROVE  StaysFree(c)' /\ OthersKeep(c)
<1> DEFINE r == [call[c] EXCEPT !.model = Paid, !.rescued = TRUE]
<1>1. call[c] \in CallType /\ (call[c].pc \in Trying => call[c].tries < MaxAttempts)
  BY CallTyped
<1>2. r \in CallType /\ r.tries = call[c].tries /\ r.model = Paid
  BY <1>1, FreeModels DEF CallType
<1>3. Set(c, [r EXCEPT !.pc = "last"]) \/ (Set(c, Attempted(r)) /\ Doing(c, "walk"))
  BY DEF Rescue, Exhausted
<1>4. /\ Use(c, Paid) /\ UNCHANGED <<mode, override>>
      /\ allFree' = allFree \ Crossed(c, Paid)
      /\ c \notin allFree
  <2>1. Use(c, Paid) /\ UNCHANGED <<mode, override>> /\ allFree' = allFree \ Crossed(c, Paid)
    BY DEF Rescue, config
  <2>2. mode = "auto"
    BY DEF Rescue, MayRescue, ModeRead
  <2> QED
    BY <2>1, <2>2 DEF StaysFree, OnlyFree
<1> HIDE DEF r
<1>5. PICK s : Set(c, s) /\ s.model = Paid /\ s.pc # "pick"
  <2>1. CASE Set(c, [r EXCEPT !.pc = "last"])
    <3>1. [r EXCEPT !.pc = "last"].model = Paid /\ [r EXCEPT !.pc = "last"].pc = "last"
      BY <1>2 DEF CallType
    <3> QED
      BY <2>1, <3>1
  <2>2. CASE Set(c, Attempted(r)) /\ Doing(c, "walk")
    BY <2>2, <1>1, <1>2, AttemptedType DEF Doing, Trying
  <2> QED
    BY <1>3, <2>1, <2>2
<1> QED
  BY <1>4, <1>5, FreeModels, NewModelKeeps

LEMMA CreditFailsKeeps ==
  ASSUME TypeInv, NEW c \in Calls, StaysFree(c), CreditFails(c)
  PROVE  StaysFree(c)' /\ OthersKeep(c)
<1>1. UNCHANGED <<mode, override, allFree>> /\ call[c].pc = "send"
  BY DEF CreditFails, config, Doing
<1>2. CASE \E m \in Free, r \in CallType :
             /\ mode = "auto" /\ Use(c, m) /\ Set(c, Attempted(r))
             /\ r.model = m /\ r.tries < MaxAttempts
  <2>1. PICK m \in Free : /\ Use(c, m)
                          /\ \E r \in CallType : /\ Set(c, Attempted(r)) /\ r.model = m
                                                 /\ r.tries < MaxAttempts
    BY <1>2
  <2>2. PICK s : Set(c, s) /\ s.model = m /\ s.pc # "pick"
    BY <2>1, AttemptedType
  <2> QED
    BY <1>1, <2>1, <2>2, FreeModels, FreeCrossesNone, NewModelKeeps
<1>3. CASE UNCHANGED self /\ Set(c, [call[c] EXCEPT !.pc = "retry"])
  BY <1>1, <1>3, MoveKeeps DEF Working
<1> QED
  BY <1>2, <1>3, CreditFailed

LEMMA GarbledKeeps ==
  ASSUME TypeInv, NEW c \in Calls, StaysFree(c), Garbled(c)
  PROVE  StaysFree(c)' /\ OthersKeep(c)
<1> DEFINE m == self[Client(c)]
           next == NextFree(Client(c), call[c].rejected \cup {m}, FALSE)
           r == [call[c] EXCEPT !.rejected = @ \cup {m}]
<1>1. \/ Set(c, Idle) /\ UNCHANGED self
      \/ Set(c, NextRound(r)) /\ next # NoModel /\ Use(c, next)
  BY DEF Garbled
<1>2. UNCHANGED <<mode, override, allFree>>
  BY DEF Garbled, config
<1>3. m \in Models /\ next \in Free \cup {NoModel}
  BY CallTyped, NextFreeIsFree
<1> HIDE DEF m, next
<1>4. r \in CallType
  BY <1>3, CallTyped DEF CallType
<1> HIDE DEF r
<1>5. CASE Set(c, Idle) /\ UNCHANGED self
  BY <1>2, <1>5, EndKeeps
<1>6. CASE Set(c, NextRound(r)) /\ next # NoModel /\ Use(c, next)
  <2>1. NextRound(r).pc \in {"again", "idle"}
    BY <1>4, NextRoundType
  <2>2. call'[c] = NextRound(r)
    BY <1>6, NewCall
  <2>3. next \in Models /\ Crossed(c, next) = {}
    BY <1>3, <1>6, FreeModels, FreeCrossesNone
  <2>4. OthersKeep(c)
    BY <1>2, <1>6, <2>3, NewModelOthers
  <2>5. StaysFree(c)'
    BY <1>2, <2>1, <2>2 DEF StaysFree, OnlyFree, Working
  <2> QED
    BY <2>4, <2>5
<1> QED
  BY <1>1, <1>5, <1>6

GatewayInv == TypeInv /\ \A c \in Calls : StaysFree(c)

LEMMA CallKeeps ==
  ASSUME TypeInv, NEW c \in Calls, StaysFree(c), Begin(c) \/ CallStep(c)
  PROVE  StaysFree(c)' /\ OthersKeep(c)
<1>1. CASE Begin(c)
  <2>1. [Idle EXCEPT !.rounds = 1] \in CallType
    BY IdleType, GatewayAssumption DEF CallType
  <2> QED
    BY <1>1, <2>1, RefreshKeeps DEF Begin
<1>2. CASE Again(c)
  BY <1>2, CallTyped, RefreshKeeps DEF Again
<1>3. CASE CallStep(c)
  BY <1>2, <1>3, PickKeeps, AnsweredKeeps, AttemptsKeep, EndsKeep, WalkOnKeeps, RescueKeeps,
     CreditFailsKeeps, GarbledKeeps DEF CallStep
<1> QED
  BY <1>1, <1>3

\* Saving other settings ends the free choice of a call.
LEMMA OutsideKeeps ==
  ASSUME TypeInv, NEW c \in Calls, StaysFree(c),
         \/ \E m \in Modes, a \in Clients, o \in Retired \cup {Paid, NoModel} :
              SaveModels(m, a, o)
         \/ \E found \in SUBSET Listed : RefreshCatalog(found)
         \/ Expire \/ DashboardBoots \/ UNCHANGED vars
  PROVE  StaysFree(c)'
<1>1. UNCHANGED <<self, call>>
  BY DEF SaveModels, RefreshCatalog, Expire, DashboardBoots, vars
<1>2. c \in allFree' => c \in allFree /\ OnlyFree(Client(c))'
  <2>1. c \in allFree => OnlyFree(Client(c))
    BY DEF StaysFree
  <2>2. ASSUME NEW m \in Modes, NEW a \in Clients, NEW o \in Retired \cup {Paid, NoModel},
               SaveModels(m, a, o)
        PROVE  c \in allFree' => c \in allFree /\ OnlyFree(Client(c))'
    BY <2>2 DEF SaveModels, OnlyFree
  <2>3. ASSUME NEW found \in SUBSET Listed, RefreshCatalog(found)
        PROVE  c \in allFree' => c \in allFree /\ OnlyFree(Client(c))'
    <3>1. override'[Client(c)] # Paid \/ override[Client(c)] = Paid
      BY <2>3, ClientType, FreeModels DEF RefreshCatalog
    <3>2. UNCHANGED <<mode, allFree>>
      BY <2>3 DEF RefreshCatalog
    <3> QED
      BY <2>1, <3>1, <3>2 DEF OnlyFree
  <2>4. CASE Expire \/ DashboardBoots \/ UNCHANGED vars
    <3>1. UNCHANGED <<mode, override, allFree>>
      BY <2>4 DEF Expire, DashboardBoots, vars, config
    <3> QED
      BY <2>1, <3>1 DEF OnlyFree
  <2> QED
    BY <2>2, <2>3, <2>4
<1> QED
  BY <1>1, <1>2 DEF StaysFree

LEMMA GatewayStep ==
  ASSUME GatewayInv, [Next]_vars
  PROVE  GatewayInv'
<1>1. TypeInv'
  BY TypeStep DEF GatewayInv
<1>2. ASSUME NEW c \in Calls, Begin(c) \/ CallStep(c), NEW d \in Calls
      PROVE  StaysFree(d)'
  <2>1. StaysFree(c)' /\ OthersKeep(c)
    BY <1>2, CallKeeps DEF GatewayInv
  <2>2. CASE d # c
    BY <2>1, <2>2 DEF OthersKeep, GatewayInv, StaysFree, OnlyFree
  <2> QED
    BY <2>1, <2>2
<1>3. ASSUME NEW d \in Calls,
             \/ \E m \in Modes, a \in Clients, o \in Retired \cup {Paid, NoModel} :
                  SaveModels(m, a, o)
             \/ \E found \in SUBSET Listed : RefreshCatalog(found)
             \/ Expire \/ DashboardBoots \/ UNCHANGED vars
      PROVE  StaysFree(d)'
  BY <1>3, OutsideKeeps DEF GatewayInv
<1>4. \A d \in Calls : StaysFree(d)'
  BY <1>2, <1>3 DEF Next
<1> QED
  BY <1>1, <1>4 DEF GatewayInv

LEMMA GatewayInit == Init => GatewayInv
<1> SUFFICES ASSUME Init PROVE GatewayInv
  OBVIOUS
<1>1. ASSUME NEW c \in Calls
      PROVE  StaysFree(c)
  BY DEF Init, StaysFree
<1> QED
  BY <1>1, TypeInit DEF GatewayInv

\* A call that saw the free mode only, and whose client no other call set to the paid
\* model, does not ask the paid one: neither the walk over the free models nor the two
\* rescues take it there (core/llm.py:985-1038, 1046-1089, 1107-1136).  No assumption is
\* made on who shares a client.
THEOREM FreeCallsStayFree == Spec => []FreeStaysFree
<1>1. GatewayInv => FreeStaysFree
  <2> SUFFICES ASSUME GatewayInv, NEW c \in Calls,
                      call[c].model = Paid, call[c].pc \in {"send", "last", "charge"}
               PROVE  c \notin allFree
    BY DEF FreeStaysFree
  <2>1. call[c].pc \in Working
    BY DEF Working
  <2> QED
    BY <2>1, FreeModels DEF GatewayInv, StaysFree
<1> QED
  BY GatewayInit, GatewayStep, <1>1, PTL DEF Spec
=============================================================================
