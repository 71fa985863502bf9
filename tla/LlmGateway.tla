------------------------------ MODULE LlmGateway ------------------------------
(***************************************************************************)
(* The gateway every agent asks a model through (plata/core/llm.py): which *)
(* model a call starts with, how it walks the free models, when it falls   *)
(* back between free and paid, how a structured answer is retried, and how *)
(* an answer is charged against the day's budget.                          *)
(*                                                                         *)
(* The mode, the overrides, the pin and the marks on models are shared     *)
(* through Redis; `self.model` is shared by all calls of one LLMClient.    *)
(* A paid answer costs one unit of the budget.  A read of Redis that fails *)
(* counts as empty: of the mode as "paid", of a mark as no mark.  A mark    *)
(* that cannot be written is left out.                                     *)
(***************************************************************************)
EXTENDS Naturals, Sequences, FiniteSets, Functions

CONSTANTS
  Calls,       \* call sites that may be at work at the same time
  Client(_),   \* the LLMClient of a call site
  Fallbacks,   \* FREE_FALLBACKS, in order
  Listed,      \* what the provider's catalogue may hold besides
  Retired,     \* PERMANENTLY_RETIRED_FREE
  Paid,        \* the paid default of the agents
  FreeDefault, \* the free default of the agents
  Google,      \* models of the second provider
  Keyed,       \* providers with a key
  Preferred,   \* providers the operator allows for free models
  MaxAttempts, \* attempts of one call (10 in the code)
  MaxRetries,  \* attempts that may fail without a change of model (3)
  MaxRounds,   \* answers a structured call may ask for (5)
  Cap,         \* the daily budget
  MaxEvents,   \* bound of the model: failures of providers and Redis; operator, clock,
               \* dashboard do
  NoModel

Free == Range(Fallbacks) \cup Listed \cup Retired
Models == Free \cup {Paid}
Clients == {Client(c) : c \in Calls}
Modes == {"free", "auto", "paid"}

ASSUME GatewayAssumption ==
  /\ Len(Fallbacks) \in Nat \ {0} /\ DOMAIN Fallbacks = 1 .. Len(Fallbacks)
  /\ NoModel \notin Models /\ Paid \notin Free /\ FreeDefault \in Range(Fallbacks)
  /\ Google \subseteq Range(Fallbacks)
  /\ {MaxAttempts, MaxRetries, MaxRounds, Cap} \subseteq Nat \ {0} /\ MaxEvents \in Nat

VARIABLES
  mode,        \* llm_config.mode
  override,    \* llm_config.override, per client
  pinned,      \* llm_config:auto_active_free
  paid402,     \* llm:paid_402, out of credits
  dead,        \* llm:dead_free_models
  garbage,     \* llm:garbage_producer:*
  catalog,     \* llm:free_catalog
  unreachable, \* providers a client's process found without a key
  self,        \* self.model of a client
  call,        \* per call site, the call it has in progress
  spent,       \* cost:daily, as Redis has it
  billed,      \* ghost: what the providers charged
  served,      \* ghost: cost of the answers handed back
  missed,      \* ghost: what the counter does not show, by reason
  phantom,     \* ghost: a free answer was charged when self.model was the paid one
  allFree,     \* ghost: calls that saw the free mode only, and whose client no other
               \* call set to the paid model since
  nevents

vars == <<mode, override, pinned, paid402, dead, garbage, catalog, unreachable,
          self, call, spent, billed, served, missed, phantom, allFree, nevents>>
config == <<mode, override, catalog>>
books  == <<spent, billed, served, missed, phantom>>

Idle == [pc |-> "idle", model |-> NoModel, tried |-> {}, tries |-> 0, retries |-> 0,
         rescued |-> FALSE, fellBack |-> FALSE, rounds |-> 0, bumped |-> FALSE,
         rejected |-> {}]

Providers == {"openrouter", "google"}

\* The counter was wiped by a boot; the answer bore no usage; the counter's write failed;
\* the answer was charged as another model's.
Reasons == {"wiped", "bare", "failed", "misread"}

CallType ==
  [pc : {"idle", "pick", "send", "walk", "retry", "spent", "last", "charge", "halt",
         "parse", "again"},
   model : Models \cup {NoModel}, tried : SUBSET (Models \cup {NoModel}),
   rejected : SUBSET Models,
   tries : 0 .. MaxAttempts, retries : 0 .. MaxRetries - 1, rounds : 0 .. MaxRounds,
   rescued : BOOLEAN, fellBack : BOOLEAN, bumped : BOOLEAN]

TypeOK ==
  /\ mode \in Modes /\ override \in [Clients -> Models \cup {NoModel}]
  /\ pinned \in BOOLEAN /\ paid402 \in BOOLEAN
  /\ dead \subseteq Free /\ garbage \subseteq Models /\ catalog \subseteq Listed
  /\ unreachable \in [Clients -> SUBSET Providers]
  /\ self \in [Clients -> Models] /\ call \in [Calls -> CallType]
  /\ {spent, billed, served} \subseteq Nat /\ missed \in [Reasons -> Nat]
  /\ phantom \in BOOLEAN /\ allFree \subseteq Calls
  /\ nevents \in 0 .. MaxEvents

Init ==
  /\ mode \in Modes /\ override = [a \in Clients |-> NoModel]
  /\ pinned = FALSE /\ paid402 = FALSE
  /\ dead = {} /\ garbage = {} /\ catalog = {}
  /\ unreachable = [a \in Clients |-> {}]
  /\ self = [a \in Clients |-> Paid]
  /\ call = [c \in Calls |-> Idle]
  /\ spent = 0 /\ billed = 0 /\ served = 0
  /\ missed = [w \in Reasons |-> 0] /\ phantom = FALSE /\ allFree = {} /\ nevents = 0

-----------------------------------------------------------------------------
(***************************************************************************)
(* Which model.                                                            *)
(***************************************************************************)
IsFree(m)   == m \in Free
Provider(m) == IF m \in Google THEN "google" ELSE "openrouter"
IsDead(m)   == IsFree(m) /\ m \in Retired \cup dead \cup garbage

Allowed(a, tried) ==
  {m \in Free \ (tried \cup Retired \cup dead) :
     Provider(m) \in Preferred \ unreachable[a]}

\* The curated list first, whatever the ten-minute mark says of its models; then
\* the catalogue, without the marked ones unless relaxed.
NextFree(a, tried, relaxed) ==
  LET curated == {i \in DOMAIN Fallbacks : Fallbacks[i] \in Allowed(a, tried)}
      live    == (catalog \cap Allowed(a, tried)) \ (IF relaxed THEN {} ELSE garbage)
  IN  IF curated # {} THEN Fallbacks[CHOOSE i \in curated : \A j \in curated : i <= j]
      ELSE IF live # {} THEN CHOOSE m \in live : TRUE ELSE NoModel

Candidate(a, tried) ==
  LET strict == NextFree(a, tried, FALSE)
  IN  IF strict # NoModel THEN strict ELSE NextFree(a, tried, TRUE)

\* resolve_model
Resolve(a) ==
  IF override[a] # NoModel THEN override[a]
  ELSE IF mode = "free" \/ (mode = "auto" /\ pinned)
  THEN IF Preferred = {"google"} THEN Fallbacks[1] ELSE FreeDefault
  ELSE Paid

OnlyFree(a) == mode = "free" /\ override[a] # Paid

-----------------------------------------------------------------------------
(***************************************************************************)
(* A call.                                                                 *)
(***************************************************************************)
Event == nevents < MaxEvents /\ nevents' = nevents + 1
Doing(c, pc) == call[c].pc = pc
Set(c, r) == call' = [call EXCEPT ![c] = r]
Use(c, m) == self' = [self EXCEPT ![Client(c)] = m]
Marks == <<dead, garbage, paid402>>

\* The calls of the same client whose model a change of self.model to the paid one is.
Crossed(c, m) == IF m = Paid THEN {d \in Calls \ {c} : Client(d) = Client(c)} ELSE {}

\* complete() refreshes the model from Redis; when Redis does not answer, the
\* configuration reads as empty, and an empty one means paid.
Refresh(c, r) ==
  \E read \in BOOLEAN :
    LET m == IF read THEN Resolve(Client(c)) ELSE Paid
        stays == read /\ OnlyFree(Client(c)) /\ (c \in allFree \/ Doing(c, "idle"))
    IN
    /\ Use(c, m)
    /\ Set(c, [r EXCEPT !.pc = "pick"])
    /\ allFree' = (allFree \ ({c} \cup Crossed(c, m))) \cup (IF stays THEN {c} ELSE {})
    /\ UNCHANGED <<config, nevents, pinned, Marks, unreachable, books>>

\* The bound on spent is the model's: beyond the cap every answer is refused alike.
Begin(c) == Doing(c, "idle") /\ spent < Cap /\ Refresh(c, [Idle EXCEPT !.rounds = 1])
Again(c) == Doing(c, "again") /\ Refresh(c, call[c])

\* complete() begins with these.
Anew(r) ==
  [r EXCEPT !.tried = {}, !.tries = 0, !.retries = 0, !.rescued = FALSE, !.fellBack = FALSE]

\* A start on a dead model, or on a provider without a key, is moved on before
\* the first attempt.
Pick(c) ==
  LET a  == Client(c)
      m0 == self[a]
      n1 == NextFree(a, {m0}, FALSE)
      m1 == IF IsDead(m0) /\ n1 # NoModel THEN n1 ELSE m0
      n2 == NextFree(a, {m1}, FALSE)
      m2 == IF Provider(m1) \in unreachable[a] /\ n2 # NoModel THEN n2 ELSE m1
  IN  /\ Doing(c, "pick")
      /\ Use(c, m2)
      /\ Set(c, [Anew(call[c]) EXCEPT !.pc = "send", !.model = m2])
      /\ UNCHANGED <<config, nevents, pinned, Marks, unreachable, books, allFree>>

\* The loop's next attempt, or its end.
Attempted(r) ==
  [r EXCEPT !.tries = @ + 1, !.pc = IF r.tries + 1 < MaxAttempts THEN "send" ELSE "spent"]

HasKey(c) == Provider(call[c].model) \in Keyed

Answered(c) ==
  /\ Doing(c, "send") \/ Doing(c, "last")
  /\ HasKey(c)
  /\ Set(c, [Anew(call[c]) EXCEPT !.pc = "charge"])
  /\ UNCHANGED <<config, nevents, pinned, Marks, unreachable, self, books, allFree>>

\* The provider can afford fewer tokens: the same model is asked for fewer.
Shrink(c) ==
  /\ Doing(c, "send") /\ HasKey(c)
  /\ Event
  /\ Set(c, Attempted(call[c]))
  /\ UNCHANGED <<config, pinned, Marks, unreachable, self, books, allFree>>

\* Without a key the provider is written off for the life of the process.
NoKey(c) ==
  /\ Doing(c, "send") /\ ~ HasKey(c)
  /\ unreachable' = [unreachable EXCEPT ![Client(c)] = @ \cup {Provider(call[c].model)}]
  /\ IF IsFree(call[c].model)
     THEN /\ Set(c, [call[c] EXCEPT !.pc = "walk"])
          /\ garbage' \in {garbage, garbage \cup {call[c].model}}
     ELSE /\ Set(c, [call[c] EXCEPT !.pc = "retry"])
          /\ UNCHANGED garbage
  /\ UNCHANGED <<config, nevents, pinned, dead, paid402, self, books, allFree>>

\* A free model that is gone for good, or overloaded for now.
FreeFails(c) ==
  /\ Doing(c, "send") /\ HasKey(c) /\ IsFree(call[c].model)
  /\ Event
  /\ \/ dead' = dead \cup {call[c].model} /\ UNCHANGED garbage
     \/ garbage' = garbage \cup {call[c].model} /\ UNCHANGED dead
     \/ UNCHANGED <<dead, garbage>>
  /\ Set(c, [call[c] EXCEPT !.pc = "walk"])
  /\ UNCHANGED <<config, pinned, paid402, unreachable, self, books, allFree>>

Tried(c) == call[c].tried \cup {call[c].model}

WalkOn(c) ==
  LET next == Candidate(Client(c), Tried(c))
  IN  /\ Doing(c, "walk") /\ next # NoModel
      /\ Use(c, next)
      /\ Set(c, Attempted([call[c] EXCEPT !.model = next, !.tried = Tried(c)]))
      /\ UNCHANGED <<config, nevents, pinned, Marks, unreachable, books, allFree>>

Exhausted(c) ==
  \/ Doing(c, "walk") /\ Candidate(Client(c), Tried(c)) = NoModel
  \/ Doing(c, "spent")

\* llm_config.mode, as a call reads it.
ModeRead == {mode, "paid"}

\* Broken variant of MayRescue: whatever the mode is.
MayRescueAnyMode(c, seen, marked) == ~ call[c].rescued /\ ~ marked

MayRescue(c, seen, marked) == seen = "auto" /\ ~ call[c].rescued /\ ~ marked

\* No free model left: in auto mode the paid one is tried, once, and the pin goes.
Rescue(c) ==
  /\ Exhausted(c)
  /\ \E seen \in ModeRead, marked \in {paid402, FALSE} : MayRescue(c, seen, marked)
  /\ Use(c, Paid)
  /\ allFree' = allFree \ Crossed(c, Paid)
  /\ pinned' \in {pinned, FALSE}
  /\ LET r == [call[c] EXCEPT !.model = Paid, !.rescued = TRUE]
     IN  Set(c, IF Doing(c, "spent") THEN [r EXCEPT !.pc = "last"] ELSE Attempted(r))
  /\ UNCHANGED <<config, nevents, Marks, unreachable, books>>

\* LLMExhausted
GiveUp(c) ==
  /\ Exhausted(c)
  /\ \E seen \in ModeRead, marked \in {paid402, FALSE} : ~ MayRescue(c, seen, marked)
  /\ Set(c, Idle)
  /\ UNCHANGED <<config, nevents, pinned, Marks, unreachable, self, books, allFree>>

RescueFails(c) ==
  /\ Doing(c, "last")
  /\ paid402' \in {paid402} \cup (IF HasKey(c) THEN {TRUE} ELSE {})
  /\ unreachable' = IF HasKey(c) THEN unreachable
                    ELSE [unreachable EXCEPT ![Client(c)] = @ \cup {Provider(Paid)}]
  /\ Set(c, Idle)
  /\ UNCHANGED <<config, nevents, pinned, dead, garbage, self, books, allFree>>

\* Out of credits: in auto mode the call goes on with a free model, once, and the
\* pin keeps later calls free for an hour.
FallsBack(c, seen) == seen = "auto" /\ ~ call[c].fellBack

CreditFails(c) ==
  /\ Doing(c, "send") /\ HasKey(c)
  /\ Event
  /\ paid402' \in {paid402, TRUE}
  /\ \E seen \in ModeRead :
       LET free == IF "google" \in Keyed THEN Fallbacks[1] ELSE FreeDefault
       IN  IF FallsBack(c, seen)
           THEN /\ pinned' \in {pinned, TRUE}
                /\ Use(c, free)
                /\ Set(c, Attempted([call[c] EXCEPT !.model = free, !.fellBack = TRUE]))
           ELSE /\ Set(c, [call[c] EXCEPT !.pc = "retry"])
                /\ UNCHANGED <<pinned, self>>
  /\ UNCHANGED <<config, dead, garbage, unreachable, books, allFree>>

Errs(c) ==
  /\ Doing(c, "send") /\ HasKey(c)
  /\ Event
  /\ Set(c, [call[c] EXCEPT !.pc = "retry"])
  /\ UNCHANGED <<config, pinned, Marks, unreachable, self, books, allFree>>

Retry(c) ==
  /\ Doing(c, "retry")
  /\ IF call[c].retries + 1 < MaxRetries
     THEN Set(c, Attempted([call[c] EXCEPT !.retries = @ + 1]))
     ELSE Set(c, Idle)
  /\ UNCHANGED <<config, nevents, pinned, Marks, unreachable, self, books, allFree>>

-----------------------------------------------------------------------------
(***************************************************************************)
(* The bill, and the shape of the answer.                                  *)
(***************************************************************************)
TrueCost(c) == IF IsFree(call[c].model) THEN 0 ELSE 1

\* Broken variant of Cost: free answers are charged an estimate too.
CostEstimated(c, told) == 1

\* The cost the provider told of a paid answer.  What it did not tell, or told as
\* nothing, is estimated from self.model, which another call may have set.
Cost(c, told) ==
  IF told /\ TrueCost(c) > 0 THEN TrueCost(c) ELSE IF IsFree(self[Client(c)]) THEN 0 ELSE 1

\* Broken variant of Within: the cap itself is still within.
WithinToo(total) == total <= Cap

Within(total) == total < Cap

Miss(why, n) == missed' = [missed EXCEPT ![why] = @ + n]

\* INCRBYFLOAT
Count(c, told) ==
  LET mine == IsFree(call[c].model)
      now  == IsFree(self[Client(c)])
  IN  /\ spent' = spent + Cost(c, told)
      /\ Miss("misread", IF now /\ ~ told THEN TrueCost(c) ELSE 0)
      /\ phantom' = (phantom \/ (mine /\ ~ now))

\* The caps are read after the counter; the new total is held against them.
Charge(c) ==
  /\ Doing(c, "charge")
  /\ \/ Count(c, TRUE) /\ UNCHANGED nevents
     \/ Count(c, FALSE) /\ Event
  /\ billed' = billed + TrueCost(c)
  /\ LET ok == Within(spent')
     IN  /\ served' = IF ok THEN served + TrueCost(c) ELSE served
         /\ Set(c, [call[c] EXCEPT !.pc = IF ok THEN "parse" ELSE "halt"])
  /\ UNCHANGED <<config, pinned, Marks, unreachable, self, allFree>>

\* An answer without usage is handed back as it is, uncounted and unchecked.
Unreported(c) ==
  /\ Doing(c, "charge")
  /\ Event
  /\ billed' = billed + TrueCost(c) /\ served' = served + TrueCost(c)
  /\ Miss("bare", TrueCost(c))
  /\ Set(c, [call[c] EXCEPT !.pc = "parse"])
  /\ UNCHANGED <<config, pinned, Marks, unreachable, self, allFree, spent, phantom>>

\* Redis fails at the counter, or after it at the caps or the halt: the caller gets the
\* exception and not the answer, which is billed all the same.
ChargeFails(c) ==
  /\ Doing(c, "charge")
  /\ Event
  /\ billed' = billed + TrueCost(c)
  /\ \/ UNCHANGED <<spent, phantom>> /\ Miss("failed", TrueCost(c))
     \/ \E told \in BOOLEAN : Count(c, told)
  /\ Set(c, Idle)
  /\ UNCHANGED <<config, pinned, Marks, unreachable, self, allFree, served>>

\* SYSTEM_HALT is published and the caller gets BudgetExceededError.
OverBudget(c) ==
  /\ Doing(c, "halt")
  /\ Set(c, Idle)
  /\ UNCHANGED <<config, nevents, pinned, Marks, unreachable, self, books, allFree>>

Accept(c) ==
  /\ Doing(c, "parse")
  /\ Set(c, Idle)
  /\ UNCHANGED <<config, nevents, pinned, Marks, unreachable, self, books, allFree>>

NextRound(r) ==
  IF r.rounds < MaxRounds THEN [r EXCEPT !.rounds = @ + 1, !.pc = "again"] ELSE Idle

\* Cut off at max_tokens: the same question with more room.
Truncated(c) ==
  /\ Doing(c, "parse") /\ ~ call[c].bumped
  /\ Event
  /\ Set(c, NextRound([call[c] EXCEPT !.bumped = TRUE]))
  /\ UNCHANGED <<config, pinned, Marks, unreachable, self, books, allFree>>

\* Not the JSON asked for: self.model is marked and moved on, but the next round
\* refreshes it.
Garbled(c) ==
  LET m == self[Client(c)]
      next == NextFree(Client(c), call[c].rejected \cup {m}, FALSE)
  IN  /\ Doing(c, "parse")
      /\ Event
      /\ IF m \in call[c].rejected
         THEN Set(c, Idle) /\ UNCHANGED <<garbage, self>>
         ELSE /\ garbage' \in {garbage, garbage \cup {m}}
              /\ IF next = NoModel
                 THEN Set(c, Idle) /\ UNCHANGED self
                 ELSE /\ Use(c, next)
                      /\ Set(c, NextRound([call[c] EXCEPT !.rejected = @ \cup {m}]))
      /\ UNCHANGED <<config, pinned, dead, paid402, unreachable, books, allFree>>

-----------------------------------------------------------------------------
(***************************************************************************)
(* The operator, the clock and the dashboard's boot.                       *)
(***************************************************************************)
\* The form sends the mode and every override; one of them changes.
SaveModels(m, a, o) ==
  /\ Event
  /\ mode' = m
  /\ override' = [override EXCEPT ![a] = o]
  /\ pinned' = (pinned /\ m = "auto")
  /\ allFree' = {c \in allFree : m = "free" /\ override'[Client(c)] # Paid}
  /\ UNCHANGED <<catalog, Marks, unreachable, self, call, books>>

\* refresh_free_catalog replaces the catalogue, marks the retired models dead and
\* drops overrides that name one.
RefreshCatalog(found) ==
  /\ Event
  /\ found # {}
  /\ catalog' = found
  /\ dead' = dead \cup Retired
  /\ override' = [a \in Clients |->
                    IF override[a] \in Retired THEN NoModel ELSE override[a]]
  /\ UNCHANGED <<mode, pinned, garbage, paid402, unreachable, self, call, books, allFree>>

\* A time to live runs out; the pin can also be cleared by hand.
Expire ==
  /\ Event
  /\ \/ pinned /\ pinned' = FALSE /\ UNCHANGED <<paid402, dead, garbage>>
     \/ paid402 /\ paid402' = FALSE /\ UNCHANGED <<pinned, dead, garbage>>
     \/ dead # {} /\ dead' = {} /\ UNCHANGED <<pinned, paid402, garbage>>
     \/ \E m \in garbage : garbage' = garbage \ {m} /\ UNCHANGED <<pinned, paid402, dead>>
  /\ UNCHANGED <<config, unreachable, self, call, books, allFree>>

\* Every start of the dashboard clears the marks and today's counters.
DashboardBoots ==
  /\ Event
  /\ dead' = {} /\ garbage' = {}
  /\ spent' = 0 /\ Miss("wiped", spent)
  /\ UNCHANGED <<config, pinned, paid402, unreachable, self, call, allFree, billed,
                 served, phantom>>

-----------------------------------------------------------------------------
CallStep(c) ==
  \/ Pick(c) \/ Answered(c) \/ Shrink(c) \/ NoKey(c) \/ FreeFails(c) \/ WalkOn(c)
  \/ Rescue(c) \/ GiveUp(c) \/ RescueFails(c) \/ CreditFails(c) \/ Errs(c) \/ Retry(c)
  \/ Charge(c) \/ Unreported(c) \/ ChargeFails(c) \/ OverBudget(c) \/ Accept(c)
  \/ Truncated(c) \/ Garbled(c) \/ Again(c)

Next ==
  \/ \E c \in Calls : Begin(c) \/ CallStep(c)
  \/ \E m \in Modes, a \in Clients, o \in Retired \cup {Paid, NoModel} : SaveModels(m, a, o)
  \/ \E found \in SUBSET Listed : RefreshCatalog(found)
  \/ Expire \/ DashboardBoots

Spec == Init /\ [][Next]_vars

-----------------------------------------------------------------------------
(***************************************************************************)
(* Properties.                                                             *)
(***************************************************************************)

\* An operator who chose free is not billed (llm.py:1016-1018, "user explicitly opted
\* in"): a call that asks the paid model saw another mode, a paid override, or a
\* Redis that did not answer, at some time since it began, or shares its client with
\* a call that did (position_monitor.py:136) and took self.model over from it.  No
\* rescue, fallback or walk of its own takes it there.
FreeStaysFree ==
  \A c \in Calls : call[c].model = Paid /\ call[c].pc \in {"send", "last", "charge"}
                   => c \notin allFree

\* The day's answers cost less than the budget (llm.py:7, "100% circuit-breaker"),
\* however many calls are billed at once; beyond it, by no more than what the boots of
\* the dashboard wiped, what came without usage, and what was charged as a free
\* model's because a call of the same client had replaced self.model.
WithinBudget == served < Cap + missed["wiped"] + missed["bare"] + missed["misread"]

\* Every paid answer is on the counter, handed back or not, but for what was wiped, bore
\* no usage, met a failing counter or was charged as a free model's; and free answers
\* are not charged for (llm.py:689-691), unless a call of the same client had replaced
\* self.model.
BooksMatch ==
  LET shown == spent + missed["wiped"] + missed["bare"] + missed["failed"]
                     + missed["misread"]
  IN  billed <= shown /\ (~ phantom => shown = billed)

-----------------------------------------------------------------------------
(***************************************************************************)
(* What the documents say and the code does not do (README, section 4).    *)
(***************************************************************************)
\* llm.py:7: "Enforce daily / monthly budget caps (80% WARN, 100% circuit-breaker)".
DailyBudgetHolds == served < Cap

\* llm.py:690-692: "Free-tier calls are actually free.  Don't synthesize [an] estimate".
FreeIsFree == spent <= billed

\* llm.py:1014-1016: "Free chain exhausted.  In auto mode -> reach for paid (the whole
\* point of auto: use free when possible, else paid)".
AutoTriesPaid ==
  [][\A c \in Calls :
       /\ call[c].pc \in {"walk", "spent", "retry"} /\ call'[c].pc = "idle"
       /\ mode = "auto" /\ call[c].model # Paid
       => call[c].rescued \/ paid402]_vars

\* llm.py:1108-1112: the final rescue is "only [done] once per call": one that was
\* chosen in the loop was made.
RescueIsMade ==
  [][\A c \in Calls : call[c].pc = "walk" /\ call'[c].model = Paid
                      => call'[c].pc = "send"]_vars
=============================================================================
