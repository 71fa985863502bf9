------------------------------ MODULE HaltControl ------------------------------
(***************************************************************************)
(* The kill switch: plata/agents/base.py (_halt_subscriber), the commands  *)
(* of plata/dashboard/app.py and plata/hitl/telegram_bot.py, and the       *)
(* automatic halts of plata/agents/orchestrator.py and plata/core/llm.py.  *)
(*                                                                         *)
(* Whether the system is halted is kept twice: in the key system:state,    *)
(* read once when an agent boots, and in every agent's own flag, which     *)
(* only the messages of the channels system:halt and system:resume change. *)
(* A message reaches the agents that are subscribed when it is published,  *)
(* in order, and nobody else.                                              *)
(***************************************************************************)
EXTENDS Naturals, Sequences, FiniteSets

CONSTANTS
  Agents,       \* the agents
  Orchestrator, \* the agent that seeds system:state and watches the others
  Critical,     \* risk_manager and executor
  Everyone,     \* the target of a message that names no agent
  Requests,     \* concurrent /api/kill and /api/resume requests
  MaxCommands,  \* bound of the model: messages published by people and by LLM calls
  MaxFaults     \* bound of the model: deaths and lost connections

ASSUME HaltAssumption ==
  /\ Critical \subseteq Agents
  /\ Everyone \notin Agents
  /\ MaxCommands \in Nat /\ MaxFaults \in Nat

VARIABLES
  state,    \* system:state
  agent,    \* per agent: where its halt subscriber is, and its flag
  inbox,    \* per agent: messages its subscription has not delivered yet
  request,  \* per request: the state it still has to write
  logged,   \* orchestrator:dead_logged, the critical agents in it
  watcher,  \* the agent the liveness watcher is about to halt for
  apart,    \* history: agents whose flag need not follow system:state
  muddled,  \* history: writers of system:state overlapped, or one was lost
  ncommands, nfaults

haltVars == <<state, agent, inbox, request, logged, watcher, apart, muddled, ncommands, nfaults>>

Kinds   == {"halt", "resume"}
Message == [kind : Kinds, to : Agents \cup {Everyone}]
Places  == {"new", "setup", "seeding", "booting", "subscribing", "listening", "storing",
            "offline", "dead"}
None    == "none"

HaltTypeOK ==
  /\ state \in {"unset", "RUNNING", "HALTED"}
  /\ agent \in [Agents -> [pc : Places, halted : BOOLEAN]]
  /\ inbox \in [Agents -> Seq(Message)]
  /\ request \in [Requests -> Kinds \cup {None}]
  /\ logged \subseteq Critical
  /\ watcher \in Critical \cup {None}
  /\ apart \subseteq Agents
  /\ muddled \in BOOLEAN
  /\ ncommands \in 0 .. MaxCommands /\ nfaults \in 0 .. MaxFaults

HaltInit ==
  /\ state = "unset"
  /\ agent = [a \in Agents |-> [pc |-> "new", halted |-> FALSE]]
  /\ inbox = [a \in Agents |-> <<>>]
  /\ request = [r \in Requests |-> None]
  /\ logged = {} /\ watcher = None
  /\ apart = {} /\ muddled = FALSE
  /\ ncommands = 0 /\ nfaults = 0

StateOf(kind) == IF kind = "halt" THEN "HALTED" ELSE "RUNNING"

Subscribed == {a \in Agents : agent[a].pc \in {"listening", "storing"}}

\* Nothing is on its way: every message is handled, every state is written.
Quiet ==
  /\ \A a \in Agents : inbox[a] = <<>> /\ agent[a].pc # "storing"
  /\ \A r \in Requests : request[r] = None

At(a, pc) == agent[a].pc = pc
Goto(a, pc) == agent' = [agent EXCEPT ![a].pc = pc]

-----------------------------------------------------------------------------
(***************************************************************************)
(* An agent: boot, subscribe, follow the messages.                         *)
(***************************************************************************)

\* The supervisor makes a fresh object; the orchestrator's setup runs first.
Boot(a) ==
  /\ agent[a].pc \in {"new", "dead"}
  /\ agent' = [agent EXCEPT ![a] =
       [pc |-> IF a = Orchestrator THEN "setup" ELSE "booting", halted |-> FALSE]]
  /\ UNCHANGED <<state, inbox, request, logged, watcher, apart, muddled, ncommands, nfaults>>

\* Orchestrator.setup: GET, and SET RUNNING when there was nothing.
SetupRead(a) ==
  /\ At(a, "setup")
  /\ Goto(a, IF state = "unset" THEN "seeding" ELSE "booting")
  /\ UNCHANGED <<state, inbox, request, logged, watcher, apart, muddled, ncommands, nfaults>>

SetupWrite(a) ==
  /\ At(a, "seeding")
  /\ state' = "RUNNING"
  /\ muddled' = (muddled \/ state # "unset")
  /\ Goto(a, "booting")
  /\ UNCHANGED <<inbox, request, logged, watcher, apart, ncommands, nfaults>>

BootsHalted == state = "HALTED"

\* _halt_subscriber: GET first, SUBSCRIBE afterwards.
ReadState(a) ==
  /\ At(a, "booting")
  /\ agent' = [agent EXCEPT ![a] = [pc |-> "subscribing", halted |-> BootsHalted]]
  /\ apart' = IF Quiet THEN apart ELSE apart \cup {a}
  /\ UNCHANGED <<state, inbox, request, logged, watcher, muddled, ncommands, nfaults>>

Subscribe(a) ==
  /\ At(a, "subscribing")
  /\ Goto(a, "listening")
  /\ UNCHANGED <<state, inbox, request, logged, watcher, apart, muddled, ncommands, nfaults>>

\* Broken variant of WritesState: a message for one agent changes the system's state.
WritesStateAlways(to) == TRUE

WritesState(to) == to = Everyone

Receive(a) ==
  /\ At(a, "listening")
  /\ inbox[a] # <<>>
  /\ LET m == Head(inbox[a]) IN
       agent' = IF m.to \notin {Everyone, a} THEN agent
                ELSE [agent EXCEPT ![a] =
                       [pc |-> IF WritesState(m.to) THEN "storing" ELSE "listening",
                        halted |-> m.kind = "halt"]]
  /\ inbox' = [inbox EXCEPT ![a] = Tail(@)]
  /\ UNCHANGED <<state, request, logged, watcher, apart, muddled, ncommands, nfaults>>

\* Every agent that hears a message for all writes the state, sooner or later.
Store(a) ==
  /\ At(a, "storing")
  /\ state' = IF agent[a].halted THEN "HALTED" ELSE "RUNNING"
  /\ Goto(a, "listening")
  /\ UNCHANGED <<inbox, request, logged, watcher, apart, muddled, ncommands, nfaults>>

Die(a) ==
  /\ agent[a].pc \notin {"new", "dead"}
  /\ nfaults < MaxFaults
  /\ nfaults' = nfaults + 1
  /\ muddled' = (muddled \/ inbox[a] # <<>> \/ At(a, "storing"))
  /\ agent' = [agent EXCEPT ![a] = [pc |-> "dead", halted |-> FALSE]]
  /\ inbox' = [inbox EXCEPT ![a] = <<>>]
  /\ apart' = apart \ {a}
  /\ UNCHANGED <<state, request, logged, watcher, ncommands>>

\* subscribe() survives a lost connection; what was published meanwhile is gone.
Disconnect(a) ==
  /\ At(a, "listening")
  /\ nfaults < MaxFaults
  /\ nfaults' = nfaults + 1
  /\ muddled' = (muddled \/ inbox[a] # <<>>)
  /\ apart' = IF inbox[a] # <<>> THEN apart \cup {a} ELSE apart
  /\ inbox' = [inbox EXCEPT ![a] = <<>>]
  /\ Goto(a, "offline")
  /\ UNCHANGED <<state, request, logged, watcher, ncommands>>

Reconnect(a) ==
  /\ At(a, "offline")
  /\ Goto(a, "listening")
  /\ UNCHANGED <<state, inbox, request, logged, watcher, apart, muddled, ncommands, nfaults>>

-----------------------------------------------------------------------------
(***************************************************************************)
(* The messages.                                                           *)
(***************************************************************************)

\* A message for all brings every subscriber back in line with system:state, and
\* leaves out the agents that read it and do not listen yet, or not now.
Send(kind, to) ==
  /\ inbox' = [a \in Agents |-> IF a \in Subscribed
                                THEN Append(inbox[a], [kind |-> kind, to |-> to])
                                ELSE inbox[a]]
  /\ IF to = Everyone
     THEN /\ apart' = (apart \ Subscribed)
                        \cup {a \in Agents : agent[a].pc \in {"subscribing", "offline"}}
          /\ muddled' = IF Quiet THEN FALSE
                        ELSE muddled \/ \E r \in Requests : request[r] # None
     ELSE /\ apart' = apart \cup ({to} \cap Subscribed)
          /\ UNCHANGED muddled

CountCommand ==
  /\ ncommands < MaxCommands
  /\ ncommands' = ncommands + 1

\* /api/kill, /api/resume, the sysop's resume: PUBLISH, then SET.
Command(r, kind) ==
  /\ request[r] = None
  /\ CountCommand
  /\ Send(kind, Everyone)
  /\ request' = [request EXCEPT ![r] = kind]
  /\ UNCHANGED <<state, agent, logged, watcher, nfaults>>

WriteState(r) ==
  /\ request[r] # None
  /\ state' = StateOf(request[r])
  /\ request' = [request EXCEPT ![r] = None]
  /\ UNCHANGED <<agent, inbox, logged, watcher, apart, muddled, ncommands, nfaults>>

Published(kind, to) ==
  /\ CountCommand
  /\ Send(kind, to)
  /\ UNCHANGED <<state, agent, request, logged, watcher, nfaults>>

\* Telegram's /halt and /resume leave the state to the agents that listen.
BotCommand(kind) == Published(kind, Everyone)

\* The buttons of one agent.
AgentCommand(kind, a) == Published(kind, a)

\* An LLM call over the budget.
BudgetHalt ==
  /\ Subscribed # {}
  /\ Published("halt", Everyone)

\* The watchers outlive an orchestrator that fails: its setup started them.
Watching == Orchestrator \in Agents /\ agent[Orchestrator].pc \notin {"new", "setup", "seeding"}

\* Ten dead letters since the last look.
SpikeHalt ==
  /\ Watching
  /\ Published("halt", Everyone)

\* A critical agent without a heartbeat for a minute: mark it, then publish.
FindDead(a) ==
  /\ Watching /\ watcher = None
  /\ At(a, "dead") /\ a \notin logged
  /\ logged' = logged \cup {a}
  /\ watcher' = a
  /\ UNCHANGED <<state, agent, inbox, request, apart, muddled, ncommands, nfaults>>

\* The message names the dead agent, so it is addressed to the dead agent.
HaltForDead ==
  /\ watcher # None
  /\ Send("halt", watcher)
  /\ watcher' = None
  /\ UNCHANGED <<state, agent, request, logged, ncommands, nfaults>>

FindAlive(a) ==
  /\ Watching /\ watcher = None
  /\ agent[a].pc \notin {"new", "dead"} /\ a \in logged
  /\ logged' = logged \ {a}
  /\ UNCHANGED <<state, agent, inbox, request, watcher, apart, muddled, ncommands, nfaults>>

-----------------------------------------------------------------------------
Follow(a) ==
  SetupRead(a) \/ SetupWrite(a) \/ ReadState(a) \/ Subscribe(a) \/ Receive(a) \/ Store(a)
    \/ Reconnect(a)

Notice ==
  \/ \E kind \in Kinds : BotCommand(kind) \/ \E a \in Agents : AgentCommand(kind, a)
  \/ BudgetHalt \/ SpikeHalt
  \/ \E a \in Critical : FindDead(a) \/ FindAlive(a)
  \/ HaltForDead

HaltNext ==
  \/ \E a \in Agents : Boot(a) \/ Follow(a) \/ Die(a) \/ Disconnect(a)
  \/ \E r \in Requests, kind \in Kinds : Command(r, kind)
  \/ \E r \in Requests : WriteState(r)
  \/ Notice

HaltSpec == HaltInit /\ [][HaltNext]_haltVars

-----------------------------------------------------------------------------
(***************************************************************************)
(* Properties.                                                             *)
(***************************************************************************)

\* The two records of the halt agree (base.py:318-342, app.py:633-646): once nothing
\* is on its way, an agent is halted exactly when system:state says so, whoever
\* wrote it last and however often the agents restarted.  Apart from that are the
\* agents with a message of their own, those that boot while a command is on its
\* way, and those that missed one between reading the state and subscribing.
AgentsAgree ==
  Quiet /\ ~ muddled =>
    \A a \in Agents \ apart :
      At(a, "listening") => (agent[a].halted <=> state = "HALTED")

\* docs/SPEC.md:16, "automatic halt on dead critical agents": with nobody resuming,
\* the others are halted after the orchestrator dealt with a dead one.
DeadAgentHalts ==
  Quiet /\ watcher = None =>
    \A d \in logged : At(d, "dead") =>
      \A a \in Agents : At(a, "listening") => agent[a].halted
=============================================================================
