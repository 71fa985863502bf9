\* Two agents and two requests of people; or two calls of one client, with two
\* failures or steps of operator, clock and dashboard.
SPECIFICATION MCSpec
CONSTANTS
  orchestrator = orchestrator
  executor = executor
  Agents = {orchestrator, executor}
  Orchestrator = orchestrator
  Critical = {executor}
  Everyone = Everyone
  Requests = {q1, q2}
  MaxCommands = 3
  MaxFaults = 1
  monitor = monitor
  k1 = k1
  k2 = k2
  paid = paid
  g1 = g1
  f1 = f1
  l1 = l1
  r1 = r1
  none = none
  Calls = {k1, k2}
  Client <- OneClient
  Fallbacks <- MCFallbacks
  Listed = {l1}
  Retired = {r1}
  Paid = paid
  FreeDefault = f1
  Google = {g1}
  Keyed = {"openrouter"}
  Preferred = {"openrouter", "google"}
  NoModel = none
  MaxAttempts = 2
  MaxRetries = 2
  MaxRounds = 2
  Cap = 2
  MaxEvents = 2
INVARIANTS
  AgentsAgree
  FreeStaysFree
  WithinBudget
  BooksMatch
CHECK_DEADLOCK FALSE
