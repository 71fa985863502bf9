\* One source and one resume under way with the watchdog's round.
SPECIFICATION FairSpec
CONSTANTS
  scraper = scraper
  r1 = r1
  Agents = {scraper}
  Orchestrator = Orchestrator
  Critical = {}
  Everyone = Everyone
  Scraper = scraper
  Requests = {r1}
  MaxCommands = 2
  MaxFaults = 1
  MaxCancels = 1
INVARIANTS
  CancelHolds
PROPERTIES
  SourceComesBack
CHECK_DEADLOCK FALSE
