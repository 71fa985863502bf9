\* Three subreddits, two to a poll; or two channels of which Telegram refuses
\* one, and two logins, of the same account or of two.
SPECIFICATION MCSpec
CONSTANTS
  s1 = s1
  s2 = s2
  s3 = s3
  Subreddits <- MCSubreddits
  PerCycle = 2
  Quarantine = 2
  SeenCap = 2
  MaxTroubles = 2
  c1 = c1
  c2 = c2
  a1 = a1
  a2 = a2
  p1 = p1
  Links = {c1, c2}
  Bad = {c2}
  Accounts = {a1, a2}
  Pages = {p1}
  NoLink = NoLink
  MaxEdits = 2
  MaxLogins = 2
  MaxTgFaults = 1
PROPERTIES
  EveryPostHandedOn
  ChannelsJoined
  RemovedGoesQuiet
CHECK_DEADLOCK FALSE
