SPECIFICATION FairSpec
CONSTANTS
  s1 = s1
  s2 = s2
  l1 = l1
  l2 = l2
  days = days
  Stories = {s1, s2}
  Loops = {l1, l2}
  Loose = {l2}
  Similar <- MCSimilar
  MaxNodes = 2
  MaxFetches = 2
  MaxFaults = 1
  Buckets = {days}
  MaxPerDay = 1
  Target = 1
  ResearchCap = 1
INVARIANTS
  NoRebroadcast
  MarkedIsLinked
  QuotaHolds
  RoomWhenSighted
  ResearchedOnce
PROPERTIES
  NewsSettles
