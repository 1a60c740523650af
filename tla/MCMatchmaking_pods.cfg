\* Two pods pair the same queue, under fairness, with one failed command or crash.
SPECIFICATION FairSpec
CONSTANTS
  s1 = s1  s2 = s2  s3 = s3
  m1 = m1  m2 = m2  m3 = m3
  h1 = h1  h2 = h2
  p1 = p1  p2 = p2
  None = None
  Session = {s1, s2}
  MatchId = {m1}
  Handler = {h1}
  Pod = {p1, p2}
  Home <- OnePod
  InitBlocks <- NoBlocks
  QueueWindow = 3
  MaxRequests = 2
  MaxBans = 0
  MaxFaults = 1
  MaxStalls = 0
INVARIANTS PairMutex SearchingTracked EndsBounded
PROPERTIES PairServed
