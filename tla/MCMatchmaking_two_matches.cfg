\* Two pods that read the queue at the same time.
SPECIFICATION Spec
CONSTANTS
  s1 = s1  s2 = s2  s3 = s3
  m1 = m1  m2 = m2  m3 = m3
  h1 = h1  h2 = h2
  p1 = p1  p2 = p2
  None = None
  Session = {s1, s2}
  MatchId = {m1, m2}
  Handler = {h1, h2}
  Pod = {p1, p2}
  Home <- TwoPods
  InitBlocks <- NoBlocks
  QueueWindow = 3
  MaxRequests = 2
  MaxBans = 0
  MaxFaults = 0
  MaxStalls = 0
INVARIANTS OneActiveMatch
