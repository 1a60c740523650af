\* One pod, two sessions, two handlers at once: every order of the commands of
\* join, leave, skip, block and close against one worker.
SPECIFICATION Spec
CONSTANTS
  s1 = s1  s2 = s2  s3 = s3
  m1 = m1  m2 = m2  m3 = m3
  h1 = h1  h2 = h2
  p1 = p1  p2 = p2
  None = None
  Session = {s1, s2}
  MatchId = {m1, m2, m3}
  Handler = {h1, h2}
  Pod = {p1}
  Home <- OnePod
  InitBlocks <- NoBlocks
  QueueWindow = 3
  MaxRequests = 4
  MaxBans = 1
  MaxFaults = 0
  MaxStalls = 0
SYMMETRY IdsAndAll
INVARIANTS TypeOK SearchingTracked EndOnce StoresAgree EndAnnounced InCallBacked
PROPERTIES ServicePromised
