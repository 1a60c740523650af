\* A page in two matches, one message, one deletion over HTTP, one failure.
SPECIFICATION FairSpec
CONSTANTS
  a = a  b = b  c = c
  m1 = m1  m2 = m2
  x1 = x1
  None = None
  Session = {a, b, c}
  MatchId = {m1, m2}
  MatchPair <- Meets
  MessageId = {x1}
  MaxRequests = 1
  MaxFaults = 1
INVARIANTS TypeOK ShownSaved MarkedStruck
PROPERTIES Delivered
\* When matches, ids and requests are used up, nothing more happens.
CHECK_DEADLOCK FALSE
