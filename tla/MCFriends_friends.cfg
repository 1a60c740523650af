\* Two sessions, the workers of two pods, two requests at a time, a failure.
SPECIFICATION Spec
CONSTANTS
  a = a  b = b
  None = None
  Session = {a, b}
  Pod = {p1, p2}
  Handler = {h1, h2}
  MatchId = {m1}
  MatchPair <- OneMatch
  FriendshipId = {f1, f2, f3}
  CallId = {k1}
  MaxRequests = 2
  MaxFaults = 1
SYMMETRY Places
INVARIANTS TypeOK FriendsListed CallBacked
PROPERTY CallsPromised
\* Requests are bounded: when all are handled and the match is over, it stops.
CHECK_DEADLOCK FALSE
