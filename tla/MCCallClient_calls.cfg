\* Two clients, two matches, a click and a drop, in every order with messages and timers.
SPECIFICATION Spec
CONSTANTS
  c1 = c1  c2 = c2  c3 = c3
  m1 = m1  m2 = m2  m3 = m3
  None = None
  Client = {c1, c2}
  MatchId = {m1, m2}
  MaxPresses = 1
  MaxDrops = 1
SYMMETRY Clients
INVARIANTS TypeOK CallShown SignalsOwnMatch
\* When the ids of matches are used up, nothing more happens.
CHECK_DEADLOCK FALSE
