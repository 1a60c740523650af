\* One match under fairness, with enough drops to use up the ICE restarts.
SPECIFICATION FairSpec
CONSTANTS
  c1 = c1  c2 = c2  c3 = c3
  m1 = m1  m2 = m2  m3 = m3
  None = None
  Client = {c1, c2}
  MatchId = {m1}
  MaxPresses = 0
  MaxDrops = 3
PROPERTIES CallSettles DeadMatchLeft
\* When the ids of matches are used up, nothing more happens.
CHECK_DEADLOCK FALSE
