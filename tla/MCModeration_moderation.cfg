\* Two sessions that meet twice, three reports, a block, three days and a failure.
SPECIFICATION Spec
CONSTANTS
  a = a  b = b
  m1 = m1  m2 = m2  m3 = m3
  r1 = r1  r2 = r2  r3 = r3
  p1 = p1  p2 = p2
  None = None
  Session = {a, b}
  Pod = {p1}
  MatchId = {m1, m2}
  MatchPair <- Meets
  ReportId = {r1, r2, r3}
  Day = 1
  MaxBlocks = 1
  MaxTime = 2
  MaxFaults = 1
SYMMETRY Ids
INVARIANTS TypeOK AutoBanned BansEarned BlocksRecorded
\* When matches, reports and ticks are used up, nothing more happens.
CHECK_DEADLOCK FALSE
