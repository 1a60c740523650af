\* Two tabs of one device on two pods: every order of their inits, heartbeats
\* and closes, with a failed command or a crash, and a client that vanishes.
SPECIFICATION Spec
CONSTANTS
  t1 = t1  t2 = t2
  d1 = d1
  p1 = p1  p2 = p2
  None = None
  Socket = {t1, t2}
  Device = {d1}
  DeviceOf <- OneDevice
  Pod = {p1, p2}
  Home <- TwoPods
  Lapses = {"loss"}
  MaxLapses = 1
  MaxFaults = 1
  MaxBeats = 1
INVARIANTS TypeOK TabExclusive 
\* Each socket is opened once: when all are closed the run is over.
CHECK_DEADLOCK FALSE
