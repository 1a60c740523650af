-------------------------- MODULE TabSessionProofs --------------------------
(***************************************************************************)
(* One tab of a device at work at a time, and nothing left of one that was *)
(* closed, for any number of sockets, devices and pods.                    *)
(***************************************************************************)
EXTENDS TabSession, TLAPS

(***************************************************************************)
(* Typing.                                                                 *)
(***************************************************************************)
LEMMA InitToType ==
  ASSUME TypeOK, NEW s \in Socket, NEW pc \in InitPc, InitTo(s, pc)
  PROVE  init' \in [Socket -> InitPc]
BY DEF InitTo, TypeOK

LEMMA BeatToType ==
  ASSUME TypeOK, NEW s \in Socket, NEW pc \in BeatPc, BeatTo(s, pc)
  PROVE  beat' \in [Socket -> [pc : BeatPc, tab : BOOLEAN]]
<1>1. [beat[s] EXCEPT !.pc = pc] \in [pc : BeatPc, tab : BOOLEAN]
  BY DEF TypeOK
<1>2. beat' = [beat EXCEPT ![s] = [beat[s] EXCEPT !.pc = pc]]
  BY DEF BeatTo
<1> QED BY <1>1, <1>2 DEF TypeOK

LEMMA CloseToType ==
  ASSUME TypeOK, NEW s \in Socket, NEW pc \in ClosePc, CloseTo(s, pc)
  PROVE  close' \in [Socket -> [pc : ClosePc, tab : BOOLEAN]]
<1>1. [close[s] EXCEPT !.pc = pc] \in [pc : ClosePc, tab : BOOLEAN]
  BY DEF TypeOK
<1>2. close' = [close EXCEPT ![s] = [close[s] EXCEPT !.pc = pc]]
  BY DEF CloseTo
<1> QED BY <1>1, <1>2 DEF TypeOK

LEMMA HSetType ==
  ASSUME TypeOK, NEW s \in Socket, NEW at \in {"ready", "disconnected"}, HSet(s, at)
  PROVE  hash' \in [Socket -> Hash]
<1>1. [hash[s] EXCEPT !.at = at] \in Hash
  BY SMTT(30) DEF TypeOK, Hash
<1>2. hash' = [hash EXCEPT ![s] = [hash[s] EXCEPT !.at = at]]
  BY DEF HSet
<1> QED BY <1>1, <1>2 DEF TypeOK

LEMMA TabTypeStep == TypeOK /\ [Next]_vars => TypeOK'
<1> SUFFICES ASSUME TypeOK, [Next]_vars PROVE TypeOK'
  OBVIOUS
<1>i. \A pc \in {"idle", "find", "insert", "touch", "record", "lock", "hash", "lookup",
                 "presence", "register", "ready", "refused", "failed"} : pc \in InitPc
  BY DEF InitPc
<1>b. \A pc \in {"idle", "get", "fields", "presence", "tab", "seen"} : pc \in BeatPc
  BY DEF BeatPc
<1>c. \A pc \in {"leave", "unregister", "get", "fields", "forget", "free", "state",
                 "presence", "done", "unknown"} : pc \in ClosePc
  BY DEF ClosePc
<1>1. ASSUME NEW s \in Socket, Connect(s) \/ Heartbeat(s) \/ SocketClose(s)
      PROVE  TypeOK'
  <2>1. CASE Connect(s)
    <3>1. init' \in [Socket -> InitPc]
      BY <2>1, <1>i, InitToType DEF Connect
    <3> QED BY <2>1, <3>1 DEF Connect, TypeOK, Conn, redis
  <2>2. CASE Heartbeat(s)
    <3>1. beat' \in [Socket -> [pc : BeatPc, tab : BOOLEAN]]
      BY <2>2, <1>b, BeatToType DEF Heartbeat
    <3> QED BY <2>2, <3>1 DEF Heartbeat, TypeOK, redis
  <2>3. CASE SocketClose(s)
    <3>1. close' \in [Socket -> [pc : ClosePc, tab : BOOLEAN]]
      BY <2>3, <1>c, CloseToType DEF SocketClose
    <3> QED BY <2>3, <3>1 DEF SocketClose, TypeOK, Conn, redis
  <2> QED BY <1>1, <2>1, <2>2, <2>3
<1>2. ASSUME NEW s \in Socket, InitStep(s) PROVE TypeOK'
  <2>1. UNCHANGED <<beat, close, lapses, faults, beats>>
    BY <1>2 DEF InitStep
  <2>2. init' \in [Socket -> InitPc]
    BY <1>2, <1>i, InitToType
       DEF InitStep, FindDevice, InsertDevice, TouchDevice, InsertSession, LockTab,
           StoreSession, StoreLookup, StorePresence, Register
  <2>3. CASE FindDevice(s) \/ InsertDevice(s) \/ TouchDevice(s) \/ InsertSession(s)
    BY <2>1, <2>2, <2>3, TabAssumption
       DEF FindDevice, InsertDevice, TouchDevice, InsertSession, TypeOK, redis
  <2>4. CASE LockTab(s)
    BY <2>1, <2>2, <2>4, TabAssumption DEF LockTab, TabOwner, Conn, TypeOK
  <2>5. CASE StoreSession(s)
    BY <2>1, <2>2, <2>5 DEF StoreSession, Hash, TypeOK
  <2>6. CASE StoreLookup(s) \/ StorePresence(s) \/ Register(s)
    BY <2>1, <2>2, <2>6 DEF StoreLookup, StorePresence, Register, TypeOK, redis
  <2> QED BY <1>2, <2>3, <2>4, <2>5, <2>6 DEF InitStep
<1>3. ASSUME NEW s \in Socket, BeatStep(s) PROVE TypeOK'
  <2>1. UNCHANGED <<conn, known, rows, tab, lookup, current, registered, init,
                    close, lapses, faults, beats>>
    BY <1>3 DEF BeatStep
  <2>2. beat' \in [Socket -> [pc : BeatPc, tab : BOOLEAN]]
    <3>1. CASE BeatFields(s)
      BY <3>1, <1>b DEF BeatFields, TypeOK, Hash
    <3>2. CASE ~BeatFields(s)
      BY <1>3, <3>2, <1>b, BeatToType
         DEF BeatStep, BeatLookup, BeatPresence, BeatTab, BeatSeen
    <3> QED BY <3>1, <3>2
  <2>3. CASE BeatSeen(s)
    <3> DEFINE at == IF hash[s].at = "none" THEN "blank" ELSE hash[s].at
               row == [hash[s] EXCEPT !.at = at, !.ttl = TRUE]
    <3>0. row \in Hash
      BY ZenonT(30) DEF TypeOK, Hash
    <3>2. hash' = [hash EXCEPT ![s] = row]
      BY <2>3 DEF BeatSeen
    <3>1. hash' \in [Socket -> Hash]
      BY <3>0, <3>2 DEF TypeOK
    <3> QED BY <2>1, <2>2, <2>3, <3>1 DEF BeatSeen, TypeOK
  <2>4. CASE ~BeatSeen(s)
    BY <1>3, <2>1, <2>2, <2>4
       DEF BeatStep, BeatLookup, BeatFields, BeatPresence, BeatTab, TypeOK
  <2> QED BY <2>3, <2>4
<1>4. ASSUME NEW s \in Socket, CloseStep(s) PROVE TypeOK'
  <2>1. UNCHANGED <<conn, known, rows, current, init, beat, lapses, faults, beats>>
    BY <1>4 DEF CloseStep
  <2>2. close' \in [Socket -> [pc : ClosePc, tab : BOOLEAN]]
    <3>1. CASE CloseFields(s)
      BY <3>1, <1>c DEF CloseFields, TypeOK, Hash
    <3>2. CASE ~CloseFields(s)
      BY <1>4, <3>2, <1>c, CloseToType
         DEF CloseStep, LeaveQueue, Unregister, CloseLookup, ForgetSocket, FreeTab,
             SetDisconnected, DropPresence
    <3> QED BY <3>1, <3>2
  <2>3. CASE LeaveQueue(s) \/ SetDisconnected(s)
    BY <2>1, <2>2, <2>3, HSetType DEF LeaveQueue, SetDisconnected, TypeOK
  <2>4. CASE Unregister(s) \/ CloseLookup(s) \/ CloseFields(s)
    BY <2>1, <2>2, <2>4 DEF Unregister, CloseLookup, CloseFields, TypeOK, redis
  <2>5. CASE ForgetSocket(s) \/ DropPresence(s)
    BY <2>1, <2>2, <2>5 DEF ForgetSocket, DropPresence, TypeOK
  <2>6. CASE FreeTab(s)
    <3>1. tab' \in [Device -> Socket \cup {None}]
      BY <2>6 DEF FreeTab, TypeOK
    <3> QED BY <2>1, <2>2, <2>6, <3>1 DEF FreeTab, TypeOK
  <2> QED BY <1>4, <2>3, <2>4, <2>5, <2>6 DEF CloseStep
<1>5. CASE Environment
  <2>1. ASSUME NEW s \in Socket, LoseClient(s) PROVE TypeOK'
    BY <2>1 DEF LoseClient, Lapse, Conn, TypeOK, redis
  <2>8. ASSUME NEW s \in Socket, ExpireLookup(s) PROVE TypeOK'
    BY <2>8 DEF ExpireLookup, Lapse, TypeOK
  <2>9. ASSUME NEW s \in Socket, ExpirePresence(s) PROVE TypeOK'
    BY <2>9 DEF ExpirePresence, TypeOK
  <2>2. ASSUME NEW s \in Socket, ExpireHash(s) PROVE TypeOK'
    BY <2>2 DEF ExpireHash, Hash, NoHash, TypeOK
  <2>3. ASSUME NEW s \in Socket, InitThrows(s) PROVE TypeOK'
    <3>1. init' \in [Socket -> InitPc]
      BY <2>3, <1>i, InitToType DEF InitThrows
    <3> QED BY <2>3, <3>1 DEF InitThrows, Fault, TypeOK, redis
  <2>4. ASSUME NEW s \in Socket, BeatThrows(s) PROVE TypeOK'
    <3>1. beat' \in [Socket -> [pc : BeatPc, tab : BOOLEAN]]
      BY <2>4, <1>b, BeatToType DEF BeatThrows
    <3> QED BY <2>4, <3>1 DEF BeatThrows, Fault, TypeOK, redis
  <2>5. ASSUME NEW s \in Socket, CloseThrows(s) PROVE TypeOK'
    <3>1. close' \in [Socket -> [pc : ClosePc, tab : BOOLEAN]]
      BY <2>5, <1>c, CloseToType DEF CloseThrows
    <3> QED BY <2>5, <3>1 DEF CloseThrows, Fault, TypeOK, redis
  <2>6. ASSUME NEW d \in Device, ExpireTab(d) PROVE TypeOK'
    BY <2>6 DEF ExpireTab, Lapse, TypeOK
  <2>7. ASSUME NEW p \in Pod, PodCrash(p) PROVE TypeOK'
    <3>1. beat' \in [Socket -> [pc : BeatPc, tab : BOOLEAN]]
      BY <2>7, <1>b DEF PodCrash, TypeOK
    <3>2. close' \in [Socket -> [pc : ClosePc, tab : BOOLEAN]]
      BY <2>7, <1>c DEF PodCrash, TypeOK
    <3>3. init' \in [Socket -> InitPc] /\ conn' \in [Socket -> Conn]
      BY <2>7, <1>i DEF PodCrash, TypeOK, Conn
    <3> QED BY <2>7, <3>1, <3>2, <3>3 DEF PodCrash, Fault, TypeOK, redis
  <2> QED BY <1>5, <2>1, <2>2, <2>3, <2>4, <2>5, <2>6, <2>7, <2>8, <2>9 DEF Environment
<1>6. CASE UNCHANGED vars
  BY <1>6 DEF vars, redis, TypeOK
<1> QED BY <1>1, <1>2, <1>3, <1>4, <1>5, <1>6 DEF Next

LEMMA TabTypeInit == Init => TypeOK
BY TabAssumption DEF Init, TypeOK, Conn, Hash, NoHash, InitPc, BeatPc, ClosePc

(* Every reachable state is well-typed.                                    *)
THEOREM TabTypeCorrect == Spec => []TypeOK
BY TabTypeInit, TabTypeStep, PTL DEF Spec

(***************************************************************************)
(* The inductive invariant.  Owns(s): s has the lock of its device, from   *)
(* the SET in its init until the DEL in its close handler.  The rest says  *)
(* how far a socket must be for its keys to be there, and that while       *)
(* nothing lapses an open session keeps its lookup key, for which          *)
(* heartbeats refresh its lock.                                            *)
(***************************************************************************)
Early    == {"idle", "find", "insert", "touch", "record", "lock", "refused"}
Looked   == {"presence", "register", "ready"}
Freeing  == {"fields", "forget", "free"}
Owning   == {"leave", "unregister", "get"} \cup Freeing

Owns(s) ==
  \/ close[s].pc \in Freeing
  \/ /\ conn[s] = "open" \/ close[s].pc \in Owning
     /\ init[s] \in Locked \/ s \in lookup

SocketInv(s) ==
  /\ close[s].pc # "idle" => conn[s] = "closed"
  /\ conn[s] = "none" => init[s] = "idle"
  /\ conn[s] = "refused" => init[s] = "refused"
  /\ init[s] \in Early => s \notin lookup
  /\ s \in current => init[s] = "ready"

TabInv ==
  /\ \A s \in Socket : SocketInv(s)
  /\ lapses = 0 =>
       \A s \in Socket :
         /\ conn[s] # "lost"
         /\ conn[s] = "open" /\ init[s] \in Looked => s \in lookup
         /\ Owns(s) => tab[DeviceOf[s]] = s

LEMMA TabInvInit == Init => TabInv
BY DEF Init, TabInv, SocketInv, Owns, Freeing, Owning, Locked, Looked, Early

(* What the invariant says of one socket.                                  *)
QuietInv(s) ==
  /\ conn[s] # "lost"
  /\ conn[s] = "open" /\ init[s] \in Looked => s \in lookup
  /\ Owns(s) => tab[DeviceOf[s]] = s

Same(s) ==
  /\ conn'[s] = conn[s] /\ init'[s] = init[s] /\ close'[s].pc = close[s].pc
  /\ s \in lookup' <=> s \in lookup
  /\ s \in current' <=> s \in current

(* Most steps are about one socket, and need only keep the locks of the    *)
(* others.                                                                 *)
LEMMA TabInvLocal ==
  ASSUME TabInv, lapses' = lapses, NEW s \in Socket,
         \A t \in Socket \ {s} : Same(t),
         lapses = 0 => \A t \in Socket \ {s} : Owns(t) => tab'[DeviceOf[t]] = t,
         SocketInv(s)',
         lapses = 0 => QuietInv(s)'
  PROVE  TabInv'
<1>1. ASSUME NEW t \in Socket, t # s
      PROVE  /\ SocketInv(t)'
             /\ lapses = 0 => QuietInv(t)'
  <2>1. Same(t)
    BY <1>1
  <2>2. SocketInv(t)'
    BY <2>1 DEF TabInv, SocketInv, Same
  <2>3. ASSUME lapses = 0 PROVE QuietInv(t)'
    <3>1. Owns(t)' => Owns(t)
      BY <2>1 DEF Owns, Same
    <3> QED BY <1>1, <2>1, <2>3, <3>1 DEF TabInv, QuietInv, Same
  <2> QED BY <2>2, <2>3
<1> QED BY <1>1 DEF TabInv, QuietInv

LEMMA InitToMoves ==
  ASSUME TypeOK, NEW s \in Socket, NEW pc, InitTo(s, pc)
  PROVE  init'[s] = pc /\ \A t \in Socket \ {s} : init'[t] = init[t]
BY DEF InitTo, TypeOK

LEMMA CloseToMoves ==
  ASSUME TypeOK, NEW s \in Socket, NEW pc, CloseTo(s, pc)
  PROVE  close'[s].pc = pc /\ \A t \in Socket \ {s} : close'[t] = close[t]
BY DEF CloseTo, TypeOK

LEMMA TabInvInitStep ==
  ASSUME TypeOK, TabInv, NEW s \in Socket, InitStep(s)
  PROVE  TabInv'
<1>u. UNCHANGED <<beat, close, lapses, faults, beats>>
  BY DEF InitStep
<1>t. \A t \in Socket : conn[t] \in Conn /\ t \in Socket
  BY DEF TypeOK
<1>o. \A t \in Socket \ {s} : init'[t] = init[t]
  BY InitToMoves DEF InitStep, FindDevice, InsertDevice, TouchDevice, InsertSession,
     LockTab, StoreSession, StoreLookup, StorePresence, Register
<1>1. CASE \/ FindDevice(s) \/ InsertDevice(s) \/ TouchDevice(s) \/ InsertSession(s)
           \/ StoreSession(s) \/ StorePresence(s)
  <2>1. /\ UNCHANGED <<conn, tab, lookup, current>>
        /\ \/ init[s] \in Early /\ init'[s] \in Early \cup {"failed"}
                 /\ init'[s] # "refused" /\ init[s] \notin {"idle", "refused"}
           \/ init[s] = "hash" /\ init'[s] = "lookup"
           \/ init[s] = "presence" /\ init'[s] = "register"
    BY <1>1, InitToMoves DEF FindDevice, InsertDevice, TouchDevice, InsertSession,
       StoreSession, StorePresence, InitAt, Early, redis
  <2>2. SocketInv(s)'
    BY <1>u, <2>1 DEF TabInv, SocketInv, Early
  <2>3. ASSUME lapses = 0 PROVE QuietInv(s)'
    BY <1>u, <2>1, <2>3 DEF TabInv, SocketInv, QuietInv, Owns, Early, Looked, Locked
  <2>4. \A t \in Socket \ {s} : Same(t)
    BY <1>u, <1>o, <2>1 DEF Same
  <2> QED BY <1>u, <2>1, <2>2, <2>3, <2>4, TabInvLocal DEF TabInv
<1>2. CASE LockTab(s)
  <2>0. init[s] = "lock" /\ UNCHANGED <<lookup, current>>
    BY <1>2 DEF LockTab, InitAt
  <2>1. CASE TabFree(s)
    <3>1. /\ tab' = [tab EXCEPT ![DeviceOf[s]] = s] /\ tab[DeviceOf[s]] = None
          /\ init'[s] = "hash" /\ conn' = conn
      BY <1>2, <2>1, InitToMoves DEF LockTab, TabFree, TabOwner
    <3>2. tab'[DeviceOf[s]] = s
      BY <3>1, TabAssumption DEF TypeOK
    <3>3. SocketInv(s)'
      BY <1>u, <2>0, <3>1 DEF TabInv, SocketInv, Early
    <3>4. ASSUME lapses = 0 PROVE QuietInv(s)'
      BY <1>u, <2>0, <3>1, <3>2, <3>4 DEF TabInv, QuietInv, Looked
    <3>5. ASSUME lapses = 0, NEW t \in Socket \ {s}, Owns(t)
          PROVE  tab'[DeviceOf[t]] = t
      BY <3>1, <3>5, TabAssumption DEF TabInv, TypeOK
    <3>6. \A t \in Socket \ {s} : Same(t)
      BY <1>u, <1>o, <2>0, <3>1 DEF Same
    <3> QED BY <1>u, <3>3, <3>4, <3>5, <3>6, TabInvLocal
  <2>2. CASE ~TabFree(s)
    <3>1. /\ tab' = tab /\ init'[s] = "refused"
          /\ conn' = [conn EXCEPT ![s] = IF @ = "open" THEN "refused" ELSE @]
      BY <1>2, <2>2, InitToMoves DEF LockTab
    <3>2. /\ conn'[s] = IF conn[s] = "open" THEN "refused" ELSE conn[s]
          /\ \A t \in Socket \ {s} : conn'[t] = conn[t]
      BY <3>1 DEF TypeOK
    <3>3. SocketInv(s)'
      BY <1>u, <2>0, <3>1, <3>2 DEF TabInv, SocketInv, Early
    <3>4. ASSUME lapses = 0 PROVE QuietInv(s)'
      BY <1>u, <2>0, <3>1, <3>2, <3>4
         DEF TabInv, SocketInv, QuietInv, Owns, Early, Looked, Locked
    <3>5. \A t \in Socket \ {s} : Same(t)
      BY <1>u, <1>o, <2>0, <3>2 DEF Same
    <3> QED BY <1>u, <3>1, <3>3, <3>4, <3>5, TabInvLocal DEF TabInv
  <2> QED BY <2>1, <2>2
<1>3. CASE StoreLookup(s)
  <2>1. /\ UNCHANGED <<conn, tab, current>> /\ lookup' = lookup \cup {s}
        /\ init[s] = "lookup" /\ init'[s] = "presence"
    BY <1>3, InitToMoves DEF StoreLookup, InitAt
  <2>2. SocketInv(s)'
    BY <1>u, <2>1 DEF TabInv, SocketInv, Early
  <2>3. ASSUME lapses = 0 PROVE QuietInv(s)'
    BY <1>u, <2>1, <2>3 DEF TabInv, QuietInv, Owns, Locked
  <2>4. \A t \in Socket \ {s} : Same(t)
    BY <1>u, <1>o, <2>1 DEF Same
  <2> QED BY <1>u, <2>1, <2>2, <2>3, <2>4, TabInvLocal DEF TabInv
<1>4. CASE Register(s)
  <2>1. /\ UNCHANGED <<conn, tab, lookup>> /\ current' = current \cup {s}
        /\ init[s] = "register" /\ init'[s] = "ready"
    BY <1>4, InitToMoves DEF Register, InitAt, redis
  <2>2. SocketInv(s)'
    BY <1>u, <2>1 DEF TabInv, SocketInv, Early
  <2>3. ASSUME lapses = 0 PROVE QuietInv(s)'
    BY <1>u, <2>1, <2>3 DEF TabInv, QuietInv, Owns, Locked, Looked
  <2>4. \A t \in Socket \ {s} : Same(t)
    BY <1>u, <1>o, <2>1 DEF Same
  <2> QED BY <1>u, <2>1, <2>2, <2>3, <2>4, TabInvLocal DEF TabInv
<1> QED BY <1>1, <1>2, <1>3, <1>4 DEF InitStep

LEMMA TabInvCloseStep ==
  ASSUME TypeOK, TabInv, NEW s \in Socket, CloseStep(s)
  PROVE  TabInv'
<1>u. UNCHANGED <<conn, known, rows, current, init, beat, lapses, faults, beats>>
  BY DEF CloseStep
<1>o. \A t \in Socket \ {s} : close'[t].pc = close[t].pc
  <2>1. CASE CloseFields(s)
    BY <2>1 DEF CloseFields, TypeOK
  <2>2. CASE ~CloseFields(s)
    BY <2>2, CloseToMoves DEF CloseStep, LeaveQueue, Unregister, CloseLookup,
       ForgetSocket, FreeTab, SetDisconnected, DropPresence
  <2> QED BY <2>1, <2>2
<1>1. CASE \/ LeaveQueue(s) \/ Unregister(s) \/ CloseLookup(s) \/ CloseFields(s)
           \/ SetDisconnected(s) \/ DropPresence(s)
  <2>1. /\ UNCHANGED <<tab, lookup>> /\ close[s].pc # "idle"
        /\ \/ close[s].pc \in Owning \ Freeing /\ close'[s].pc \in Owning \ Freeing
           \/ close[s].pc = "get" /\ s \in lookup /\ close'[s].pc = "fields"
           \/ close[s].pc = "fields" /\ close'[s].pc = "forget"
           \/ close'[s].pc \notin Owning
    <3>1. CASE CloseFields(s)
      BY <3>1 DEF CloseFields, CloseAt, TypeOK, redis, Owning, Freeing
    <3>2. CASE ~CloseFields(s)
      BY <1>1, <3>2, CloseToMoves DEF LeaveQueue, Unregister, CloseLookup,
         SetDisconnected, DropPresence, CloseAt, redis, Owning, Freeing
    <3> QED BY <3>1, <3>2
  <2>2. SocketInv(s)'
    BY <1>u, <2>1 DEF TabInv, SocketInv
  <2>3. ASSUME lapses = 0 PROVE QuietInv(s)'
    <3>1. Owns(s)' => Owns(s)
      BY <1>u, <2>1 DEF TabInv, SocketInv, Owns, Owning, Freeing
    <3> QED BY <1>u, <2>1, <2>3, <3>1 DEF TabInv, QuietInv
  <2>4. \A t \in Socket \ {s} : Same(t)
    BY <1>u, <1>o, <2>1 DEF Same
  <2> QED BY <1>u, <2>1, <2>2, <2>3, <2>4, TabInvLocal DEF TabInv
<1>2. CASE ForgetSocket(s)
  <2>1. /\ tab' = tab /\ lookup' = lookup \ {s}
        /\ close[s].pc = "forget" /\ close'[s].pc = "free"
    BY <1>2, CloseToMoves DEF ForgetSocket, CloseAt
  <2>2. SocketInv(s)'
    BY <1>u, <2>1 DEF TabInv, SocketInv
  <2>3. ASSUME lapses = 0 PROVE QuietInv(s)'
    BY <1>u, <2>1, <2>2, <2>3 DEF TabInv, SocketInv, QuietInv, Owns, Freeing
  <2>4. \A t \in Socket \ {s} : Same(t)
    BY <1>u, <1>o, <2>1 DEF Same
  <2> QED BY <1>u, <2>1, <2>2, <2>3, <2>4, TabInvLocal DEF TabInv
<1>3. CASE FreeTab(s)
  <2>1. /\ lookup' = lookup /\ close[s].pc = "free" /\ close'[s].pc = "state"
        /\ tab' = tab \/ tab' = [tab EXCEPT ![DeviceOf[s]] = None]
    BY <1>3, CloseToMoves DEF FreeTab, CloseAt
  <2>2. SocketInv(s)'
    BY <1>u, <2>1 DEF TabInv, SocketInv
  <2>3. conn[s] = "closed"
    BY <2>1 DEF TabInv, SocketInv
  <2>4. ASSUME lapses = 0 PROVE QuietInv(s)'
    BY <1>u, <2>1, <2>3 DEF QuietInv, Owns, Freeing, Owning
  (* The lock s deletes is its own, and so is not that of another.         *)
  <2>5. ASSUME lapses = 0, NEW t \in Socket \ {s}, Owns(t) PROVE tab'[DeviceOf[t]] = t
    <3>1. tab[DeviceOf[s]] = s /\ tab[DeviceOf[t]] = t
      BY <2>1, <2>5 DEF TabInv, Owns, Freeing
    <3> QED BY <2>1, <3>1, TabAssumption DEF TypeOK
  <2>6. \A t \in Socket \ {s} : Same(t)
    BY <1>u, <1>o, <2>1 DEF Same
  <2> QED BY <1>u, <2>1, <2>2, <2>4, <2>5, <2>6, TabInvLocal
<1> QED BY <1>1, <1>2, <1>3 DEF CloseStep

LEMMA TabInvClient ==
  ASSUME TypeOK, TabInv, NEW s \in Socket, Connect(s) \/ SocketClose(s)
  PROVE  TabInv'
<1>1. CASE Connect(s)
  <2>1. /\ UNCHANGED <<tab, lookup, current, close, lapses>>
        /\ conn[s] = "none" /\ conn'[s] = "open" /\ init'[s] = "find"
        /\ \A t \in Socket \ {s} : conn'[t] = conn[t] /\ init'[t] = init[t]
    BY <1>1, InitToMoves DEF Connect, redis, TypeOK
  <2>2. SocketInv(s)' /\ s \notin lookup
    BY <2>1 DEF TabInv, SocketInv, Early
  <2>3. ASSUME lapses = 0 PROVE QuietInv(s)'
    BY <2>1, <2>2, <2>3 DEF TabInv, SocketInv, QuietInv, Owns, Locked, Looked, Freeing
  <2>4. \A t \in Socket \ {s} : Same(t)
    BY <2>1 DEF Same
  <2> QED BY <2>1, <2>2, <2>3, <2>4, TabInvLocal DEF TabInv
<1>2. CASE SocketClose(s)
  <2>1. /\ UNCHANGED <<tab, lookup, current, init, lapses>>
        /\ conn[s] \in {"open", "lost", "refused"} /\ conn'[s] = "closed"
        /\ close'[s].pc \in {"leave", "get"}
        /\ \A t \in Socket \ {s} : conn'[t] = conn[t] /\ close'[t] = close[t]
    BY <1>2, CloseToMoves DEF SocketClose, redis, TypeOK
  <2>2. SocketInv(s)'
    BY <2>1 DEF TabInv, SocketInv
  <2>3. ASSUME lapses = 0 PROVE QuietInv(s)'
    <3>1. conn[s] = "refused" => init[s] \notin Locked /\ s \notin lookup
      BY DEF TabInv, SocketInv, Locked, Early
    <3>2. Owns(s)' => Owns(s)
      BY <2>1, <2>3, <3>1 DEF TabInv, Owns, Freeing
    <3> QED BY <2>1, <2>3, <3>2 DEF TabInv, QuietInv
  <2>4. \A t \in Socket \ {s} : Same(t)
    BY <2>1 DEF Same
  <2> QED BY <2>1, <2>2, <2>3, <2>4, TabInvLocal DEF TabInv
<1> QED BY <1>1, <1>2

LEMMA TabInvEnvironment ==
  ASSUME TypeOK, TabInv, Environment
  PROVE  TabInv'
<1>n. lapses \in Nat
  BY DEF TypeOK
<1>1. ASSUME NEW s \in Socket, LoseClient(s) PROVE TabInv'
  <2>1. /\ lapses' # 0
        /\ \A t \in Socket : conn'[t] = IF t = s THEN "lost" ELSE conn[t]
        /\ conn[s] = "open"
    BY <1>1, <1>n DEF LoseClient, Lapse, TypeOK
  <2>2. UNCHANGED <<lookup, current, init, close>>
    BY <1>1 DEF LoseClient, redis
  <2>3. \A t \in Socket : SocketInv(t)'
    BY <2>1, <2>2 DEF TabInv, SocketInv
  <2> QED BY <2>1, <2>3 DEF TabInv
<1>2. ASSUME NEW s \in Socket, ExpireLookup(s) PROVE TabInv'
  <2>1. /\ lookup' = lookup \ {s} /\ UNCHANGED <<conn, tab, current, init, close>>
        /\ lapses' = 0 => /\ lapses = 0 /\ conn[s] = "closed"
                          /\ close[s].pc \notin Closing
    BY <1>2, <1>n DEF ExpireLookup, Lapse
  <2>2. \A t \in Socket : SocketInv(t)'
    BY <2>1 DEF TabInv, SocketInv
  <2>3. ASSUME lapses' = 0, NEW t \in Socket
        PROVE  /\ conn[t] # "lost"
               /\ conn[t] = "open" /\ init[t] \in Looked => t \in lookup'
               /\ Owns(t)' => tab[DeviceOf[t]] = t
    <3>1. Owns(t)' => Owns(t)
      BY <2>1 DEF Owns
    <3> QED BY <2>1, <2>3, <3>1 DEF TabInv
  <2> QED BY <2>1, <2>2, <2>3 DEF TabInv
<1>3. ASSUME NEW d \in Device, ExpireTab(d) PROVE TabInv'
  <2>1. /\ UNCHANGED <<conn, lookup, current, init, close>>
        /\ tab' = [tab EXCEPT ![d] = None] /\ tab[d] # None
        /\ lapses' = 0 => lapses = 0 /\ ~Keeps(tab[d])
    BY <1>3, <1>n DEF ExpireTab, Lapse
  <2>2. \A t \in Socket : SocketInv(t)'
    BY <2>1 DEF TabInv, SocketInv
  <2>3. ASSUME lapses' = 0, NEW t \in Socket
        PROVE  /\ conn[t] # "lost"
               /\ conn[t] = "open" /\ init[t] \in Looked => t \in lookup
               /\ Owns(t)' => tab'[DeviceOf[t]] = t
    <3>1. Owns(t)' = Owns(t)
      BY <2>1 DEF Owns
    <3>2. Owns(t) => Keeps(t)
      BY DEF Owns, Keeps, Closing, ClosePc, Owning, Freeing
    <3>3. Owns(t) => DeviceOf[t] # d
      BY <2>1, <2>3, <3>2 DEF TabInv
    <3> QED BY <2>1, <2>3, <3>1, <3>3, TabAssumption DEF TabInv, TypeOK
  <2> QED BY <2>1, <2>2, <2>3 DEF TabInv
<1>4. ASSUME NEW s \in Socket, InitThrows(s) PROVE TabInv'
  <2>1. /\ UNCHANGED <<conn, tab, lookup, current, close, lapses>>
        /\ init[s] \in Initing /\ init'[s] = "failed"
        /\ \A t \in Socket \ {s} : init'[t] = init[t]
    BY <1>4, InitToMoves DEF InitThrows, redis
  <2>2. SocketInv(s)'
    BY <2>1 DEF TabInv, SocketInv, Early, Initing
  <2>3. ASSUME lapses = 0 PROVE QuietInv(s)'
    BY <2>1, <2>3 DEF TabInv, QuietInv, Owns, Locked, Looked
  <2>4. \A t \in Socket \ {s} : Same(t)
    BY <2>1 DEF Same
  <2> QED BY <2>1, <2>2, <2>3, <2>4, TabInvLocal DEF TabInv
<1>5. ASSUME NEW s \in Socket, CloseThrows(s) PROVE TabInv'
  <2>1. /\ UNCHANGED <<conn, tab, lookup, current, init, lapses>>
        /\ close[s].pc = "leave" /\ close'[s].pc = "unregister"
        /\ \A t \in Socket \ {s} : close'[t] = close[t]
    BY <1>5, CloseToMoves DEF CloseThrows, CloseAt, redis
  <2>2. SocketInv(s)'
    BY <2>1 DEF TabInv, SocketInv
  <2>3. ASSUME lapses = 0 PROVE QuietInv(s)'
    BY <2>1, <2>3 DEF TabInv, QuietInv, Owns, Owning, Freeing
  <2>4. \A t \in Socket \ {s} : Same(t)
    BY <2>1 DEF Same
  <2> QED BY <2>1, <2>2, <2>3, <2>4, TabInvLocal DEF TabInv
<1>6. ASSUME NEW p \in Pod, PodCrash(p) PROVE TabInv'
  <2>1. /\ UNCHANGED <<tab, lookup, lapses>>
        /\ \A t \in Socket :
             \/ Same(t)
             \/ /\ conn'[t] = IF conn[t] = "none" THEN "none" ELSE "closed"
                /\ init'[t] = IF init[t] \in Initing THEN "failed" ELSE init[t]
                /\ close'[t].pc = IF close[t].pc \in Closing THEN "unknown" ELSE close[t].pc
                /\ t \notin current'
    BY <1>6 DEF PodCrash, redis, Same
  <2>2. ASSUME NEW t \in Socket
        PROVE  SocketInv(t)' /\ (lapses = 0 => (Owns(t)' => Owns(t)))
    <3>1. CASE Same(t)
      BY <2>1, <3>1 DEF TabInv, SocketInv, Same, Owns
    <3>2. CASE ~Same(t)
      BY <2>1, <3>2 DEF TabInv, SocketInv, Owns, Early, Initing, InitPc, Closing, ClosePc,
                        Owning, Freeing
    <3> QED BY <3>1, <3>2
  <2>3. ASSUME lapses = 0, NEW t \in Socket PROVE QuietInv(t)'
    BY <2>1, <2>2, <2>3 DEF TabInv, QuietInv, Same
  <2> QED BY <2>1, <2>2, <2>3 DEF TabInv, QuietInv
<1>7. CASE UNCHANGED <<conn, tab, lookup, current, init, close, lapses>>
  BY <1>7 DEF TabInv, SocketInv, Owns
<1> QED BY <1>1, <1>2, <1>3, <1>4, <1>5, <1>6, <1>7
        DEF Environment, ExpireHash, ExpirePresence, BeatThrows, redis

LEMMA TabInvStep == TypeOK /\ TabInv /\ [Next]_vars => TabInv'
<1> SUFFICES ASSUME TypeOK, TabInv, [Next]_vars PROVE TabInv'
  OBVIOUS
<1>1. CASE UNCHANGED <<conn, tab, lookup, current, init, close, lapses>>
  BY <1>1 DEF TabInv, SocketInv, Owns
<1>2. ASSUME NEW s \in Socket, Heartbeat(s) \/ BeatStep(s) PROVE TabInv'
  BY <1>1, <1>2 DEF Heartbeat, BeatStep, redis
<1>3. CASE UNCHANGED vars
  BY <1>1, <1>3 DEF vars, redis
<1> QED BY <1>2, <1>3, TabInvInitStep, TabInvCloseStep, TabInvClient, TabInvEnvironment
        DEF Next

(* An active session owns the lock of its device, which names one socket.  *)
LEMMA TabInvExclusive == TypeOK /\ TabInv => TabExclusive
<1> SUFFICES ASSUME TypeOK, TabInv, lapses = 0,
                    NEW s \in Socket, NEW t \in Socket, s # t,
                    DeviceOf[s] = DeviceOf[t], Active(s), Active(t)
             PROVE  FALSE
  BY DEF TabExclusive, OneActiveTab
<1>1. ASSUME NEW u \in Socket, Active(u) PROVE tab[DeviceOf[u]] = u
  BY <1>1 DEF TabInv, SocketInv, Active, Owns, Looked
<1> QED BY <1>1

(* Two tabs of a device are never both at work, whatever fails or crashes, *)
(* while no client vanishes unnoticed, no socket outlives its lookup key   *)
(* and no lock runs out in use.                                            *)
THEOREM OneTabAtWork == Spec => []TabExclusive
<1> DEFINE Inv == TypeOK /\ TabInv
<1>1. Init => Inv
  BY TabTypeInit, TabInvInit
<1>2. Inv /\ [Next]_vars => Inv'
  BY TabTypeStep, TabInvStep
<1>3. Inv => TabExclusive
  BY TabInvExclusive
<1> QED BY <1>1, <1>2, <1>3, PTL DEF Spec

(***************************************************************************)
(* What a finished close leaves.  The lock a close handler deletes is that *)
(* of its own device as long as the HASH names the device, which it does   *)
(* from before the lookup key is set until after it is gone; and an init   *)
(* whose lookup key was found has its writes behind it.                    *)
(***************************************************************************)
Past      == {"presence", "register", "ready", "failed"}
After     == {"fields", "forget", "free", "state", "presence", "done"}
Stored(s) == s \in lookup \/ init[s] = "lookup"

ForgotInv(s) ==
  /\ Stored(s) => hash[s].dev
  /\ s \in lookup \/ close[s].pc \in After => init[s] \in Past
  /\ close[s].pc \in {"fields", "forget"} => s \in lookup
  /\ close[s].pc \in {"forget", "free"} => close[s].tab
  /\ close[s].pc \in {"free", "state", "presence", "done"} => s \notin lookup
  /\ close[s].pc \in {"state", "presence", "done"} => tab[DeviceOf[s]] # s
  /\ close[s].pc \in {"presence", "done"} => hash[s].at # "ready"

AllForgot == lapses = 0 => \A s \in Socket : ForgotInv(s)

(* What a step does that sets none of the keys of s anew.                  *)
Forgets(s) ==
  /\ Stored(s)' => Stored(s) /\ (hash[s].dev => hash'[s].dev)
  /\ init[s] \in Past => init'[s] \in Past
  /\ s \in lookup' => s \in lookup
  /\ \/ close'[s].pc \notin After
     \/ /\ close'[s] = close[s]
        /\ s \in lookup /\ close[s].pc \in {"fields", "forget"} => s \in lookup'
        /\ tab'[DeviceOf[s]] = s => tab[DeviceOf[s]] = s
        /\ hash'[s].at = "ready" => hash[s].at = "ready"

LEMMA ForgetsOK ==
  ASSUME NEW s \in Socket, ForgotInv(s), Forgets(s)
  PROVE  ForgotInv(s)'
<1>1. CASE close'[s].pc \notin After
  BY <1>1 DEF ForgotInv, Forgets, After
<1>2. CASE close'[s].pc \in After
  BY <1>2 DEF ForgotInv, Forgets, After
<1> QED BY <1>1, <1>2

LEMMA ForgotFromInit ==
  ASSUME TypeOK, NEW s \in Socket, InitStep(s), \A t \in Socket : ForgotInv(t),
         NEW t \in Socket
  PROVE  ForgotInv(t)'
<1>u. UNCHANGED <<close, lapses>>
  BY DEF InitStep
<1>o. \A v \in Socket \ {s} : init'[v] = init[v]
  BY InitToMoves DEF InitStep, FindDevice, InsertDevice, TouchDevice, InsertSession,
     LockTab, StoreSession, StoreLookup, StorePresence, Register
<1>h. \A v \in Socket \ {s} : hash'[v] = hash[v] /\ (v \in lookup' <=> v \in lookup)
  BY DEF InitStep, FindDevice, InsertDevice, TouchDevice, InsertSession, LockTab,
     StoreSession, StoreLookup, StorePresence, Register, redis, TypeOK
<1>l. \A v \in Socket \ {s} : tab'[DeviceOf[v]] = v => tab[DeviceOf[v]] = v
  <2>1. tab' = tab \/ tab' = [tab EXCEPT ![DeviceOf[s]] = s]
    BY DEF InitStep, FindDevice, InsertDevice, TouchDevice, InsertSession, LockTab, TabOwner,
       StoreSession, StoreLookup, StorePresence, Register, redis
  <2> QED BY <2>1, TabAssumption DEF TypeOK
<1>1. CASE t # s
  <2>1. Forgets(t)
    BY <1>u, <1>o, <1>h, <1>l, <1>1 DEF Forgets, Stored
  <2> QED BY <2>1, ForgetsOK
<1>2. CASE t = s
  <2>1. CASE FindDevice(s) \/ InsertDevice(s) \/ TouchDevice(s) \/ InsertSession(s)
    <3>1. /\ UNCHANGED <<tab, hash, lookup>> /\ init[s] \notin Past
          /\ init'[s] # "lookup"
      BY <2>1, InitToMoves DEF FindDevice, InsertDevice, TouchDevice, InsertSession, InitAt,
         redis, Past
    <3>2. Forgets(s)
      BY <1>u, <3>1 DEF Forgets, Stored
    <3> QED BY <1>2, <3>2, ForgetsOK
  <2>2. CASE StorePresence(s) \/ Register(s)
    <3>1. /\ UNCHANGED <<tab, hash, lookup>> /\ init'[s] \in Past /\ init'[s] # "lookup"
      BY <2>2, InitToMoves DEF StorePresence, Register, InitAt, redis, Past
    <3>2. Forgets(s)
      BY <1>u, <3>1 DEF Forgets, Stored
    <3> QED BY <1>2, <3>2, ForgetsOK
  <2>3. CASE LockTab(s)
    <3>1. /\ UNCHANGED <<hash, lookup>> /\ init[s] = "lock" /\ init'[s] # "lookup"
      BY <2>3, InitToMoves DEF LockTab, InitAt
    <3> QED BY <1>u, <1>2, <3>1 DEF ForgotInv, Stored, Past, After
  <2>4. CASE StoreSession(s)
    <3>1. /\ UNCHANGED <<tab, lookup>> /\ init[s] = "hash" /\ hash'[s].dev
      BY <2>4 DEF StoreSession, InitAt, TypeOK
    <3> QED BY <1>u, <1>2, <3>1 DEF ForgotInv, Stored, Past, After
  <2>5. CASE StoreLookup(s)
    <3>1. /\ UNCHANGED <<tab, hash>> /\ init[s] = "lookup" /\ init'[s] = "presence"
      BY <2>5, InitToMoves DEF StoreLookup, InitAt
    <3> QED BY <1>u, <1>2, <3>1 DEF ForgotInv, Stored, Past, After
  <2> QED BY <2>1, <2>2, <2>3, <2>4, <2>5 DEF InitStep
<1> QED BY <1>1, <1>2

LEMMA ForgotFromClose ==
  ASSUME TypeOK, NEW s \in Socket, CloseStep(s), \A t \in Socket : ForgotInv(t),
         NEW t \in Socket
  PROVE  ForgotInv(t)'
<1>u. UNCHANGED init
  BY DEF CloseStep
<1>o. \A v \in Socket \ {s} : close'[v] = close[v]
  <2>1. CASE CloseFields(s)
    BY <2>1 DEF CloseFields, TypeOK
  <2>2. CASE ~CloseFields(s)
    BY <2>2, CloseToMoves DEF CloseStep, LeaveQueue, Unregister, CloseLookup,
       ForgetSocket, FreeTab, SetDisconnected, DropPresence
  <2> QED BY <2>1, <2>2
<1>h. \A v \in Socket \ {s} : hash'[v] = hash[v] /\ (v \in lookup' <=> v \in lookup)
  BY DEF CloseStep, LeaveQueue, Unregister, CloseLookup, CloseFields, ForgetSocket, FreeTab,
     SetDisconnected, DropPresence, HSet, redis, TypeOK
<1>l. \A v \in Socket : tab'[DeviceOf[v]] = v => tab[DeviceOf[v]] = v
  <2>1. tab' = tab \/ tab' = [tab EXCEPT ![DeviceOf[s]] = None]
    BY DEF CloseStep, LeaveQueue, Unregister, CloseLookup, CloseFields, ForgetSocket,
       FreeTab, SetDisconnected, DropPresence, redis
  <2> QED BY <2>1, TabAssumption DEF TypeOK
<1>1. CASE t # s
  <2>1. Forgets(t)
    BY <1>u, <1>o, <1>h, <1>l, <1>1 DEF Forgets, Stored
  <2> QED BY <2>1, ForgetsOK
<1>2. CASE t = s
  <2>1. CASE \/ LeaveQueue(s) \/ Unregister(s) \/ (CloseLookup(s) /\ s \notin lookup)
    <3>1. close'[s].pc \notin After /\ lookup' = lookup /\ hash'[s].dev = hash[s].dev
      BY <2>1, CloseToMoves DEF LeaveQueue, Unregister, CloseLookup, HSet, redis, After,
         TypeOK, Hash
    <3>2. Forgets(s)
      BY <1>u, <3>1 DEF Forgets, Stored
    <3> QED BY <1>2, <3>2, ForgetsOK
  <2>2. CASE CloseLookup(s) /\ s \in lookup
    <3>1. UNCHANGED <<tab, hash, lookup>> /\ close'[s].pc = "fields"
      BY <2>2, CloseToMoves DEF CloseLookup, redis
    <3> QED BY <1>u, <1>2, <2>2, <3>1 DEF ForgotInv, Stored, After
  <2>3. CASE CloseFields(s)
    <3>1. /\ UNCHANGED <<tab, hash, lookup>> /\ close[s].pc = "fields"
          /\ close'[s].pc = "forget" /\ close'[s].tab = hash[s].dev
      BY <2>3 DEF CloseFields, CloseAt, redis, TypeOK
    <3> QED BY <1>u, <1>2, <3>1 DEF ForgotInv, Stored, After
  <2>4. CASE ForgetSocket(s)
    <3>1. /\ UNCHANGED <<tab, hash>> /\ lookup' = lookup \ {s} /\ close[s].pc = "forget"
          /\ close'[s].pc = "free" /\ close'[s].tab = close[s].tab
      BY <2>4 DEF ForgetSocket, CloseAt, CloseTo, TypeOK
    <3> QED BY <1>u, <1>2, <3>1 DEF ForgotInv, Stored, After
  <2>5. CASE FreeTab(s)
    <3>1. UNCHANGED <<hash, lookup>> /\ close[s].pc = "free" /\ close'[s].pc = "state"
      BY <2>5, CloseToMoves DEF FreeTab, CloseAt
    <3>2. tab'[DeviceOf[s]] # s
      <4>1. tab' = [tab EXCEPT ![DeviceOf[s]] = None]
        BY <2>5, <3>1 DEF FreeTab, ForgotInv
      <4> QED BY <4>1, TabAssumption DEF TypeOK
    <3> QED BY <1>u, <1>2, <3>1, <3>2 DEF ForgotInv, Stored, After
  <2>6. CASE SetDisconnected(s) \/ DropPresence(s)
    <3>1. /\ UNCHANGED <<tab, lookup>> /\ hash'[s].dev = hash[s].dev
          /\ \/ /\ close[s].pc = "state" /\ close'[s].pc = "presence"
                /\ hash'[s].at = "disconnected"
             \/ /\ close[s].pc = "presence" /\ close'[s].pc = "done" /\ hash' = hash
      BY <2>6, CloseToMoves DEF SetDisconnected, DropPresence, CloseAt, HSet, TypeOK, Hash
    <3> QED BY <1>u, <1>2, <3>1 DEF ForgotInv, Stored, After
  <2> QED BY <2>1, <2>2, <2>3, <2>4, <2>5, <2>6 DEF CloseStep
<1> QED BY <1>1, <1>2

LEMMA ForgotFromClient ==
  ASSUME TypeOK, TabInv, NEW s \in Socket,
         Connect(s) \/ SocketClose(s) \/ Heartbeat(s) \/ BeatStep(s),
         NEW t \in Socket, ForgotInv(t)
  PROVE  ForgotInv(t)'
<1>1. CASE Connect(s)
  <2>1. /\ UNCHANGED <<tab, hash, lookup, close>> /\ init[s] = "idle" /\ init'[s] = "find"
        /\ \A v \in Socket \ {s} : init'[v] = init[v]
    BY <1>1, InitToMoves DEF Connect, redis, TabInv, SocketInv
  <2>2. Forgets(t)
    BY <2>1 DEF Forgets, Stored, Past
  <2> QED BY <2>2, ForgetsOK
<1>2. CASE SocketClose(s)
  <2>1. /\ UNCHANGED <<tab, hash, lookup, init>> /\ close'[s].pc \notin After
        /\ \A v \in Socket \ {s} : close'[v] = close[v]
    BY <1>2, CloseToMoves DEF SocketClose, redis, After
  <2>2. Forgets(t)
    BY <2>1 DEF Forgets, Stored
  <2> QED BY <2>2, ForgetsOK
<1>3. CASE Heartbeat(s) \/ BeatStep(s)
  <2>1. UNCHANGED <<tab, lookup, init, close>>
    BY <1>3 DEF Heartbeat, BeatStep, redis
  <2>2. /\ hash[t].dev => hash'[t].dev
        /\ hash'[t].at = "ready" => hash[t].at = "ready"
    <3>1. CASE BeatSeen(s)
      BY <3>1 DEF BeatSeen, TypeOK, Hash
    <3>2. CASE hash' = hash
      BY <3>2
    <3> QED BY <1>3, <3>1, <3>2 DEF Heartbeat, BeatStep, BeatLookup, BeatFields,
                                    BeatPresence, BeatTab, redis
  <2>3. Forgets(t)
    BY <2>1, <2>2 DEF Forgets, Stored
  <2> QED BY <2>3, ForgetsOK
<1> QED BY <1>1, <1>2, <1>3

LEMMA ForgotFromEnvironment ==
  ASSUME TypeOK, Environment, lapses' = 0, NEW t \in Socket, ForgotInv(t)
  PROVE  ForgotInv(t)'
<1>n. lapses \in Nat
  BY DEF TypeOK
<1>1. ASSUME NEW s \in Socket, ExpireLookup(s) PROVE Forgets(t)
  <2>1. /\ lookup' = lookup \ {s} /\ UNCHANGED <<tab, hash, init, close>>
        /\ close[s].pc \notin Closing
    BY <1>1, <1>n DEF ExpireLookup, Lapse
  <2>2. close[s].pc \notin {"fields", "forget"}
    BY <2>1 DEF Closing, ClosePc
  <2> QED BY <2>1, <2>2 DEF Forgets, Stored
<1>2. ASSUME NEW d \in Device, ExpireTab(d) PROVE Forgets(t)
  <2>1. /\ UNCHANGED <<hash, lookup, init, close>> /\ tab' = [tab EXCEPT ![d] = None]
    BY <1>2 DEF ExpireTab
  <2>2. tab'[DeviceOf[t]] = t => tab[DeviceOf[t]] = t
    BY <2>1, TabAssumption DEF TypeOK
  <2> QED BY <2>1, <2>2 DEF Forgets, Stored
<1>3. ASSUME NEW s \in Socket, ExpireHash(s) PROVE Forgets(t)
  <2>1. /\ UNCHANGED <<tab, lookup, init, close>> /\ s \notin lookup
        /\ init[s] \notin Locked /\ hash' = [hash EXCEPT ![s] = NoHash]
    BY <1>3 DEF ExpireHash
  <2>2. t # s => hash'[t] = hash[t]
    BY <2>1 DEF TypeOK
  <2>3. t = s => ~Stored(t)' /\ hash'[t].at # "ready"
    BY <2>1 DEF Stored, Locked, NoHash, TypeOK
  <2> QED BY <2>1, <2>2, <2>3 DEF Forgets, Stored
<1>4. ASSUME NEW s \in Socket, InitThrows(s) PROVE Forgets(t)
  <2>1. /\ UNCHANGED <<tab, hash, lookup, close>> /\ init'[s] = "failed"
        /\ \A v \in Socket \ {s} : init'[v] = init[v]
    BY <1>4, InitToMoves DEF InitThrows, redis
  <2> QED BY <2>1 DEF Forgets, Stored, Past
<1>5. ASSUME NEW s \in Socket, CloseThrows(s) PROVE Forgets(t)
  <2>1. /\ UNCHANGED <<tab, hash, lookup, init>> /\ close'[s].pc = "unregister"
        /\ \A v \in Socket \ {s} : close'[v] = close[v]
    BY <1>5, CloseToMoves DEF CloseThrows, redis
  <2> QED BY <2>1 DEF Forgets, Stored, After
<1>6. ASSUME NEW p \in Pod, PodCrash(p) PROVE Forgets(t)
  <2>1. /\ UNCHANGED <<tab, hash, lookup>>
        /\ init'[t] \in {init[t], "failed"}
        /\ close'[t] = close[t] \/ close'[t].pc = "unknown"
    BY <1>6 DEF PodCrash, redis
  <2> QED BY <2>1 DEF Forgets, Stored, Past, After
<1>7. ASSUME UNCHANGED <<tab, hash, lookup, init, close>> PROVE Forgets(t)
  BY <1>7 DEF Forgets, Stored
<1>8. ASSUME NEW s \in Socket, LoseClient(s) \/ ExpirePresence(s) \/ BeatThrows(s)
      PROVE  Forgets(t)
  BY <1>7, <1>8 DEF LoseClient, ExpirePresence, BeatThrows, redis
<1>9. Forgets(t)
  BY <1>1, <1>2, <1>3, <1>4, <1>5, <1>6, <1>8 DEF Environment
<1> QED BY <1>9, ForgetsOK

LEMMA AllForgotInit == Init => AllForgot
BY DEF Init, AllForgot, ForgotInv, Stored, After, NoHash

LEMMA AllForgotStep == TypeOK /\ TabInv /\ AllForgot /\ [Next]_vars => AllForgot'
<1> SUFFICES ASSUME TypeOK, TabInv, AllForgot, [Next]_vars, lapses' = 0, NEW t \in Socket
             PROVE  ForgotInv(t)'
  BY DEF AllForgot
<1>1. lapses = 0
  <2>1. lapses \in Nat /\ (lapses' = lapses \/ lapses' = lapses + 1)
    BY DEF TypeOK, Next, vars, Connect, Heartbeat, SocketClose, InitStep, BeatStep, CloseStep,
           Environment, LoseClient, ExpireLookup, ExpireTab, ExpireHash, ExpirePresence,
           InitThrows, BeatThrows, CloseThrows, PodCrash, Lapse
  <2> QED BY <2>1
<1>2. \A s \in Socket : ForgotInv(s)
  BY <1>1 DEF AllForgot
<1>3. CASE UNCHANGED vars
  BY <1>2, <1>3 DEF vars, redis, ForgotInv, Stored
<1> QED BY <1>2, <1>3, ForgotFromInit, ForgotFromClose, ForgotFromClient,
           ForgotFromEnvironment DEF Next

(* A close handler that found its lookup key leaves no lock, no lookup key *)
(* and no ready HASH, whatever of its init or its heartbeats runs between  *)
(* its commands: see ClosedForgotten, also for what it leaves out.         *)
THEOREM ClosedForgottenAlways == Spec => []ClosedForgotten
<1> DEFINE Inv == TypeOK /\ TabInv /\ AllForgot
<1>1. Init => Inv
  BY TabTypeInit, TabInvInit, AllForgotInit
<1>2. Inv /\ [Next]_vars => Inv'
  BY TabTypeStep, TabInvStep, AllForgotStep
<1>3. Inv => ClosedForgotten
  BY DEF AllForgot, ForgotInv, ClosedForgotten
<1> QED BY <1>1, <1>2, <1>3, PTL DEF Spec
=============================================================================
