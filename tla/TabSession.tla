----------------------------- MODULE TabSession -----------------------------
(***************************************************************************)
(* The life of a WebSocket on the server: session:init, the heartbeats,    *)
(* the close handler, and the Redis keys they share.  The key              *)
(* tab:device:<device> is to keep a device to one session at a time        *)
(* (SessionService, routes/websocket.ts, PubSubService).                   *)
(*                                                                         *)
(* One Redis or database command is one step, with the code that led to it *)
(* since the command before.  A client sends session:init once per socket, *)
(* so a session is named by its socket.  What the close handler does about *)
(* the queue and the match is module Matchmaking; here it is one step.     *)
(***************************************************************************)
EXTENDS Naturals, FiniteSets

CONSTANTS
  Socket,         \* WebSocket connections, each opened once
  Device,         \* device tokens: one per browser profile
  DeviceOf,       \* the device a socket belongs to
  Pod,            \* server processes
  Home,           \* the pod a socket is connected to
  None,           \* no socket
  Lapses,         \* what may lapse: "loss", "age", "stall", see Lapse
  MaxLapses,      \* bound: lapses
  MaxFaults,      \* bound: failed commands and pod crashes
  MaxBeats        \* bound: heartbeats

ASSUME TabAssumption ==
  /\ None \notin Socket
  /\ DeviceOf \in [Socket -> Device]
  /\ Home \in [Socket -> Pod]
  /\ MaxLapses \in Nat /\ MaxFaults \in Nat /\ MaxBeats \in Nat

VARIABLES
  conn,           \* the connection, as the server's and the client's end see it
  known,          \* devices with a row in anonymous_devices
  rows,           \* sockets with a row in the table sessions
  tab,            \* key tab:device:<device>: the socket it names
  hash,           \* HASH session:<session>
  lookup,         \* sockets whose key session:socket:<socket> exists
  presence,       \* sessions whose key presence:<session> exists
  current,        \* sockets whose currentSessionId is set
  registered,     \* sessions in activeSockets, and their channel subscribed
  init,           \* the session:init handler of a socket
  beat,           \* its heartbeat handler
  close,          \* its close handler
  lapses, faults, beats

redis == <<tab, hash, lookup, presence>>
vars == <<conn, known, rows, redis, current, registered, init, beat, close,
          lapses, faults, beats>>

(* open: both ends; lost: the client is gone and the server has not        *)
(* noticed; refused: the server sent its close frame.                      *)
Conn == {"none", "open", "lost", "refused", "closed"}

(* at: the state the HASH tells, "blank" when it has no such field; dev:    *)
(* it names the device; ttl: it runs out.  HSET on a key that ran out makes *)
(* a new one with neither.                                                 *)
Hash == [at : {"none", "blank", "ready", "disconnected"}, dev : BOOLEAN,
         ttl : BOOLEAN]
NoHash == [at |-> "none", dev |-> FALSE, ttl |-> FALSE]
HSet(s, at) == hash' = [hash EXCEPT ![s].at = at]

(* The handlers, at the command they are about to run.                     *)
InitPc  == {"idle", "find", "insert", "touch", "record", "lock", "hash",
            "lookup", "presence", "register", "ready", "refused", "failed"}
BeatPc  == {"idle", "get", "fields", "presence", "tab", "seen"}
ClosePc == {"idle", "leave", "unregister", "get", "fields", "forget", "free",
            "state", "presence", "done", "unknown"}

Init ==
  /\ conn = [s \in Socket |-> "none"]
  /\ known \in SUBSET Device
  /\ rows = {}
  /\ tab = [d \in Device |-> None]
  /\ hash = [s \in Socket |-> NoHash]
  /\ lookup = {} /\ presence = {} /\ current = {} /\ registered = {}
  /\ init = [s \in Socket |-> "idle"]
  /\ beat = [s \in Socket |-> [pc |-> "idle", tab |-> FALSE]]
  /\ close = [s \in Socket |-> [pc |-> "idle", tab |-> FALSE]]
  /\ lapses = 0 /\ faults = 0 /\ beats = 0

(***************************************************************************)
(* session:init: initSession, then the rest of its case in the message     *)
(* handler.                                                                *)
(***************************************************************************)
InitAt(s, pc) == init[s] = pc
InitTo(s, pc) == init' = [init EXCEPT ![s] = pc]

(* The client opens a socket and sends session:init.                       *)
Connect(s) ==
  /\ conn[s] = "none"
  /\ conn' = [conn EXCEPT ![s] = "open"]
  /\ InitTo(s, "find")
  /\ UNCHANGED <<known, rows, redis, current, registered, beat, close, lapses,
                 faults, beats>>

FindDevice(s) ==
  /\ InitAt(s, "find")
  /\ InitTo(s, IF DeviceOf[s] \in known THEN "touch" ELSE "insert")
  /\ UNCHANGED <<conn, known, rows, redis, current, registered>>

(* device_token is unique: of two tabs of a new device one throws, and is  *)
(* sent INTERNAL_ERROR and left open.                                      *)
InsertDevice(s) ==
  /\ InitAt(s, "insert")
  /\ known' = known \cup {DeviceOf[s]}
  /\ InitTo(s, IF DeviceOf[s] \in known THEN "failed" ELSE "record")
  /\ UNCHANGED <<conn, rows, redis, current, registered>>

TouchDevice(s) ==
  /\ InitAt(s, "touch")
  /\ InitTo(s, "record")
  /\ UNCHANGED <<conn, known, rows, redis, current, registered>>

InsertSession(s) ==
  /\ InitAt(s, "record")
  /\ rows' = rows \cup {s}
  /\ InitTo(s, "lock")
  /\ UNCHANGED <<conn, known, redis, current, registered>>

(* Mutant of TabFree: SET without NX.                                      *)
TabAlwaysFree(s) == TRUE

TabFree(s) == tab[DeviceOf[s]] = None

(* Mutant of TabOwner: the lock is named after the device it is for.       *)
TabOwnerDevice(s) == DeviceOf[s]

TabOwner(s) == s

(* SET NX EX 60; without the lock the socket is closed with 4001.          *)
LockTab(s) ==
  /\ InitAt(s, "lock")
  /\ IF TabFree(s)
     THEN /\ tab' = [tab EXCEPT ![DeviceOf[s]] = TabOwner(s)]
          /\ InitTo(s, "hash")
          /\ conn' = conn
     ELSE /\ tab' = tab
          /\ InitTo(s, "refused")
          /\ conn' = [conn EXCEPT ![s] = IF @ = "open" THEN "refused" ELSE @]
  /\ UNCHANGED <<known, rows, hash, lookup, presence, current, registered>>

(* HSET, then EXPIRE 1800.                                                 *)
StoreSession(s) ==
  /\ InitAt(s, "hash")
  /\ hash' = [hash EXCEPT ![s] = [at |-> "ready", dev |-> TRUE, ttl |-> TRUE]]
  /\ InitTo(s, "lookup")
  /\ UNCHANGED <<conn, known, rows, tab, lookup, presence, current, registered>>

StoreLookup(s) ==
  /\ InitAt(s, "lookup")
  /\ lookup' = lookup \cup {s}
  /\ InitTo(s, "presence")
  /\ UNCHANGED <<conn, known, rows, tab, hash, presence, current, registered>>

StorePresence(s) ==
  /\ InitAt(s, "presence")
  /\ presence' = presence \cup {s}
  /\ InitTo(s, "register")
  /\ UNCHANGED <<conn, known, rows, tab, hash, lookup, current, registered>>

(* Nothing here asks whether the socket is still open.                     *)
Register(s) ==
  /\ InitAt(s, "register")
  /\ current' = current \cup {s}
  /\ registered' = registered \cup {s}
  /\ InitTo(s, "ready")
  /\ UNCHANGED <<conn, known, rows, redis>>

InitStep(s) ==
  /\ \/ FindDevice(s) \/ InsertDevice(s) \/ TouchDevice(s) \/ InsertSession(s)
     \/ LockTab(s) \/ StoreSession(s) \/ StoreLookup(s) \/ StorePresence(s)
     \/ Register(s)
  /\ UNCHANGED <<beat, close, lapses, faults, beats>>

(***************************************************************************)
(* heartbeat: processHeartbeat.  The client beats from the open on, whether *)
(* its session is ready or not.                                            *)
(***************************************************************************)
BeatAt(s, pc) == beat[s].pc = pc
BeatTo(s, pc) == beat' = [beat EXCEPT ![s].pc = pc]

Heartbeat(s) ==
  /\ conn[s] = "open" /\ BeatAt(s, "idle")
  /\ beats < MaxBeats /\ beats' = beats + 1
  /\ BeatTo(s, "get")
  /\ UNCHANGED <<conn, known, rows, redis, current, registered, init, close,
                 lapses, faults>>

BeatLookup(s) ==
  /\ BeatAt(s, "get")
  /\ BeatTo(s, IF s \in lookup THEN "fields" ELSE "idle")
  /\ UNCHANGED <<hash, presence>>

(* Without a device the lock to refresh is tab:session:<session>, which    *)
(* no one holds.                                                           *)
BeatFields(s) ==
  /\ BeatAt(s, "fields")
  /\ beat' = [beat EXCEPT ![s] = [pc |-> "presence", tab |-> hash[s].dev]]
  /\ UNCHANGED <<hash, presence>>

BeatPresence(s) ==
  /\ BeatAt(s, "presence")
  /\ presence' = presence \cup {s}
  /\ BeatTo(s, "tab")
  /\ UNCHANGED hash

(* EXPIRE 60 puts the expiry of the lock off, whoever holds it.            *)
BeatTab(s) ==
  /\ BeatAt(s, "tab")
  /\ BeatTo(s, "seen")
  /\ UNCHANGED <<hash, presence>>

(* HSET lastSeenAt, then EXPIRE 1800.                                      *)
BeatSeen(s) ==
  /\ BeatAt(s, "seen")
  /\ LET at == IF hash[s].at = "none" THEN "blank" ELSE hash[s].at
     IN  hash' = [hash EXCEPT ![s] = [@ EXCEPT !.at = at, !.ttl = TRUE]]
  /\ BeatTo(s, "idle")
  /\ UNCHANGED presence

BeatStep(s) ==
  /\ \/ BeatLookup(s) \/ BeatFields(s) \/ BeatPresence(s) \/ BeatTab(s)
     \/ BeatSeen(s)
  /\ UNCHANGED <<conn, known, rows, tab, lookup, current, registered, init,
                 close, lapses, faults, beats>>

(***************************************************************************)
(* The close handler: leaveQueue and skipMatch, unregisterSessionSocket,   *)
(* then handleDisconnect.                                                  *)
(***************************************************************************)
CloseAt(s, pc) == close[s].pc = pc
CloseTo(s, pc) == close' = [close EXCEPT ![s].pc = pc]

(* currentSessionId is tested when the event arrives.                      *)
SocketClose(s) ==
  /\ conn[s] \in {"open", "lost", "refused"}
  /\ conn' = [conn EXCEPT ![s] = "closed"]
  /\ CloseTo(s, IF s \in current THEN "leave" ELSE "get")
  /\ UNCHANGED <<known, rows, redis, current, registered, init, beat, lapses,
                 faults, beats>>

LeaveQueue(s) ==
  /\ CloseAt(s, "leave")
  /\ HSet(s, "ready")
  /\ CloseTo(s, "unregister")
  /\ UNCHANGED <<tab, lookup, presence, registered>>

Unregister(s) ==
  /\ CloseAt(s, "unregister")
  /\ registered' = registered \ {s}
  /\ CloseTo(s, "get")
  /\ UNCHANGED redis

CloseLookup(s) ==
  /\ CloseAt(s, "get")
  /\ CloseTo(s, IF s \in lookup THEN "fields" ELSE "unknown")
  /\ UNCHANGED <<redis, registered>>

CloseFields(s) ==
  /\ CloseAt(s, "fields")
  /\ close' = [close EXCEPT ![s] = [pc |-> "forget", tab |-> hash[s].dev]]
  /\ UNCHANGED <<redis, registered>>

ForgetSocket(s) ==
  /\ CloseAt(s, "forget")
  /\ lookup' = lookup \ {s}
  /\ CloseTo(s, "free")
  /\ UNCHANGED <<tab, hash, presence, registered>>

(* Mutant of FreeTab: the lock is left to run out.                         *)
FreeTabNever(s) ==
  /\ CloseAt(s, "free")
  /\ CloseTo(s, "state")
  /\ UNCHANGED <<redis, registered>>

(* DEL of the lock, whichever socket it names by now.                      *)
FreeTab(s) ==
  /\ CloseAt(s, "free")
  /\ tab' = IF close[s].tab THEN [tab EXCEPT ![DeviceOf[s]] = None] ELSE tab
  /\ CloseTo(s, "state")
  /\ UNCHANGED <<hash, lookup, presence, registered>>

SetDisconnected(s) ==
  /\ CloseAt(s, "state")
  /\ HSet(s, "disconnected")
  /\ CloseTo(s, "presence")
  /\ UNCHANGED <<tab, lookup, presence, registered>>

DropPresence(s) ==
  /\ CloseAt(s, "presence")
  /\ presence' = presence \ {s}
  /\ CloseTo(s, "done")
  /\ UNCHANGED <<tab, hash, lookup, registered>>

CloseStep(s) ==
  /\ \/ LeaveQueue(s) \/ Unregister(s) \/ CloseLookup(s) \/ CloseFields(s)
     \/ ForgetSocket(s) \/ FreeTab(s) \/ SetDisconnected(s) \/ DropPresence(s)
  /\ UNCHANGED <<conn, known, rows, current, init, beat, lapses, faults, beats>>

(***************************************************************************)
(* The environment: connections that go quiet, keys that run out, commands *)
(* that fail, pods that crash.                                             *)
(***************************************************************************)
Locked  == {"hash", "lookup", "presence", "register"}
Initing == InitPc \ {"idle", "ready", "refused", "failed"}
Closing == ClosePc \ {"idle", "done", "unknown"}

(* s is at work on the lock of its device or its client refreshes it.      *)
Keeps(s) ==
  \/ init[s] \in Locked
  \/ conn[s] = "open" /\ s \in lookup
  \/ close[s].pc \in Closing

(* loss: a client that is gone unnoticed (the server sends no ping, and    *)
(* has no heartbeat timeout); age: a socket older than the 30 minutes of   *)
(* its lookup key; stall: a lock whose 60 s run out in use.                *)
Lapse(kind) == kind \in Lapses /\ lapses < MaxLapses /\ lapses' = lapses + 1

LoseClient(s) ==
  /\ conn[s] = "open"
  /\ Lapse("loss")
  /\ conn' = [conn EXCEPT ![s] = "lost"]
  /\ UNCHANGED <<known, rows, redis, current, registered, init, beat, close,
                 faults, beats>>

(* No heartbeat refreshes session:socket:<socket>.                         *)
ExpireLookup(s) ==
  /\ s \in lookup
  /\ IF conn[s] # "closed" \/ close[s].pc \in Closing \/ init[s] \in Locked
     THEN Lapse("age") ELSE lapses' = lapses
  /\ lookup' = lookup \ {s}
  /\ UNCHANGED <<conn, known, rows, tab, hash, presence, current, registered,
                 init, beat, close, faults, beats>>

ExpireTab(d) ==
  /\ tab[d] # None
  /\ IF Keeps(tab[d]) THEN Lapse("stall") ELSE lapses' = lapses
  /\ tab' = [tab EXCEPT ![d] = None]
  /\ UNCHANGED <<conn, known, rows, hash, lookup, presence, current, registered,
                 init, beat, close, faults, beats>>

(* The HASH outlives the lookup key, which is set right after it.          *)
ExpireHash(s) ==
  /\ hash[s].ttl
  /\ s \notin lookup /\ init[s] \notin Locked
  /\ hash' = [hash EXCEPT ![s] = NoHash]
  /\ UNCHANGED <<conn, known, rows, tab, lookup, presence, current, registered,
                 init, beat, close, lapses, faults, beats>>

ExpirePresence(s) ==
  /\ s \in presence
  /\ presence' = presence \ {s}
  /\ UNCHANGED <<conn, known, rows, tab, hash, lookup, current, registered,
                 init, beat, close, lapses, faults, beats>>

Fault == faults < MaxFaults /\ faults' = faults + 1

(* INTERNAL_ERROR is sent, the socket stays open.                          *)
InitThrows(s) ==
  /\ Fault
  /\ init[s] \in Initing
  /\ InitTo(s, "failed")
  /\ UNCHANGED <<conn, known, rows, redis, current, registered, beat, close,
                 lapses, beats>>

BeatThrows(s) ==
  /\ Fault
  /\ ~BeatAt(s, "idle")
  /\ BeatTo(s, "idle")
  /\ UNCHANGED <<conn, known, rows, redis, current, registered, init, close,
                 lapses, beats>>

(* Only the part about the queue and the match is caught; see PodCrash.    *)
CloseThrows(s) ==
  /\ Fault
  /\ CloseAt(s, "leave")
  /\ CloseTo(s, "unregister")
  /\ UNCHANGED <<conn, known, rows, redis, current, registered, init, beat,
                 lapses, beats>>

(* A pod dies, of itself or of a throw in its close handler: its sockets   *)
(* go, and no handler of theirs runs on.                                   *)
PodCrash(p) ==
  /\ Fault
  /\ LET here(s) == Home[s] = p
     IN  /\ conn' = [s \in Socket |->
                       IF here(s) /\ conn[s] # "none" THEN "closed" ELSE conn[s]]
         /\ init' = [s \in Socket |->
                       IF here(s) /\ init[s] \in Initing THEN "failed" ELSE init[s]]
         /\ beat' = [s \in Socket |->
                       IF here(s) THEN [pc |-> "idle", tab |-> FALSE] ELSE beat[s]]
         /\ close' = [s \in Socket |->
                       IF here(s) /\ close[s].pc \in Closing
                       THEN [pc |-> "unknown", tab |-> FALSE] ELSE close[s]]
         /\ current' = {s \in current : ~here(s)}
         /\ registered' = {s \in registered : ~here(s)}
  /\ UNCHANGED <<known, rows, redis, lapses, beats>>

Environment ==
  \/ \E s \in Socket :
       \/ LoseClient(s) \/ ExpireLookup(s) \/ ExpireHash(s) \/ ExpirePresence(s)
       \/ InitThrows(s) \/ BeatThrows(s) \/ CloseThrows(s)
  \/ \E d \in Device : ExpireTab(d)
  \/ \E p \in Pod : PodCrash(p)

Next ==
  \/ \E s \in Socket :
       \/ Connect(s) \/ Heartbeat(s) \/ SocketClose(s)
       \/ InitStep(s) \/ BeatStep(s) \/ CloseStep(s)
  \/ Environment

Spec == Init /\ [][Next]_vars

(***************************************************************************)
(* Properties.                                                             *)
(***************************************************************************)

(* Every variable keeps its shape.                                         *)
TypeOK ==
  /\ conn \in [Socket -> Conn]
  /\ known \subseteq Device /\ rows \subseteq Socket
  /\ tab \in [Device -> Socket \cup {None}]
  /\ hash \in [Socket -> Hash]
  /\ lookup \subseteq Socket /\ presence \subseteq Socket
  /\ current \subseteq Socket /\ registered \subseteq Socket
  /\ init \in [Socket -> InitPc]
  /\ beat \in [Socket -> [pc : BeatPc, tab : BOOLEAN]]
  /\ close \in [Socket -> [pc : ClosePc, tab : BOOLEAN]]
  /\ lapses \in Nat /\ faults \in Nat /\ beats \in Nat

(* A session whose client is there, and whose messages the server obeys.   *)
Active(s) == conn[s] = "open" /\ s \in current

(* "one active session per browser/device identity": the design document's *)
(* line 674, which does not hold once a client vanishes.                   *)
OneActiveTab ==
  \A s, t \in Socket :
    s # t /\ DeviceOf[s] = DeviceOf[t] => ~(Active(s) /\ Active(t))

(* Two tabs of a device are never both at work, whatever inits, heartbeats,*)
(* closes, failures and crashes race, while no client vanishes, no socket  *)
(* is half an hour old and no lock runs out in use: lines 89-109 and 189.  *)
TabExclusive == lapses = 0 => OneActiveTab

(* A close handler that found the lookup key of its session leaves behind  *)
(* no lock that would refuse the next tab, no lookup key and no HASH that  *)
(* is READY, whatever heartbeats of the socket, and whatever is left of    *)
(* its init, run between its commands: lines 187-195.  It does not say     *)
(* that presence:<session> is gone: a heartbeat that read the lookup key   *)
(* before, or the init, sets it again after the close has deleted it.  Nor *)
(* does it speak of a close that found no lookup key, or failed half way.  *)
ClosedForgotten ==
  lapses = 0 =>
    \A s \in Socket :
      close[s].pc = "done" =>
        /\ tab[DeviceOf[s]] # s /\ s \notin lookup
        /\ hash[s].at # "ready"
=============================================================================
