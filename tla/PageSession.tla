----------------------------- MODULE PageSession -----------------------------
(***************************************************************************)
(* The page between Start and Stop: the media it asks for, the WebSocket   *)
(* it opens once it has them, the heartbeat of that socket, the mute       *)
(* buttons and the change of device (useChatSession, WsClient,             *)
(* MediaManager, DeviceManager, useCallStore).                             *)
(*                                                                         *)
(* A run is one pass of the effect from Start to Stop, with a manager, a   *)
(* MediaStream and a socket of its own.  A step is a task of the browser,  *)
(* or one of the server, of which TabSession has the detail.  The mic and  *)
(* the camera are treated alike: a stream has one track here.              *)
(***************************************************************************)
EXTENDS Naturals

CONSTANTS
  MaxStarts,     \* bound: runs
  MaxToggles,    \* bound: presses of a mute button
  MaxSwitches,   \* bound: changes of device
  MaxDrops       \* bound: connections that break

ASSUME PageAssumption ==
  MaxStarts \in Nat /\ MaxToggles \in Nat /\ MaxSwitches \in Nat /\ MaxDrops \in Nat

VARIABLES
  started,       \* isStarted
  run,           \* the run that goes on, or the last one; 0 before the first
  asking,        \* runs whose getUserMedia has no answer yet
  stream,        \* the track of the MediaStream of a run
  muted,         \* micMuted of the manager in use
  status,        \* status of the call store, while this module sets it
  shown,         \* localStream of the call store: of which run
  shownMuted,    \* isMicMuted of the call store
  switching,     \* how many changes of the device of a stream are under way
  strays,        \* history: streams whose device changed after their run
  conn,          \* the socket of a run
  socket,        \* wsClient.socket
  timer,         \* wsClient.heartbeatTimer: by the run that set it
  beating,       \* the intervals that fire
  cut,           \* history: runs whose heartbeat an older socket stopped
  served,        \* what the server did about the session:init of a socket
  lock,          \* tab:device:<device>
  joined,        \* runs that sent queue:join
  toggles, switches, drops

media  == <<asking, stream, muted, switching, strays>>
store  == <<status, shown, shownMuted>>
client == <<conn, socket, timer, beating, cut, joined>>
server == <<served, lock>>
counts == <<toggles, switches, drops>>
vars   == <<started, run, media, store, client, server, counts>>

Run     == 1 .. MaxStarts
Runs    == 0 .. MaxStarts
Track   == [at : {"none", "live", "ended"}, on : BOOLEAN]
NoTrack == [at |-> "none", on |-> FALSE]
Fresh   == [at |-> "live", on |-> TRUE]

Cancelled(r) == ~(started /\ r = run)

Init ==
  /\ started = FALSE /\ run = 0
  /\ asking = {} /\ stream = [r \in Run |-> NoTrack] /\ muted = FALSE
  /\ switching = [r \in Run |-> 0] /\ strays = {}
  /\ status = "idle" /\ shown = 0 /\ shownMuted = FALSE
  /\ conn = [r \in Run |-> "none"] /\ socket = 0
  /\ timer = 0 /\ beating = {} /\ cut = {} /\ joined = {}
  /\ served = [r \in Run |-> "none"] /\ lock = 0
  /\ toggles = 0 /\ switches = 0 /\ drops = 0

(***************************************************************************)
(* WsClient.                                                               *)
(***************************************************************************)

(* Mutant of StopHeartbeat: the handle is dropped, the interval fires on.  *)
StopHeartbeatKept == timer' = 0 /\ beating' = beating

StopHeartbeat == timer' = 0 /\ beating' = beating \ {timer}

Connect(r) ==
  /\ conn' = [conn EXCEPT ![r] = "connecting"]
  /\ socket' = r

(* Mutant of Disconnect: the socket is closed and not forgotten.           *)
DisconnectKept ==
  /\ StopHeartbeat
  /\ conn' = [r \in Run |-> IF r = socket /\ conn[r] \in {"connecting", "open"}
                            THEN "closing" ELSE conn[r]]
  /\ socket' = socket

(* Mutant of Disconnect: the socket is forgotten and not closed.           *)
DisconnectOpen == StopHeartbeat /\ conn' = conn /\ socket' = 0

Disconnect ==
  /\ StopHeartbeat
  /\ conn' = [r \in Run |-> IF r = socket /\ conn[r] \in {"connecting", "open"}
                            THEN "closing" ELSE conn[r]]
  /\ socket' = 0

(* Mutant of Opened: session:init is not sent.                             *)
OpenedMute(r) ==
  /\ conn[r] = "connecting"
  /\ conn' = [conn EXCEPT ![r] = "open"]
  /\ timer' = r /\ beating' = (beating \ {timer}) \cup {r}
  /\ UNCHANGED <<started, run, media, store, socket, cut, joined, server, counts>>

(* onopen: session:init is sent and the heartbeat started.                 *)
Opened(r) ==
  /\ conn[r] = "connecting"
  /\ conn' = [conn EXCEPT ![r] = "open"]
  /\ timer' = r /\ beating' = (beating \ {timer}) \cup {r}
  /\ served' = [served EXCEPT ![r] = "asked"]
  /\ UNCHANGED <<started, run, media, store, socket, cut, joined, lock, counts>>

(* onclose of whichever socket stops the heartbeat of the one in use.      *)
Closed(r) ==
  /\ conn[r] = "closing"
  /\ conn' = [conn EXCEPT ![r] = "closed"]
  /\ StopHeartbeat
  /\ cut' = IF timer = r THEN cut ELSE cut \cup (beating \cap {timer})
  /\ UNCHANGED <<started, run, media, store, socket, joined, server, counts>>

(* session:ready, and onSessionReady.                                      *)
SessionReady(r) ==
  /\ served[r] = "ready" /\ conn[r] = "open" /\ r \notin joined
  /\ joined' = IF Cancelled(r) THEN joined ELSE joined \cup {r}
  /\ UNCHANGED <<started, run, media, store, conn, socket, timer, beating, cut,
                 server, counts>>

(***************************************************************************)
(* The effect: Start, the answer of getUserMedia, Stop.                    *)
(***************************************************************************)
Start ==
  /\ ~started /\ run < MaxStarts
  /\ started' = TRUE /\ run' = run + 1
  /\ asking' = asking \cup {run + 1} /\ muted' = FALSE
  /\ status' = "searching"
  /\ UNCHANGED <<stream, switching, strays, shown, shownMuted, client, server, counts>>

(* Mutant of Granted: isCancelled is not looked at.                        *)
GrantedAnyway(r) ==
  /\ r \in asking /\ asking' = asking \ {r}
  /\ stream' = [stream EXCEPT ![r] = Fresh]
  /\ shown' = r
  /\ Connect(r)
  /\ UNCHANGED <<started, run, muted, switching, strays, status, shownMuted, timer,
                 beating, cut, joined, server, counts>>

(* Mutant of Granted: a run that was stopped leaves its tracks as they are.*)
GrantedLeft(r) ==
  /\ r \in asking /\ asking' = asking \ {r}
  /\ stream' = [stream EXCEPT ![r] = Fresh]
  /\ shown' = r
  /\ IF Cancelled(r) THEN UNCHANGED <<conn, socket>> ELSE Connect(r)
  /\ UNCHANGED <<started, run, muted, switching, strays, status, shownMuted, timer,
                 beating, cut, joined, server, counts>>

(* The store gets the stream first; a run that was stopped in the meantime *)
(* stops its tracks, the other connects.                                   *)
Granted(r) ==
  /\ r \in asking /\ asking' = asking \ {r}
  /\ shown' = r
  /\ IF Cancelled(r)
     THEN /\ stream' = [stream EXCEPT ![r] = [at |-> "ended", on |-> TRUE]]
          /\ UNCHANGED <<conn, socket>>
     ELSE /\ stream' = [stream EXCEPT ![r] = Fresh]
          /\ Connect(r)
  /\ UNCHANGED <<started, run, muted, switching, strays, status, shownMuted, timer,
                 beating, cut, joined, server, counts>>

(* The page stays started.                                                 *)
Refused(r) ==
  /\ r \in asking /\ asking' = asking \ {r}
  /\ status' = IF Cancelled(r) THEN status ELSE "idle"
  /\ UNCHANGED <<started, run, stream, muted, switching, strays, shown, shownMuted,
                 client, server, counts>>

(* The clean-up of the effect.  resetCall leaves the mute flags and the    *)
(* stream in the store.                                                    *)
Stop ==
  /\ started /\ started' = FALSE
  /\ stream' = [stream EXCEPT ![run] = IF @.at = "live" THEN [@ EXCEPT !.at = "ended"] ELSE @]
  /\ muted' = FALSE
  /\ Disconnect
  /\ status' = "idle"
  /\ UNCHANGED <<run, asking, switching, strays, shown, shownMuted, cut, joined, server,
                 counts>>

(***************************************************************************)
(* The buttons and the device settings.                                    *)
(***************************************************************************)

(* Without a stream toggleMic returns false, which is taken for muted.     *)
ToggleMic ==
  /\ started /\ toggles < MaxToggles /\ toggles' = toggles + 1
  /\ IF stream[run].at = "none"
     THEN shownMuted' = TRUE /\ UNCHANGED <<muted, stream>>
     ELSE /\ muted' = ~muted
          /\ stream' = [stream EXCEPT ![run].on = muted]
          /\ shownMuted' = ~muted
  /\ UNCHANGED <<started, run, asking, switching, strays, status, shown, client, server,
                 switches, drops>>

(* The settings work on the stream that is shown.                          *)
SwitchDevice ==
  /\ started /\ shown # 0
  /\ switches < MaxSwitches /\ switches' = switches + 1
  /\ switching' = [switching EXCEPT ![shown] = @ + 1]
  /\ UNCHANGED <<started, run, asking, stream, muted, strays, store, client, server,
                 toggles, drops>>

(* The old track is stopped and a new one put in its place, enabled.       *)
Switched(r) ==
  /\ switching[r] > 0
  /\ switching' = [switching EXCEPT ![r] = @ - 1]
  /\ stream' = [stream EXCEPT ![r] = Fresh]
  /\ strays' = IF Cancelled(r) THEN strays \cup {r} ELSE strays
  /\ UNCHANGED <<started, run, asking, muted, store, client, server, counts>>

SwitchRefused(r) ==
  /\ switching[r] > 0
  /\ switching' = [switching EXCEPT ![r] = @ - 1]
  /\ UNCHANGED <<started, run, asking, stream, muted, strays, store, client, server, counts>>

(***************************************************************************)
(* The server and the network.                                             *)
(***************************************************************************)

(* A second session of the device is closed with 4001.                     *)
InitSession(r) ==
  /\ served[r] = "asked"
  /\ IF lock = 0
     THEN /\ lock' = r /\ served' = [served EXCEPT ![r] = "ready"]
          /\ conn' = conn
     ELSE /\ lock' = lock /\ served' = [served EXCEPT ![r] = "refused"]
          /\ conn' = [conn EXCEPT ![r] = IF @ = "open" THEN "closing" ELSE @]
  /\ UNCHANGED <<started, run, media, store, socket, timer, beating, cut, joined, counts>>

(* The close handler deletes the lock, whoever has it by now.              *)
ServerClose(r) ==
  /\ conn[r] \in {"closing", "closed"} /\ served[r] \in {"ready", "refused"}
  /\ lock' = IF served[r] = "ready" THEN 0 ELSE lock
  /\ served' = [served EXCEPT ![r] = "gone"]
  /\ UNCHANGED <<started, run, media, store, client, counts>>

(* 60 s without a heartbeat.                                               *)
ExpireLock ==
  /\ lock # 0 /\ ~(lock \in beating /\ conn[lock] = "open")
  /\ lock' = 0
  /\ UNCHANGED <<started, run, media, store, client, served, counts>>

Drop(r) ==
  /\ conn[r] \in {"connecting", "open"}
  /\ drops < MaxDrops /\ drops' = drops + 1
  /\ conn' = [conn EXCEPT ![r] = "closing"]
  /\ UNCHANGED <<started, run, media, store, socket, timer, beating, cut, joined,
                 server, toggles, switches>>

Next ==
  \/ Start \/ Stop \/ ToggleMic \/ SwitchDevice \/ ExpireLock
  \/ \E r \in Run :
       \/ Granted(r) \/ Refused(r) \/ Switched(r) \/ SwitchRefused(r)
       \/ Opened(r) \/ Closed(r) \/ SessionReady(r)
       \/ InitSession(r) \/ ServerClose(r) \/ Drop(r)

(* The tasks of the browser and the server come to run; the user and the   *)
(* network may do nothing.                                                 *)
Fair == \A r \in Run :
  /\ WF_vars(Opened(r)) /\ WF_vars(Closed(r)) /\ WF_vars(SessionReady(r))
  /\ WF_vars(InitSession(r)) /\ WF_vars(ServerClose(r))

Spec     == Init /\ [][Next]_vars
FairSpec == Spec /\ Fair

(***************************************************************************)
(* Properties.                                                             *)
(***************************************************************************)

(* Every variable keeps its shape; what the client holds on to is of the   *)
(* run that goes on, and of none once that is stopped.                     *)
TypeOK ==
  /\ started \in BOOLEAN /\ run \in Runs /\ (started => run # 0)
  /\ asking \subseteq 1 .. run /\ stream \in [Run -> Track] /\ muted \in BOOLEAN
  /\ switching \in [Run -> Nat] /\ strays \subseteq 1 .. run
  /\ status \in {"idle", "searching"} /\ shown \in 0 .. run /\ shownMuted \in BOOLEAN
  /\ conn \in [Run -> {"none", "connecting", "open", "closing", "closed"}]
  /\ socket \in (IF started THEN {0, run} ELSE {0})
  /\ timer \in (IF started THEN {0, run} ELSE {0})
  /\ beating \subseteq Run /\ cut \subseteq Run /\ joined \subseteq Run
  /\ served \in [Run -> {"none", "asked", "ready", "refused", "gone"}]
  /\ lock \in Runs
  /\ toggles \in Nat /\ switches \in Nat /\ drops \in Nat

(* Once the user has stopped, no camera stays on, however late the browser *)
(* grants what was asked: lines 103-106 and 189-193.  A device that was    *)
(* being changed is the exception.                                         *)
StoppedDark ==
  \A r \in Run : stream[r].at = "live" => ~Cancelled(r) \/ r \in strays

(* Nor does a socket stay open or open later that nothing would close: the *)
(* run that goes on is the only one with a socket of its own.              *)
StoppedSilent ==
  \A r \in Run : conn[r] \in {"connecting", "open"} => ~Cancelled(r) /\ socket = r

(* The interval that fires is the one whose handle is kept, and an open    *)
(* socket has one, unless an older socket was late to tell that it closed. *)
OneHeart ==
  /\ beating \subseteq {timer}
  /\ \A r \in Run : conn[r] = "open" /\ r \notin cut => r \in beating

(* A run that gets its media, and is not stopped, refused by the server or *)
(* cut off, joins the queue.                                               *)
Joins ==
  \A r \in Run :
    conn[r] = "connecting" ~> r \in joined \/ conn[r] \in {"closing", "closed"}

(* The server's lock on the device does not outlast the run it was given   *)
(* to, so that a user who stops can start again.  The init of a socket is  *)
(* one step here; TabSession has the close that overtakes it.              *)
LockFreed ==
  \A r \in Run : lock = r /\ Cancelled(r) ~> lock # r
=============================================================================
