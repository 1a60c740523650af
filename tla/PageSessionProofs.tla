-------------------------- MODULE PageSessionProofs --------------------------
(***************************************************************************)
(* A page that was stopped is dark and silent, whenever the browser grants *)
(* what it was asked, and has one heartbeat at most: for any number of     *)
(* runs, presses, changes of device and broken connections.                *)
(***************************************************************************)
EXTENDS PageSession, TLAPS

(* A device is changed in the stream of a run that there has been.         *)
SwitchesKnown == \A r \in Run : switching[r] # 0 => r <= run

(* A run without its answer has no stream, none is shown and none changed. *)
Pending ==
  \A r \in Run :
    r \in asking \/ r > run => stream[r].at = "none" /\ switching[r] = 0 /\ shown # r

IInv == /\ TypeOK /\ StoppedDark /\ StoppedSilent /\ OneHeart
        /\ SwitchesKnown /\ Pending

(***************************************************************************)
(* The parts of TypeOK that some actions need one at a time.               *)
(***************************************************************************)
RunOK    == started \in BOOLEAN /\ run \in Runs /\ (started => run # 0)
PastOK   == asking \subseteq 1 .. run /\ strays \subseteq 1 .. run /\ shown \in 0 .. run
StreamOK == stream \in [Run -> Track] /\ muted \in BOOLEAN
FlagsOK  == shownMuted \in BOOLEAN
SwitchOK == switching \in [Run -> Nat] /\ status \in {"idle", "searching"}
ConnOK   == conn \in [Run -> {"none", "connecting", "open", "closing", "closed"}]
SocketOK == socket \in (IF started THEN {0, run} ELSE {0})
TimerOK  == timer \in (IF started THEN {0, run} ELSE {0})
SetsOK   == beating \subseteq Run /\ cut \subseteq Run /\ joined \subseteq Run
ServerOK == served \in [Run -> {"none", "asked", "ready", "refused", "gone"}] /\ lock \in Runs
CountsOK == toggles \in Nat /\ switches \in Nat /\ drops \in Nat

LEMMA TrackFacts ==
  /\ NoTrack \in Track /\ Fresh \in Track /\ [at |-> "ended", on |-> TRUE] \in Track
  /\ \A t \in Track : [t EXCEPT !.at = "ended"] \in Track
  /\ \A t \in Track, b \in BOOLEAN : [t EXCEPT !.on = b] \in Track
BY DEF Track, NoTrack, Fresh

LEMMA InitInv == Init => IInv
<1> SUFFICES ASSUME Init PROVE IInv
  OBVIOUS
<1> USE PageAssumption DEF Init, Run, Runs
<1>1. started \in BOOLEAN /\ ~started
  BY Zenon
<1>2. RunOK
  BY <1>1 DEF RunOK
<1>3. PastOK
  BY DEF PastOK
<1>4. StreamOK
  BY TrackFacts, Zenon DEF StreamOK
<1>9. FlagsOK
  BY Zenon DEF FlagsOK
<1>5. SwitchOK /\ CountsOK
  <2>1. SwitchOK BY DEF SwitchOK
  <2>2. CountsOK BY DEF CountsOK
  <2> QED BY <2>1, <2>2
<1>6. ConnOK /\ SocketOK /\ TimerOK /\ SetsOK /\ ServerOK
  BY DEF ConnOK, SocketOK, TimerOK, SetsOK, ServerOK
<1>7. TypeOK
  BY <1>2, <1>3, <1>4, <1>5, <1>6, <1>9
  DEF TypeOK, RunOK, PastOK, StreamOK, FlagsOK, SwitchOK, ConnOK, SocketOK, TimerOK, SetsOK,
      ServerOK, CountsOK
<1>8. StoppedDark /\ StoppedSilent /\ OneHeart /\ SwitchesKnown
  BY DEF StoppedDark, NoTrack, StoppedSilent, OneHeart, SwitchesKnown
<1>10. Pending
  BY DEF Pending, NoTrack
<1> QED BY <1>7, <1>8, <1>10 DEF IInv

(***************************************************************************)
(* One lemma for each action.                                              *)
(***************************************************************************)
LEMMA StartInv ==
  ASSUME IInv, Start
  PROVE  IInv'
<1> USE PageAssumption DEF IInv, Run, Runs, media, store, client, server, counts
<1>1. TypeOK'
  <2>1. RunOK'
    BY DEF Start, TypeOK, RunOK, Cancelled
  <2>2. PastOK'
    BY DEF Start, TypeOK, PastOK, Cancelled
  <2>3. StreamOK'
    BY TrackFacts DEF Start, TypeOK, StreamOK, Cancelled
  <2>4. FlagsOK'
    BY DEF Start, TypeOK, FlagsOK, Cancelled
  <2>5. SwitchOK'
    BY DEF Start, TypeOK, SwitchOK, Cancelled
  <2>6. ConnOK'
    BY DEF Start, TypeOK, ConnOK, Cancelled
  <2>7. SocketOK'
    BY DEF Start, TypeOK, SocketOK, Cancelled
  <2>8. TimerOK'
    BY DEF Start, TypeOK, TimerOK, Cancelled
  <2>9. SetsOK'
    BY DEF Start, TypeOK, SetsOK, Cancelled
  <2>10. ServerOK'
    BY DEF Start, TypeOK, ServerOK, Cancelled
  <2>11. CountsOK'
    BY DEF Start, TypeOK, CountsOK, Cancelled
  <2> QED BY <2>1, <2>2, <2>3, <2>4, <2>5, <2>6, <2>7, <2>8, <2>9, <2>10, <2>11
    DEF TypeOK, RunOK, PastOK, StreamOK, FlagsOK, SwitchOK, ConnOK, SocketOK, TimerOK, SetsOK,
        ServerOK, CountsOK
<1>2. StoppedDark'
  BY DEF Start, TypeOK, Track, Fresh, StoppedDark, Cancelled
<1>3. StoppedSilent'
  BY DEF Start, TypeOK, StoppedSilent, Cancelled
<1>4. OneHeart'
  BY DEF Start, TypeOK, StoppedSilent, OneHeart, Cancelled
<1>5. SwitchesKnown'
  BY DEF Start, TypeOK, SwitchesKnown
<1>6. Pending'
  BY DEF Start, TypeOK, Pending, Cancelled
<1> QED BY <1>1, <1>2, <1>3, <1>4, <1>5, <1>6

LEMMA StopInv ==
  ASSUME IInv, Stop
  PROVE  IInv'
<1> USE PageAssumption DEF IInv, Run, Runs, media, store, client, server, counts
<1>1. TypeOK'
  <2>1. RunOK'
    BY DEF Stop, Disconnect, StopHeartbeat, TypeOK, RunOK, Cancelled
  <2>2. PastOK'
    BY DEF Stop, Disconnect, StopHeartbeat, TypeOK, PastOK, Cancelled
  <2>3. StreamOK'
    BY TrackFacts DEF Stop, Disconnect, StopHeartbeat, TypeOK, StreamOK, Cancelled
  <2>4. FlagsOK'
    BY DEF Stop, Disconnect, StopHeartbeat, TypeOK, FlagsOK, Cancelled
  <2>5. SwitchOK'
    BY DEF Stop, Disconnect, StopHeartbeat, TypeOK, SwitchOK, Cancelled
  <2>6. ConnOK'
    BY DEF Stop, Disconnect, StopHeartbeat, TypeOK, ConnOK, Cancelled
  <2>7. SocketOK'
    BY DEF Stop, Disconnect, StopHeartbeat, TypeOK, SocketOK, Cancelled
  <2>8. TimerOK'
    BY DEF Stop, Disconnect, StopHeartbeat, TypeOK, TimerOK, Cancelled
  <2>9. SetsOK'
    BY DEF Stop, Disconnect, StopHeartbeat, TypeOK, SetsOK, Cancelled
  <2>10. ServerOK'
    BY DEF Stop, Disconnect, StopHeartbeat, TypeOK, ServerOK, Cancelled
  <2>11. CountsOK'
    BY DEF Stop, Disconnect, StopHeartbeat, TypeOK, CountsOK, Cancelled
  <2> QED BY <2>1, <2>2, <2>3, <2>4, <2>5, <2>6, <2>7, <2>8, <2>9, <2>10, <2>11
    DEF TypeOK, RunOK, PastOK, StreamOK, FlagsOK, SwitchOK, ConnOK, SocketOK, TimerOK, SetsOK,
        ServerOK, CountsOK
<1>2. StoppedDark'
  BY DEF Stop, Disconnect, StopHeartbeat, TypeOK, Track, Fresh, StoppedDark,
         Cancelled
<1>3. StoppedSilent'
  BY DEF Stop, Disconnect, StopHeartbeat, TypeOK, StoppedSilent, Cancelled
<1>4. OneHeart'
  BY DEF Stop, Disconnect, StopHeartbeat, TypeOK, StoppedSilent, OneHeart, Cancelled
<1>5. SwitchesKnown'
  BY DEF Stop, Disconnect, StopHeartbeat, TypeOK, SwitchesKnown
<1>6. Pending'
  BY DEF Stop, Disconnect, StopHeartbeat, TypeOK, Pending, Cancelled
<1> QED BY <1>1, <1>2, <1>3, <1>4, <1>5, <1>6

LEMMA ToggleMicInv ==
  ASSUME IInv, ToggleMic
  PROVE  IInv'
<1> USE PageAssumption DEF IInv, Run, Runs, media, store, client, server, counts
<1>1. TypeOK'
  <2>1. RunOK'
    BY DEF ToggleMic, TypeOK, RunOK, Cancelled
  <2>2. PastOK'
    BY DEF ToggleMic, TypeOK, PastOK, Cancelled
  <2>3. StreamOK'
    <3>1. run \in Run /\ muted \in BOOLEAN /\ stream[run] \in Track /\ StreamOK
      BY DEF ToggleMic, TypeOK, StreamOK
    <3>2. CASE stream[run].at = "none"
      BY <3>1, <3>2 DEF ToggleMic, StreamOK
    <3>3. CASE stream[run].at # "none"
      <4>1. [stream[run] EXCEPT !.on = muted] \in Track
        BY <3>1, TrackFacts
      <4>2. stream' = [stream EXCEPT ![run] = [stream[run] EXCEPT !.on = muted]]
        BY <3>3 DEF ToggleMic
      <4>3. stream' \in [Run -> Track]
        BY <3>1, <4>1, <4>2 DEF StreamOK
      <4>4. muted' \in BOOLEAN /\ shownMuted' \in BOOLEAN
        BY <3>3, Zenon DEF ToggleMic
      <4> QED BY <4>3, <4>4 DEF StreamOK
    <3> QED BY <3>2, <3>3
  <2>4. FlagsOK'
    BY DEF ToggleMic, TypeOK, FlagsOK, Cancelled
  <2>5. SwitchOK'
    BY DEF ToggleMic, TypeOK, SwitchOK, Cancelled
  <2>6. ConnOK'
    BY DEF ToggleMic, TypeOK, ConnOK, Cancelled
  <2>7. SocketOK'
    BY DEF ToggleMic, TypeOK, SocketOK, Cancelled
  <2>8. TimerOK'
    BY DEF ToggleMic, TypeOK, TimerOK, Cancelled
  <2>9. SetsOK'
    BY DEF ToggleMic, TypeOK, SetsOK, Cancelled
  <2>10. ServerOK'
    BY DEF ToggleMic, TypeOK, ServerOK, Cancelled
  <2>11. CountsOK'
    BY DEF ToggleMic, TypeOK, CountsOK, Cancelled
  <2> QED BY <2>1, <2>2, <2>3, <2>4, <2>5, <2>6, <2>7, <2>8, <2>9, <2>10, <2>11
    DEF TypeOK, RunOK, PastOK, StreamOK, FlagsOK, SwitchOK, ConnOK, SocketOK, TimerOK, SetsOK,
        ServerOK, CountsOK
<1>2. StoppedDark'
  BY DEF ToggleMic, TypeOK, Track, Fresh, StoppedDark, Cancelled
<1>3. StoppedSilent'
  BY DEF ToggleMic, TypeOK, StoppedSilent, Cancelled
<1>4. OneHeart'
  BY DEF ToggleMic, TypeOK, StoppedSilent, OneHeart, Cancelled
<1>5. SwitchesKnown'
  BY DEF ToggleMic, TypeOK, SwitchesKnown
<1>6. Pending'
  BY DEF ToggleMic, TypeOK, Pending, Cancelled
<1> QED BY <1>1, <1>2, <1>3, <1>4, <1>5, <1>6

LEMMA SwitchDeviceInv ==
  ASSUME IInv, SwitchDevice
  PROVE  IInv'
<1> USE PageAssumption DEF IInv, Run, Runs, media, store, client, server, counts
<1>1. TypeOK'
  <2>1. RunOK'
    BY DEF SwitchDevice, TypeOK, RunOK, Cancelled
  <2>2. PastOK'
    BY DEF SwitchDevice, TypeOK, PastOK, Cancelled
  <2>3. StreamOK'
    BY TrackFacts DEF SwitchDevice, TypeOK, StreamOK, Cancelled
  <2>4. FlagsOK'
    BY DEF SwitchDevice, TypeOK, FlagsOK, Cancelled
  <2>5. SwitchOK'
    BY DEF SwitchDevice, TypeOK, SwitchOK, Cancelled
  <2>6. ConnOK'
    BY DEF SwitchDevice, TypeOK, ConnOK, Cancelled
  <2>7. SocketOK'
    BY DEF SwitchDevice, TypeOK, SocketOK, Cancelled
  <2>8. TimerOK'
    BY DEF SwitchDevice, TypeOK, TimerOK, Cancelled
  <2>9. SetsOK'
    BY DEF SwitchDevice, TypeOK, SetsOK, Cancelled
  <2>10. ServerOK'
    BY DEF SwitchDevice, TypeOK, ServerOK, Cancelled
  <2>11. CountsOK'
    BY DEF SwitchDevice, TypeOK, CountsOK, Cancelled
  <2> QED BY <2>1, <2>2, <2>3, <2>4, <2>5, <2>6, <2>7, <2>8, <2>9, <2>10, <2>11
    DEF TypeOK, RunOK, PastOK, StreamOK, FlagsOK, SwitchOK, ConnOK, SocketOK, TimerOK, SetsOK,
        ServerOK, CountsOK
<1>2. StoppedDark'
  BY DEF SwitchDevice, TypeOK, StoppedDark, Cancelled
<1>3. StoppedSilent'
  BY DEF SwitchDevice, TypeOK, StoppedSilent, Cancelled
<1>4. OneHeart'
  BY DEF SwitchDevice, TypeOK, StoppedSilent, OneHeart, Cancelled
<1>5. SwitchesKnown'
  BY DEF SwitchDevice, TypeOK, SwitchesKnown
<1>6. Pending'
  BY DEF SwitchDevice, TypeOK, Pending, Cancelled
<1> QED BY <1>1, <1>2, <1>3, <1>4, <1>5, <1>6

LEMMA ExpireLockInv ==
  ASSUME IInv, ExpireLock
  PROVE  IInv'
<1> USE PageAssumption DEF IInv, Run, Runs, media, store, client, server, counts
<1>1. TypeOK'
  BY TrackFacts DEF ExpireLock, TypeOK, StoppedSilent, SwitchesKnown, Cancelled
<1>2. StoppedDark'
  BY DEF ExpireLock, TypeOK, StoppedDark, Cancelled
<1>3. StoppedSilent'
  BY DEF ExpireLock, TypeOK, StoppedSilent, Cancelled
<1>4. OneHeart'
  BY DEF ExpireLock, TypeOK, StoppedSilent, OneHeart, Cancelled
<1>5. SwitchesKnown'
  BY DEF ExpireLock, TypeOK, SwitchesKnown
<1>6. Pending'
  BY DEF ExpireLock, TypeOK, Pending, Cancelled
<1> QED BY <1>1, <1>2, <1>3, <1>4, <1>5, <1>6

LEMMA GrantedInv ==
  ASSUME IInv, NEW r \in Run, Granted(r)
  PROVE  IInv'
<1> USE PageAssumption DEF IInv, Run, Runs, media, store, client, server, counts
<1>1. TypeOK'
  <2>1. RunOK'
    BY DEF Granted, Connect, TypeOK, RunOK, Cancelled
  <2>2. PastOK'
    BY DEF Granted, Connect, TypeOK, PastOK, Cancelled
  <2>3. StreamOK'
    BY TrackFacts DEF Granted, Connect, TypeOK, StreamOK, Cancelled
  <2>4. FlagsOK'
    BY DEF Granted, Connect, TypeOK, FlagsOK, Cancelled
  <2>5. SwitchOK'
    BY DEF Granted, Connect, TypeOK, SwitchOK, Cancelled
  <2>6. ConnOK'
    BY DEF Granted, Connect, TypeOK, ConnOK, Cancelled
  <2>7. SocketOK'
    BY DEF Granted, Connect, TypeOK, SocketOK, Cancelled
  <2>8. TimerOK'
    BY DEF Granted, Connect, TypeOK, TimerOK, Cancelled
  <2>9. SetsOK'
    BY DEF Granted, Connect, TypeOK, SetsOK, Cancelled
  <2>10. ServerOK'
    BY DEF Granted, Connect, TypeOK, ServerOK, Cancelled
  <2>11. CountsOK'
    BY DEF Granted, Connect, TypeOK, CountsOK, Cancelled
  <2> QED BY <2>1, <2>2, <2>3, <2>4, <2>5, <2>6, <2>7, <2>8, <2>9, <2>10, <2>11
    DEF TypeOK, RunOK, PastOK, StreamOK, FlagsOK, SwitchOK, ConnOK, SocketOK, TimerOK, SetsOK,
        ServerOK, CountsOK
<1>2. StoppedDark'
  BY DEF Granted, Connect, TypeOK, Track, Fresh, StoppedDark, Cancelled
<1>3. StoppedSilent'
  BY DEF Granted, Connect, TypeOK, StoppedSilent, Cancelled
<1>4. OneHeart'
  BY DEF Granted, Connect, TypeOK, StoppedSilent, OneHeart, Cancelled
<1>5. SwitchesKnown'
  BY DEF Granted, Connect, TypeOK, SwitchesKnown
<1>6. Pending'
  BY DEF Granted, Connect, TypeOK, Pending, Cancelled
<1> QED BY <1>1, <1>2, <1>3, <1>4, <1>5, <1>6

LEMMA RefusedInv ==
  ASSUME IInv, NEW r \in Run, Refused(r)
  PROVE  IInv'
<1> USE PageAssumption DEF IInv, Run, Runs, media, store, client, server, counts
<1>1. TypeOK'
  BY TrackFacts DEF Refused, TypeOK, StoppedSilent, SwitchesKnown, Cancelled
<1>2. StoppedDark'
  BY DEF Refused, TypeOK, StoppedDark, Cancelled
<1>3. StoppedSilent'
  BY DEF Refused, TypeOK, StoppedSilent, Cancelled
<1>4. OneHeart'
  BY DEF Refused, TypeOK, StoppedSilent, OneHeart, Cancelled
<1>5. SwitchesKnown'
  BY DEF Refused, TypeOK, SwitchesKnown
<1>6. Pending'
  BY DEF Refused, TypeOK, Pending, Cancelled
<1> QED BY <1>1, <1>2, <1>3, <1>4, <1>5, <1>6

LEMMA SwitchedInv ==
  ASSUME IInv, NEW r \in Run, Switched(r)
  PROVE  IInv'
<1> USE PageAssumption DEF IInv, Run, Runs, media, store, client, server, counts
<1>1. TypeOK'
  <2>1. RunOK'
    BY DEF Switched, TypeOK, RunOK, Cancelled
  <2>2. PastOK'
    BY DEF Switched, TypeOK, PastOK, Cancelled, SwitchesKnown
  <2>3. StreamOK'
    BY TrackFacts DEF Switched, TypeOK, StreamOK, Cancelled
  <2>4. FlagsOK'
    BY DEF Switched, TypeOK, FlagsOK, Cancelled
  <2>5. SwitchOK'
    BY DEF Switched, TypeOK, SwitchOK, Cancelled
  <2>6. ConnOK'
    BY DEF Switched, TypeOK, ConnOK, Cancelled
  <2>7. SocketOK'
    BY DEF Switched, TypeOK, SocketOK, Cancelled
  <2>8. TimerOK'
    BY DEF Switched, TypeOK, TimerOK, Cancelled
  <2>9. SetsOK'
    BY DEF Switched, TypeOK, SetsOK, Cancelled
  <2>10. ServerOK'
    BY DEF Switched, TypeOK, ServerOK, Cancelled
  <2>11. CountsOK'
    BY DEF Switched, TypeOK, CountsOK, Cancelled
  <2> QED BY <2>1, <2>2, <2>3, <2>4, <2>5, <2>6, <2>7, <2>8, <2>9, <2>10, <2>11
    DEF TypeOK, RunOK, PastOK, StreamOK, FlagsOK, SwitchOK, ConnOK, SocketOK, TimerOK, SetsOK,
        ServerOK, CountsOK
<1>2. StoppedDark'
  BY DEF Switched, TypeOK, Track, Fresh, StoppedDark, Cancelled
<1>3. StoppedSilent'
  BY DEF Switched, TypeOK, StoppedSilent, Cancelled
<1>4. OneHeart'
  BY DEF Switched, TypeOK, StoppedSilent, OneHeart, Cancelled
<1>5. SwitchesKnown'
  BY DEF Switched, TypeOK, SwitchesKnown
<1>6. Pending'
  BY DEF Switched, TypeOK, Pending, Cancelled
<1> QED BY <1>1, <1>2, <1>3, <1>4, <1>5, <1>6

LEMMA SwitchRefusedInv ==
  ASSUME IInv, NEW r \in Run, SwitchRefused(r)
  PROVE  IInv'
<1> USE PageAssumption DEF IInv, Run, Runs, media, store, client, server, counts
<1>1. TypeOK'
  BY SMTT(30), TrackFacts DEF SwitchRefused, TypeOK, StoppedSilent, SwitchesKnown, Cancelled
<1>2. StoppedDark'
  BY DEF SwitchRefused, TypeOK, StoppedDark, Cancelled
<1>3. StoppedSilent'
  BY DEF SwitchRefused, TypeOK, StoppedSilent, Cancelled
<1>4. OneHeart'
  BY DEF SwitchRefused, TypeOK, StoppedSilent, OneHeart, Cancelled
<1>5. SwitchesKnown'
  BY DEF SwitchRefused, TypeOK, SwitchesKnown
<1>6. Pending'
  BY DEF SwitchRefused, TypeOK, Pending, Cancelled
<1> QED BY <1>1, <1>2, <1>3, <1>4, <1>5, <1>6

LEMMA OpenedInv ==
  ASSUME IInv, NEW r \in Run, Opened(r)
  PROVE  IInv'
<1> USE PageAssumption DEF IInv, Run, Runs, media, store, client, server, counts
<1>1. TypeOK'
  BY TrackFacts DEF Opened, TypeOK, StoppedSilent, SwitchesKnown, Cancelled
<1>2. StoppedDark'
  BY DEF Opened, TypeOK, StoppedDark, Cancelled
<1>3. StoppedSilent'
  BY DEF Opened, TypeOK, StoppedSilent, Cancelled
<1>4. OneHeart'
  BY DEF Opened, TypeOK, StoppedSilent, OneHeart, Cancelled
<1>5. SwitchesKnown'
  BY DEF Opened, TypeOK, SwitchesKnown
<1>6. Pending'
  BY DEF Opened, TypeOK, Pending, Cancelled
<1> QED BY <1>1, <1>2, <1>3, <1>4, <1>5, <1>6

LEMMA ClosedInv ==
  ASSUME IInv, NEW r \in Run, Closed(r)
  PROVE  IInv'
<1> USE PageAssumption DEF IInv, Run, Runs, media, store, client, server, counts
<1>1. TypeOK'
  BY TrackFacts DEF Closed, StopHeartbeat, TypeOK, StoppedSilent, SwitchesKnown,
         Cancelled
<1>2. StoppedDark'
  BY DEF Closed, StopHeartbeat, TypeOK, StoppedDark, Cancelled
<1>3. StoppedSilent'
  BY DEF Closed, StopHeartbeat, TypeOK, StoppedSilent, Cancelled
<1>4. OneHeart'
  BY DEF Closed, StopHeartbeat, TypeOK, StoppedSilent, OneHeart, Cancelled
<1>5. SwitchesKnown'
  BY DEF Closed, StopHeartbeat, TypeOK, SwitchesKnown
<1>6. Pending'
  BY DEF Closed, StopHeartbeat, TypeOK, Pending, Cancelled
<1> QED BY <1>1, <1>2, <1>3, <1>4, <1>5, <1>6

LEMMA SessionReadyInv ==
  ASSUME IInv, NEW r \in Run, SessionReady(r)
  PROVE  IInv'
<1> USE PageAssumption DEF IInv, Run, Runs, media, store, client, server, counts
<1>1. TypeOK'
  BY TrackFacts DEF SessionReady, TypeOK, StoppedSilent, SwitchesKnown, Cancelled
<1>2. StoppedDark'
  BY DEF SessionReady, TypeOK, StoppedDark, Cancelled
<1>3. StoppedSilent'
  BY DEF SessionReady, TypeOK, StoppedSilent, Cancelled
<1>4. OneHeart'
  BY DEF SessionReady, TypeOK, StoppedSilent, OneHeart, Cancelled
<1>5. SwitchesKnown'
  BY DEF SessionReady, TypeOK, SwitchesKnown
<1>6. Pending'
  BY DEF SessionReady, TypeOK, Pending, Cancelled
<1> QED BY <1>1, <1>2, <1>3, <1>4, <1>5, <1>6

LEMMA InitSessionInv ==
  ASSUME IInv, NEW r \in Run, InitSession(r)
  PROVE  IInv'
<1> USE PageAssumption DEF IInv, Run, Runs, media, store, client, server, counts
<1>1. TypeOK'
  <2>1. RunOK'
    BY DEF InitSession, TypeOK, RunOK, Cancelled
  <2>2. PastOK'
    BY DEF InitSession, TypeOK, PastOK, Cancelled
  <2>3. StreamOK'
    BY TrackFacts DEF InitSession, TypeOK, StreamOK, Cancelled
  <2>4. FlagsOK'
    BY DEF InitSession, TypeOK, FlagsOK, Cancelled
  <2>5. SwitchOK'
    BY DEF InitSession, TypeOK, SwitchOK, Cancelled
  <2>6. ConnOK'
    BY DEF InitSession, TypeOK, ConnOK, Cancelled
  <2>7. SocketOK'
    BY DEF InitSession, TypeOK, SocketOK, Cancelled
  <2>8. TimerOK'
    BY DEF InitSession, TypeOK, TimerOK, Cancelled
  <2>9. SetsOK'
    BY DEF InitSession, TypeOK, SetsOK, Cancelled
  <2>10. ServerOK'
    BY DEF InitSession, TypeOK, ServerOK, Cancelled
  <2>11. CountsOK'
    BY DEF InitSession, TypeOK, CountsOK, Cancelled
  <2> QED BY <2>1, <2>2, <2>3, <2>4, <2>5, <2>6, <2>7, <2>8, <2>9, <2>10, <2>11
    DEF TypeOK, RunOK, PastOK, StreamOK, FlagsOK, SwitchOK, ConnOK, SocketOK, TimerOK, SetsOK,
        ServerOK, CountsOK
<1>2. StoppedDark'
  BY DEF InitSession, TypeOK, StoppedDark, Cancelled
<1>3. StoppedSilent'
  BY DEF InitSession, TypeOK, StoppedSilent, Cancelled
<1>4. OneHeart'
  BY DEF InitSession, TypeOK, StoppedSilent, OneHeart, Cancelled
<1>5. SwitchesKnown'
  BY DEF InitSession, TypeOK, SwitchesKnown
<1>6. Pending'
  BY DEF InitSession, TypeOK, Pending, Cancelled
<1> QED BY <1>1, <1>2, <1>3, <1>4, <1>5, <1>6

LEMMA ServerCloseInv ==
  ASSUME IInv, NEW r \in Run, ServerClose(r)
  PROVE  IInv'
<1> USE PageAssumption DEF IInv, Run, Runs, media, store, client, server, counts
<1>1. TypeOK'
  BY SMTT(30), TrackFacts DEF ServerClose, TypeOK, StoppedSilent, SwitchesKnown, Cancelled
<1>2. StoppedDark'
  BY DEF ServerClose, TypeOK, StoppedDark, Cancelled
<1>3. StoppedSilent'
  BY DEF ServerClose, TypeOK, StoppedSilent, Cancelled
<1>4. OneHeart'
  BY DEF ServerClose, TypeOK, StoppedSilent, OneHeart, Cancelled
<1>5. SwitchesKnown'
  BY DEF ServerClose, TypeOK, SwitchesKnown
<1>6. Pending'
  BY DEF ServerClose, TypeOK, Pending, Cancelled
<1> QED BY <1>1, <1>2, <1>3, <1>4, <1>5, <1>6

LEMMA DropInv ==
  ASSUME IInv, NEW r \in Run, Drop(r)
  PROVE  IInv'
<1> USE PageAssumption DEF IInv, Run, Runs, media, store, client, server, counts
<1>1. TypeOK'
  BY SMTT(30), TrackFacts DEF Drop, TypeOK, StoppedSilent, SwitchesKnown, Cancelled
<1>2. StoppedDark'
  BY DEF Drop, TypeOK, StoppedDark, Cancelled
<1>3. StoppedSilent'
  BY DEF Drop, TypeOK, StoppedSilent, Cancelled
<1>4. OneHeart'
  BY DEF Drop, TypeOK, StoppedSilent, OneHeart, Cancelled
<1>5. SwitchesKnown'
  BY DEF Drop, TypeOK, SwitchesKnown
<1>6. Pending'
  BY DEF Drop, TypeOK, Pending, Cancelled
<1> QED BY <1>1, <1>2, <1>3, <1>4, <1>5, <1>6

(***************************************************************************)
(* Every step keeps the invariant.                                         *)
(***************************************************************************)
LEMMA NextInv ==
  ASSUME IInv, [Next]_vars
  PROVE  IInv'
<1>1. CASE Start BY <1>1, StartInv
<1>2. CASE Stop BY <1>2, StopInv
<1>3. CASE ToggleMic BY <1>3, ToggleMicInv
<1>4. CASE SwitchDevice BY <1>4, SwitchDeviceInv
<1>5. CASE ExpireLock BY <1>5, ExpireLockInv
<1>6. ASSUME NEW r \in Run,
             \/ Granted(r) \/ Refused(r) \/ Switched(r) \/ SwitchRefused(r)
             \/ Opened(r) \/ Closed(r) \/ SessionReady(r)
             \/ InitSession(r) \/ ServerClose(r) \/ Drop(r)
      PROVE  IInv'
  BY <1>6, GrantedInv, RefusedInv, SwitchedInv, SwitchRefusedInv, OpenedInv, ClosedInv,
     SessionReadyInv, InitSessionInv, ServerCloseInv, DropInv
<1>7. CASE UNCHANGED vars
  BY <1>7 DEF IInv, TypeOK, StoppedDark, StoppedSilent, OneHeart, SwitchesKnown, Pending,
              Cancelled, vars, media, store, client, server, counts
<1> QED BY <1>1, <1>2, <1>3, <1>4, <1>5, <1>6, <1>7 DEF Next

THEOREM Invariance == Spec => []IInv
<1>1. IInv /\ [Next]_vars => IInv'
  BY NextInv
<1> QED BY InitInv, <1>1, PTL DEF Spec

(* Every variable keeps its shape.                                         *)
THEOREM PageType == Spec => []TypeOK
<1>1. IInv => TypeOK
  BY DEF IInv
<1> QED BY Invariance, <1>1, PTL

(* A stopped page has no live camera, but for a device that was being      *)
(* changed.                                                                *)
THEOREM PageDark == Spec => []StoppedDark
<1>1. IInv => StoppedDark
  BY DEF IInv
<1> QED BY Invariance, <1>1, PTL

(* A stopped page has no socket, and a running one none but its own.       *)
THEOREM PageSilent == Spec => []StoppedSilent
<1>1. IInv => StoppedSilent
  BY DEF IInv
<1> QED BY Invariance, <1>1, PTL

(* One interval fires at most, and it does while the socket is open, unless*)
(* an older socket was late to tell that it closed.                        *)
THEOREM PageHeart == Spec => []OneHeart
<1>1. IInv => OneHeart
  BY DEF IInv
<1> QED BY Invariance, <1>1, PTL
=============================================================================
