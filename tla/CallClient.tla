----------------------------- MODULE CallClient -----------------------------
(***************************************************************************)
(* A random call as its two browsers see it: the call store, the WebRTC    *)
(* manager and the connection monitor of every client (useChatSession,     *)
(* WebRTCManager, ConnectionMonitor), the messages on their way, and the   *)
(* server's end of queue:join, match:skip and the WebRTC relay.            *)
(*                                                                         *)
(* Each step of a client is one event of its page.  The server is coarser  *)
(* than in Matchmaking: a handler takes a step up to the last thing others *)
(* can see, and its locks are gone, for the one that holds the lock and    *)
(* the one that finds the match are the same.  Blocks, bans, failures and  *)
(* the Stop button are left out.                                           *)
(***************************************************************************)
EXTENDS Integers, Sequences, SequencesExt

CONSTANTS
  Client,        \* pages with a session
  MatchId,
  None,          \* no match
  MaxPresses,    \* bound: clicks on the Skip button
  MaxDrops       \* bound: connections that drop or fail

ASSUME CallAssumption ==
  /\ None \notin MatchId
  /\ MaxPresses \in Nat /\ MaxDrops \in Nat

VARIABLES
  queue,         \* clients in queue:waiting
  match,         \* the matches: pair, how many of it were told, over
  asked,         \* requests a client sent that are not yet handled
  owed,          \* handlers past their first step
  inbox,         \* messages published to a client, not yet delivered
  status,        \* what the page shows: useCallStore.status
  store,         \* useCallStore.matchId, which the Skip button reads
  current,       \* WebRTCManager.currentMatchId
  remote,        \* the match of the remote description the link has
  link,          \* connectionState of the RTCPeerConnection
  timers,        \* timers of the ConnectionMonitor that are running
  attempts,      \* its iceRestartAttempts
  presses, drops

server == <<queue, match, owed>>
call   == <<status, store, current, remote, link, timers, attempts>>
vars   == <<server, asked, inbox, call, presses, drops>>

Status == {"searching", "connecting", "connected", "reconnecting",
           "peer_disconnected"}
InCall == {"connecting", "connected", "reconnecting"}
Link   == {"none", "new", "up", "down"}
Timer  == {"initial", "grace", "recovery"}
MaxIceRestartAttempts == 2

Message == [type : {"queue:joined"}, m : {None}]
           \cup [type : {"match:found", "offer", "answer", "peer:disconnected"},
                 m : MatchId]

Request == [op : {"join"}, m : {None}]
           \cup [op : {"skip", "offer", "answer"}, m : MatchId]
Owed    == [op : {"joined", "requeue"}, c : Client]

NoMatch == [pair |-> <<>>, told |-> 0, over |-> FALSE]
Running(m) == match[m].pair # <<>> /\ ~match[m].over
InMatch(c, m) == match[m].pair # <<>> /\ c \in {match[m].pair[1], match[m].pair[2]}
PeerOf(c, m) == IF match[m].pair[1] = c THEN match[m].pair[2] ELSE match[m].pair[1]
Offerer(c, m) == match[m].pair[1] = c

(* onSessionReady has just sent queue:join.                                *)
Init ==
  /\ queue = {}
  /\ match = [m \in MatchId |-> NoMatch]
  /\ asked = [c \in Client |-> <<[op |-> "join", m |-> None]>>]
  /\ owed = {}
  /\ inbox = [c \in Client |-> <<>>]
  /\ status = [c \in Client |-> "searching"]
  /\ store = [c \in Client |-> None]
  /\ current = [c \in Client |-> None]
  /\ remote = [c \in Client |-> None]
  /\ link = [c \in Client |-> "none"]
  /\ timers = [c \in Client |-> {}]
  /\ attempts = [c \in Client |-> 0]
  /\ presses = 0 /\ drops = 0

Msg(type, m) == [type |-> type, m |-> m]
Publish(box, c, msg) == [box EXCEPT ![c] = Append(@, msg)]

(***************************************************************************)
(* The server.                                                             *)
(***************************************************************************)

(* joinQueue, then the reply, which a worker may overtake.                 *)
HandleJoin(c, r) ==
  /\ r.op = "join"
  /\ queue' = queue \cup {c}
  /\ owed' = owed \cup {[op |-> "joined", c |-> c]}
  /\ UNCHANGED <<match, inbox>>

(* skipMatch up to peer:disconnected: whoever is late is told nothing.     *)
HandleSkip(c, r) ==
  /\ r.op = "skip"
  /\ IF Running(r.m)
     THEN /\ match' = [match EXCEPT ![r.m].over = TRUE]
          /\ inbox' = Publish(inbox, PeerOf(c, r.m), Msg("peer:disconnected", r.m))
          /\ owed' = owed \cup {[op |-> "requeue", c |-> c]}
     ELSE UNCHANGED <<match, inbox, owed>>
  /\ UNCHANGED queue

(* The relay of an offer or an answer: getPeerSessionId has found the match*)
(* at some time since it was sent, and the match may be over by now.       *)
Relay(c, r) ==
  /\ r.op \in {"offer", "answer"} /\ match[r.m].pair # <<>>
  /\ inbox' = Publish(inbox, PeerOf(c, r.m), Msg(r.op, r.m))
  /\ UNCHANGED <<queue, match, owed>>

(* Or it looks now, and finds none.                                        *)
RelayDropped(r) ==
  /\ r.op \in {"offer", "answer"} /\ ~Running(r.m)
  /\ UNCHANGED <<queue, match, owed, inbox>>

(* The handlers of a socket run side by side: a later one may be first.    *)
Handle(c) ==
  /\ \E i \in DOMAIN asked[c] :
       /\ \/ HandleJoin(c, asked[c][i]) \/ HandleSkip(c, asked[c][i])
          \/ Relay(c, asked[c][i]) \/ RelayDropped(asked[c][i])
       /\ asked' = [asked EXCEPT ![c] = RemoveAt(@, i)]
  /\ UNCHANGED <<call, presses, drops>>

SendJoined(o) ==
  /\ o.op = "joined"
  /\ inbox' = Publish(inbox, o.c, Msg("queue:joined", None))
  /\ UNCHANGED queue

(* The joinQueue at the end of skipMatch: no queue:joined is sent.         *)
Requeue(o) ==
  /\ o.op = "requeue"
  /\ queue' = queue \cup {o.c}
  /\ UNCHANGED inbox

Finish(o) ==
  /\ SendJoined(o) \/ Requeue(o)
  /\ owed' = owed \ {o}
  /\ UNCHANGED <<match, asked, call, presses, drops>>

PairUp(c, d, m) ==
  /\ c # d /\ {c, d} \subseteq queue
  /\ match[m].pair = <<>>
  /\ queue' = queue \ {c, d}
  /\ match' = [match EXCEPT ![m].pair = <<c, d>>]
  /\ UNCHANGED <<asked, owed, inbox, call, presses, drops>>

(* The offerer first; the match may be over by the time.                   *)
TellFound(m) ==
  /\ match[m].pair # <<>> /\ match[m].told < 2
  /\ inbox' = Publish(inbox, match[m].pair[match[m].told + 1], Msg("match:found", m))
  /\ match' = [match EXCEPT ![m].told = @ + 1]
  /\ UNCHANGED <<queue, asked, owed, call, presses, drops>>

(***************************************************************************)
(* What an event does to a client.  The page never leaves "failed": the    *)
(* callback skips at once.                                                 *)
(***************************************************************************)

Send(c, op, m) == asked' = [asked EXCEPT ![c] = Append(@, [op |-> op, m |-> m])]

(* Mutant of Ask: without a match too it is match:skip.                    *)
AskSkip(c) == Send(c, "skip", store[c])

(* match:skip for the match of the store, or queue:join without one.       *)
Ask(c) == Send(c, IF store[c] = None THEN "join" ELSE "skip", store[c])

(* Mutant of StopTimers: cleanupCall forgets the connection monitor.       *)
StopTimersNever(c) == timers' = timers

StopTimers(c) == timers' = [timers EXCEPT ![c] = {}]

(* cleanupCall.                                                            *)
Cleanup(c) ==
  /\ StopTimers(c)
  /\ link' = [link EXCEPT ![c] = "none"]
  /\ remote' = [remote EXCEPT ![c] = None]
  /\ current' = [current EXCEPT ![c] = None]

Show(c, s) == status' = [status EXCEPT ![c] = s]

(* skipMatch of the page.                                                  *)
SkipMatch(c) ==
  /\ Ask(c)
  /\ Cleanup(c)
  /\ store' = [store EXCEPT ![c] = None]
  /\ Show(c, "searching")
  /\ UNCHANGED attempts

(* An offer or an answer.  One for a match that is over by now will not be *)
(* relayed, and is left out.                                               *)
Signal(c, type, m) ==
  IF Running(m) THEN Send(c, type, m) ELSE UNCHANGED asked

(* Of the two only the offerer sends an offer.                             *)
SendOffer(c, m) ==
  IF Offerer(c, m) THEN Signal(c, "offer", m) ELSE UNCHANGED asked

(* Mutant of Watched: the 15 s of a recovery are not set.                  *)
WatchedNever(running) == running

(* The timers that run after a recovery was started.                       *)
Watched(running) == running \cup {"recovery"}

CanRestart(c) == attempts[c] < MaxIceRestartAttempts

(* triggerRecovery, with the timers still running: two ICE restarts, for    *)
(* which only the offerer sends an offer, then the match is given up.      *)
Recover(c, running) ==
  IF CanRestart(c)
  THEN /\ attempts' = [attempts EXCEPT ![c] = @ + 1]
       /\ timers' = [timers EXCEPT ![c] = Watched(running)]
       /\ SendOffer(c, current[c])
       /\ Show(c, "reconnecting")
       /\ UNCHANGED <<store, current, remote>>
  ELSE SkipMatch(c)

(***************************************************************************)
(* What is delivered to a client.                                          *)
(***************************************************************************)
Joined(c, got) ==
  /\ got.type = "queue:joined"
  /\ Show(c, "searching")
  /\ UNCHANGED <<asked, store, current, remote, link, timers, attempts>>

(* Mutant of InitialTimers: only the offerer sets the 10 s of a new call.   *)
InitialTimersOffered(c, m) == IF Offerer(c, m) THEN {"initial"} ELSE {}

InitialTimers(c, m) == {"initial"}

(* handleMatchFound.  Whatever call there was is replaced.                 *)
Found(c, got) ==
  /\ got.type = "match:found"
  /\ current' = [current EXCEPT ![c] = got.m]
  /\ store' = [store EXCEPT ![c] = got.m]
  /\ Show(c, "connecting")
  /\ timers' = [timers EXCEPT ![c] = InitialTimers(c, got.m)]
  /\ link' = [link EXCEPT ![c] = "new"]
  /\ remote' = [remote EXCEPT ![c] = None]
  /\ SendOffer(c, got.m)
  /\ UNCHANGED attempts

(* Mutant of Ours: the match of a message is not looked at.                *)
OursAlways(c, m) == current[c] # None

(* The comparison every message about a call starts with.                  *)
Ours(c, m) == m = current[c]

Described(c, got) ==
  /\ got.type \in {"offer", "answer"}
  /\ IF Ours(c, got.m)
     THEN /\ remote' = [remote EXCEPT ![c] = got.m]
          /\ IF got.type = "offer" THEN Signal(c, "answer", got.m)
                                    ELSE UNCHANGED asked
     ELSE UNCHANGED <<asked, remote>>
  /\ UNCHANGED <<status, store, current, link, timers, attempts>>

(* The store keeps the id of the match.                                    *)
PeerLeft(c, got) ==
  /\ got.type = "peer:disconnected"
  /\ IF Ours(c, got.m)
     THEN Cleanup(c) /\ Show(c, "peer_disconnected")
     ELSE UNCHANGED <<status, current, remote, link, timers>>
  /\ UNCHANGED <<asked, store, attempts>>

Deliver(c) ==
  /\ inbox[c] # <<>>
  /\ inbox' = [inbox EXCEPT ![c] = Tail(@)]
  /\ LET got == Head(inbox[c])
     IN  Joined(c, got) \/ Found(c, got) \/ Described(c, got) \/ PeerLeft(c, got)
  /\ UNCHANGED <<server, presses, drops>>

(***************************************************************************)
(* The user, the network and the timers.                                   *)
(***************************************************************************)

(* canSkip of CallControls: not while reconnecting.                        *)
PressSkip(c) ==
  /\ status[c] \in {"connected", "searching", "connecting", "peer_disconnected"}
  /\ presses < MaxPresses /\ presses' = presses + 1
  /\ SkipMatch(c)
  /\ UNCHANGED <<server, inbox, drops>>

(* Both ends know each other's description of this match.                  *)
Linked(c, d) ==
  /\ current[c] # None /\ current[d] = current[c]
  /\ remote[c] = current[c] /\ remote[d] = current[c]

LinkUp(c) ==
  /\ link[c] \in {"new", "down"}
  /\ \E d \in Client \ {c} : Linked(c, d)
  /\ link' = [link EXCEPT ![c] = "up"]
  /\ StopTimers(c)
  /\ attempts' = [attempts EXCEPT ![c] = 0]
  /\ Show(c, "connected")
  /\ UNCHANGED <<server, asked, inbox, store, current, remote, presses, drops>>

Drop == drops < MaxDrops /\ drops' = drops + 1

(* connectionState "disconnected": 3 s of grace.                           *)
LinkDrops(c) ==
  /\ Drop
  /\ link[c] = "up"
  /\ link' = [link EXCEPT ![c] = "down"]
  /\ timers' = [timers EXCEPT ![c] = @ \cup {"grace"}]
  /\ Show(c, "reconnecting")
  /\ UNCHANGED <<server, asked, inbox, store, current, remote, attempts, presses>>

(* connectionState "failed" of itself.                                     *)
LinkFails(c) ==
  /\ Drop
  /\ link[c] \in {"new", "down"} /\ remote[c] # None
  /\ Recover(c, timers[c])
  /\ IF CanRestart(c)
     THEN link' = [link EXCEPT ![c] = "down"] ELSE TRUE
  /\ UNCHANGED <<server, inbox, presses>>

(* iceConnectionState "failed": the match is skipped with no recovery, and *)
(* connectionState is not looked at any more.                              *)
IceFails(c) ==
  /\ Drop
  /\ link[c] \in {"new", "down"} /\ remote[c] # None
  /\ SkipMatch(c)
  /\ UNCHANGED <<server, inbox, presses>>

GraceEnds(c) ==
  /\ "grace" \in timers[c]
  /\ Recover(c, timers[c] \ {"grace"})
  /\ CanRestart(c) => UNCHANGED link
  /\ UNCHANGED <<server, inbox, presses, drops>>

(* The 10 s of a new call, or the 15 s of a recovery: onFailed.            *)
GiveUp(c) ==
  /\ timers[c] \cap {"initial", "recovery"} # {}
  /\ SkipMatch(c)
  /\ UNCHANGED <<server, inbox, presses, drops>>

Next ==
  \/ \E o \in owed : Finish(o)
  \/ \E c, d \in Client, m \in MatchId : PairUp(c, d, m)
  \/ \E m \in MatchId : TellFound(m)
  \/ \E c \in Client :
       \/ Handle(c) \/ Deliver(c) \/ PressSkip(c) \/ LinkUp(c) \/ LinkDrops(c)
       \/ LinkFails(c) \/ IceFails(c) \/ GraceEnds(c) \/ GiveUp(c)

Spec == Init /\ [][Next]_vars

(* What was sent is handled, what was published is delivered, a worker     *)
(* tells whom it paired, a timer that is not cleared goes off.             *)
Fairness ==
  /\ \A c \in Client :
       /\ WF_vars(Handle(c))
       /\ WF_vars(\E o \in owed : o.c = c /\ Finish(o))
       /\ WF_vars(Deliver(c)) /\ WF_vars(GraceEnds(c)) /\ WF_vars(GiveUp(c))
  /\ \A m \in MatchId : WF_vars(TellFound(m))

FairSpec == Spec /\ Fairness

(***************************************************************************)
(* Properties.                                                             *)
(***************************************************************************)

(* Every variable keeps its shape.                                         *)
TypeOK ==
  /\ queue \subseteq Client
  /\ match \in [MatchId -> [pair : {<<>>} \cup (Client \X Client), told : 0..2,
                            over : BOOLEAN]]
  /\ asked \in [Client -> Seq(Request)] /\ owed \subseteq Owed
  /\ inbox \in [Client -> Seq(Message)]
  /\ status \in [Client -> Status]
  /\ store \in [Client -> MatchId \cup {None}]
  /\ current \in [Client -> MatchId \cup {None}]
  /\ remote \in [Client -> MatchId \cup {None}]
  /\ link \in [Client -> Link]
  /\ timers \in [Client -> SUBSET Timer]
  /\ attempts \in [Client -> 0..MaxIceRestartAttempts]
  /\ presses \in Nat /\ drops \in Nat

(* A page that shows a call has one, and its Skip button is about that     *)
(* call; a timer that is running belongs to it.  Matches that are replaced,*)
(* ended or given up in any order leave no timer and no stale id behind    *)
(* under such a page: lines 49-67 and 227-231.                             *)
CallShown ==
  \A c \in Client :
    /\ status[c] \in InCall => current[c] # None /\ store[c] = current[c]
    /\ timers[c] # {} => current[c] # None

(* The connection of a call is never set up with an offer or an answer of  *)
(* another match, however late it comes: lines 126 and 139.                *)
SignalsOwnMatch == \A c \in Client : remote[c] \in {None, current[c]}

(* A page that shows a call which does not come about, or comes apart, does*)
(* not do so for ever: each of these states has its timer.                 *)
CallSettles ==
  \A c \in Client :
    ~<>[](status[c] = "connecting") /\ ~<>[](status[c] = "reconnecting")

(* No client stays in a match that its peer ended, also when the message   *)
(* that it ended overtakes the one that it began.                          *)
DeadMatchLeft ==
  \A c \in Client, m \in MatchId : ~<>[](match[m].over /\ current[c] = m)

(***************************************************************************)
(* What the design document says, and the code does not do.                *)
(***************************************************************************)

(* "No user may remain indefinitely in: SEARCHING": a page that shows it   *)
(* stops to, or its session waits in the queue.                            *)
SearchingQueued ==
  \A c \in Client : status[c] = "searching" ~>
    (status[c] # "searching" \/ c \in queue)
=============================================================================
