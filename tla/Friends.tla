------------------------------ MODULE Friends ------------------------------
(***************************************************************************)
(* Friends: the worker that makes friends of two sessions whose match has  *)
(* lasted long enough, and what friends do to each other: call, accept,    *)
(* decline, write, and end the friendship (checkAutoFriendships,           *)
(* FriendsService, and the pages' useFriendsStore).                        *)
(*                                                                         *)
(* A step of the server is one command.  A step of a page is a click or a  *)
(* message.  What is said in a call or a direct message is left out, and   *)
(* so is the WebRTC signalling of a friend call.                           *)
(***************************************************************************)
EXTENDS Integers, Sequences

CONSTANTS
  Session,
  Pod,
  Handler,       \* places for requests handled at the same time
  MatchId,       \* matches that have lasted AUTO_FRIEND_THRESHOLD_SECONDS
  MatchPair,     \* MatchPair[m]: the sessionA and sessionB of a match
  FriendshipId,
  CallId,
  None,
  MaxRequests,   \* bound: clicks that send a request
  MaxFaults      \* bound: commands that fail

ASSUME FriendsAssumption ==
  /\ None \notin CallId /\ None \notin FriendshipId /\ None \notin MatchId
  /\ MatchPair \in [MatchId -> {ab \in Session \X Session : ab[1] # ab[2]}]
  /\ FriendshipId # {} /\ MaxRequests \in Nat /\ MaxFaults \in Nat

VARIABLES
  running,       \* matches whose HASH match:<match> exists
  friendships,   \* table friendships: the ids of its rows
  pair,          \* the two sessions of an id, <<>> before it is given
  dms,           \* friendships with a row in direct_messages
  call,          \* the calls asked for: friendship, caller and callee
  row,           \* table friend_calls: the status of a call
  key,           \* HASH friend-call:<call>: its status
  worker,        \* checkAutoFriendships on each pod
  handler,       \* the requests in flight
  inbox,         \* messages published to a session, not yet delivered
  list,          \* useFriendsStore.friends
  incoming,      \* useFriendsStore.incomingCall
  active,        \* useFriendsStore.activeFriendCallId
  reqs, faults

tables == <<friendships, pair, dms, row>>
page   == <<list, incoming, active>>
vars   == <<running, tables, call, key, worker, handler, inbox, page, reqs, faults>>

Pairs == {ab \in Session \X Session : ab[1] # ab[2]}

(* "stub": the HASH has a status and nothing else, and does not run out.   *)
KeyStatus == {"none", "ringing", "active", "stub"}
RowStatus == {"none", "ringing", "active", "declined"}

NoCall      == [f |-> None, pair |-> <<>>]
IdleWorker  == [pc |-> "idle", todo |-> {}, m |-> None, f |-> None]
IdleHandler == [pc |-> "idle", op |-> "none", s |-> None, f |-> None, k |-> None]

Message ==
  [type : {"friend:auto-connected", "friend:removed"}, id : FriendshipId]
  \cup [type : {"friend:incoming-call", "friend:call-connected",
                "friend:call-declined"}, id : CallId]

Other(ab, s) == IF ab[1] = s THEN ab[2] ELSE ab[1]

(* At most one friendship to begin with, on the list of both pages.        *)
Init ==
  /\ running \in SUBSET MatchId
  /\ \E fs \in {{}, {CHOOSE f \in FriendshipId : TRUE}}, ab \in Pairs :
       /\ friendships = fs
       /\ pair = [f \in FriendshipId |-> IF f \in fs THEN ab ELSE <<>>]
       /\ list = [s \in Session |-> IF s \in {ab[1], ab[2]} THEN fs ELSE {}]
  /\ dms = {}
  /\ call = [k \in CallId |-> NoCall]
  /\ row = [k \in CallId |-> "none"]
  /\ key = [k \in CallId |-> "none"]
  /\ worker = [p \in Pod |-> IdleWorker]
  /\ handler = [h \in Handler |-> IdleHandler]
  /\ inbox = [s \in Session |-> <<>>]
  /\ incoming = [s \in Session |-> None]
  /\ active = [s \in Session |-> None]
  /\ reqs = 0 /\ faults = 0

Msg(type, id) == [type |-> type, id |-> id]
Publish(s, msg) == inbox' = [inbox EXCEPT ![s] = Append(@, msg)]

(***************************************************************************)
(* PostgreSQL's constraints.                                               *)
(***************************************************************************)

(* unique().on(userASessionId, userBSessionId).                            *)
Unique(ab) == \A f \in friendships : pair[f] # ab

(* Rows of friend_calls and direct_messages reference their friendship.    *)
Referenced(f) == f \in dms \/ \E k \in CallId : call[k].f = f /\ row[k] # "none"
Exists(f) == f \in friendships

(***************************************************************************)
(* checkAutoFriendships.  An error ends the round.                         *)
(***************************************************************************)
EndRound(p) == worker' = [worker EXCEPT ![p] = IdleWorker]

(* Mutant of NextKey: the round does not end with the last key.            *)
NextKeyUnchecked(p, todo) ==
  worker' = [worker EXCEPT ![p] = [IdleWorker EXCEPT !.pc = "read", !.todo = todo]]

NextKey(p, todo) ==
  worker' = [worker EXCEPT ![p] =
    IF todo = {} THEN IdleWorker ELSE [IdleWorker EXCEPT !.pc = "read", !.todo = todo]]

WorkerTo(p, pc) == worker' = [worker EXCEPT ![p].pc = pc]

Scan(p) ==
  /\ worker[p].pc = "idle"
  /\ NextKey(p, running)
  /\ UNCHANGED <<tables, inbox>>

ReadMatch(p) ==
  /\ worker[p].pc = "read"
  /\ \E m \in worker[p].todo :
       IF m \in running
       THEN worker' = [worker EXCEPT ![p].pc = "find", ![p].m = m,
                                     ![p].todo = @ \ {m}]
       ELSE NextKey(p, worker[p].todo \ {m})
  /\ UNCHANGED <<tables, inbox>>

FindFriendship(p) ==
  /\ worker[p].pc = "find"
  /\ IF \E f \in friendships : pair[f] = MatchPair[worker[p].m]
     THEN NextKey(p, worker[p].todo)
     ELSE WorkerTo(p, "insert")
  /\ UNCHANGED <<tables, inbox>>

InsertFriendship(p) ==
  /\ worker[p].pc = "insert"
  /\ LET ab == MatchPair[worker[p].m]
         new == {f \in FriendshipId : pair[f] = <<>>}
         f == CHOOSE g \in new : TRUE
     IN  IF Unique(ab)
         THEN /\ new # {}
              /\ friendships' = friendships \cup {f}
              /\ pair' = [pair EXCEPT ![f] = ab]
              /\ worker' = [worker EXCEPT ![p].pc = "tellA", ![p].f = f]
         ELSE EndRound(p) /\ UNCHANGED <<friendships, pair>>
  /\ UNCHANGED <<dms, row, inbox>>

TellA(p) ==
  /\ worker[p].pc = "tellA"
  /\ Publish(MatchPair[worker[p].m][1], Msg("friend:auto-connected", worker[p].f))
  /\ WorkerTo(p, "tellB")
  /\ UNCHANGED tables

(* Mutant of TellB: the first session again.                               *)
TellFirstAgain(p) ==
  /\ worker[p].pc = "tellB"
  /\ Publish(MatchPair[worker[p].m][1], Msg("friend:auto-connected", worker[p].f))
  /\ NextKey(p, worker[p].todo)
  /\ UNCHANGED tables

TellB(p) ==
  /\ worker[p].pc = "tellB"
  /\ Publish(MatchPair[worker[p].m][2], Msg("friend:auto-connected", worker[p].f))
  /\ NextKey(p, worker[p].todo)
  /\ UNCHANGED tables

WorkerStep(p) ==
  /\ \/ Scan(p) \/ ReadMatch(p) \/ FindFriendship(p) \/ InsertFriendship(p)
     \/ TellA(p) \/ TellB(p)
  /\ UNCHANGED <<running, call, key, handler, page, reqs, faults>>

(***************************************************************************)
(* What the pages ask for.                                                 *)
(***************************************************************************)
Ask(h, req) ==
  /\ handler[h].pc = "idle"
  /\ reqs < MaxRequests /\ reqs' = reqs + 1
  /\ handler' = [handler EXCEPT ![h] = req]
  /\ UNCHANGED <<running, tables, key, worker, inbox, faults>>

Request(op, pc, s, f, k) == [op |-> op, pc |-> pc, s |-> s, f |-> f, k |-> k]

CallFriend(h, s) ==
  /\ \E f \in list[s], k \in CallId :
       /\ call[k] = NoCall
       /\ call' = [call EXCEPT ![k].f = f]
       /\ Ask(h, Request("call", "find", s, f, k))
  /\ UNCHANGED page

(* The modal shows the call while no other one is on the screen.           *)
AcceptCall(h, s) ==
  /\ incoming[s] # None /\ active[s] = None
  /\ Ask(h, Request("accept", "read", s, None, incoming[s]))
  /\ active' = [active EXCEPT ![s] = incoming[s]]
  /\ incoming' = [incoming EXCEPT ![s] = None]
  /\ UNCHANGED <<call, list>>

(* Mutant of DeclineCall: the modal stays.                                 *)
DeclineCallStillOpen(h, s) ==
  /\ incoming[s] # None /\ active[s] = None
  /\ Ask(h, Request("decline", "read", s, None, incoming[s]))
  /\ UNCHANGED <<call, page>>

DeclineCall(h, s) ==
  /\ incoming[s] # None /\ active[s] = None
  /\ Ask(h, Request("decline", "read", s, None, incoming[s]))
  /\ incoming' = [incoming EXCEPT ![s] = None]
  /\ UNCHANGED <<call, list, active>>

SendDm(h, s) ==
  /\ \E f \in list[s] : Ask(h, Request("dm", "find", s, f, None))
  /\ UNCHANGED <<call, page>>

Unfriend(h, s) ==
  /\ \E f \in list[s] : Ask(h, Request("unfriend", "find", s, f, None))
  /\ UNCHANGED <<call, page>>

Click(h, s) ==
  \/ CallFriend(h, s) \/ AcceptCall(h, s) \/ DeclineCall(h, s)
  \/ SendDm(h, s) \/ Unfriend(h, s)

(***************************************************************************)
(* FriendsService.                                                         *)
(***************************************************************************)
At(h, op, pc) == handler[h].op = op /\ handler[h].pc = pc
To(h, pc)     == handler' = [handler EXCEPT ![h].pc = pc]
Done(h)       == handler' = [handler EXCEPT ![h] = IdleHandler]

(* initiateCall.                                                           *)
CallFind(h) ==
  /\ At(h, "call", "find")
  /\ LET r == handler[h]
     IN  IF Exists(r.f)
         THEN /\ To(h, "row")
              /\ call' = [call EXCEPT ![r.k].pair = <<r.s, Other(pair[r.f], r.s)>>]
         ELSE Done(h) /\ UNCHANGED call
  /\ UNCHANGED <<tables, key, inbox, list>>

(* The callee may be offline or in a call: the caller is told so.          *)
CallRefused(h) ==
  /\ At(h, "call", "row")
  /\ Done(h)
  /\ UNCHANGED <<tables, call, key, inbox, list>>

CallInsert(h) ==
  /\ At(h, "call", "row")
  /\ LET r == handler[h]
     IN  IF Exists(r.f)
         THEN To(h, "key") /\ row' = [row EXCEPT ![r.k] = "ringing"]
         ELSE Done(h) /\ UNCHANGED row
  /\ UNCHANGED <<friendships, pair, dms, call, key, inbox, list>>

CallStore(h) ==
  /\ At(h, "call", "key")
  /\ key' = [key EXCEPT ![handler[h].k] = "ringing"]
  /\ To(h, "ring")
  /\ UNCHANGED <<tables, call, inbox, list>>

CallRing(h) ==
  /\ At(h, "call", "ring")
  /\ Publish(call[handler[h].k].pair[2], Msg("friend:incoming-call", handler[h].k))
  /\ Done(h)
  /\ UNCHANGED <<tables, call, key, list>>

(* The caller is read from the HASH: not there if it ran out.              *)
Known(k) == key[k] \in {"ringing", "active"}

AcceptRead(h) ==
  /\ At(h, "accept", "read")
  /\ IF Known(handler[h].k) THEN To(h, "row") ELSE Done(h)
  /\ UNCHANGED <<tables, call, key, inbox, list>>

AcceptRow(h) ==
  /\ At(h, "accept", "row")
  /\ row' = [row EXCEPT ![handler[h].k] = "active"]
  /\ To(h, "key")
  /\ UNCHANGED <<friendships, pair, dms, call, key, inbox, list>>

(* HSET makes a new HASH if the one that was read ran out.                 *)
AcceptStore(h) ==
  /\ At(h, "accept", "key")
  /\ LET k == handler[h].k
     IN  key' = [key EXCEPT ![k] = IF Known(k) THEN "active" ELSE "stub"]
  /\ To(h, "tell")
  /\ UNCHANGED <<tables, call, inbox, list>>

AcceptTell(h) ==
  /\ At(h, "accept", "tell")
  /\ Publish(call[handler[h].k].pair[1], Msg("friend:call-connected", handler[h].k))
  /\ Done(h)
  /\ UNCHANGED <<tables, call, key, list>>

DeclineRead(h) ==
  /\ At(h, "decline", "read")
  /\ To(h, IF Known(handler[h].k) THEN "tell" ELSE "row")
  /\ UNCHANGED <<tables, call, key, inbox, list>>

DeclineTell(h) ==
  /\ At(h, "decline", "tell")
  /\ Publish(call[handler[h].k].pair[1], Msg("friend:call-declined", handler[h].k))
  /\ To(h, "row")
  /\ UNCHANGED <<tables, call, key, list>>

DeclineRow(h) ==
  /\ At(h, "decline", "row")
  /\ row' = [row EXCEPT ![handler[h].k] = "declined"]
  /\ To(h, "key")
  /\ UNCHANGED <<friendships, pair, dms, call, key, inbox, list>>

(* Mutant of DeclineDelete: no DEL.                                       *)
DeclineKeepsKey(h) ==
  /\ At(h, "decline", "key")
  /\ Done(h)
  /\ UNCHANGED <<tables, call, key, inbox, list>>

DeclineDelete(h) ==
  /\ At(h, "decline", "key")
  /\ key' = [key EXCEPT ![handler[h].k] = "none"]
  /\ Done(h)
  /\ UNCHANGED <<tables, call, inbox, list>>

(* sendDmMessage; the message itself is left out.                          *)
DmFind(h) ==
  /\ At(h, "dm", "find")
  /\ IF Exists(handler[h].f) THEN To(h, "row") ELSE Done(h)
  /\ UNCHANGED <<tables, call, key, inbox, list>>

DmInsert(h) ==
  /\ At(h, "dm", "row")
  /\ dms' = IF Exists(handler[h].f) THEN dms \cup {handler[h].f} ELSE dms
  /\ Done(h)
  /\ UNCHANGED <<friendships, pair, row, call, key, inbox, list>>

(* removeFriend.                                                           *)
UnfriendFind(h) ==
  /\ At(h, "unfriend", "find")
  /\ To(h, IF Exists(handler[h].f) THEN "delete" ELSE "reply")
  /\ UNCHANGED <<tables, call, key, inbox, list>>

(* A friendship that is referred to cannot be deleted: DELETE throws.       *)
UnfriendDelete(h) ==
  /\ At(h, "unfriend", "delete")
  /\ LET f == handler[h].f
     IN  IF Referenced(f)
         THEN To(h, "reply") /\ UNCHANGED friendships
         ELSE To(h, "tell") /\ friendships' = friendships \ {f}
  /\ UNCHANGED <<pair, dms, row, call, key, inbox, list>>

UnfriendTell(h) ==
  /\ At(h, "unfriend", "tell")
  /\ LET r == handler[h]
     IN  Publish(Other(pair[r.f], r.s), Msg("friend:removed", r.f))
  /\ To(h, "reply")
  /\ UNCHANGED <<tables, call, key, list>>

(* Whatever the status of the reply, the page takes the friend off.        *)
UnfriendReply(h) ==
  /\ At(h, "unfriend", "reply")
  /\ LET r == handler[h] IN list' = [list EXCEPT ![r.s] = @ \ {r.f}]
  /\ Done(h)
  /\ UNCHANGED <<tables, call, key, inbox>>

HandlerStep(h) ==
  /\ \/ CallFind(h) \/ CallRefused(h) \/ CallInsert(h) \/ CallStore(h) \/ CallRing(h)
     \/ AcceptRead(h) \/ AcceptRow(h) \/ AcceptStore(h) \/ AcceptTell(h)
     \/ DeclineRead(h) \/ DeclineTell(h) \/ DeclineRow(h) \/ DeclineDelete(h)
     \/ DmFind(h) \/ DmInsert(h)
     \/ UnfriendFind(h) \/ UnfriendDelete(h) \/ UnfriendTell(h) \/ UnfriendReply(h)
  /\ UNCHANGED <<running, worker, incoming, active, reqs, faults>>

(***************************************************************************)
(* What is delivered to a page: onServerMessage of useChatSession.          *)
(***************************************************************************)
Delivered(s, type) ==
  /\ inbox[s] # <<>> /\ Head(inbox[s]).type = type
  /\ inbox' = [inbox EXCEPT ![s] = Tail(@)]

AutoConnected(s) ==
  /\ Delivered(s, "friend:auto-connected")
  /\ list' = [list EXCEPT ![s] = @ \cup {Head(inbox[s]).id}]
  /\ UNCHANGED <<incoming, active>>

Removed(s) ==
  /\ Delivered(s, "friend:removed")
  /\ list' = [list EXCEPT ![s] = @ \ {Head(inbox[s]).id}]
  /\ UNCHANGED <<incoming, active>>

IncomingCall(s) ==
  /\ Delivered(s, "friend:incoming-call")
  /\ incoming' = [incoming EXCEPT ![s] = Head(inbox[s]).id]
  /\ UNCHANGED <<list, active>>

CallConnected(s) ==
  /\ Delivered(s, "friend:call-connected")
  /\ active' = [active EXCEPT ![s] = Head(inbox[s]).id]
  /\ incoming' = [incoming EXCEPT ![s] = None]
  /\ UNCHANGED list

(* Whatever call it was that was declined.                                 *)
CallDeclined(s) ==
  /\ Delivered(s, "friend:call-declined")
  /\ incoming' = [incoming EXCEPT ![s] = None]
  /\ active' = [active EXCEPT ![s] = None]
  /\ UNCHANGED list

(* friend:call-end is sent and no one handles it.                          *)
HangUp(s) ==
  /\ active[s] # None
  /\ active' = [active EXCEPT ![s] = None]
  /\ UNCHANGED <<list, incoming, inbox>>

PageStep(s) ==
  /\ \/ AutoConnected(s) \/ Removed(s) \/ IncomingCall(s) \/ CallConnected(s)
     \/ CallDeclined(s) \/ HangUp(s)
  /\ UNCHANGED <<running, tables, call, key, worker, handler, reqs, faults>>

(***************************************************************************)
(* The environment.                                                        *)
(***************************************************************************)
EndMatch(m) ==
  /\ m \in running
  /\ running' = running \ {m}
  /\ UNCHANGED <<tables, call, key, worker, handler, inbox, page, reqs, faults>>

(* The 45 s of a HASH, which an accept does not change.                    *)
ExpireCall(k) ==
  /\ Known(k)
  /\ key' = [key EXCEPT ![k] = "none"]
  /\ UNCHANGED <<running, tables, call, worker, handler, inbox, page, reqs, faults>>

Fault == faults < MaxFaults /\ faults' = faults + 1

WorkerThrows(p) ==
  /\ Fault
  /\ worker[p].pc # "idle"
  /\ EndRound(p)
  /\ UNCHANGED <<running, tables, call, key, handler, inbox, page, reqs>>

(* A request over the socket gets an error; the reply to an HTTP request   *)
(* has the status 500.                                                     *)
HandlerThrows(h) ==
  /\ Fault
  /\ handler[h].pc \notin {"idle", "reply"}
  /\ IF handler[h].op = "unfriend" THEN To(h, "reply") ELSE Done(h)
  /\ UNCHANGED <<running, tables, call, key, worker, inbox, page, reqs>>

Next ==
  \/ \E p \in Pod : WorkerStep(p) \/ WorkerThrows(p)
  \/ \E h \in Handler, s \in Session : Click(h, s)
  \/ \E h \in Handler : HandlerStep(h) \/ HandlerThrows(h)
  \/ \E s \in Session : PageStep(s)
  \/ \E m \in MatchId : EndMatch(m)
  \/ \E k \in CallId : ExpireCall(k)

Spec == Init /\ [][Next]_vars

(***************************************************************************)
(* Properties.                                                             *)
(***************************************************************************)

(* Every variable keeps its shape, and a worker in a round has a key to    *)
(* read or a match in hand.                                                *)
TypeOK ==
  /\ running \subseteq MatchId
  /\ friendships \subseteq FriendshipId /\ dms \subseteq FriendshipId
  /\ pair \in [FriendshipId -> Pairs \cup {<<>>}]
  /\ \A f \in friendships : pair[f] # <<>>
  /\ call \in [CallId -> [f : FriendshipId \cup {None}, pair : Pairs \cup {<<>>}]]
  /\ row \in [CallId -> RowStatus] /\ key \in [CallId -> KeyStatus]
  /\ worker \in [Pod -> [pc : {"idle", "read", "find", "insert", "tellA", "tellB"},
                          todo : SUBSET MatchId, m : MatchId \cup {None},
                          f : FriendshipId \cup {None}]]
  /\ \A p \in Pod :
       /\ worker[p].pc = "read" => worker[p].todo # {}
       /\ worker[p].pc \notin {"idle", "read"} => worker[p].m # None
       /\ worker[p].pc \in {"tellA", "tellB"} => worker[p].f # None
  /\ handler \in [Handler -> [op : {"none", "call", "accept", "decline", "dm", "unfriend"},
       pc : {"idle", "find", "row", "key", "ring", "read", "tell", "delete", "reply"},
       s : Session \cup {None}, f : FriendshipId \cup {None}, k : CallId \cup {None}]]
  /\ inbox \in [Session -> Seq(Message)]
  /\ list \in [Session -> SUBSET FriendshipId]
  /\ incoming \in [Session -> CallId \cup {None}]
  /\ active \in [Session -> CallId \cup {None}]
  /\ reqs \in Nat /\ faults \in Nat

(* What rings or runs is a call of two friends, and Redis and PostgreSQL   *)
(* agree on it; a call that was declined is gone from Redis.               *)
CallBacked ==
  \A k \in CallId :
    /\ row[k] # "none" => call[k].f \in friendships
    /\ key[k] # "none" => row[k] # "none"
    /\ key[k] = "active" => row[k] = "active"
    /\ row[k] = "declined" /\ faults = 0 =>
         key[k] = "none" \/ \E h \in Handler : handler[h].op = "decline" /\ handler[h].k = k

(* A page rings only for a call that waits for an answer, shows only a     *)
(* call that was not declined, and the caller's only one that was accepted.*)
PagesAgree ==
  \A s \in Session :
    /\ incoming[s] # None => row[incoming[s]] = "ringing" /\ call[incoming[s]].pair[2] = s
    /\ active[s] # None =>
         \/ row[active[s]] = "active"
         \/ row[active[s]] = "ringing" /\ call[active[s]].pair[2] = s

(* Two sessions that are friends see each other on their lists, or are     *)
(* about to be told, while nothing fails.  A friendship with a call or a   *)
(* message is left out: a page that could not end it takes it off its list *)
(* all the same.                                                           *)
FriendsListed ==
  faults = 0 =>
    \A f \in friendships : \A s \in {pair[f][1], pair[f][2]} :
      \/ Referenced(f) \/ f \in list[s]
      \/ \E i \in DOMAIN inbox[s] : inbox[s][i] = Msg("friend:auto-connected", f)
      \/ \E p \in Pod :
           /\ worker[p].f = f
           /\ worker[p].pc \in {"tellA", "tellB"}
           /\ pair[f][1] = s => worker[p].pc = "tellA"

(***************************************************************************)
(* What a friend call promises.                                            *)
(***************************************************************************)
Parties == [k \in CallId |-> IF row[k] = "none" THEN <<>> ELSE call[k].pair]

Calls == INSTANCE FriendCall
           WITH status <- row, parties <- Parties, rings <- incoming, shows <- active

(* Whatever requests, failures, expiries and removals of friends do, every *)
(* step the server and the pages take of a call is one that FriendCall     *)
(* allows the two who are in it.                                           *)
CallsPromised == Calls!CallSpec
=============================================================================
