# A verification of ChatSpin in TLA+

ChatSpin pairs strangers for random video calls. Browsers talk to a Fastify
server over WebSockets; the server is meant to run as several *pods* that share
Redis (queues, locks, sessions, Pub/Sub) and PostgreSQL (what is kept). This
directory models the parts of it in which the order of events decides what is
right, checks the models with TLC on small instances, and proves the main safety
properties with TLAPS for instances of any size.

`PROJECT.json` lists the components, runs, mutants, findings, hazards and
theorems, and maps every definition to the source lines it stands for. Paths
below are relative to `src/apps/server/src/services/` unless they say otherwise.

## 1. The system

| Part | State | Operations | What is hard |
|---|---|---|---|
| Matchmaking (`matchmakingService.ts`, half of `routes/websocket.ts`) | `queue:waiting`, `lock:match:*`, `lock:skip:*`, `match:*`, `match:session:*`, `state` of `session:*`, tables `matches`, `meet_history`, `bans` | `queue:join`, `queue:leave`, `match:skip`, the close handler, a worker per pod that polls every 500 ms | workers of several pods on one queue; nothing orders the handlers of a socket; two stores; locks that run out; failures between commands |
| Sessions (`sessionService.ts`) | `session:*`, `session:socket:*`, `tab:device:*`, `presence:*`, tables `anonymous_devices`, `sessions` | `session:init`, `heartbeat`, close | one session per device, while init, heartbeat and close of a socket overlap and keys run out |
| WebSocket gateway (`routes/websocket.ts`) | `currentSessionId` of a socket | validates and dispatches client messages | handlers are `async`: the next message starts while the one before is at an `await` |
| Pub/Sub (`pubsubService.ts`) | `activeSockets`, subscriptions | register, unregister, publish | a message to nobody is lost; close against init |
| Moderation (`moderationService.ts`, `routes/admin.ts`) | `blocks:*`, tables `blocks`, `reports`, `bans` | report (with an automatic ban), block, manual ban | report, count and ban are separate commands; a block is two writes in two stores, against a worker that has looked it up already |
| Signalling (`signalingService.ts`) | none of its own | relays offers, answers, candidates; TURN credentials | relays read a match that may be ending |
| Match chat (`chatService.ts`, `routes/chat.ts`, chat of `app/page.tsx`) | `chat_messages` and two tables of deletions; the list and the marks of a page | send, delete for me or for everyone, history, purge; write, show | relay against the end of the match; a deletion is checked, written and told apart; the page keeps messages of earlier matches |
| Friends (`friendsService.ts`, `matchmakingService.ts:288-362`) | `friendships`, `friend_calls`, `friend-call:*`, `direct_messages` | auto-friendship worker, ring, accept, decline, relay, direct messages, unfriend | workers of several pods check and then insert; calls and messages against the end of the friendship; the 45 s of the ring |
| Call client (`apps/web/src/features/webrtc/*`, `useCallStore.ts`) | call status, match id (twice), peer connection, timers, restart attempts | start, found, described, connected, dropped, skip, peer left | timers against messages against clicks; the client's belief against the server's |
| Friend call client (`FriendCallScreen.tsx`, `IncomingCallModal.tsx`, `useFriendsStore.ts`) | active call, incoming call | call, accept, decline, hang up | shares the WebRTC manager of the random calls |
| WebSocket client (`apps/web/src/lib/wsClient.ts`) | socket, status, heartbeat timer | connect, send, beat, disconnect | one client for all sockets of a page: `onclose` of an old one comes after the next has opened |
| Page session (`useChatSession.ts`, `MediaManager.ts`, `DeviceManager.ts`) | started, stream, mute flags (three times) | Start, Stop, mute, change of device | media granted long after they were asked for; Stop and Start in between |
| Pages, schemas, configuration | | | rendering, declarations: not modelled |

How they interact: a client message starts a handler on the pod that holds the
socket; handlers and workers touch Redis and PostgreSQL one command at a time;
what another client must hear is published on its Redis channel, and the pod
that holds its socket forwards it. There is no other shared state.

What makes each modelled part correct:

- *Matchmaking*: a waiting session is paired or still waiting, never lost; two
  workers never hold the same session; a match ends once, in both stores, and its
  peer is told; of two waiting sessions one is paired, unless some that wait have
  blocked each other or two workers go on holding locks against each other: in
  these two cases the code keeps waiting sessions waiting ("Divergences").
- *Sessions*: one session per device at work; a close that found its session
  leaves no lock, lookup key or HASH of it. (Its `presence:*` may come back.)
- *Friends*: two friends both know that they are; a call that was declined is
  gone from both stores and both pages.
- *Moderation*: three reports of a day end in a ban and nothing less does; Redis
  keeps apart only whom a row of PostgreSQL blocks. That a blocked peer is never
  matched again does not hold (run `blocked`).
- *Match chat*: what a page shows was written by that other in a match of the
  two; what it shows as deleted is deleted; what was saved arrives, at a peer
  whose page stays open. Who deletes is not authenticated ("Divergences").
- *Page session*: once stopped, no camera and no socket is left; once started, it
  joins the queue; one heartbeat.
- *Call client*: a page that shows a call has one; no timer and no description
  outlives its match; no page stays connecting, reconnecting or in a dead match.

## 2. Modules

| Module | What it is |
|---|---|
| `Matchmaking` | the worker of each pod and the handlers of join, leave, skip, block and close: one action per Redis or PostgreSQL command |
| `MatchService` | the abstract specification: what clients are promised about matches, with no queue, lock, store or pod |
| `MatchmakingProofs`, `MatchServiceProofs` | theorems about `Matchmaking`, and that it implements `MatchService` |
| `TabSession` | the life of a socket on the server: init, heartbeat, close and the keys they share, with their expiry |
| `TabSessionProofs` | theorems about `TabSession` |
| `CallClient` | the call of two browsers: store, WebRTC manager, connection monitor, messages in flight, and the server's end, coarser than in `Matchmaking` |
| `CallClientProofs` | theorems about `CallClient` |
| `Friends` | the auto-friendship workers, friend calls from ring to answer, direct messages and the end of a friendship, with the friends store of the pages |
| `FriendCall` | the abstract specification of a friend call: what the two who are in it are promised, with no request, row or message |
| `FriendsProofs` | theorems about `Friends`, and that it implements `FriendCall` |
| `Moderation` | reports with their count and automatic ban, blocks, and what the worker that pairs sees of them |
| `ModerationProofs` | theorems about `Moderation` |
| `Chat` | the text chat of a match: the commands of the service, the two DELETE routes, and the pages that write, show and delete |
| `ChatProofs` | theorems about `Chat` |
| `PageSession` | a page from Start to Stop: media, socket, heartbeat, mute buttons, devices |
| `PageSessionProofs` | theorems about `PageSession` |
| `MC...` | instances for TLC |

**Grain.** JavaScript runs from one `await` to the next without interruption, so
a step of `Matchmaking`, `TabSession` and of the server in `Friends`, `Chat` and
`Moderation` is one Redis or database command with
the code that leads to it. Two commands on one key that nothing can come between
in a way that matters (`HSET` and `EXPIRE` of a session) are one step. Two
`SISMEMBER` sent together with `Promise.all` are one.

**`Matchmaking`.** `worker[p]` is the worker of pod `p`: its place, the rest of
the snapshot it read (`batch`, whose first two are the pair in hand), the locks
it got, the match it inserted. `Poll` to `ReleasePair` are the commands of
`processQueue` and `tryPairSessions`, in order; `worker[p].n` says which of the
pair a command is about. `handler[h]` is a handler in flight: the operation, its
session and match, its place, and the pair that `hgetall` returned. The places
from `read` to `zadd` are `skipMatch` and the `joinQueue` it ends with; the close
handler is `leaveQueue`, the look-up of its match, and `skipMatch`. Handlers of
one session run side by side, as the gateway lets them. `Ban`, `WorkerThrows`,
`HandlerThrows`, `PodCrash`, `ExpirePairLock` and `ExpireSkipLock` are the
environment: a throw inside the `try` of `tryPairSessions` or `skipMatch` runs
the `finally`, elsewhere it does not. A close handler that throws outside its
`catch` is an unhandled rejection, which ends the process (`index.ts` has no
handler for it): it is a `PodCrash`.

The queue is a sequence in the order of `ZADD`. Scores are the clocks of the
pods, so skew between pods and equal milliseconds can order it otherwise; no
property here depends on the order.

**`MatchService`** has four steps: `Open` a match for two different sessions,
`Tell` a party of it, `End` it once, and `Bereave` one party, once. The mapping
takes a match to "none", "open" or "over" from its row in PostgreSQL.

**`TabSession`.** A client sends `session:init` once per socket, so sessions are
named by their sockets. `init[s]`, `beat[s]` and `close[s]` are the places of the
three handlers of a socket, which may overlap; a heartbeat handler is one per
socket at a time (they are 5 s apart). A key that can run out has an `Expire`
action. Three things the time-outs are chosen to make rare are *lapses*, counted
apart: a client that vanishes unnoticed ("loss"), a socket older than the 30
minutes of its look-up key ("age"), a lock whose 60 s run out in use ("stall").
The part of the close handler about the queue and the match is one step here.

**`CallClient`.** Each step of a client is one event of its page: a message, a
click, a state of the `RTCPeerConnection`, a timer. `store` is the match id the
Skip button reads (`useCallStore`), `current` the one messages are compared with
(`WebRTCManager`). `remote[c]` is the match whose description was last applied to
the connection. A link comes up only if both ends are in the same match and have
each other's description, and it may drop or fail at any time. An offer or
an answer is a request to the server, whose relay publishes it in a step of its own
(`Relay`), by when the match may be over; one that finds the match gone is dropped
(`RelayDropped`). A server handler of a skip
has two steps, up to and from the last thing others can see: the lock of
`skipMatch` is gone because whoever loses it and whoever comes when the match is
gone are told the same, nothing. `await`s inside the WebRTC calls
(`createOffer`, `setRemoteDescription`) are not interrupted, and ICE candidates,
media, blocks, bans, failures and the Stop button are left out.

**`Friends`.** `worker[p]` is `checkAutoFriendships` of pod `p`: the keys it has
still to read, the match in hand, the friendship it inserted. `handler[h]` is a
request in flight, and its places are the commands of `initiateCall`,
`acceptCall`, `declineCall`, `sendDmMessage` and `removeFriend`, in order. The
constraints of the tables are part of the commands: `Unique` makes an `INSERT`
throw, `Referenced` a `DELETE`, and a row that refers to a friendship needs it to
exist. Whether the callee is online and free is a free choice (`CallRefused`).
Ending a friendship is an HTTP request: its reply, whatever its status, takes the
friend off the page (`UnfriendReply`). The model assumes that
`/api/friends`, which the pages ask of their own origin, reaches the server; no
file of the repository routes it there. The
threshold of five minutes is in the choice of matches. A friend call's WebRTC is
left out: its answerer never sets `currentMatchId`, so its offers are dropped.

**`FriendCall`** has eight steps. `Place` a call, once; it may `Ring` on the page of
its callee, who may `PickUp` or `Refuse`; the call is then made `Accept`ed or
`Decline`d, and the page of the caller may `Connect` to one that was accepted; a page
may `Leave` what it shows. `PickUp` and `Accept` are apart as a page shows the call
when the click is sent, and the server may come to it late, or never. The mapping
takes the status from the row of `friend_calls`, which does not run out, and not from
the HASH; the parties of a call are those of the row. It promises nothing of an end:
nobody handles `friend:call-end`.

**`Moderation`.** A request in flight is a record of `job`, and its places are
the commands of `reportUser` (look-up, insert, count, ban) and `blockUser`
(look-up, insert, `SADD` with its `EXPIRE`). Time goes by in ticks; `Day` of them
are the 24 hours of the count and of the ban. A report whose match is gone is refused,
and nothing keeps a session from reporting a match twice. `CheckPair`, `GiveBack`
and `OpenMatch` are the worker of `Matchmaking` with everything but the look-up of
the blocks left out: like the code, they do not ask whether the two are in another
match. The 30 days of `blocks:<session>` may run out (`ExpireBlocks`). Manual bans
are left out: they are single writes, never of a session, and no code reads
the key they set. No page renders `ReportModal` or `BlockModal`; the messages are
modelled as any client may send them.

**`Chat`.** A request goes from place to place, "read", "write", "look", "tell".
Matches begin and end at any time. `list[s]` is a set: nothing orders the messages
of a page whose `INSERT`s overlap. A page never calls the DELETE routes, which
`AskOverHttp` calls, with any
id and in the name of any session, for the session is what the header
`x-session-id` says and nothing authenticates it; its own `chat:message-delete` has no case
in the gateway (`Ignore`). History (`GET`) only reads and is left out, as is
the purge after seven days, which nothing calls. The panel is taken to be open
when the user writes, and the count of unread messages is left out: it
is set in the tasks that add a message and open the panel.

**`PageSession`.** A run is one pass of the effect from Start to Stop; each has
its own manager, stream and socket, and they share `wsClient`, `useCallStore` and
the lock of the device on the server. Microphone and camera are treated alike: a stream
has one track. The server's part is three steps (`InitSession`, `ServerClose`,
`ExpireLock`), of which `TabSession` has the detail. Two histories say when a
property does not hold: `strays` (a device that was being changed when its run
was stopped) and `cut` (a heartbeat that the `onclose` of an older socket stopped).

## 3. What is checked

"m/c": model-checked by a run. Bounds are constants named in the modules.

| Run | Properties | Instance | States |
|---|---|---|---|
| `lifecycle` | `TypeOK`, `SearchingTracked`, `EndOnce`, `StoresAgree`, `EndAnnounced`, `InCallBacked`, `ServicePromised` | 2 sessions, 1 pod, 2 handlers at once, 3 matches, 4 requests, 1 ban, no failures | 1.5 M |
| `pods` | `PairMutex`, `SearchingTracked`, `EndsBounded`, `PairServed` (liveness) | 2 sessions, 2 pods, 1 handler, 1 match, 2 requests, 1 failure or crash | 0.3 M |
| `tabs` | `TypeOK`, `TabExclusive`, `ClosedForgotten` | 2 sockets of a device, 2 pods, 1 heartbeat, 1 failure or crash, 1 client that vanishes | 1.4 M |
| `friends` | `TypeOK`, `FriendsListed`, `CallBacked`, `CallsPromised` | 2 sessions, 2 pods, 1 match, 2 requests at once, 1 call, 3 friendships, 1 failure; pods and places for requests symmetric | 1.5 M |
| `calls` | `TypeOK`, `CallShown`, `SignalsOwnMatch` | 2 clients, 2 matches, 1 click, 1 drop; clients symmetric | 1.8 M |
| `settle` | `CallSettles`, `DeadMatchLeft` (liveness) | 2 clients, 1 match, no clicks, 3 drops | 0.3 M |
| `chat` | `TypeOK`, `ShownSaved`, `MarkedStruck`, `Delivered` (liveness) | 3 sessions, 2 matches that share one of them, 1 message, 1 request over HTTP, 1 failure | 0.3 M |
| `moderation` | `TypeOK`, `AutoBanned`, `BansEarned`, `BlocksRecorded` | 2 sessions, 2 matches, 3 reports, 1 pod, 1 block, 2 ticks of a day each, 1 failure; reports and matches symmetric | 1.0 M |
| `page` | `TypeOK`, `StoppedDark`, `StoppedSilent`, `OneHeart`, `Joins`, `LockFreed` (the last two liveness) | 2 starts, 2 presses, 2 changes of device, 1 drop | 0.2 M |

Why the bounds are enough. Every hazard in `PROJECT.json` that has a property is about at most two
handlers, or two workers, and one or two sessions: `lifecycle` has two handlers in
every order against a worker, with enough matches for a session to be matched again
after an end, and enough requests for both to join, skip and join again; `pods` has
two workers on one pair, which they may take up in either order, with a failure or a
crash at any command; that snapshots which overlap in one session of three keep to
the locks as well is left to the theorem `PairingExclusive`. When the ids of
`MatchId` are used up, `InsertMatch` is disabled and its worker waits with its pair.
That is no part of the code: in `pods` the two requests are used up by then, so that
no pair is left waiting behind two such workers, and `PairServed` is about the
rounds of the first match. `friends` has two pods, for the workers of two can find
the same match, and two requests, which is a call and its answer, or either of them
against a message or the end of the friendship; three friendships are one from
before, one made by a worker, and one made again after that one was ended. `chat`
has a session in two matches one after the other, so that a message of the first is
written, published or deleted in the second; one message suffices, for no property
relates two. `moderation` has three reports, the threshold, each in flight beside
the others; with the day as one tick, a report can be older than a day, and just
not. Two matches of the same two sessions are one before a block and one after it.
`page` starts twice, which is an old run against a new one: a third adds no pair.
`calls` has two matches and one click, so that messages, relays and timers of a
match come in the next one. `settle` has three drops because a client restarts ICE
twice and gives up at the third; the click it lacks does the same to a client as the
timers do. A run with `CHECK_DEADLOCK FALSE` says why: sockets are opened once, and
matches are finite.

Each property has a mutant in `PROJECT.json`: a change of a definition, of the kind
a slip in the code would be, that makes TLC find the property violated.

### Fairness

- A worker and a handler that can take a step do (`WF` of `WorkerStep`,
  `HandlerStep`): the event loop runs what
  is ready, and `setInterval` ticks for ever.
- A key with a time to live goes away if nothing keeps it (`WF` of
  `ExpirePairLock`).
- In `Chat` and `CallClient`, what was sent is handled, what was published is delivered,
  and a timer of `CallClient` that is not cleared goes off. Nothing is assumed of clicks, of the
  network, or of being paired.

- In `PageSession`, a socket that is connecting opens, unless it breaks, and one
  that closes is closed; `session:ready` is handled; the server handles the init
  and the close of a socket. Nothing is assumed of the user who is asked for a
  camera: `Granted` may never come.

The clicks of a user are under no fairness anywhere, nor are faults.

### Divergences

Each of these is a run that TLC must find violated; the finding quotes the text.

| Run | What the code does |
|---|---|
| `two_matches` | two workers with overlapping snapshots put the same sessions in two matches, for the reply of `ZREM` is not looked at (`matchmakingService.ts:145`) |
| `blocked` | a block that is stored after a worker looked the pair up is not read again, neither under the locks nor before the insert, and the two are matched once more (`matchmakingService.ts:122`) |
| `searching` | Skip after the peer left skips the dead match again: the page shows "searching" and the session is in no queue (`useChatSession.ts:22`, `matchmakingService.ts:216`) |

One more is a finding of a passing run: `moderation` shows that the third report of
a day ends in a ban (`AutoBanned`; `moderationService.ts:62` has `>= 3`), where the
comments at `moderationService.ts:10` and `:49` say more than three.

Others were seen while the models were written, and are visible in the actions
named here, but no run states them.

*Matchmaking.* A session that closes in a match is put back into the queue by its
own close handler (`routes/websocket.ts:315`, `:280`). Two sessions at the head of
the queue that blocked each other are tried as a pair in every round, and a third
waits for ever (`:97-103`); `PairServed` leaves out whoever waits beside such a
pair, and rounds in which two workers hold locks at once. A close between `PopPair`
and `IndexParty` leaves a match that never ends; a command that fails after
`PopPair` strands two sessions as SEARCHING; two workers can each take one lock of a
pair and back off for ever (`ReleasePair`); a worker slower than its locks deletes
those of another. A second click on Skip while searching sends another `queue:join`,
which may be handled in a match (`HandleJoin`).

*Sessions.* A heartbeat, or the end of an init, that comes between the commands of
the close sets `presence:<session>` again, so that the session reads as online for
as long as the key lasts (`sessionService.ts:183`); `ClosedForgotten` does not speak
of that key. A close that comes before the lookup key is there, or that fails half
way, leaves keys behind until they run out. The late close of a client that vanished
frees the lock that the next tab holds by now (`sessionService.ts:189`); a socket
older than 30 minutes loses its lock although it beats (`BeatLookup`); a reloaded
page is refused by its own old socket (`LockTab`); a socket that closes during its
init stays registered for Pub/Sub (`Register`).

*Friends.* A friend that is removed between `TellA` and `TellB` comes back on the
other's list; an accept after the 45 s of a call leaves a key with no TTL
(`AcceptStore`) or a callee alone on a call screen (`AcceptRead`); `friend:call-end`
is handled by no one, so that the other page stays in the call (`HangUp`); two
sessions that were matched twice in both orders are friends twice, for the
constraint is on the ordered pair (`Unique`); a friendship with a call or a message
cannot be ended, yet the page shows it gone (`UnfriendDelete`, `UnfriendReply`).

*Moderation.* Reports that are counted at the same time make several bans
(`InsertBan`), and one session can give all of them; a ban neither ends a match nor
leaves the queue; the ban check of `joinQueue` reads one row (`limit(1)`), and one
that has run out may hide one in force; a block that comes after `CheckPair` comes
too late.

*Chat.* The DELETE routes take the session from the header `x-session-id`, which
nothing authenticates (`routes/chat.ts:15`, `:42`), so that who deletes a message is
whoever the request names (`AskOverHttp`). A message that is published to a page
that has closed is lost; the model keeps the peer's page open (`Delivered`). "Delete
for everyone" stays on the page that clicks it (`Ignore`); the sender is not told
that the match of a message is gone (`SendRead`); a notice of deletion that
overtakes its message marks nothing, and the message is shown
(`ChatMessageDeleted`); a page keeps the messages of earlier strangers (`Skip`).

*Page session.* A quick Stop and Start is refused by the page's own lock, and
"searching" is shown for ever: nobody listens for the 4001 (`InitSession`); nothing
connects again (`Drop`); refused media leave the page started (`Refused`); no
property is about the mute flags, which differ in three cases: muted, stopped and
started again, a page shows muted while its microphone is live (`Stop`); so it does
after a press before there is a stream (`ToggleMic`), and a change of device turns
the track on (`Switched`) without `replaceTrack`, so that the peer gets the old one;
a change that ends after Stop leaves a camera on.

## 4. What is proved

TLAPS checks these for every value of the constants that satisfies the
assumptions of the modules, which say no more than that functions have their
domains, bounds are natural numbers, "none" is not an id, and, in `Moderation`,
where they are counted, pods are finitely many. Every safety property that a passing
run checks is the statement of a theorem here.

| Theorem | Statement | Argument |
|---|---|---|
| `TypeCorrect` | `Spec => []TypeOK` (`Matchmaking`) | inductive as it stands: it says at which places a worker has a pair, and a handler a match |
| `PairingExclusive` | `Spec => []PairMutex` | with `LockInv`: while no lock ran out in use, the locks a worker got are there, and are nobody else's |
| `NoSessionLost` | `Spec => []SearchingTracked` | inductive with `TypeOK`: each action that takes a session out of one of the places where it can be puts it into the next |
| `MatchEndsOnce` | `Spec => []EndOnce` | with `EndInv`, four conjuncts: at most one handler is in `skipMatch` for a match and it holds the lock (`SkipMutex`); a match that ended is gone from Redis or about to be (`EndsStored`); it has no history before it ends and one after (`HistoryOnce`); a row not yet stored is in the hands of one worker (`StoresFresh`) |
| `ServiceImplemented` | with no failures and no lock that runs out in use, `Spec => ServicePromised` | with `RowInv` (the row of a match, its hash, and what workers and handlers hold of it agree), `OverInv` (`peer:disconnected` follows the end and is sent once), and `DistinctInv` (no session twice in the queue or a batch, so that a match has two parties) |
| `StoresAgreeAlways`, `EndAnnouncedAlways` | `Spec => []StoresAgree`, `Spec => []EndAnnounced` | with `RowInv`, `KnownInv` (two workers never write the same match, and one that is about to store a hash stores the only one) and `EndedInv`: while nothing fails, a row that runs is stored or about to be, one that ended was announced or has a handler on its way to it, and a hash that outlives its row has a handler at the `del` |
| `EndsBoundedAlways` | `Spec => []EndsBounded` | with `CountInv`, which counts: the batches of a match, the holders of its skip lock that have yet to write one (`Owed`), and one more while the match is in Redis and the lock can be had (`Spare`), are never more than 1 + `faults` + `stalls`; a second holder takes a lock that ran out, and a hash that outlives its batch takes a command that failed |
| `InCallBackedAlways` | `Spec => []InCallBacked` | with `CallInv`: a worker that sets IN_CALL has its match in Redis still, told to nobody and in no handler's hands; who is told of a match is a party of it, and so is who skips it; a session shown IN_CALL has its match stored or in the hands of a handler that will set SEARCHING |
| `TabTypeCorrect` | `Spec => []TypeOK` (`TabSession`) | inductive as it stands |
| `OneTabAtWork` | `Spec => []TabExclusive` | with `TabInv`: a session past `LockTab` whose close has not freed the lock *owns* it, that is, the key names it; two sockets of a device cannot both be named |
| `ClosedForgottenAlways` | `Spec => []ClosedForgotten` | with `TabInv` and `ForgotInv`: while nothing lapses a session with a HASH that is stored has the device in it, so that the close handler that finds the lookup key finds the lock; and an init whose lookup key is there has all its writes behind it, so nothing comes back after the close |
| `CallTypeCorrect` | `Spec => []TypeOK` (`CallClient`) | inductive as it stands |
| `CallShownAlways`, `SignalsOwnMatchAlways` | `Spec => []CallShown`, `Spec => []SignalsOwnMatch` | with `CallInv`, which adds that a page in a match is in the match of its store, and has a connection only in a match (`Grounded`) |
| `FriendsTypeCorrect` | `Spec => []TypeOK` (`Friends`) | with an invariant that a page lists, is told of and asks about friendships of its own only (`Member`): who is called, and who is told of an end, is computed from the row of the friendship and the session that asks |
| `CallBackedAlways`, `PagesAgreeAlways` | `Spec => []CallBacked`, `Spec => []PagesAgree` | with `CallInv`: a call is in one hand at a time, that of the request that places it, of the message that rings, of the page that rings, of the request that answers, or of the message that tells the caller; so it is answered once, and an answer finds the row as the caller left it |
| `CallsImplemented` | `Spec => CallsPromised`, with no condition | with `CallInv`, which also says that a row has two parties before it rings, and that only the caller is told of an accept; `CallByClick`, `CallByHandler` and `CallByPage` map each step |
| `FriendsListedAlways` | `Spec => []FriendsListed` | with `ListInv`: while nothing fails, a friendship of the table is on each list, in the inbox, in the hands of the worker that made it, or cannot be ended because a call or a message names it; and what an inbox takes off a list is off the table |
| `ModerationType`, `ModerationBlocks` | `Spec => []TypeOK`, `Spec => []BlocksRecorded` (`Moderation`) | a request past its insert has its row (`InsertedOK`) |
| `ModerationBans` | `Spec => []BansEarned` | a report is inserted by one request, which has its id (`UniqueOK`), and what a request counted are reports of its session, a day apart at most (`CountedOK`): rows that are counted stay as they are |
| `ModerationAutoBans` | `Spec => []AutoBanned` | with `BannedInv`: of the requests that report a session, the one that counts last counts all that are of the day, and the ban it stores outlasts the oldest of them; time only takes reports out of the day |
| `ModerationRematches` | `Spec => []RematchBounded`: how far the code can stray from `BlockedApart`, which run `blocked` refutes | with `RematchInv`: matches made in spite of a block, and workers with such a pair in hand, are together no more than there are pods, as no worker takes up the pair again once Redis has the block |
| `PageType`, `PageDark`, `PageSilent`, `PageHeart` | `Spec => []` of `TypeOK`, `StoppedDark`, `StoppedSilent`, `OneHeart` (`PageSession`) | together one invariant, with: a run still asked for media has no stream and no socket (`Pending`), and a device can change only in a stream that was shown (`SwitchesKnown`) |
| `ChatType`, `ChatShown`, `ChatMarked` | `Spec => []` of `TypeOK`, `ShownSaved`, `MarkedStruck` (`Chat`) | what a request has done to the tables so far (`JobsOK`), one request per message (`UniqueOK`), what a published message says is in the tables (`InboxOK`), an item on a list is of who sends or has sent it (`ListsOK`), a mark is struck or on one's own (`MarksOK`) |

`EndOnce` is not inductive: nothing in it keeps two handlers from being between
the lock and the history, so `SkipMutex` is needed, and that needs the lock to be
there, which `stalls = 0` gives. `TabExclusive` is not inductive either: it says
nothing of a tab that has its lock and is not yet at work. `CallShown` and
`SignalsOwnMatch` need each other: a recovery that ends must find a call to end. `MarkedStruck` says
nothing of a mark with no item, which `DeleteForMe` leaves: the item might come
back by a message of another, so `MarksOK` says whose the mark is.

`InCallBacked` says nothing of the worker that is about to set a state, and
`EndsBounded` nothing of the handlers that have yet to write: both invariants are
about what is in flight. `PagesAgree`, which follows from what `FriendCall`
promises and is no property of a run, compares a page with the row; what breaks it
is a second answer to the same call, and so its invariant speaks of who may still
answer. `AutoBanned` is a property of the last of several requests, none of which
knows that it is the last: `Counting` and `Judged` say what those before it leave.

Only model-checked: the six liveness properties, `PairServed`, `DeadMatchLeft`,
`CallSettles`, `Delivered`, `Joins` and `LockFreed`, which rest on fairness and so on
ENABLED, out of the prover's reach.

## 5. Plan

1. Done: `Matchmaking` and `MatchService`, `TabSession`, `CallClient`, `Friends`,
   `Moderation`, `Chat`, `PageSession`.
2. Done: `FriendCall`, which `Friends` implements. Left: the relays of a friend
   call.
3. `CallClient` extended: Stop and Start, loss of published messages between
   unregister and register, ICE candidates, the friend call screen on the shared
   WebRTC manager.
4. Proofs: done for every safety property of the passing runs, and both
   refinements. Left: an abstract tab lock for `TabSession` to implement.

Not planned: pages and styling, the text of messages and schemas, TURN
credentials, deployment, `migrateAnonymousToUser` (nothing calls it), and the
admin routes, which are single writes.
