---------------------------- MODULE Matchmaking ----------------------------
(***************************************************************************)
(* The matchmaking core of the server: the worker of every pod that pairs  *)
(* the waiting sessions (MatchmakingService), and the WebSocket handlers   *)
(* that join, leave, skip, block and close (routes/websocket.ts), over the *)
(* Redis keys and the PostgreSQL rows they share.                          *)
(*                                                                         *)
(* One Redis or database command is one step: JavaScript runs to the next  *)
(* await, so everything between two commands belongs to one of them.       *)
(* Nothing serialises the handlers of a socket, nor the pods.              *)
(***************************************************************************)
EXTENDS Integers, Sequences, FiniteSets, SequencesExt

CONSTANTS
  Session,        \* sessions that completed session:init
  MatchId,        \* ids of the rows of the table matches
  Pod,            \* server processes, each with one matchmaking worker
  Handler,        \* slots for handlers in flight: how many run at once
  None,           \* no match
  Home,           \* the pod that holds the socket of a session
  InitBlocks,     \* the sets blocks:<session> at the start
  QueueWindow,    \* how many sessions a worker reads: zrange 0 50 gives 51
  MaxRequests,    \* bound: client messages
  MaxBans,        \* bound: sessions banned
  MaxFaults,      \* bound: failed commands and pod crashes
  MaxStalls       \* bound: locks whose 5 s run out while their holder lives

ASSUME ConstantsAssumption ==
  /\ None \notin MatchId
  /\ Home \in [Session -> Pod]
  /\ InitBlocks \in [Session -> SUBSET Session]
  /\ QueueWindow \in Nat \ {0}
  /\ MaxRequests \in Nat /\ MaxBans \in Nat
  /\ MaxFaults \in Nat /\ MaxStalls \in Nat

VARIABLES
  queue,          \* ZSET queue:waiting, in the order of its scores
  state,          \* field state of HASH session:<session>
  pairLock,       \* sessions whose key lock:match:<session> exists
  skipLock,       \* matches whose key lock:skip:<match> exists
  hash,           \* HASH match:<match>: its two sessions, <<>> when absent
  idx,            \* key match:session:<session>
  blocks,         \* SET blocks:<session>
  rows,           \* table matches, and the batches in meet_history
  banned,         \* sessions an unexpired row of the table bans names
  told,           \* match:found messages published to a session
  gone,           \* peer:disconnected messages published to a session
  open,           \* sessions whose socket is open
  worker,         \* the worker of each pod
  handler,        \* the handlers in flight
  reqs, faults, stalls

redis   == <<queue, state, pairLock, skipLock, hash, idx, blocks>>
sent    == <<told, gone>>
bounds  == <<reqs, faults, stalls>>
vars == <<redis, rows, banned, sent, open, worker, handler, bounds>>

SessionState == {"READY", "SEARCHING", "IN_CALL", "DISCONNECTED"}

(* The steps of tryPairSessions inside its try block, and all of a worker. *)
TryPc    == {"zrem", "insert", "hset", "index", "call", "tell"}
WorkerPc == TryPc \cup {"idle", "check", "lock", "release"}

(* The steps of skipMatch inside its try block; the last three are those   *)
(* of joinQueue, which it calls.                                           *)
SkipPc    == {"read", "end", "history", "delete", "unindex", "freepeer",
              "tellpeer", "ban", "searching", "zadd"}
HandlerPc == SkipPc \cup {"idle", "zrem", "ready", "find", "lock", "unlock",
                          "disconnect", "sadd"}
Op == {"none", "join", "leave", "skip", "close", "block"}

IdleWorker  == [pc |-> "idle", batch |-> <<>>, n |-> 1, got |-> {}, m |-> None]
IdleHandler == [pc |-> "idle", op |-> "none", s |-> None, m |-> None, n |-> 1,
                pair |-> <<>>]
NoRow == [pair |-> <<>>, ended |-> FALSE, meets |-> 0]

Init ==
  /\ queue = <<>>
  /\ state = [s \in Session |-> "READY"]
  /\ pairLock = {} /\ skipLock = {}
  /\ hash = [m \in MatchId |-> <<>>]
  /\ idx = [s \in Session |-> None]
  /\ blocks = InitBlocks
  /\ rows = [m \in MatchId |-> NoRow]
  /\ banned = {}
  /\ told = [s \in Session |-> {}] /\ gone = [s \in Session |-> {}]
  /\ open = Session
  /\ worker = [p \in Pod |-> IdleWorker]
  /\ handler = [h \in Handler |-> IdleHandler]
  /\ reqs = 0 /\ faults = 0 /\ stalls = 0

(* ZREM and ZADD: a member is there once, and adding it again moves it to  *)
(* the score of now, which is the end.                                     *)
ZRem(q, s) ==
  IF \E i \in DOMAIN q : q[i] = s
  THEN RemoveAt(q, CHOOSE i \in DOMAIN q : q[i] = s)
  ELSE q
ZAdd(q, s) == Append(ZRem(q, s), s)

(***************************************************************************)
(* The worker of a pod: processQueue and tryPairSessions.  batch is the    *)
(* rest of the snapshot it read; the pair in hand is its first two; n is   *)
(* the one of the pair the next command is about.                          *)
(***************************************************************************)
Pair(p)  == <<worker[p].batch[1], worker[p].batch[2]>>
Party(p) == worker[p].batch[worker[p].n]
Parties(p) == {worker[p].batch[1], worker[p].batch[2]}

PartyOf(pair) == {pair[i] : i \in DOMAIN pair}

(* Mutant of Round: the early return leaves isProcessing set.              *)
RoundKeepsFlag(batch) ==
  [IdleWorker EXCEPT !.pc = IF Len(batch) < 2 THEN "busy" ELSE "check",
                     !.batch = batch]

(* Mutant of Round: no test that two sessions are left.                    *)
RoundUnchecked(batch) == [IdleWorker EXCEPT !.pc = "check", !.batch = batch]

Round(batch) ==
  IF Len(batch) < 2 THEN IdleWorker
  ELSE [IdleWorker EXCEPT !.pc = "check", !.batch = batch]

NextPair(p) ==
  worker' = [worker EXCEPT
               ![p] = Round(SubSeq(@.batch, 3, Len(@.batch)))]

WorkerTo(p, pc) == worker' = [worker EXCEPT ![p].pc = pc]

(* Mutant of EachParty: the second of the pair is forgotten.               *)
FirstPartyOnly(p, pc) == WorkerTo(p, pc)

(* A command for the first of the pair, then for the second.               *)
EachParty(p, pc) ==
  worker' = [worker EXCEPT ![p].n = 3 - @,
                           ![p].pc = IF worker[p].n = 1 THEN @ ELSE pc]

(* A tick of the poll timer while isProcessing is false.                   *)
Poll(p) ==
  /\ worker[p].pc = "idle"
  /\ LET len == IF Len(queue) < QueueWindow THEN Len(queue) ELSE QueueWindow
     IN  worker' = [worker EXCEPT ![p] = Round(SubSeq(queue, 1, len))]
  /\ UNCHANGED <<queue, state, pairLock, hash, idx, rows, told>>

(* Two SISMEMBER sent together.                                            *)
Blocked(s, t) == t \in blocks[s] \/ s \in blocks[t]

CheckBlockExclusion(p) ==
  /\ worker[p].pc = "check"
  /\ IF Blocked(worker[p].batch[1], worker[p].batch[2])
     THEN NextPair(p)
     ELSE WorkerTo(p, "lock")
  /\ UNCHANGED <<queue, state, pairLock, hash, idx, rows, told>>

(* Mutant of Acquired: SET without NX.                                     *)
AcquiredAnyway(s) == {s}

(* The reply to SET NX: {s} when the key was not there.                    *)
Acquired(s) == {s} \ pairLock

(* SET NX EX 5 for each of the two; the second is tried even when the      *)
(* first failed.                                                           *)
LockParty(p) ==
  /\ worker[p].pc = "lock"
  /\ LET s   == Party(p)
         got == worker[p].got \cup Acquired(s)
     IN /\ pairLock' = pairLock \cup {s}
        /\ worker' = [worker EXCEPT
             ![p].got = got,
             ![p].n   = 3 - @,
             ![p].pc  = IF worker[p].n = 1 THEN "lock"
                        ELSE IF got = Parties(p) THEN "zrem" ELSE "release"]
  /\ UNCHANGED <<queue, state, hash, idx, rows, told>>

(* The reply, how many members were removed, is not looked at.             *)
PopPair(p) ==
  /\ worker[p].pc = "zrem"
  /\ queue' = ZRem(ZRem(queue, worker[p].batch[1]), worker[p].batch[2])
  /\ WorkerTo(p, "insert")
  /\ UNCHANGED <<state, pairLock, hash, idx, rows, told>>

InsertMatch(p) ==
  /\ worker[p].pc = "insert"
  /\ \E m \in MatchId :
       /\ rows[m].pair = <<>>
       /\ rows' = [rows EXCEPT ![m].pair = Pair(p)]
       /\ worker' = [worker EXCEPT ![p].pc = "hset", ![p].m = m]
  /\ UNCHANGED <<queue, state, pairLock, hash, idx, told>>

StoreMatch(p) ==
  /\ worker[p].pc = "hset"
  /\ hash' = [hash EXCEPT ![worker[p].m] = Pair(p)]
  /\ WorkerTo(p, "index")
  /\ UNCHANGED <<queue, state, pairLock, idx, rows, told>>

IndexParty(p) ==
  /\ worker[p].pc = "index"
  /\ idx' = [idx EXCEPT ![Party(p)] = worker[p].m]
  /\ EachParty(p, "call")
  /\ UNCHANGED <<queue, state, pairLock, hash, rows, told>>

PutInCall(p) ==
  /\ worker[p].pc = "call"
  /\ state' = [state EXCEPT ![Party(p)] = "IN_CALL"]
  /\ EachParty(p, "tell")
  /\ UNCHANGED <<queue, pairLock, hash, idx, rows, told>>

TellFound(p) ==
  /\ worker[p].pc = "tell"
  /\ told' = [told EXCEPT ![Party(p)] = @ \cup {worker[p].m}]
  /\ EachParty(p, "release")
  /\ UNCHANGED <<queue, state, pairLock, hash, idx, rows>>

(* The back-off of lines 137-141 and the finally of tryPairSessions.  The  *)
(* value of the lock is "1": DEL removes whoever's key it is by now.       *)
ReleasePair(p) ==
  /\ worker[p].pc = "release"
  /\ pairLock' = pairLock \ worker[p].got
  /\ NextPair(p)
  /\ UNCHANGED <<queue, state, hash, idx, rows, told>>

WorkerStep(p) ==
  /\ \/ Poll(p) \/ CheckBlockExclusion(p) \/ LockParty(p) \/ PopPair(p)
     \/ InsertMatch(p) \/ StoreMatch(p) \/ IndexParty(p) \/ PutInCall(p)
     \/ TellFound(p) \/ ReleasePair(p)
  /\ UNCHANGED <<skipLock, blocks, banned, gone, open, handler, bounds>>

(***************************************************************************)
(* The messages a client sends.  A client may send queue:join whatever it  *)
(* is doing, and match:skip or match:block for any match it was told of.   *)
(***************************************************************************)
Start(h, op, s, m, pc) ==
  /\ handler[h].pc = "idle"
  /\ s \in open
  /\ handler' = [handler EXCEPT ![h] =
                   [IdleHandler EXCEPT !.op = op, !.s = s, !.m = m, !.pc = pc]]

Request(h, op, s, m, pc) ==
  /\ reqs < MaxRequests /\ reqs' = reqs + 1
  /\ Start(h, op, s, m, pc)
  /\ UNCHANGED <<redis, rows, banned, sent, open, worker, faults, stalls>>

QueueJoin(h, s)     == Request(h, "join", s, None, "ban")
QueueLeave(h, s)    == Request(h, "leave", s, None, "zrem")
MatchSkip(h, s, m)  == m \in told[s] /\ Request(h, "skip", s, m, "lock")
MatchBlock(h, s, m) == m \in told[s] /\ Request(h, "block", s, m, "read")

SocketClose(h, s) ==
  /\ Start(h, "close", s, None, "zrem")
  /\ open' = open \ {s}
  /\ UNCHANGED <<redis, rows, banned, sent, worker, bounds>>

(***************************************************************************)
(* The handlers: joinQueue, leaveQueue, skipMatch, blockUser, and the      *)
(* close handler, which runs leaveQueue, looks its match up and skips it.  *)
(***************************************************************************)
At(h, pc) == handler[h].pc = pc

HandlerTo(h, pc) ==
  handler' = [handler EXCEPT ![h] = IF pc = "idle" THEN IdleHandler
                                    ELSE [@ EXCEPT !.pc = pc]]

AfterJoin(h) == IF handler[h].op = "join" THEN "idle" ELSE "unlock"
AfterSkip(h) == IF handler[h].op = "close" THEN "disconnect" ELSE "idle"

BanCheck(h) ==
  /\ At(h, "ban")
  /\ HandlerTo(h, IF handler[h].s \in banned THEN AfterJoin(h) ELSE "searching")
  /\ UNCHANGED <<queue, state, skipLock, hash, idx, blocks, rows, gone>>

SetSearching(h) ==
  /\ At(h, "searching")
  /\ state' = [state EXCEPT ![handler[h].s] = "SEARCHING"]
  /\ HandlerTo(h, "zadd")
  /\ UNCHANGED <<queue, skipLock, hash, idx, blocks, rows, gone>>

Enqueue(h) ==
  /\ At(h, "zadd")
  /\ queue' = ZAdd(queue, handler[h].s)
  /\ HandlerTo(h, AfterJoin(h))
  /\ UNCHANGED <<state, skipLock, hash, idx, blocks, rows, gone>>

Dequeue(h) ==
  /\ At(h, "zrem")
  /\ queue' = ZRem(queue, handler[h].s)
  /\ HandlerTo(h, "ready")
  /\ UNCHANGED <<state, skipLock, hash, idx, blocks, rows, gone>>

SetReady(h) ==
  /\ At(h, "ready")
  /\ state' = [state EXCEPT ![handler[h].s] = "READY"]
  /\ HandlerTo(h, IF handler[h].op = "close" THEN "find" ELSE "idle")
  /\ UNCHANGED <<queue, skipLock, hash, idx, blocks, rows, gone>>

(* GET match:session:<session> in the close handler.                       *)
FindMatch(h) ==
  /\ At(h, "find")
  /\ LET m == idx[handler[h].s]
     IN  handler' = [handler EXCEPT ![h].m  = m,
                       ![h].pc = IF m = None THEN "disconnect" ELSE "lock"]
  /\ UNCHANGED <<queue, state, skipLock, hash, idx, blocks, rows, gone>>

(* Mutant of SkipLocked: the reply to SET NX is not looked at.             *)
SkipNeverLocked(m) == FALSE

SkipLocked(m) == m \in skipLock

LockSkip(h) ==
  /\ At(h, "lock")
  /\ HandlerTo(h, IF SkipLocked(handler[h].m) THEN AfterSkip(h) ELSE "read")
  /\ skipLock' = skipLock \cup {handler[h].m}
  /\ UNCHANGED <<queue, state, hash, idx, blocks, rows, gone>>

(* HGETALL match:<match>, in skipMatch and in blockUser.                   *)
ReadMatch(h) ==
  /\ At(h, "read")
  /\ LET pair  == hash[handler[h].m]
         block == handler[h].op = "block"
     IN  IF pair = <<>>
         THEN HandlerTo(h, IF block THEN "idle" ELSE "unlock")
         ELSE handler' = [handler EXCEPT
                ![h].pair = pair, ![h].pc = IF block THEN "sadd" ELSE "end"]
  /\ UNCHANGED <<queue, state, skipLock, hash, idx, blocks, rows, gone>>

(* Mutant of Peer: the peer is always the second of the pair.              *)
PeerSecond(h) == handler[h].pair[2]

Peer(h) ==
  IF handler[h].pair[1] = handler[h].s THEN handler[h].pair[2]
                                       ELSE handler[h].pair[1]

EndRow(h) ==
  /\ At(h, "end")
  /\ rows' = [rows EXCEPT ![handler[h].m].ended = TRUE]
  /\ HandlerTo(h, "history")
  /\ UNCHANGED <<queue, state, skipLock, hash, idx, blocks, gone>>

(* Two rows, one per party; no unique key makes a second batch conflict.   *)
WriteHistory(h) ==
  /\ At(h, "history")
  /\ rows' = [rows EXCEPT ![handler[h].m].meets = @ + 1]
  /\ HandlerTo(h, "delete")
  /\ UNCHANGED <<queue, state, skipLock, hash, idx, blocks, gone>>

(* Mutant of DeleteMatch: only the keys match:session:<session> go.        *)
DeleteMatchKept(h) ==
  /\ At(h, "delete")
  /\ HandlerTo(h, "unindex")
  /\ UNCHANGED <<queue, state, skipLock, hash, idx, blocks, rows, gone>>

(* Mutant of DeleteMatch: the keys of the match are left to run out.       *)
DeleteMatchNever(h) ==
  /\ At(h, "delete")
  /\ HandlerTo(h, "freepeer")
  /\ UNCHANGED <<queue, state, skipLock, hash, idx, blocks, rows, gone>>

DeleteMatch(h) ==
  /\ At(h, "delete")
  /\ hash' = [hash EXCEPT ![handler[h].m] = <<>>]
  /\ HandlerTo(h, "unindex")
  /\ UNCHANGED <<queue, state, skipLock, idx, blocks, rows, gone>>

(* DEL match:session:<session> of both, whatever match it names by now.    *)
Unindex(h) ==
  /\ At(h, "unindex")
  /\ idx' = [idx EXCEPT ![handler[h].pair[handler[h].n]] = None]
  /\ handler' = [handler EXCEPT ![h].n = 3 - @,
                   ![h].pc = IF handler[h].n = 1 THEN @ ELSE "freepeer"]
  /\ UNCHANGED <<queue, state, skipLock, hash, blocks, rows, gone>>

(* Mutant of FreePeer: peer:disconnected is not published.                 *)
FreePeerSilently(h) ==
  /\ At(h, "freepeer")
  /\ state' = [state EXCEPT ![Peer(h)] = "READY"]
  /\ HandlerTo(h, "ban")
  /\ UNCHANGED <<queue, skipLock, hash, idx, blocks, rows, gone>>

FreePeer(h) ==
  /\ At(h, "freepeer")
  /\ state' = [state EXCEPT ![Peer(h)] = "READY"]
  /\ HandlerTo(h, "tellpeer")
  /\ UNCHANGED <<queue, skipLock, hash, idx, blocks, rows, gone>>

(* Mutant of TellPeer: peer:disconnected goes to both.                     *)
TellBoth(h) ==
  /\ At(h, "tellpeer")
  /\ gone' = [s \in Session |-> IF s \in PartyOf(handler[h].pair)
                               THEN gone[s] \cup {handler[h].m} ELSE gone[s]]
  /\ HandlerTo(h, "ban")
  /\ UNCHANGED <<queue, state, skipLock, hash, idx, blocks, rows>>

(* Then joinQueue for the skipper, also when its socket has just closed.   *)
TellPeer(h) ==
  /\ At(h, "tellpeer")
  /\ gone' = [gone EXCEPT ![Peer(h)] = @ \cup {handler[h].m}]
  /\ HandlerTo(h, "ban")
  /\ UNCHANGED <<queue, state, skipLock, hash, idx, blocks, rows>>

UnlockSkip(h) ==
  /\ At(h, "unlock")
  /\ skipLock' = skipLock \ {handler[h].m}
  /\ HandlerTo(h, AfterSkip(h))
  /\ UNCHANGED <<queue, state, hash, idx, blocks, rows, gone>>

Disconnect(h) ==
  /\ At(h, "disconnect")
  /\ state' = [state EXCEPT ![handler[h].s] = "DISCONNECTED"]
  /\ HandlerTo(h, "idle")
  /\ UNCHANGED <<queue, skipLock, hash, idx, blocks, rows, gone>>

AddBlock(h) ==
  /\ At(h, "sadd")
  /\ blocks' = [blocks EXCEPT ![handler[h].s] = @ \cup {Peer(h)}]
  /\ HandlerTo(h, "idle")
  /\ UNCHANGED <<queue, state, skipLock, hash, idx, rows, gone>>

HandlerStep(h) ==
  /\ \/ BanCheck(h) \/ SetSearching(h) \/ Enqueue(h) \/ Dequeue(h)
     \/ SetReady(h) \/ FindMatch(h) \/ LockSkip(h) \/ ReadMatch(h)
     \/ EndRow(h) \/ WriteHistory(h) \/ DeleteMatch(h) \/ Unindex(h)
     \/ FreePeer(h) \/ TellPeer(h) \/ UnlockSkip(h) \/ Disconnect(h)
     \/ AddBlock(h)
  /\ UNCHANGED <<pairLock, banned, told, open, worker, bounds>>

(***************************************************************************)
(* The environment: bans, commands that fail, pods that crash, lock keys   *)
(* whose 5 s run out.                                                      *)
(***************************************************************************)
Ban(s) ==
  /\ s \notin banned /\ Cardinality(banned) < MaxBans
  /\ banned' = banned \cup {s}
  /\ UNCHANGED <<redis, rows, sent, open, worker, handler, bounds>>

Fault == faults < MaxFaults /\ faults' = faults + 1

(* A command of the worker throws: inside the try block the finally still  *)
(* runs, anywhere else the round is over and its locks are left behind.    *)
WorkerThrows(p) ==
  /\ Fault
  /\ worker[p].pc # "idle"
  /\ worker' = [worker EXCEPT ![p] =
       IF @.pc \in TryPc THEN [@ EXCEPT !.pc = "release"] ELSE IdleWorker]
  /\ UNCHANGED <<redis, rows, banned, sent, open, handler, reqs, stalls>>

(* A handler record between the SET of lock:skip:<match> and its DEL.      *)
Skipping(r)  == r.op \in {"skip", "close"} /\ r.pc \in SkipPc \cup {"unlock"}
HoldsSkip(h) == Skipping(handler[h])

(* A command of a handler throws.  handleDisconnect is outside every catch *)
(* of the close handler: when it throws the process ends, see PodCrash.    *)
HandlerThrows(h) ==
  /\ Fault
  /\ ~At(h, "idle") /\ ~At(h, "disconnect")
  /\ HandlerTo(h, IF HoldsSkip(h) /\ ~At(h, "unlock") THEN "unlock"
                                                     ELSE AfterSkip(h))
  /\ UNCHANGED <<redis, rows, banned, sent, open, worker, reqs, stalls>>

(* A pod dies and restarts: its sockets go without a close handler.        *)
PodCrash(p) ==
  /\ Fault
  /\ worker' = [worker EXCEPT ![p] = IdleWorker]
  /\ handler' = [h \in Handler |->
       IF ~At(h, "idle") /\ Home[handler[h].s] = p THEN IdleHandler
                                                   ELSE handler[h]]
  /\ open' = {s \in open : Home[s] # p}
  /\ UNCHANGED <<redis, rows, banned, sent, reqs, stalls>>

(* A lock runs out; that its holder is still at work counts as a stall.    *)
Expire(held) ==
  IF held THEN stalls < MaxStalls /\ stalls' = stalls + 1
          ELSE stalls' = stalls

ExpirePairLock(s) ==
  /\ s \in pairLock
  /\ pairLock' = pairLock \ {s}
  /\ Expire(\E p \in Pod : s \in worker[p].got)
  /\ UNCHANGED <<queue, state, skipLock, hash, idx, blocks, rows, banned, sent,
                 open, worker, handler, reqs, faults>>

ExpireSkipLock(m) ==
  /\ m \in skipLock
  /\ skipLock' = skipLock \ {m}
  /\ Expire(\E h \in Handler : HoldsSkip(h) /\ handler[h].m = m)
  /\ UNCHANGED <<queue, state, pairLock, hash, idx, blocks, rows, banned, sent,
                 open, worker, handler, reqs, faults>>

Client ==
  \E h \in Handler, s \in Session :
    \/ QueueJoin(h, s) \/ QueueLeave(h, s) \/ SocketClose(h, s)
    \/ \E m \in MatchId : MatchSkip(h, s, m) \/ MatchBlock(h, s, m)

Environment ==
  \/ \E s \in Session : Ban(s) \/ ExpirePairLock(s)
  \/ \E m \in MatchId : ExpireSkipLock(m)
  \/ \E p \in Pod : WorkerThrows(p) \/ PodCrash(p)
  \/ \E h \in Handler : HandlerThrows(h)

Next ==
  \/ \E p \in Pod : WorkerStep(p)
  \/ \E h \in Handler : HandlerStep(h)
  \/ Client
  \/ Environment

Spec == Init /\ [][Next]_vars

(* The event loop of a pod runs what is ready, the poll timer ticks, and   *)
(* Redis drops a key whose time is up.                                     *)
Fairness ==
  /\ \A p \in Pod : WF_vars(WorkerStep(p))
  /\ \A h \in Handler : WF_vars(HandlerStep(h))
  /\ \A s \in Session : WF_vars(ExpirePairLock(s))

FairSpec == Spec /\ Fairness

(***************************************************************************)
(* Properties.                                                             *)
(***************************************************************************)

MaybePair == {<<>>} \cup (Session \X Session)

DataOK ==
  /\ queue \in Seq(Session)
  /\ state \in [Session -> SessionState]
  /\ pairLock \subseteq Session /\ skipLock \subseteq MatchId
  /\ hash \in [MatchId -> MaybePair]
  /\ idx \in [Session -> MatchId \cup {None}]
  /\ blocks \in [Session -> SUBSET Session]
  /\ rows \in [MatchId -> [pair : MaybePair, ended : BOOLEAN, meets : Nat]]
  /\ banned \subseteq Session /\ open \subseteq Session
  /\ told \in [Session -> SUBSET MatchId]
  /\ gone \in [Session -> SUBSET MatchId]
  /\ reqs \in Nat /\ faults \in Nat /\ stalls \in Nat

WorkerType == [pc : WorkerPc, batch : Seq(Session), n : {1, 2},
               got : SUBSET Session, m : MatchId \cup {None}]
WorkerOK(w) ==
  /\ w.pc # "idle" => Len(w.batch) >= 2
  /\ w.pc \in {"hset", "index", "call", "tell"} => w.m \in MatchId

HandlerType == [pc : HandlerPc, op : Op, s : Session \cup {None},
                m : MatchId \cup {None}, n : {1, 2}, pair : MaybePair]
HandlerOK(r) ==
  /\ r.pc # "idle" => r.s \in Session
  /\ r.pc = "lock" \/ Skipping(r) \/ r.op = "block" => r.m \in MatchId
  /\ r.pc \in {"end", "history", "delete", "unindex", "freepeer", "tellpeer",
               "sadd"} => r.pair # <<>>
  /\ r.pc \in SkipPc \cup {"lock", "unlock"} =>
       \/ r.op \in {"skip", "close"}
       \/ r.op = "join" /\ r.pc \in {"ban", "searching", "zadd"}
       \/ r.op = "block" /\ r.pc = "read"
  /\ r.pc \in {"find", "disconnect"} => r.op = "close"

(* Every variable keeps its shape; a worker with a pair in hand has two    *)
(* sessions in its batch, and a handler past hgetall has read two.         *)
TypeOK ==
  /\ DataOK
  /\ worker \in [Pod -> WorkerType] /\ \A p \in Pod : WorkerOK(worker[p])
  /\ handler \in [Handler -> HandlerType]
  /\ \A h \in Handler : HandlerOK(handler[h])

(* Two workers never pair the same session at once, as long as no worker   *)
(* outlives the 5 seconds of its locks: lines 134-141 and 203.             *)
PairMutex ==
  stalls = 0 =>
    \A p, q \in Pod : p # q => worker[p].got \cap worker[q].got = {}

Queued(s) == \E i \in DOMAIN queue : queue[i] = s

(* A worker has taken s out of the queue and not yet put it IN_CALL.       *)
Popped(p, s) ==
  \/ worker[p].pc \in {"insert", "hset", "index"} /\ s \in Parties(p)
  \/ /\ worker[p].pc = "call"
     /\ \/ s = worker[p].batch[2]
        \/ worker[p].n = 1 /\ s = worker[p].batch[1]

Tracked(s) ==
  \/ Queued(s)
  \/ \E h \in Handler : handler[h].s = s /\ handler[h].pc \in {"zadd", "ready"}
  \/ \E p \in Pod : Popped(p, s)

(* A session the server shows as SEARCHING is not lost: it waits in the    *)
(* queue, a handler is about to add or to reset it, or a worker that       *)
(* popped it is on its way to IN_CALL.  Commands that fail break this.     *)
SearchingTracked ==
  faults = 0 => \A s \in Session : state[s] = "SEARCHING" => Tracked(s)

(* Whatever skips, closes and retries race, a match is ended once and gets *)
(* one batch of meet history: lines 211-212, 228-263 and 266.              *)
EndOnce ==
  faults = 0 /\ stalls = 0 => \A m \in MatchId : rows[m].meets <= 1

(* PostgreSQL and Redis agree on which matches are running, but for the    *)
(* commands between the insert and the hset, and the update and the del.   *)
StoresAgree ==
  faults = 0 =>
    \A m \in MatchId :
      /\ hash[m] # <<>> => rows[m].pair = hash[m]
      /\ rows[m].pair # <<>> /\ ~rows[m].ended /\ hash[m] = <<>> =>
           \E p \in Pod : worker[p].pc = "hset" /\ worker[p].m = m
      /\ rows[m].ended /\ hash[m] # <<>> =>
           \E h \in Handler : handler[h].m = m
                               /\ handler[h].pc \in {"history", "delete"}

(* A match does not end behind the back of both: once no handler is        *)
(* ending it, a party was sent peer:disconnected for it.                   *)
EndAnnounced ==
  faults = 0 =>
    \A m \in MatchId :
      rows[m].ended =>
        \/ \E s \in Session : m \in gone[s]
        \/ \E h \in Handler : handler[h].m = m /\ HoldsSkip(h)

(* A session friends are told is busy (state IN_CALL) is in a match, or    *)
(* that match is being ended.  Not so for one that is banned as it skips,  *)
(* nor when a party closes while the worker still writes the match.        *)
InCallBacked ==
  faults = 0 /\ banned = {} /\ open = Session =>
    \A s \in Session :
      state[s] = "IN_CALL" =>
        \E m \in MatchId :
          /\ rows[m].pair # <<>> /\ s \in {rows[m].pair[1], rows[m].pair[2]}
          /\ \/ hash[m] # <<>>
             \/ \E h \in Handler : handler[h].m = m /\ HoldsSkip(h)

(* Every end of a match beyond the first is owed to a failed command, a    *)
(* crash or a lock that ran out under its holder.                          *)
EndsBounded == \A m \in MatchId : rows[m].meets <= 1 + faults + stalls

(* What may keep the workers from a pair for ever: two that wait and have  *)
(* blocked each other, who are read as a pair in every round (97-103), and *)
(* two workers that hold a lock each and give it back (137-141).           *)
InTheWay ==
  \/ \E s, t \in Session : Queued(s) /\ Queued(t) /\ Blocked(s, t)
  \/ \E p, q \in Pod : p # q /\ worker[p].got # {} /\ worker[q].got # {}

(* Of two waiting sessions one is paired, but for blocks among those who   *)
(* wait and for workers that go on holding locks against each other: no    *)
(* flag, lock or snapshot that a crash or a throw leaves behind stops the  *)
(* pairing.                                                                *)
PairServed ==
  \A s, t \in Session :
    s # t => ~<>[](Queued(s) /\ Queued(t) /\ ~InTheWay)

(***************************************************************************)
(* What the clients are promised: see MatchService.                        *)
(***************************************************************************)
Life == [m \in MatchId |-> IF rows[m].pair = <<>> THEN "none"
                           ELSE IF rows[m].ended THEN "over" ELSE "open"]

Service == INSTANCE MatchService
             WITH life <- Life, party <- [m \in MatchId |-> PartyOf(rows[m].pair)]

(* Locks, snapshots and two stores or not, every step the server takes is  *)
(* one a client can be promised; so it is without failed commands and locks *)
(* that run out under their holder.                                        *)
ServicePromised == Service!ServiceSpec

(***************************************************************************)
(* What the design document says, and the code does not do.                *)
(***************************************************************************)

(* "A user can belong to only one active match."                           *)
OneActiveMatch ==
  \A s \in Session :
    Cardinality({m \in MatchId : /\ rows[m].pair # <<>> /\ ~rows[m].ended
                                 /\ s \in {rows[m].pair[1], rows[m].pair[2]}})
      <= 1
=============================================================================
