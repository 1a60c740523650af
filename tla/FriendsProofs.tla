--------------------------- MODULE FriendsProofs ---------------------------
(***************************************************************************)
(* Friends are made once, whatever workers of whatever pods race; a call   *)
(* is answered once, and its row, its HASH and the pages agree on it; who  *)
(* are friends see each other on their lists.  For any number of pods,     *)
(* sessions, matches, calls and requests.                                  *)
(***************************************************************************)
EXTENDS Friends, TLAPS

(* A page lists, is told of, and asks about, friendships of its own only.  *)
Member(f, s) == f \in FriendshipId /\ pair[f] \in Pairs
                /\ (pair[f][1] = s \/ pair[f][2] = s)

TablesOK ==
  /\ friendships \subseteq FriendshipId /\ dms \subseteq FriendshipId
  /\ pair \in [FriendshipId -> Pairs \cup {<<>>}]
  /\ \A f \in friendships : pair[f] # <<>>
  /\ row \in [CallId -> RowStatus]

CallsOK ==
  /\ call \in [CallId -> [f : FriendshipId \cup {None}, pair : Pairs \cup {<<>>}]]
  /\ key \in [CallId -> KeyStatus]

Workers == [pc : {"idle", "read", "find", "insert", "tellA", "tellB"},
            todo : SUBSET MatchId, m : MatchId \cup {None},
            f : FriendshipId \cup {None}]
WorkersOK ==
  /\ worker \in [Pod -> Workers]
  /\ \A p \in Pod :
       /\ worker[p].pc = "read" => worker[p].todo # {}
       /\ worker[p].pc \notin {"idle", "read"} => worker[p].m # None
       /\ worker[p].pc \in {"tellA", "tellB"} =>
            worker[p].f # None /\ pair[worker[p].f] = MatchPair[worker[p].m]

Requests ==
  [op : {"none", "call", "accept", "decline", "dm", "unfriend"},
   pc : {"idle", "find", "row", "key", "ring", "read", "tell", "delete", "reply"},
   s : Session \cup {None}, f : FriendshipId \cup {None}, k : CallId \cup {None}]
HandlersOK ==
  /\ handler \in [Handler -> Requests]
  /\ \A h \in Handler :
       /\ handler[h].op \in {"call", "dm", "unfriend"} =>
            handler[h].s \in Session /\ Member(handler[h].f, handler[h].s)
       /\ handler[h].op \in {"call", "accept", "decline"} => handler[h].k \in CallId

InboxOK ==
  /\ inbox \in [Session -> Seq(Message)]
  /\ \A s \in Session : \A i \in DOMAIN inbox[s] :
       inbox[s][i].type = "friend:auto-connected" => Member(inbox[s][i].id, s)

PagesOK ==
  /\ list \in [Session -> SUBSET FriendshipId]
  /\ \A s \in Session : \A f \in list[s] : Member(f, s)
  /\ incoming \in [Session -> CallId \cup {None}]
  /\ active \in [Session -> CallId \cup {None}]

BoundsOK == running \subseteq MatchId /\ reqs \in Nat /\ faults \in Nat

IInv == /\ TablesOK /\ CallsOK /\ WorkersOK /\ HandlersOK /\ InboxOK /\ PagesOK
        /\ BoundsOK

LEMMA InvImplies == IInv => TypeOK
BY DEF IInv, TablesOK, CallsOK, WorkersOK, Workers, HandlersOK, Requests, InboxOK,
       PagesOK, BoundsOK, TypeOK

(***************************************************************************)
(* Pairs and messages.                                                     *)
(***************************************************************************)
LEMMA PairFacts ==
  ASSUME NEW ab \in Pairs
  PROVE  /\ ab # <<>> /\ ab[1] \in Session /\ ab[2] \in Session /\ ab[1] # ab[2]
         /\ \A s : ab[1] = s \/ ab[2] = s =>
              /\ Other(ab, s) \in Session /\ <<s, Other(ab, s)>> \in Pairs
              /\ ab[1] = Other(ab, s) \/ ab[2] = Other(ab, s)
BY DEF Pairs, Other

LEMMA MatchPairs ==
  ASSUME NEW m \in MatchId
  PROVE  MatchPair[m] \in Pairs
BY FriendsAssumption DEF Pairs

LEMMA MsgType ==
  /\ \A f \in FriendshipId : /\ Msg("friend:auto-connected", f) \in Message
                             /\ Msg("friend:removed", f) \in Message
  /\ \A k \in CallId : /\ Msg("friend:incoming-call", k) \in Message
                       /\ Msg("friend:call-connected", k) \in Message
                       /\ Msg("friend:call-declined", k) \in Message
BY DEF Msg, Message

LEMMA MessageId ==
  ASSUME NEW msg \in Message
  PROVE  /\ msg.type \in {"friend:auto-connected", "friend:removed"} =>
              msg.id \in FriendshipId
         /\ msg.type \in {"friend:incoming-call", "friend:call-connected",
                          "friend:call-declined"} => msg.id \in CallId
BY DEF Message

LEMMA PublishInbox ==
  ASSUME InboxOK, NEW s, NEW msg \in Message, Publish(s, msg),
         msg.type = "friend:auto-connected" => Member(msg.id, s), UNCHANGED pair
  PROVE  InboxOK'
<1>1. CASE s \notin Session
  <2>1. inbox' = inbox
    BY <1>1 DEF Publish, InboxOK
  <2> QED BY <2>1 DEF InboxOK, Member
<1>2. CASE s \in Session
  <2> DEFINE q == Append(inbox[s], msg)
  <2>1. q \in Seq(Message) /\ DOMAIN q = 1..(Len(inbox[s]) + 1)
    BY <1>2 DEF InboxOK
  <2>2. inbox' = [inbox EXCEPT ![s] = q]
    BY DEF Publish
  <2>3. inbox' \in [Session -> Seq(Message)]
    BY <2>1, <2>2 DEF InboxOK
  <2>4. ASSUME NEW t \in Session, NEW i \in DOMAIN inbox'[t],
               inbox'[t][i].type = "friend:auto-connected"
        PROVE  Member(inbox'[t][i].id, t)
    <3>1. CASE t # s
      <4>1. inbox'[t] = inbox[t]
        BY <2>2, <3>1 DEF InboxOK
      <4> QED BY <2>4, <4>1 DEF InboxOK
    <3>2. CASE t = s
      <4>1. inbox'[t] = q
        BY <1>2, <2>2, <3>2 DEF InboxOK
      <4>2. i \in 1..(Len(inbox[s]) + 1) /\ Len(inbox[s]) \in Nat
        BY <1>2, <2>1, <4>1 DEF InboxOK
      <4>3. CASE i = Len(inbox[s]) + 1
        <5>1. q[i] = msg
          BY <1>2, <4>2, <4>3 DEF InboxOK
        <5> QED BY <2>4, <3>2, <4>1, <5>1
      <4>4. CASE i # Len(inbox[s]) + 1
        <5>1. i \in DOMAIN inbox[s] /\ q[i] = inbox[s][i]
          BY <1>2, <4>2, <4>4 DEF InboxOK
        <5> QED BY <1>2, <2>4, <3>2, <4>1, <5>1 DEF InboxOK
      <4> QED BY <4>3, <4>4
    <3> QED BY <3>1, <3>2
  <2> QED BY <2>3, <2>4 DEF InboxOK, Member
<1> QED BY <1>1, <1>2

LEMMA DeliveredInbox ==
  ASSUME InboxOK, NEW s \in Session, NEW type, Delivered(s, type), UNCHANGED pair
  PROVE  /\ InboxOK' /\ Head(inbox[s]) \in Message /\ Head(inbox[s]).type = type
         /\ type = "friend:auto-connected" => Member(Head(inbox[s]).id, s)
<1>1. inbox[s] \in Seq(Message) /\ inbox[s] # <<>> /\ 1 \in DOMAIN inbox[s]
      /\ Head(inbox[s]) = inbox[s][1] /\ Head(inbox[s]) \in Message
  BY DEF InboxOK, Delivered
<1>2. /\ Tail(inbox[s]) \in Seq(Message)
      /\ \A i \in DOMAIN Tail(inbox[s]) :
           i + 1 \in DOMAIN inbox[s] /\ Tail(inbox[s])[i] = inbox[s][i + 1]
  BY <1>1
<1>3. inbox' = [inbox EXCEPT ![s] = Tail(inbox[s])]
  BY DEF Delivered
<1>4. inbox' \in [Session -> Seq(Message)]
  BY <1>2, <1>3 DEF InboxOK
<1>5. ASSUME NEW t \in Session, NEW i \in DOMAIN inbox'[t],
             inbox'[t][i].type = "friend:auto-connected"
      PROVE  Member(inbox'[t][i].id, t)
  <2>1. CASE t # s
    <3>1. inbox'[t] = inbox[t]
      BY <1>3, <2>1 DEF InboxOK
    <3> QED BY <1>5, <3>1 DEF InboxOK
  <2>2. CASE t = s
    <3>1. inbox'[t] = Tail(inbox[s])
      BY <1>3, <2>2 DEF InboxOK
    <3> QED BY <1>2, <1>5, <2>2, <3>1 DEF InboxOK
  <2> QED BY <2>1, <2>2
<1>6. Head(inbox[s]).type = type
  BY DEF Delivered
<1> QED BY <1>1, <1>4, <1>5, <1>6 DEF InboxOK, Member

(***************************************************************************)
(* The worker of a pod.  A pair that was given to a friendship stays.      *)
(***************************************************************************)
PairsStay == \A f \in FriendshipId : pair[f] # <<>> => pair'[f] = pair[f]

Ready(w, pairs) ==
  /\ w.pc = "read" => w.todo # {}
  /\ w.pc \notin {"idle", "read"} => w.m # None
  /\ w.pc \in {"tellA", "tellB"} => w.f # None /\ pairs[w.f] = MatchPair[w.m]

LEMMA WorkerUpdate ==
  ASSUME WorkersOK, PairsStay, NEW p \in Pod, NEW w \in Workers,
         Ready(w, pair'), worker' = [worker EXCEPT ![p] = w]
  PROVE  WorkersOK'
<1>1. worker' \in [Pod -> Workers]
  BY DEF WorkersOK
<1>2. ASSUME NEW q \in Pod PROVE Ready(worker'[q], pair')
  <2>1. CASE q = p
    <3>1. worker'[q] = w
      BY <2>1 DEF WorkersOK
    <3> QED BY <3>1 DEF Ready
  <2>2. CASE q # p
    <3>1. worker'[q] = worker[q] /\ worker[q] \in Workers
      BY <2>2 DEF WorkersOK
    <3>2. ASSUME worker[q].pc \in {"tellA", "tellB"}
          PROVE  pair'[worker[q].f] = MatchPair[worker[q].m]
      <4>1. /\ worker[q].f \in FriendshipId /\ worker[q].m \in MatchId
            /\ pair[worker[q].f] = MatchPair[worker[q].m]
        BY <3>1, <3>2 DEF WorkersOK, Workers
      <4>2. MatchPair[worker[q].m] # <<>>
        BY <4>1, MatchPairs, PairFacts
      <4> QED BY <4>1, <4>2 DEF PairsStay
    <3> QED BY <3>1, <3>2 DEF WorkersOK, Ready
  <2> QED BY <2>1, <2>2
<1> QED BY <1>1, <1>2 DEF WorkersOK, Ready

LEMMA NextKeyStep ==
  ASSUME WorkersOK, PairsStay, NEW p \in Pod, NEW todo \in SUBSET MatchId,
         NextKey(p, todo)
  PROVE  WorkersOK'
<1> DEFINE w == IF todo = {} THEN IdleWorker
                ELSE [IdleWorker EXCEPT !.pc = "read", !.todo = todo]
<1>1. w \in Workers
  BY DEF IdleWorker, Workers
<1>2. Ready(w, pair')
  BY DEF Ready, IdleWorker
<1>3. worker' = [worker EXCEPT ![p] = w]
  BY DEF NextKey, IdleWorker
<1> QED BY <1>1, <1>2, <1>3, WorkerUpdate

LEMMA OthersStay ==
  ASSUME HandlersOK, InboxOK, PagesOK, PairsStay,
         \A f \in FriendshipId : pair'[f] \in Pairs \cup {<<>>}
  PROVE  /\ handler' = handler => HandlersOK'
         /\ inbox' = inbox => InboxOK'
         /\ UNCHANGED page => PagesOK'
<1>1. \A f, s : Member(f, s) => Member(f, s)'
  BY PairFacts DEF Member, PairsStay
<1> QED BY <1>1 DEF HandlersOK, InboxOK, PagesOK, page

LEMMA InsertStep ==
  ASSUME IInv, NEW p \in Pod, InsertFriendship(p)
  PROVE  TablesOK' /\ WorkersOK' /\ PairsStay /\ inbox' = inbox
<1> DEFINE ab  == MatchPair[worker[p].m]
           new == {f \in FriendshipId : pair[f] = <<>>}
           f   == CHOOSE g \in new : TRUE
<1>0. TablesOK /\ WorkersOK
  BY DEF IInv
<1>1. worker[p] \in Workers /\ worker[p].m \in MatchId
  BY <1>0 DEF WorkersOK, Workers, InsertFriendship
<1>2. ab \in Pairs /\ ab # <<>>
  BY <1>1, MatchPairs, PairFacts
<1>3. CASE Unique(ab)
  <2>1. /\ new # {} /\ friendships' = friendships \cup {f}
        /\ pair' = [pair EXCEPT ![f] = ab] /\ dms' = dms /\ row' = row
        /\ worker' = [worker EXCEPT ![p].pc = "tellA", ![p].f = f]
        /\ inbox' = inbox
    BY <1>3 DEF InsertFriendship
  <2>2. f \in FriendshipId /\ pair[f] = <<>>
    BY <2>1
  <2>3. PairsStay
    BY <1>0, <2>1, <2>2 DEF TablesOK, PairsStay
  <2>4. pair' \in [FriendshipId -> Pairs \cup {<<>>}] /\ pair'[f] = ab
    BY <1>0, <1>2, <2>1, <2>2 DEF TablesOK
  <2>5. f \notin friendships
    BY <1>0, <2>2 DEF TablesOK
  <2>6. \A g \in friendships : pair'[g] = pair[g]
    BY <1>0, <2>1, <2>5 DEF TablesOK
  <2>7. TablesOK'
    <3>1. \A g \in friendships' : pair'[g] # <<>>
      BY <1>0, <1>2, <2>1, <2>4, <2>6 DEF TablesOK
    <3> QED BY <1>0, <2>1, <2>2, <2>4, <3>1 DEF TablesOK
  <2> DEFINE w == [worker[p] EXCEPT !.pc = "tellA", !.f = f]
  <2>8. w \in Workers /\ w.pc = "tellA" /\ w.f = f /\ w.m = worker[p].m
    BY <1>1, <2>2 DEF Workers
  <2>9. pair'[w.f] = MatchPair[w.m] /\ w.f # None /\ w.m # None
    BY <1>0, <2>2, <2>4, <2>8, FriendsAssumption DEF WorkersOK, InsertFriendship
  <2>10. worker' = [worker EXCEPT ![p] = w]
    BY <1>0, <2>1 DEF WorkersOK
  <2>11. Ready(w, pair')
    BY <2>8, <2>9 DEF Ready
  <2>12. WorkersOK'
    BY <1>0, <2>3, <2>8, <2>10, <2>11, WorkerUpdate
  <2> QED BY <2>1, <2>3, <2>7, <2>12
<1>4. CASE ~Unique(ab)
  <2>1. EndRound(p) /\ UNCHANGED <<friendships, pair, dms, row, inbox>>
    BY <1>4 DEF InsertFriendship
  <2>2. PairsStay
    BY <2>1 DEF PairsStay
  <2>3. TablesOK'
    BY <1>0, <2>1 DEF TablesOK
  <2>4. IdleWorker \in Workers /\ Ready(IdleWorker, pair')
    BY DEF IdleWorker, Workers, Ready
  <2>5. WorkersOK'
    BY <1>0, <2>1, <2>2, <2>4, WorkerUpdate DEF EndRound
  <2> QED BY <2>1, <2>2, <2>3, <2>5
<1> QED BY <1>3, <1>4

LEMMA TablesSame ==
  ASSUME TablesOK, UNCHANGED tables
  PROVE  TablesOK' /\ PairsStay /\ pair' = pair
BY DEF TablesOK, PairsStay, tables

LEMMA EndRoundStep ==
  ASSUME WorkersOK, PairsStay, NEW p \in Pod, EndRound(p)
  PROVE  WorkersOK'
<1>1. IdleWorker \in Workers /\ Ready(IdleWorker, pair')
  BY DEF IdleWorker, Workers, Ready
<1> QED BY <1>1, WorkerUpdate DEF EndRound

LEMMA LookStep ==
  ASSUME IInv, NEW p \in Pod, Scan(p) \/ ReadMatch(p) \/ FindFriendship(p)
  PROVE  TablesOK' /\ WorkersOK' /\ PairsStay /\ inbox' = inbox
<1>0. TablesOK /\ WorkersOK /\ running \subseteq MatchId
  BY DEF IInv, BoundsOK
<1>1. TablesOK' /\ PairsStay /\ inbox' = inbox
  BY <1>0, TablesSame DEF Scan, ReadMatch, FindFriendship
<1>2. worker[p] \in Workers
  BY <1>0 DEF WorkersOK
<1>3. CASE Scan(p)
  BY <1>0, <1>1, <1>3, NextKeyStep DEF Scan
<1>4. CASE ReadMatch(p)
  <2>1. PICK m \in worker[p].todo :
          IF m \in running
          THEN worker' = [worker EXCEPT ![p].pc = "find", ![p].m = m,
                                        ![p].todo = @ \ {m}]
          ELSE NextKey(p, worker[p].todo \ {m})
    BY <1>4 DEF ReadMatch
  <2>2. m \in MatchId /\ worker[p].todo \ {m} \in SUBSET MatchId
    BY <1>2, <2>1 DEF Workers
  <2>3. CASE m \in running
    <3> DEFINE w == [worker[p] EXCEPT !.pc = "find", !.m = m, !.todo = @ \ {m}]
    <3>1. w \in Workers /\ w.pc = "find" /\ w.m = m
      BY <1>2, <2>2 DEF Workers
    <3>2. Ready(w, pair')
      BY <2>2, <3>1, FriendsAssumption DEF Ready
    <3>3. worker' = [worker EXCEPT ![p] = w]
      BY <1>0, <2>1, <2>3 DEF WorkersOK
    <3> QED BY <1>0, <1>1, <3>1, <3>2, <3>3, WorkerUpdate
  <2>4. CASE m \notin running
    BY <1>0, <1>1, <2>1, <2>2, <2>4, NextKeyStep
  <2> QED BY <1>1, <2>3, <2>4
<1>5. CASE FindFriendship(p)
  <2>1. CASE NextKey(p, worker[p].todo)
    <3>1. worker[p].todo \in SUBSET MatchId
      BY <1>2 DEF Workers
    <3> QED BY <1>0, <1>1, <2>1, <3>1, NextKeyStep
  <2>2. CASE WorkerTo(p, "insert")
    <3> DEFINE w == [worker[p] EXCEPT !.pc = "insert"]
    <3>1. w \in Workers /\ w.pc = "insert" /\ w.m = worker[p].m
      BY <1>2 DEF Workers
    <3>2. worker[p].m # None
      BY <1>0, <1>5 DEF WorkersOK, FindFriendship
    <3>3. Ready(w, pair') /\ worker' = [worker EXCEPT ![p] = w]
      BY <1>0, <2>2, <3>1, <3>2 DEF Ready, WorkerTo, WorkersOK
    <3> QED BY <1>0, <1>1, <3>1, <3>3, WorkerUpdate
  <2> QED BY <1>5, <2>1, <2>2 DEF FindFriendship
<1> QED BY <1>3, <1>4, <1>5

LEMMA TellStep ==
  ASSUME IInv, NEW p \in Pod, TellA(p) \/ TellB(p)
  PROVE  TablesOK' /\ WorkersOK' /\ PairsStay /\ InboxOK'
<1>0. TablesOK /\ WorkersOK /\ InboxOK
  BY DEF IInv
<1>1. TablesOK' /\ PairsStay /\ pair' = pair
  BY <1>0, TablesSame DEF TellA, TellB
<1>2. /\ worker[p] \in Workers /\ worker[p].f \in FriendshipId
      /\ worker[p].m \in MatchId /\ pair[worker[p].f] = MatchPair[worker[p].m]
  BY <1>0 DEF WorkersOK, Workers, TellA, TellB
<1> DEFINE ab  == MatchPair[worker[p].m]
           msg == Msg("friend:auto-connected", worker[p].f)
<1>3. Member(worker[p].f, ab[1]) /\ Member(worker[p].f, ab[2])
  BY <1>2, MatchPairs DEF Member
<1>4. msg \in Message /\ msg.id = worker[p].f
  BY <1>2, MsgType DEF Msg
<1>5. InboxOK'
  <2>1. PICK s \in {ab[1], ab[2]} : Publish(s, msg)
    BY DEF TellA, TellB
  <2>2. Member(msg.id, s)
    BY <1>3, <1>4, <2>1
  <2> QED BY <1>0, <1>1, <1>4, <2>1, <2>2, PublishInbox
<1>6. CASE TellA(p)
  <2> DEFINE w == [worker[p] EXCEPT !.pc = "tellB"]
  <2>1. w \in Workers /\ w.pc = "tellB" /\ w.f = worker[p].f /\ w.m = worker[p].m
    BY <1>2 DEF Workers
  <2>2. worker[p].f # None /\ worker[p].m # None
    BY <1>0, <1>6 DEF WorkersOK, TellA
  <2>3. Ready(w, pair')
    BY <1>1, <1>2, <2>1, <2>2 DEF Ready
  <2>4. worker' = [worker EXCEPT ![p] = w]
    BY <1>0, <1>6 DEF TellA, WorkerTo, WorkersOK
  <2> QED BY <1>0, <1>1, <1>5, <2>1, <2>3, <2>4, WorkerUpdate
<1>7. CASE TellB(p)
  <2>1. worker[p].todo \in SUBSET MatchId
    BY <1>2 DEF Workers
  <2> QED BY <1>0, <1>1, <1>5, <1>7, <2>1, NextKeyStep DEF TellB
<1> QED BY <1>6, <1>7

LEMMA WorkerStepInv ==
  ASSUME IInv, NEW p \in Pod, WorkerStep(p)
  PROVE  IInv'
<1>1. TablesOK' /\ WorkersOK' /\ PairsStay /\ (inbox' = inbox \/ InboxOK')
  BY InsertStep, LookStep, TellStep DEF WorkerStep
<1>2. UNCHANGED <<running, call, key, handler, page, reqs, faults>>
  BY DEF WorkerStep
<1>3. \A f \in FriendshipId : pair'[f] \in Pairs \cup {<<>>}
  BY <1>1 DEF TablesOK
<1>4. HandlersOK' /\ InboxOK' /\ PagesOK'
  BY <1>1, <1>2, <1>3, OthersStay DEF IInv
<1>5. CallsOK' /\ BoundsOK'
  BY <1>2 DEF IInv, CallsOK, BoundsOK
<1> QED BY <1>1, <1>4, <1>5 DEF IInv

(***************************************************************************)
(* Clicks and requests.                                                    *)
(***************************************************************************)
Owned(r) ==
  /\ r.op \in {"call", "dm", "unfriend"} => r.s \in Session /\ Member(r.f, r.s)
  /\ r.op \in {"call", "accept", "decline"} => r.k \in CallId

LEMMA HandlerUpdate ==
  ASSUME HandlersOK, pair' = pair, NEW h \in Handler, NEW r \in Requests, Owned(r),
         handler' = [handler EXCEPT ![h] = r]
  PROVE  HandlersOK'
<1>1. \A g \in Handler : Owned(handler'[g])
  BY DEF HandlersOK, Owned
<1>2. handler' \in [Handler -> Requests]
  BY DEF HandlersOK
<1> QED BY <1>1, <1>2 DEF HandlersOK, Owned, Member

Places == {"idle", "find", "row", "key", "ring", "read", "tell", "delete", "reply"}

LEMMA HandlerMoves ==
  ASSUME HandlersOK, pair' = pair, NEW h \in Handler,
         Done(h) \/ \E pc \in Places : To(h, pc)
  PROVE  HandlersOK'
<1>1. CASE Done(h)
  <2>1. IdleHandler \in Requests /\ Owned(IdleHandler)
    BY DEF IdleHandler, Requests, Owned
  <2> QED BY <1>1, <2>1, HandlerUpdate DEF Done
<1>2. ASSUME NEW pc \in Places, To(h, pc) PROVE HandlersOK'
  <2> DEFINE r == [handler[h] EXCEPT !.pc = pc]
  <2>1. handler[h] \in Requests /\ Owned(handler[h])
    BY DEF HandlersOK, Owned
  <2>2. /\ r \in Requests /\ r.op = handler[h].op /\ r.s = handler[h].s
        /\ r.f = handler[h].f /\ r.k = handler[h].k
    BY <2>1 DEF Requests, Places
  <2>3. Owned(r)
    BY <2>1, <2>2 DEF Owned
  <2>4. handler' = [handler EXCEPT ![h] = r]
    BY <1>2 DEF To, HandlersOK
  <2> QED BY <2>2, <2>3, <2>4, HandlerUpdate
<1> QED BY <1>1, <1>2

LEMMA ClickStep ==
  ASSUME IInv, NEW h \in Handler, NEW s \in Session, Click(h, s)
  PROVE  IInv'
<1>0. TablesOK /\ CallsOK /\ WorkersOK /\ HandlersOK /\ InboxOK /\ PagesOK /\ BoundsOK
  BY DEF IInv
<1>1. PICK r : /\ Ask(h, r) /\ r \in Requests /\ Owned(r)
               /\ CallsOK' /\ PagesOK'
  <2>1. CASE CallFriend(h, s)
    <3>1. PICK f \in list[s], k \in CallId :
            /\ call' = [call EXCEPT ![k].f = f]
            /\ Ask(h, Request("call", "find", s, f, k))
      BY <2>1 DEF CallFriend
    <3>2. f \in FriendshipId /\ Member(f, s)
      BY <1>0 DEF PagesOK
    <3>3. CallsOK'
      BY <1>0, <3>1, <3>2 DEF CallsOK, Ask
    <3>4. PagesOK'
      BY <1>0, <2>1, <3>1 DEF CallFriend, Ask, PagesOK, page, tables, Member
    <3>5. LET r == Request("call", "find", s, f, k) IN r \in Requests /\ Owned(r)
      BY <3>2 DEF Request, Requests, Owned
    <3> QED BY <3>1, <3>3, <3>4, <3>5
  <2>2. CASE AcceptCall(h, s) \/ DeclineCall(h, s)
    <3>1. PICK op \in {"accept", "decline"} :
            Ask(h, Request(op, "read", s, None, incoming[s]))
      BY <2>2 DEF AcceptCall, DeclineCall
    <3>2. incoming[s] \in CallId
      BY <1>0, <2>2 DEF AcceptCall, DeclineCall, PagesOK
    <3>3. CallsOK'
      BY <1>0, <2>2, <3>1 DEF CallsOK, Ask, AcceptCall, DeclineCall
    <3>4. list' = list /\ pair' = pair
      BY <2>2, <3>1 DEF Ask, AcceptCall, DeclineCall, tables
    <3>5. /\ incoming' \in [Session -> CallId \cup {None}]
          /\ active' \in [Session -> CallId \cup {None}]
      BY <1>0, <2>2, <3>2 DEF PagesOK, AcceptCall, DeclineCall
    <3>6. PagesOK'
      BY <1>0, <3>4, <3>5 DEF PagesOK, Member
    <3>7. LET r == Request(op, "read", s, None, incoming[s])
          IN  r \in Requests /\ Owned(r)
      BY <3>2 DEF Request, Requests, Owned
    <3> QED BY <3>1, <3>3, <3>6, <3>7
  <2>3. CASE SendDm(h, s) \/ Unfriend(h, s)
    <3>1. PICK op \in {"dm", "unfriend"}, f \in list[s] :
            Ask(h, Request(op, "find", s, f, None))
      BY <2>3 DEF SendDm, Unfriend
    <3>2. f \in FriendshipId /\ Member(f, s)
      BY <1>0 DEF PagesOK
    <3>3. CallsOK' /\ PagesOK'
      BY <1>0, <2>3, <3>1
      DEF CallsOK, PagesOK, Ask, SendDm, Unfriend, page, tables, Member
    <3>4. LET r == Request(op, "find", s, f, None) IN r \in Requests /\ Owned(r)
      BY <3>2 DEF Request, Requests, Owned
    <3> QED BY <3>1, <3>3, <3>4
  <2> QED BY <2>1, <2>2, <2>3 DEF Click
<1>2. TablesOK' /\ pair' = pair /\ worker' = worker /\ inbox' = inbox
  BY <1>0, <1>1, TablesSame DEF Ask
<1>3. HandlersOK'
  BY <1>0, <1>1, <1>2, HandlerUpdate DEF Ask
<1>4. WorkersOK' /\ InboxOK' /\ BoundsOK'
  BY <1>0, <1>1, <1>2 DEF WorkersOK, InboxOK, BoundsOK, Member, Ask
<1> QED BY <1>1, <1>2, <1>3, <1>4 DEF IInv

(***************************************************************************)
(* The commands of the requests.                                           *)
(***************************************************************************)
LEMMA CallStep ==
  ASSUME IInv, NEW h \in Handler,
         CallFind(h) \/ CallRefused(h) \/ CallInsert(h) \/ CallStore(h) \/ CallRing(h)
  PROVE  /\ TablesOK' /\ CallsOK' /\ HandlersOK' /\ InboxOK'
         /\ pair' = pair /\ list' = list
<1>0. TablesOK /\ CallsOK /\ HandlersOK /\ InboxOK
  BY DEF IInv
<1> DEFINE r == handler[h]
<1>1. r.op = "call" /\ r.s \in Session /\ Member(r.f, r.s) /\ r.k \in CallId
  BY <1>0 DEF HandlersOK, CallFind, CallRefused, CallInsert, CallStore, CallRing, At
<1>2. pair' = pair /\ list' = list /\ (Done(h) \/ \E pc \in Places : To(h, pc))
  BY DEF CallFind, CallRefused, CallInsert, CallStore, CallRing, tables, Places
<1>3. HandlersOK'
  BY <1>0, <1>2, HandlerMoves
<1>4. TablesOK'
  <2>1. CASE CallInsert(h)
    BY <1>0, <1>2, <2>1 DEF CallInsert, TablesOK, RowStatus
  <2>2. CASE ~CallInsert(h)
    BY <1>0, <2>2, TablesSame DEF CallFind, CallRefused, CallStore, CallRing
  <2> QED BY <2>1, <2>2
<1>5. CallsOK'
  <2>1. CASE CallFind(h)
    <3>1. <<r.s, Other(pair[r.f], r.s)>> \in Pairs
      BY <1>1, PairFacts DEF Member
    <3> QED BY <1>0, <1>1, <2>1, <3>1 DEF CallFind, CallsOK
  <2>2. CASE CallStore(h)
    BY <1>0, <1>1, <2>2 DEF CallStore, CallsOK, KeyStatus
  <2>3. CASE CallRefused(h) \/ CallInsert(h) \/ CallRing(h)
    BY <1>0, <2>3 DEF CallRefused, CallInsert, CallRing, CallsOK
  <2> QED BY <2>1, <2>2, <2>3
<1>6. InboxOK'
  <2>1. CASE CallRing(h)
    <3>1. Msg("friend:incoming-call", r.k) \in Message
          /\ Msg("friend:incoming-call", r.k).type # "friend:auto-connected"
      BY <1>1, MsgType DEF Msg
    <3> QED BY <1>0, <1>2, <2>1, <3>1, PublishInbox DEF CallRing
  <2>2. CASE ~CallRing(h)
    BY <1>0, <1>2, <2>2 DEF CallFind, CallRefused, CallInsert, CallStore, InboxOK, Member
  <2> QED BY <2>1, <2>2
<1> QED BY <1>2, <1>3, <1>4, <1>5, <1>6

LEMMA AnswerStep ==
  ASSUME IInv, NEW h \in Handler,
         \/ AcceptRead(h) \/ AcceptRow(h) \/ AcceptStore(h) \/ AcceptTell(h)
         \/ DeclineRead(h) \/ DeclineTell(h) \/ DeclineRow(h) \/ DeclineDelete(h)
  PROVE  /\ TablesOK' /\ CallsOK' /\ HandlersOK' /\ InboxOK'
         /\ pair' = pair /\ list' = list
<1>0. TablesOK /\ CallsOK /\ HandlersOK /\ InboxOK
  BY DEF IInv
<1> DEFINE k == handler[h].k
<1>1. k \in CallId
  BY <1>0 DEF HandlersOK, AcceptRead, AcceptRow, AcceptStore, AcceptTell,
              DeclineRead, DeclineTell, DeclineRow, DeclineDelete, At
<1>2. pair' = pair /\ list' = list /\ (Done(h) \/ \E pc \in Places : To(h, pc))
  BY DEF AcceptRead, AcceptRow, AcceptStore, AcceptTell,
         DeclineRead, DeclineTell, DeclineRow, DeclineDelete, tables, Places
<1>3. HandlersOK'
  BY <1>0, <1>2, HandlerMoves
<1>4. TablesOK'
  <2>1. CASE AcceptRow(h) \/ DeclineRow(h)
    BY <1>0, <1>2, <2>1 DEF AcceptRow, DeclineRow, TablesOK, RowStatus
  <2>2. CASE ~(AcceptRow(h) \/ DeclineRow(h))
    BY <1>0, <2>2, TablesSame DEF AcceptRead, AcceptStore, AcceptTell, DeclineRead,
                                  DeclineTell, DeclineDelete
  <2> QED BY <2>1, <2>2
<1>5. CallsOK'
  <2>1. CASE AcceptStore(h) \/ DeclineDelete(h)
    BY <1>0, <1>1, <2>1 DEF AcceptStore, DeclineDelete, CallsOK, KeyStatus
  <2>2. CASE ~(AcceptStore(h) \/ DeclineDelete(h))
    BY <1>0, <2>2 DEF AcceptRead, AcceptRow, AcceptTell, DeclineRead, DeclineTell,
                      DeclineRow, CallsOK
  <2> QED BY <2>1, <2>2
<1>6. InboxOK'
  <2>1. CASE AcceptTell(h) \/ DeclineTell(h)
    <3>1. PICK type \in {"friend:call-connected", "friend:call-declined"} :
            Publish(call[k].pair[1], Msg(type, k))
      BY <2>1 DEF AcceptTell, DeclineTell
    <3>2. Msg(type, k) \in Message /\ Msg(type, k).type # "friend:auto-connected"
      BY <1>1, MsgType DEF Msg
    <3> QED BY <1>0, <1>2, <3>1, <3>2, PublishInbox
  <2>2. CASE ~(AcceptTell(h) \/ DeclineTell(h))
    BY <1>0, <1>2, <2>2 DEF AcceptRead, AcceptRow, AcceptStore, DeclineRead, DeclineRow,
                            DeclineDelete, InboxOK, Member
  <2> QED BY <2>1, <2>2
<1> QED BY <1>2, <1>3, <1>4, <1>5, <1>6

LEMMA FriendStep ==
  ASSUME IInv, NEW h \in Handler,
         \/ DmFind(h) \/ DmInsert(h)
         \/ UnfriendFind(h) \/ UnfriendDelete(h) \/ UnfriendTell(h) \/ UnfriendReply(h)
  PROVE  /\ TablesOK' /\ CallsOK' /\ HandlersOK' /\ InboxOK' /\ pair' = pair
         /\ list' \in [Session -> SUBSET FriendshipId]
         /\ \A s \in Session : list'[s] \subseteq list[s]
<1>0. TablesOK /\ CallsOK /\ HandlersOK /\ InboxOK /\ PagesOK
  BY DEF IInv
<1> DEFINE r == handler[h]
<1>1. r.s \in Session /\ Member(r.f, r.s)
  BY <1>0 DEF HandlersOK, DmFind, DmInsert, UnfriendFind, UnfriendDelete, UnfriendTell,
              UnfriendReply, At
<1>2. pair' = pair /\ (Done(h) \/ \E pc \in Places : To(h, pc))
  BY DEF DmFind, DmInsert, UnfriendFind, UnfriendDelete, UnfriendTell, UnfriendReply,
         tables, Places
<1>3. HandlersOK'
  BY <1>0, <1>2, HandlerMoves
<1>4. TablesOK'
  <2>1. CASE DmInsert(h)
    <3>1. dms' \subseteq FriendshipId
      BY <1>0, <1>1, <2>1 DEF DmInsert, TablesOK, Member
    <3> QED BY <1>0, <1>2, <2>1, <3>1 DEF DmInsert, TablesOK
  <2>2. CASE UnfriendDelete(h)
    <3>1. friendships' \subseteq friendships
      BY <2>2 DEF UnfriendDelete
    <3> QED BY <1>0, <1>2, <2>2, <3>1 DEF UnfriendDelete, TablesOK
  <2>3. CASE DmFind(h) \/ UnfriendFind(h) \/ UnfriendTell(h) \/ UnfriendReply(h)
    BY <1>0, <2>3, TablesSame DEF DmFind, UnfriendFind, UnfriendTell, UnfriendReply
  <2> QED BY <2>1, <2>2, <2>3
<1>5. CallsOK'
  BY <1>0 DEF DmFind, DmInsert, UnfriendFind, UnfriendDelete, UnfriendTell,
              UnfriendReply, CallsOK
<1>6. InboxOK'
  <2>1. CASE UnfriendTell(h)
    <3>1. Msg("friend:removed", r.f) \in Message
          /\ Msg("friend:removed", r.f).type # "friend:auto-connected"
      BY <1>1, MsgType DEF Msg, Member
    <3> QED BY <1>0, <1>2, <2>1, <3>1, PublishInbox DEF UnfriendTell
  <2>2. CASE ~UnfriendTell(h)
    BY <1>0, <1>2, <2>2 DEF DmFind, DmInsert, UnfriendFind, UnfriendDelete,
                            UnfriendReply, InboxOK, Member
  <2> QED BY <2>1, <2>2
<1>7. /\ list' \in [Session -> SUBSET FriendshipId]
      /\ \A s \in Session : list'[s] \subseteq list[s]
  BY <1>0, <1>1 DEF DmFind, DmInsert, UnfriendFind, UnfriendDelete, UnfriendTell,
                    UnfriendReply, PagesOK
<1> QED BY <1>2, <1>3, <1>4, <1>5, <1>6, <1>7

LEMMA HandlerStepInv ==
  ASSUME IInv, NEW h \in Handler, HandlerStep(h)
  PROVE  IInv'
<1>1. UNCHANGED <<running, worker, incoming, active, reqs, faults>>
  BY DEF HandlerStep
<1>2. /\ TablesOK' /\ CallsOK' /\ HandlersOK' /\ InboxOK' /\ pair' = pair
      /\ list' \in [Session -> SUBSET FriendshipId]
      /\ \A s \in Session : list'[s] \subseteq list[s]
  BY CallStep, AnswerStep, FriendStep DEF HandlerStep, IInv, PagesOK
<1>3. WorkersOK' /\ BoundsOK'
  BY <1>1, <1>2 DEF IInv, WorkersOK, BoundsOK
<1>4. PagesOK'
  BY <1>1, <1>2 DEF IInv, PagesOK, Member
<1> QED BY <1>2, <1>3, <1>4 DEF IInv

(***************************************************************************)
(* The pages and the environment.                                          *)
(***************************************************************************)
LEMMA PageStepInv ==
  ASSUME IInv, NEW s \in Session, PageStep(s)
  PROVE  IInv'
<1>0. TablesOK /\ CallsOK /\ WorkersOK /\ HandlersOK /\ InboxOK /\ PagesOK /\ BoundsOK
  BY DEF IInv
<1>1. UNCHANGED <<running, tables, call, key, worker, handler, reqs, faults>>
  BY DEF PageStep
<1>2. TablesOK' /\ pair' = pair
  BY <1>0, <1>1, TablesSame
<1>3. CallsOK' /\ WorkersOK' /\ HandlersOK' /\ BoundsOK'
  BY <1>0, <1>1, <1>2 DEF CallsOK, WorkersOK, HandlersOK, BoundsOK, Member
<1> DEFINE msg == Head(inbox[s])
<1>4. CASE HangUp(s)
  <2>1. InboxOK' /\ PagesOK'
    BY <1>0, <1>2, <1>4 DEF HangUp, InboxOK, PagesOK, Member
  <2> QED BY <1>2, <1>3, <2>1 DEF IInv
<1>5. ASSUME NEW type, Delivered(s, type), PagesOK' PROVE IInv'
  BY <1>0, <1>2, <1>3, <1>5, DeliveredInbox DEF IInv
<1>6. CASE AutoConnected(s)
  <2>1. Delivered(s, "friend:auto-connected")
    BY <1>6 DEF AutoConnected
  <2>2. Member(msg.id, s)
    BY <1>0, <1>2, <2>1, DeliveredInbox
  <2>3. PagesOK'
    BY <1>0, <1>2, <1>6, <2>2 DEF AutoConnected, PagesOK, Member
  <2> QED BY <1>5, <2>1, <2>3
<1>7. CASE Removed(s)
  <2>1. Delivered(s, "friend:removed")
    BY <1>7 DEF Removed
  <2>2. PagesOK'
    BY <1>0, <1>2, <1>7 DEF Removed, PagesOK, Member
  <2> QED BY <1>5, <2>1, <2>2
<1>8. CASE IncomingCall(s) \/ CallConnected(s)
  <2>1. PICK type \in {"friend:incoming-call", "friend:call-connected"} :
          Delivered(s, type)
    BY <1>8 DEF IncomingCall, CallConnected
  <2>2. msg.id \in CallId
    BY <1>0, <1>2, <2>1, DeliveredInbox, MessageId
  <2>3. PagesOK'
    BY <1>0, <1>2, <1>8, <2>2 DEF IncomingCall, CallConnected, PagesOK, Member
  <2> QED BY <1>5, <2>1, <2>3
<1>9. CASE CallDeclined(s)
  <2>1. Delivered(s, "friend:call-declined")
    BY <1>9 DEF CallDeclined
  <2>2. PagesOK'
    BY <1>0, <1>2, <1>9 DEF CallDeclined, PagesOK, Member
  <2> QED BY <1>5, <2>1, <2>2
<1> QED BY <1>4, <1>6, <1>7, <1>8, <1>9 DEF PageStep

LEMMA EnvironmentInv ==
  ASSUME IInv, \/ \E p \in Pod : WorkerThrows(p)
               \/ \E h \in Handler : HandlerThrows(h)
               \/ \E m \in MatchId : EndMatch(m)
               \/ \E k \in CallId : ExpireCall(k)
  PROVE  IInv'
<1>0. TablesOK /\ CallsOK /\ WorkersOK /\ HandlersOK /\ InboxOK /\ PagesOK /\ BoundsOK
  BY DEF IInv
<1>1. UNCHANGED <<tables, inbox, page>>
  BY DEF WorkerThrows, HandlerThrows, EndMatch, ExpireCall
<1>2. TablesOK' /\ PairsStay /\ pair' = pair
  BY <1>0, <1>1, TablesSame
<1>3. InboxOK' /\ PagesOK'
  BY <1>0, <1>1, <1>2 DEF InboxOK, PagesOK, Member, page
<1>4. CallsOK' /\ BoundsOK'
  BY <1>0 DEF WorkerThrows, HandlerThrows, EndMatch, ExpireCall, Fault, CallsOK,
              BoundsOK, KeyStatus
<1>5. WorkersOK'
  <2>1. ASSUME NEW p \in Pod, WorkerThrows(p) PROVE WorkersOK'
    BY <1>0, <1>2, <2>1, EndRoundStep DEF WorkerThrows
  <2>2. CASE worker' = worker
    BY <1>0, <1>2, <2>2 DEF WorkersOK
  <2> QED BY <2>1, <2>2 DEF HandlerThrows, EndMatch, ExpireCall
<1>6. HandlersOK'
  <2>1. ASSUME NEW h \in Handler, HandlerThrows(h) PROVE HandlersOK'
    BY <1>0, <1>2, <2>1, HandlerMoves DEF HandlerThrows, Places
  <2>2. CASE handler' = handler
    BY <1>0, <1>2, <2>2 DEF HandlersOK, Member
  <2> QED BY <2>1, <2>2 DEF WorkerThrows, EndMatch, ExpireCall
<1> QED BY <1>2, <1>3, <1>4, <1>5, <1>6 DEF IInv

(***************************************************************************)
(* The invariant and the theorems.                                         *)
(***************************************************************************)
LEMMA InitIInv == Init => IInv
<1> SUFFICES ASSUME Init PROVE IInv
  OBVIOUS
<1>1. PICK fs \in {{}, {CHOOSE f \in FriendshipId : TRUE}}, ab \in Pairs :
        /\ friendships = fs
        /\ pair = [f \in FriendshipId |-> IF f \in fs THEN ab ELSE <<>>]
        /\ list = [s \in Session |-> IF s \in {ab[1], ab[2]} THEN fs ELSE {}]
  BY DEF Init
<1>2. fs \subseteq FriendshipId /\ \A f, g \in fs : f = g
  BY <1>1, FriendsAssumption
<1>3. TablesOK
  BY <1>1, <1>2, PairFacts DEF Init, TablesOK, RowStatus
<1>4. CallsOK /\ BoundsOK
  BY DEF Init, CallsOK, NoCall, KeyStatus, BoundsOK
<1>5. WorkersOK /\ HandlersOK
  BY DEF Init, WorkersOK, Workers, IdleWorker, HandlersOK, Requests, IdleHandler
<1>6. InboxOK
  BY DEF Init, InboxOK
<1>7. PagesOK
  BY <1>1, <1>2 DEF Init, PagesOK, Member
<1> QED BY <1>3, <1>4, <1>5, <1>6, <1>7 DEF IInv

LEMMA NextIInv == IInv /\ [Next]_vars => IInv'
<1> SUFFICES ASSUME IInv, [Next]_vars PROVE IInv'
  OBVIOUS
<1>1. CASE UNCHANGED vars
  BY <1>1 DEF vars, tables, page, IInv, TablesOK, CallsOK, WorkersOK,
              HandlersOK, InboxOK, PagesOK, BoundsOK, Member
<1>2. CASE Next
  BY <1>2, WorkerStepInv, ClickStep, HandlerStepInv, PageStepInv, EnvironmentInv DEF Next
<1> QED BY <1>1, <1>2

LEMMA FriendsSafety == Spec => []IInv
<1> QED BY InitIInv, NextIInv, PTL DEF Spec

(* Every variable of the server and of the pages keeps its shape, and a    *)
(* worker in a round has a key to read or a match in hand.                 *)
THEOREM FriendsTypeCorrect == Spec => []TypeOK
<1> QED BY FriendsSafety, InvImplies, PTL

(***************************************************************************)
(* A call that is asked for, rings or is answered is in one hand at a      *)
(* time: that of a request, of a message on its way, or of the page that   *)
(* shows it.  So it is answered once, and its row says where it is.        *)
(***************************************************************************)
Has(q, msg)  == \E i \in DOMAIN q : q[i] = msg
Once(q, msg) == \A i, j \in DOMAIN q : q[i] = msg /\ q[j] = msg => i = j

Ring(k)        == Msg("friend:incoming-call", k)
Told(s, k)     == Has(inbox[s], Ring(k))
Accepted(s, k) == Has(inbox[s], Msg("friend:call-connected", k))

OfCall(h, k) == handler[h].op \in {"call", "accept", "decline"} /\ handler[h].k = k

(* The status the row has while a request is handled.                      *)
Due(r) ==
  IF r.op = "call" THEN (IF r.pc \in {"key", "ring"} THEN "ringing" ELSE "none")
  ELSE IF r.op = "accept" THEN (IF r.pc \in {"key", "tell"} THEN "active" ELSE "ringing")
  ELSE (IF r.pc = "key" THEN "declined" ELSE "ringing")

Waits(k, s) ==
  /\ row[k] = "ringing" /\ call[k].pair[2] = s
  /\ \A t \in Session : active[t] # k

CallOK(k) ==
  /\ \A g, h \in Handler : OfCall(g, k) /\ OfCall(h, k) => g = h
  /\ \A h \in Handler :
       OfCall(h, k) =>
         /\ \A s \in Session : incoming[s] # k /\ ~Told(s, k)
         /\ row[k] = Due(handler[h])
         /\ handler[h].op # "accept" => \A s \in Session : active[s] # k
         /\ handler[h].op = "call" =>
              /\ call[k].f = handler[h].f
              /\ handler[h].pc # "find" => call[k].pair \in Pairs
  /\ \A s \in Session :
       /\ incoming[s] = k => Waits(k, s)
       /\ Told(s, k) => /\ Waits(k, s) /\ Once(inbox[s], Ring(k))
                        /\ \A t \in Session : incoming[t] # k
       /\ active[s] = k => \/ row[k] = "active"
                           \/ row[k] = "ringing" /\ call[k].pair[2] = s
       /\ Accepted(s, k) => row[k] = "active" /\ call[k].pair[1] = s
  /\ row[k] # "none" => call[k].f \in friendships /\ call[k].pair \in Pairs
  /\ key[k] # "none" => row[k] # "none"
  /\ key[k] = "active" => row[k] = "active"
  /\ row[k] = "declined" /\ faults = 0 =>
       key[k] = "none" \/ \E h \in Handler : OfCall(h, k) /\ handler[h].op = "decline"

CallInv == \A k \in CallId : CallOK(k)

(***************************************************************************)
(* While nothing fails, a friendship that is on the table is on the lists, *)
(* on its way to them, or cannot be ended; what is taken off a list is not *)
(* on the table, or cannot be ended.                                       *)
(***************************************************************************)
Telling(p, f, s) ==
  /\ worker[p].f = f /\ worker[p].pc \in {"tellA", "tellB"}
  /\ pair[f][1] = s => worker[p].pc = "tellA"

Held == {f \in FriendshipId : Referenced(f)}

Listed(f, s) ==
  \/ f \in Held \/ f \in list[s]
  \/ Has(inbox[s], Msg("friend:auto-connected", f))
  \/ \E p \in Pod : Telling(p, f, s)

ListInv ==
  faults = 0 =>
    /\ \A f \in friendships, s \in Session : s \in {pair[f][1], pair[f][2]} => Listed(f, s)
    /\ \A s \in Session, f \in FriendshipId :
         Has(inbox[s], Msg("friend:removed", f)) => f \notin friendships /\ pair[f] # <<>>
    /\ \A h \in Handler :
         handler[h].op = "unfriend" =>
           /\ handler[h].pc = "tell" => handler[h].f \notin friendships
           /\ handler[h].pc = "reply" => handler[h].f \notin friendships
                                          \/ handler[h].f \in Held

LEMMA AppendHas ==
  ASSUME NEW q \in Seq(Message), NEW m \in Message, NEW x
  PROVE  /\ Has(Append(q, m), x) <=> Has(q, x) \/ x = m
         /\ Once(q, x) /\ (x # m \/ ~Has(q, x)) => Once(Append(q, m), x)
<1> DEFINE r == Append(q, m)
<1>1. /\ DOMAIN r = 1..(Len(q) + 1) /\ DOMAIN q = 1..Len(q) /\ Len(q) \in Nat
      /\ \A i \in DOMAIN q : r[i] = q[i]
      /\ r[Len(q) + 1] = m
  OBVIOUS
<1>2. \A i \in DOMAIN r : i \in DOMAIN q \/ i = Len(q) + 1
  BY <1>1
<1>3. \A i \in DOMAIN q : i \in DOMAIN r
  BY <1>1
<1>4. Len(q) + 1 \in DOMAIN r
  BY <1>1
<1> HIDE DEF r
<1>5. Has(r, x) <=> Has(q, x) \/ x = m
  BY <1>1, <1>2, <1>3, <1>4 DEF Has
<1>6. Once(q, x) /\ (x # m \/ ~Has(q, x)) => Once(r, x)
  BY <1>1, <1>2 DEF Has, Once
<1> QED BY <1>5, <1>6 DEF r

LEMMA TailHas ==
  ASSUME NEW q \in Seq(Message), q # <<>>, NEW x
  PROVE  /\ Has(Tail(q), x) => Has(q, x)
         /\ Has(q, x) => Has(Tail(q), x) \/ x = Head(q)
         /\ Once(q, x) => Once(Tail(q), x) /\ (x = Head(q) => ~Has(Tail(q), x))
         /\ Has(q, Head(q))
<1> DEFINE r == Tail(q)
<1>1. /\ DOMAIN r = 1..(Len(q) - 1) /\ DOMAIN q = 1..Len(q) /\ Len(q) \in Nat /\ Len(q) >= 1
      /\ \A i \in DOMAIN r : r[i] = q[i + 1]
      /\ q[1] = Head(q)
  OBVIOUS
<1>2. \A i \in DOMAIN r : i + 1 \in DOMAIN q /\ i + 1 # 1 /\ i \in Nat
  BY <1>1
<1>3. \A i \in DOMAIN q : i = 1 \/ (i - 1 \in DOMAIN r /\ q[i] = r[i - 1])
  BY <1>1
<1>4. 1 \in DOMAIN q
  BY <1>1
<1> HIDE DEF r
<1>5. Has(r, x) => Has(q, x)
  BY <1>1, <1>2 DEF Has
<1>6. Has(q, x) => Has(r, x) \/ x = Head(q)
  BY <1>1, <1>3 DEF Has
<1>7. ASSUME Once(q, x) PROVE Once(r, x)
  <2>1. ASSUME NEW i \in DOMAIN r, NEW j \in DOMAIN r, r[i] = x, r[j] = x PROVE i = j
    <3>1. i + 1 = j + 1
      BY <1>1, <1>2, <1>7, <2>1 DEF Once
    <3> QED BY <3>1, <1>2
  <2> QED BY <2>1 DEF Once
<1>8. ASSUME Once(q, x), x = Head(q), Has(r, x) PROVE FALSE
  BY <1>1, <1>2, <1>4, <1>8 DEF Once, Has
<1>9. Has(q, Head(q))
  BY <1>1, <1>4 DEF Has
<1> QED BY <1>5, <1>6, <1>7, <1>8, <1>9 DEF r

LEMMA PublishHas ==
  ASSUME InboxOK, NEW s, NEW msg \in Message, Publish(s, msg), NEW t \in Session, NEW x
  PROVE  /\ Has(inbox'[t], x) <=> Has(inbox[t], x) \/ (t = s /\ x = msg)
         /\ Once(inbox[t], x) /\ (x # msg \/ ~Has(inbox[t], x)) => Once(inbox'[t], x)
<1>1. inbox[t] \in Seq(Message)
  BY DEF InboxOK
<1>2. CASE t = s
  <2>1. inbox'[t] = Append(inbox[t], msg)
    BY <1>2 DEF Publish, InboxOK
  <2> QED BY <1>1, <1>2, <2>1, AppendHas
<1>3. CASE t # s
  <2>1. inbox'[t] = inbox[t]
    BY <1>3 DEF Publish, InboxOK
  <2> QED BY <1>3, <2>1
<1> QED BY <1>2, <1>3

LEMMA DeliveredHas ==
  ASSUME InboxOK, NEW s \in Session, NEW type, Delivered(s, type), NEW t \in Session, NEW x
  PROVE  /\ Has(inbox'[t], x) => Has(inbox[t], x)
         /\ Has(inbox[t], x) => Has(inbox'[t], x) \/ (t = s /\ x = Head(inbox[s]))
         /\ Once(inbox[t], x) => Once(inbox'[t], x)
         /\ Once(inbox[s], Head(inbox[s])) => ~Has(inbox'[s], Head(inbox[s]))
         /\ Has(inbox[s], Head(inbox[s]))
         /\ Head(inbox[s]) = Msg(type, Head(inbox[s]).id)
<1>1. inbox[s] \in Seq(Message) /\ inbox[t] \in Seq(Message) /\ inbox[s] # <<>>
  BY DEF InboxOK, Delivered
<1>2. inbox'[s] = Tail(inbox[s])
  BY DEF Delivered, InboxOK
<1>3. Head(inbox[s]) = Msg(type, Head(inbox[s]).id)
  <2>1. Head(inbox[s]) \in Message /\ Head(inbox[s]).type = type
    BY <1>1 DEF Delivered
  <2> QED BY <2>1 DEF Message, Msg
<1>4. CASE t = s
  BY <1>1, <1>2, <1>3, <1>4, TailHas
<1>5. CASE t # s
  <2>1. inbox'[t] = inbox[t]
    BY <1>5 DEF Delivered, InboxOK
  <2> QED BY <1>1, <1>2, <1>3, <1>5, <2>1, TailHas
<1> QED BY <1>4, <1>5

LEMMA MsgApart ==
  ASSUME NEW x, NEW y
  PROVE  /\ Ring(x) = Ring(y) => x = y
         /\ Ring(x) # Msg("friend:auto-connected", y) /\ Ring(x) # Msg("friend:removed", y)
         /\ Ring(x) # Msg("friend:call-connected", y)
         /\ Ring(x) # Msg("friend:call-declined", y)
         /\ Msg("friend:call-connected", x) = Msg("friend:call-connected", y) => x = y
         /\ Msg("friend:call-connected", x) # Msg("friend:auto-connected", y)
         /\ Msg("friend:call-connected", x) # Msg("friend:removed", y)
         /\ Msg("friend:call-connected", x) # Msg("friend:call-declined", y)
         /\ Msg("friend:auto-connected", x) = Msg("friend:auto-connected", y) => x = y
         /\ Msg("friend:removed", x) = Msg("friend:removed", y) => x = y
         /\ Msg("friend:removed", x) # Msg("friend:auto-connected", y)
         /\ Msg("friend:removed", x) # Ring(y)
         /\ Msg("friend:removed", x) # Msg("friend:call-connected", y)
         /\ Msg("friend:removed", x) # Msg("friend:call-declined", y)
BY DEF Ring, Msg

(* What every step does to a call it is not about, and most steps to the   *)
(* one they are about.                                                     *)
Hushed(k) ==
  \A s \in Session :
    /\ (Told(s, k))' => /\ Told(s, k)
                        /\ Once(inbox[s], Ring(k)) => Once(inbox'[s], Ring(k))
    /\ (Accepted(s, k))' =>
         Accepted(s, k) \/ (row[k] = "active" /\ call[k].pair[1] = s)

Keeps(k) ==
  /\ row'[k] = row[k] /\ call'[k] = call[k] /\ key'[k] \in {key[k], "none"}
  /\ row[k] # "none" /\ call[k].f \in friendships => call[k].f \in friendships'
  /\ \A h \in Handler : (OfCall(h, k))' => handler'[h] = handler[h]
  /\ faults' = 0 =>
       /\ faults = 0
       /\ key'[k] # "none" =>
            \A h \in Handler : OfCall(h, k) /\ handler[h].op = "decline" =>
                                 handler'[h] = handler[h]
  /\ \A s \in Session : /\ incoming'[s] = k => incoming[s] = k
                        /\ active'[s] = k => active[s] = k \/ row[k] = "active"
  /\ Hushed(k)

LEMMA KeepsOK ==
  ASSUME NEW k \in CallId, CallOK(k), Keeps(k)
  PROVE  CallOK(k)'
<1>0. /\ row'[k] = row[k] /\ call'[k] = call[k] /\ key'[k] \in {key[k], "none"}
      /\ \A s \in Session : /\ incoming'[s] = k => incoming[s] = k
                            /\ active'[s] = k => active[s] = k \/ row[k] = "active"
                            /\ (Told(s, k))' => Told(s, k)
  BY DEF Keeps, Hushed
<1>1. ASSUME NEW h \in Handler, (OfCall(h, k))'
      PROVE  handler'[h] = handler[h] /\ OfCall(h, k)
  BY <1>1 DEF Keeps, OfCall
<1>2. \A g, h \in Handler : (OfCall(g, k))' /\ (OfCall(h, k))' => g = h
  BY <1>1 DEF CallOK
<1>3. ASSUME NEW h \in Handler, (OfCall(h, k))'
      PROVE  /\ \A s \in Session : incoming'[s] # k /\ ~(Told(s, k))'
             /\ row'[k] = Due(handler'[h])
             /\ handler'[h].op # "accept" => \A s \in Session : active'[s] # k
             /\ handler'[h].op = "call" =>
                  /\ call'[k].f = handler'[h].f
                  /\ handler'[h].pc # "find" => call'[k].pair \in Pairs
  <2>1. /\ \A s \in Session : incoming[s] # k /\ ~Told(s, k)
        /\ row[k] = Due(handler[h])
        /\ handler[h].op # "accept" => \A s \in Session : active[s] # k
        /\ handler[h].op = "call" =>
             /\ call[k].f = handler[h].f
             /\ handler[h].pc # "find" => call[k].pair \in Pairs
    BY <1>1, <1>3 DEF CallOK
  <2>2. handler[h].op # "accept" => row[k] # "active"
    BY <2>1 DEF Due
  <2> QED BY <1>0, <1>1, <1>3, <2>1, <2>2
<1>4. ASSUME NEW s \in Session, Waits(k, s) PROVE (Waits(k, s))'
  BY <1>0, <1>4 DEF Waits
<1>5. ASSUME NEW s \in Session
      PROVE  /\ incoming'[s] = k => (Waits(k, s))'
             /\ (Told(s, k))' => /\ (Waits(k, s))' /\ Once(inbox'[s], Ring(k))
                                 /\ \A t \in Session : incoming'[t] # k
             /\ active'[s] = k => \/ row'[k] = "active"
                                  \/ row'[k] = "ringing" /\ call'[k].pair[2] = s
             /\ (Accepted(s, k))' => row'[k] = "active" /\ call'[k].pair[1] = s
  <2>1. incoming'[s] = k => (Waits(k, s))'
    BY <1>0, <1>4 DEF CallOK
  <2>2. (Told(s, k))' => /\ (Waits(k, s))' /\ Once(inbox'[s], Ring(k))
                         /\ \A t \in Session : incoming'[t] # k
    BY <1>0, <1>4 DEF CallOK, Keeps, Hushed
  <2>3. active'[s] = k => \/ row'[k] = "active"
                          \/ row'[k] = "ringing" /\ call'[k].pair[2] = s
    BY <1>0 DEF CallOK
  <2>4. (Accepted(s, k))' => row'[k] = "active" /\ call'[k].pair[1] = s
    BY <1>0 DEF CallOK, Keeps, Hushed
  <2> QED BY <2>1, <2>2, <2>3, <2>4
<1>6. row'[k] # "none" => call'[k].f \in friendships' /\ call'[k].pair \in Pairs
  BY <1>0 DEF CallOK, Keeps
<1>7. /\ key'[k] # "none" => row'[k] # "none"
      /\ key'[k] = "active" => row'[k] = "active"
  BY <1>0 DEF CallOK
<1>8. row'[k] = "declined" /\ faults' = 0 =>
        \/ key'[k] = "none"
        \/ \E h \in Handler : (OfCall(h, k))' /\ handler'[h].op = "decline"
  BY <1>0 DEF CallOK, Keeps, OfCall
<1> QED BY <1>2, <1>3, <1>5, <1>6, <1>7, <1>8 DEF CallOK

(* What an inbox that is not written to, or gets a message about something *)
(* else, or loses one, does to a call.                                     *)
LEMMA HushedSame ==
  ASSUME NEW k \in CallId, inbox' = inbox
  PROVE  Hushed(k)
BY DEF Hushed, Told, Accepted

LEMMA HushedPublish ==
  ASSUME InboxOK, NEW k \in CallId, NEW s, NEW msg \in Message, Publish(s, msg),
         msg # Ring(k),
         msg = Msg("friend:call-connected", k) => row[k] = "active" /\ call[k].pair[1] = s
  PROVE  Hushed(k)
BY PublishHas DEF Hushed, Told, Accepted

LEMMA HushedDelivered ==
  ASSUME InboxOK, NEW k \in CallId, NEW s \in Session, NEW type, Delivered(s, type)
  PROVE  Hushed(k)
BY DeliveredHas DEF Hushed, Told, Accepted

(* A place that is free holds no request, and a request that is handled    *)
(* stays what it is.                                                       *)
FreeInv == \A h \in Handler : handler[h].pc = "idle" => handler[h].op = "none"

LEMMA AskSets ==
  ASSUME HandlersOK, NEW h \in Handler, NEW r, Ask(h, r)
  PROVE  /\ UNCHANGED <<friendships, pair, dms, row, key, inbox, worker, faults>>
         /\ handler[h].pc = "idle"
         /\ handler'[h] = r /\ \A g \in Handler \ {h} : handler'[g] = handler[g]
BY DEF Ask, tables, HandlersOK

LEMMA HandlerGoes ==
  ASSUME HandlersOK, NEW h \in Handler, NEW pc
  PROVE  /\ Done(h) => /\ handler'[h] = IdleHandler
                       /\ \A g \in Handler \ {h} : handler'[g] = handler[g]
         /\ To(h, pc) => /\ handler'[h].pc = pc /\ handler'[h].op = handler[h].op
                         /\ handler'[h].k = handler[h].k /\ handler'[h].f = handler[h].f
                         /\ handler'[h].s = handler[h].s
                         /\ \A g \in Handler \ {h} : handler'[g] = handler[g]
<1>1. handler \in [Handler -> Requests] /\ handler[h] \in Requests
  BY DEF HandlersOK
<1> QED BY <1>1 DEF Done, To, Requests

LEMMA FreeStep == IInv /\ FreeInv /\ [Next]_vars => FreeInv'
<1> SUFFICES ASSUME IInv, FreeInv, [Next]_vars PROVE FreeInv'
  OBVIOUS
<1>0. HandlersOK
  BY DEF IInv
<1>1. ASSUME NEW h \in Handler, Done(h) \/ \E pc \in Places \ {"idle"} : To(h, pc)
      PROVE  FreeInv'
  <2>1. \A g \in Handler \ {h} : handler'[g] = handler[g]
    BY <1>0, <1>1, HandlerGoes
  <2>2. handler'[h].pc = "idle" => handler'[h].op = "none"
    BY <1>0, <1>1, HandlerGoes DEF IdleHandler
  <2> QED BY <2>1, <2>2 DEF FreeInv
<1>2. ASSUME NEW h \in Handler, NEW s \in Session, Click(h, s) PROVE FreeInv'
  <2>1. PICK pc \in {"find", "read"} : \E op, f, k : Ask(h, Request(op, pc, s, f, k))
    BY <1>2 DEF Click, CallFriend, AcceptCall, DeclineCall, SendDm, Unfriend
  <2>2. handler'[h].pc # "idle" /\ \A g \in Handler \ {h} : handler'[g] = handler[g]
    BY <1>0, <2>1, AskSets DEF Request
  <2> QED BY <2>2 DEF FreeInv
<1>3. ASSUME NEW h \in Handler, HandlerStep(h) PROVE FreeInv'
  <2>1. CASE CallFind(h) \/ CallRefused(h) \/ CallInsert(h) \/ CallStore(h) \/ CallRing(h)
    BY <1>1, <2>1 DEF Places, CallFind, CallRefused, CallInsert, CallStore, CallRing
  <2>2. CASE \/ AcceptRead(h) \/ AcceptRow(h) \/ AcceptStore(h) \/ AcceptTell(h)
             \/ DeclineRead(h) \/ DeclineTell(h) \/ DeclineRow(h) \/ DeclineDelete(h)
    BY <1>1, <2>2 DEF Places, AcceptRead, AcceptRow, AcceptStore, AcceptTell, DeclineRead,
                      DeclineTell, DeclineRow, DeclineDelete
  <2>3. CASE \/ DmFind(h) \/ DmInsert(h) \/ UnfriendFind(h) \/ UnfriendDelete(h)
             \/ UnfriendTell(h) \/ UnfriendReply(h)
    BY <1>1, <2>3 DEF Places, DmFind, DmInsert, UnfriendFind, UnfriendDelete,
                      UnfriendTell, UnfriendReply
  <2> QED BY <1>3, <2>1, <2>2, <2>3 DEF HandlerStep
<1>4. ASSUME NEW h \in Handler, HandlerThrows(h) PROVE FreeInv'
  BY <1>1, <1>4 DEF HandlerThrows, Places
<1>5. CASE handler' = handler
  BY <1>5 DEF FreeInv
<1> QED BY <1>2, <1>3, <1>4, <1>5 DEF Next, vars, WorkerStep, WorkerThrows, PageStep,
           EndMatch, ExpireCall

LEMMA CallsFromWorker ==
  ASSUME IInv, CallInv, NEW p \in Pod, WorkerStep(p)
  PROVE  CallInv'
<1> SUFFICES ASSUME NEW k \in CallId PROVE CallOK(k)'
  BY DEF CallInv
<1>0. InboxOK /\ WorkersOK
  BY DEF IInv
<1>1. UNCHANGED <<call, row, key, handler, incoming, active, faults>>
  BY DEF WorkerStep, page, Scan, ReadMatch, FindFriendship, InsertFriendship, TellA, TellB,
         tables
<1>2. friendships \subseteq friendships'
  BY DEF WorkerStep, Scan, ReadMatch, FindFriendship, InsertFriendship, TellA, TellB,
         tables
<1>3. Hushed(k)
  <2>1. CASE TellA(p) \/ TellB(p)
    <3>1. worker[p].f \in FriendshipId
      BY <1>0, <2>1 DEF WorkersOK, Workers, TellA, TellB
    <3>2. \E s : Publish(s, Msg("friend:auto-connected", worker[p].f))
      BY <2>1 DEF TellA, TellB
    <3> QED BY <1>0, <3>1, <3>2, MsgType, MsgApart, HushedPublish
  <2>2. CASE inbox' = inbox
    BY <2>2, HushedSame
  <2> QED BY <2>1, <2>2 DEF WorkerStep, Scan, ReadMatch, FindFriendship, InsertFriendship
<1>4. Keeps(k)
  BY <1>1, <1>2, <1>3 DEF Keeps
<1> QED BY <1>4, KeepsOK DEF CallInv

(* A call that nobody asked for yet is in no hand.                         *)
LEMMA FreshCall ==
  ASSUME IInv, NEW k \in CallId, CallOK(k), call[k] = NoCall
  PROVE  /\ row[k] = "none" /\ key[k] = "none"
         /\ \A h \in Handler : ~OfCall(h, k)
         /\ \A s \in Session : /\ incoming[s] # k /\ active[s] # k
                               /\ ~Told(s, k) /\ ~Accepted(s, k)
<1>1. call[k].f = None /\ None \notin FriendshipId /\ friendships \subseteq FriendshipId
  BY FriendsAssumption DEF NoCall, IInv, TablesOK
<1>2. row[k] = "none" /\ key[k] = "none"
  BY <1>1 DEF CallOK
<1>3. ASSUME NEW h \in Handler, OfCall(h, k) PROVE FALSE
  <2>1. handler[h].op = "call"
    BY <1>2, <1>3 DEF CallOK, OfCall, Due
  <2>2. handler[h].f \in FriendshipId
    BY <2>1 DEF IInv, HandlersOK, Member
  <2> QED BY <1>1, <1>3, <2>1, <2>2 DEF CallOK
<1> QED BY <1>2, <1>3 DEF CallOK, Waits

LEMMA CallsFromClick ==
  ASSUME IInv, FreeInv, CallInv, NEW h \in Handler, NEW s \in Session, Click(h, s)
  PROVE  CallInv'
<1> SUFFICES ASSUME NEW k \in CallId PROVE CallOK(k)'
  BY DEF CallInv
<1>0. /\ HandlersOK
      /\ call \in [CallId -> [f : FriendshipId \cup {None}, pair : Pairs \cup {<<>>}]]
      /\ incoming \in [Session -> CallId \cup {None}]
      /\ active \in [Session -> CallId \cup {None}]
      /\ CallOK(k) /\ None \notin CallId
  BY FriendsAssumption DEF IInv, CallsOK, PagesOK, CallInv
<1>f. handler[h].pc = "idle" => \A c : ~OfCall(h, c)
  BY DEF FreeInv, OfCall
(* A request about nothing or another call.                                *)
<1>k. ASSUME NEW r, Ask(h, r), ~(r.op \in {"call", "accept", "decline"} /\ r.k = k),
             call'[k] = call[k],
             \A t \in Session : /\ incoming'[t] = k => incoming[t] = k
                                /\ active'[t] = k => active[t] = k
      PROVE  CallOK(k)'
  <2>1. /\ UNCHANGED <<friendships, row, key, inbox, faults>>
        /\ ~OfCall(h, k) /\ ~(OfCall(h, k))'
        /\ \A g \in Handler \ {h} : handler'[g] = handler[g]
    BY <1>0, <1>f, <1>k, AskSets DEF OfCall
  <2>2. Hushed(k)
    BY <2>1, HushedSame
  <2>3. Keeps(k)
    BY <1>k, <2>1, <2>2 DEF Keeps
  <2> QED BY <1>0, <2>3, KeepsOK
<1>1. ASSUME CallFriend(h, s) PROVE CallOK(k)'
  <2>1. PICK f \in list[s], c \in CallId :
          /\ call[c] = NoCall /\ call' = [call EXCEPT ![c].f = f]
          /\ Ask(h, Request("call", "find", s, f, c))
    BY <1>1 DEF CallFriend
  <2>2. incoming' = incoming /\ active' = active
    BY <1>1 DEF CallFriend, page
  <2>3. CASE k # c
    <3>1. call'[k] = call[k]
      BY <1>0, <2>1, <2>3
    <3> QED BY <1>k, <2>1, <2>2, <2>3, <3>1 DEF Request
  <2>4. CASE k = c
    <3>1. /\ row[k] = "none" /\ key[k] = "none"
          /\ \A g \in Handler : ~OfCall(g, k)
          /\ \A t \in Session : /\ incoming[t] # k /\ active[t] # k
                                /\ ~Told(t, k) /\ ~Accepted(t, k)
      BY <1>0, <2>1, <2>4, FreshCall
    <3>2. /\ row' = row /\ key' = key /\ inbox' = inbox
          /\ handler'[h] = Request("call", "find", s, f, k)
          /\ \A g \in Handler \ {h} : handler'[g] = handler[g]
      BY <1>0, <2>1, <2>4, AskSets
    <3>3. call'[k].f = f
      BY <1>0, <2>1, <2>4
    <3>4. \A t \in Session : ~(Told(t, k))' /\ ~(Accepted(t, k))'
      BY <3>1, <3>2 DEF Told, Accepted
    <3>5. \A g \in Handler : (OfCall(g, k))' => g = h
      BY <3>1, <3>2 DEF OfCall
    <3>6. /\ Due(handler'[h]) = "none" /\ handler'[h].op = "call" /\ handler'[h].f = f
          /\ handler'[h].pc = "find"
      BY <3>2 DEF Due, Request
    <3> QED BY <2>2, <3>1, <3>2, <3>3, <3>4, <3>5, <3>6 DEF CallOK
  <2> QED BY <2>3, <2>4
<1>2. ASSUME AcceptCall(h, s) \/ DeclineCall(h, s) PROVE CallOK(k)'
  <2> DEFINE c == incoming[s]
  <2>1. PICK op \in {"accept", "decline"} :
          /\ Ask(h, Request(op, "read", s, None, c))
          /\ IF op = "accept" THEN active' = [active EXCEPT ![s] = c] ELSE active' = active
    BY <1>2 DEF AcceptCall, DeclineCall
  <2>2. /\ c # None /\ c \in CallId /\ call' = call
        /\ incoming' = [incoming EXCEPT ![s] = None]
    BY <1>0, <1>2 DEF AcceptCall, DeclineCall
  <2>3. CASE k # c
    BY <1>k, <1>0, <2>1, <2>2, <2>3 DEF Request
  <2>4. CASE k = c
    <3>1. /\ Waits(k, s) /\ \A g \in Handler : ~OfCall(g, k)
          /\ \A t \in Session : ~Told(t, k) /\ (incoming[t] = k => t = s)
          /\ \A t \in Session : ~Accepted(t, k)
      <4>1. Waits(k, s) /\ \A g \in Handler : ~OfCall(g, k)
        BY <1>0, <2>4 DEF CallOK
      <4>2. \A t \in Session : incoming[t] = k => Waits(k, t)
        BY <1>0 DEF CallOK
      <4>3. \A t \in Session : ~Told(t, k)
        BY <1>0, <2>4 DEF CallOK
      <4>4. \A t \in Session : incoming[t] = k => t = s
        BY <4>1, <4>2 DEF Waits
      <4>5. \A t \in Session : ~Accepted(t, k)
        BY <1>0, <4>1 DEF CallOK, Waits
      <4> QED BY <4>1, <4>3, <4>4, <4>5
    <3>2. /\ row' = row /\ key' = key /\ inbox' = inbox /\ friendships' = friendships
          /\ handler'[h] = Request(op, "read", s, None, k)
          /\ \A g \in Handler \ {h} : handler'[g] = handler[g]
      BY <1>0, <2>1, <2>4, AskSets
    <3>3. \A t \in Session : ~(Told(t, k))' /\ ~(Accepted(t, k))'
      BY <3>1, <3>2 DEF Told, Accepted
    <3>4. \A g \in Handler : (OfCall(g, k))' => g = h
      BY <3>1, <3>2 DEF OfCall
    <3>5. \A t \in Session : incoming'[t] # k
      BY <1>0, <2>2, <2>4, <3>1
    <3>6. \A t \in Session : active'[t] = k => op = "accept" /\ t = s
      BY <1>0, <2>1, <2>4, <3>1 DEF Waits
    <3>7. /\ handler'[h].op = op /\ Due(handler'[h]) = "ringing"
          /\ row'[k] = "ringing" /\ call'[k].pair[2] = s
          /\ key'[k] # "active" /\ call'[k].f \in friendships' /\ call'[k].pair \in Pairs
      BY <1>0, <2>1, <2>2, <3>1, <3>2 DEF Due, Request, Waits, CallOK
    <3> QED BY <2>1, <3>3, <3>4, <3>5, <3>6, <3>7 DEF CallOK
  <2> QED BY <2>3, <2>4
<1>3. ASSUME SendDm(h, s) \/ Unfriend(h, s) PROVE CallOK(k)'
  <2>1. PICK op \in {"dm", "unfriend"} : \E f : Ask(h, Request(op, "find", s, f, None))
    BY <1>3 DEF SendDm, Unfriend
  <2>2. UNCHANGED <<call, incoming, active>>
    BY <1>3 DEF SendDm, Unfriend, page
  <2> QED BY <1>k, <2>1, <2>2 DEF Request
<1> QED BY <1>1, <1>2, <1>3 DEF Click

(***************************************************************************)
(* A command of a request: another call is left as it is, and the one the  *)
(* request is about goes on in its hand, or leaves it.                     *)
(***************************************************************************)
LEMMA AsideKeeps ==
  ASSUME IInv, NEW h \in Handler, HandlerStep(h), NEW k \in CallId, ~OfCall(h, k)
  PROVE  Keeps(k)
<1> DEFINE r == handler[h]
<1>0. /\ HandlersOK /\ InboxOK
      /\ row \in [CallId -> RowStatus] /\ key \in [CallId -> KeyStatus]
      /\ call \in [CallId -> [f : FriendshipId \cup {None}, pair : Pairs \cup {<<>>}]]
  BY DEF IInv, TablesOK, CallsOK
<1>1. UNCHANGED <<incoming, active, faults>>
  BY DEF HandlerStep
<1>g. ASSUME Done(h) \/ \E pc : To(h, pc)
      PROVE  /\ ~(OfCall(h, k))'
             /\ \A g \in Handler \ {h} : handler'[g] = handler[g]
  BY <1>0, <1>g, HandlerGoes DEF OfCall, IdleHandler
<1>k. ASSUME Done(h) \/ \E pc : To(h, pc),
             row'[k] = row[k], call'[k] = call[k], key'[k] = key[k], Hushed(k),
             row[k] # "none" /\ call[k].f \in friendships => call[k].f \in friendships'
      PROVE  Keeps(k)
  BY <1>1, <1>g, <1>k DEF Keeps
<1>2. CASE CallFind(h) \/ CallRefused(h) \/ CallInsert(h) \/ CallStore(h) \/ CallRing(h)
  <2>1. r.k \in CallId /\ r.k # k
    BY <1>0, <1>2 DEF HandlersOK, OfCall, CallFind, CallRefused, CallInsert, CallStore,
                      CallRing, At
  <2>2. /\ row'[k] = row[k] /\ call'[k] = call[k] /\ key'[k] = key[k]
        /\ friendships' = friendships
    BY <1>0, <1>2, <2>1 DEF CallFind, CallRefused, CallInsert, CallStore, CallRing, tables
  <2>3. Done(h) \/ \E pc : To(h, pc)
    BY <1>2 DEF CallFind, CallRefused, CallInsert, CallStore, CallRing
  <2>4. Hushed(k)
    <3>1. CASE CallRing(h)
      <4>1. Ring(r.k) \in Message /\ \E s : Publish(s, Ring(r.k))
        BY <2>1, <3>1, MsgType DEF CallRing, Ring
      <4> QED BY <1>0, <2>1, <4>1, MsgApart, HushedPublish
    <3>2. CASE inbox' = inbox
      BY <3>2, HushedSame
    <3> QED BY <1>2, <3>1, <3>2 DEF CallFind, CallRefused, CallInsert, CallStore
  <2> QED BY <1>k, <2>2, <2>3, <2>4
<1>3. CASE \/ AcceptRead(h) \/ AcceptRow(h) \/ AcceptStore(h) \/ AcceptTell(h)
           \/ DeclineRead(h) \/ DeclineTell(h) \/ DeclineRow(h) \/ DeclineDelete(h)
  <2>1. r.k \in CallId /\ r.k # k
    BY <1>0, <1>3 DEF HandlersOK, OfCall, AcceptRead, AcceptRow, AcceptStore, AcceptTell,
                      DeclineRead, DeclineTell, DeclineRow, DeclineDelete, At
  <2>2. /\ row'[k] = row[k] /\ call'[k] = call[k] /\ key'[k] = key[k]
        /\ friendships' = friendships
    BY <1>0, <1>3, <2>1 DEF AcceptRead, AcceptRow, AcceptStore, AcceptTell, DeclineRead,
                            DeclineTell, DeclineRow, DeclineDelete, tables
  <2>3. Done(h) \/ \E pc : To(h, pc)
    BY <1>3 DEF AcceptRead, AcceptRow, AcceptStore, AcceptTell, DeclineRead, DeclineTell,
                DeclineRow, DeclineDelete
  <2>4. Hushed(k)
    <3>1. CASE AcceptTell(h) \/ DeclineTell(h)
      <4>1. PICK type \in {"friend:call-connected", "friend:call-declined"} :
              \E s : Publish(s, Msg(type, r.k))
        BY <3>1 DEF AcceptTell, DeclineTell
      <4>2. Msg(type, r.k) \in Message
        BY <2>1, MsgType
      <4> QED BY <1>0, <2>1, <4>1, <4>2, MsgApart, HushedPublish
    <3>2. CASE inbox' = inbox
      BY <3>2, HushedSame
    <3> QED BY <1>3, <3>1, <3>2 DEF AcceptRead, AcceptRow, AcceptStore, DeclineRead,
               DeclineRow, DeclineDelete
  <2> QED BY <1>k, <2>2, <2>3, <2>4
<1>4. CASE \/ DmFind(h) \/ DmInsert(h) \/ UnfriendFind(h) \/ UnfriendDelete(h)
           \/ UnfriendTell(h) \/ UnfriendReply(h)
  <2>1. row' = row /\ call' = call /\ key' = key
    BY <1>4 DEF DmFind, DmInsert, UnfriendFind, UnfriendDelete, UnfriendTell,
                UnfriendReply, tables
  <2>2. row[k] # "none" /\ call[k].f \in friendships => call[k].f \in friendships'
    BY <1>4 DEF DmFind, DmInsert, UnfriendFind, UnfriendDelete, UnfriendTell,
                UnfriendReply, tables, Referenced
  <2>3. Done(h) \/ \E pc : To(h, pc)
    BY <1>4 DEF DmFind, DmInsert, UnfriendFind, UnfriendDelete, UnfriendTell, UnfriendReply
  <2>4. Hushed(k)
    <3>1. CASE UnfriendTell(h)
      <4>1. r.f \in FriendshipId /\ \E s : Publish(s, Msg("friend:removed", r.f))
        BY <1>0, <3>1 DEF UnfriendTell, At, HandlersOK, Member
      <4> QED BY <1>0, <4>1, MsgType, MsgApart, HushedPublish
    <3>2. CASE inbox' = inbox
      BY <3>2, HushedSame
    <3> QED BY <1>4, <3>1, <3>2 DEF DmFind, DmInsert, UnfriendFind, UnfriendDelete,
               UnfriendReply
  <2> QED BY <1>k, <2>1, <2>2, <2>3, <2>4
<1> QED BY <1>2, <1>3, <1>4 DEF HandlerStep

LEMMA DoneFrees ==
  ASSUME HandlersOK, NEW h \in Handler, Done(h), NEW k
  PROVE  /\ ~(OfCall(h, k))' /\ \A g \in Handler \ {h} : handler'[g] = handler[g]
<1>1. handler'[h] = IdleHandler /\ \A g \in Handler \ {h} : handler'[g] = handler[g]
  BY HandlerGoes
<1> QED BY <1>1 DEF OfCall, IdleHandler

(* The request that has the call in hand goes on with it.                  *)
Goes(h, k) ==
  /\ \E pc : To(h, pc)
  /\ row'[k] = Due(handler'[h]) /\ (row'[k] # "none" => call'[k].f \in friendships')
  /\ row'[k] # "none" \/ handler'[h].pc # "find" => call'[k].pair \in Pairs
  /\ call'[k].f = call[k].f /\ (handler[h].op # "call" => call'[k] = call[k])
  /\ row[k] = "active" => row'[k] = "active"
  /\ key'[k] # "none" => row'[k] # "none"
  /\ key'[k] = "active" => row'[k] = "active"
  /\ Hushed(k)

LEMMA GoesOK ==
  ASSUME IInv, NEW h \in Handler, HandlerStep(h), NEW k \in CallId, CallOK(k), OfCall(h, k),
         Goes(h, k)
  PROVE  CallOK(k)'
<1>0. HandlersOK
  BY DEF IInv
<1>1. UNCHANGED <<incoming, active, faults>>
  BY DEF HandlerStep
<1>2. /\ \A g \in Handler \ {h} : handler'[g] = handler[g]
      /\ (OfCall(h, k))' /\ handler'[h].op = handler[h].op /\ handler'[h].f = handler[h].f
  BY <1>0, HandlerGoes DEF Goes, OfCall
<1>3. \A g \in Handler : (OfCall(g, k))' => g = h
  BY <1>2 DEF OfCall, CallOK
<1>4. \A s \in Session : incoming'[s] # k /\ ~(Told(s, k))'
  BY <1>1 DEF CallOK, Goes, Hushed
<1>5. /\ handler'[h].op # "accept" => \A s \in Session : active'[s] # k
      /\ handler'[h].op = "call" =>
           call'[k].f = handler'[h].f /\ (handler'[h].pc # "find" => call'[k].pair \in Pairs)
  BY <1>1, <1>2 DEF CallOK, Goes
<1>6. ASSUME NEW s \in Session, active'[s] = k
      PROVE  row'[k] = "active" \/ (row'[k] = "ringing" /\ call'[k].pair[2] = s)
  <2>1. handler[h].op = "accept"
    BY <1>1, <1>6 DEF CallOK
  <2>2. row'[k] \in {"active", "ringing"} /\ call'[k] = call[k]
    BY <1>2, <2>1 DEF Goes, Due
  <2>3. row[k] = "active" \/ (row[k] = "ringing" /\ call[k].pair[2] = s)
    <3>1. active[s] = k
      BY <1>1, <1>6
    <3> QED BY <3>1 DEF CallOK
  <2>4. row[k] = "active" => row'[k] = "active"
    BY DEF Goes
  <2> QED BY <2>2, <2>3, <2>4
<1>7. ASSUME NEW s \in Session, (Accepted(s, k))'
      PROVE  row'[k] = "active" /\ call'[k].pair[1] = s
  <2>1. row[k] = "active" /\ call[k].pair[1] = s
    BY <1>7 DEF CallOK, Goes, Hushed
  <2>2. handler[h].op # "call"
    BY <2>1 DEF CallOK, Due
  <2> QED BY <2>1, <2>2 DEF Goes
<1>8. row'[k] = "declined" => (OfCall(h, k))' /\ handler'[h].op = "decline"
  BY <1>2 DEF Goes, Due, OfCall
<1> QED BY <1>2, <1>3, <1>4, <1>5, <1>6, <1>7, <1>8 DEF CallOK, Goes

LEMMA CallInHand ==
  ASSUME IInv, NEW h \in Handler, NEW k \in CallId, CallOK(k), OfCall(h, k), HandlerStep(h),
         CallFind(h) \/ CallRefused(h) \/ CallInsert(h) \/ CallStore(h) \/ CallRing(h)
  PROVE  CallOK(k)'
<1> DEFINE r == handler[h]
<1>0. /\ HandlersOK /\ InboxOK
      /\ row \in [CallId -> RowStatus] /\ key \in [CallId -> KeyStatus]
      /\ call \in [CallId -> [f : FriendshipId \cup {None}, pair : Pairs \cup {<<>>}]]
  BY DEF IInv, TablesOK, CallsOK
<1>1. /\ UNCHANGED <<incoming, active, faults>>
      /\ r.op = "call" /\ r.k = k /\ row[k] = Due(r) /\ call[k].f = r.f
      /\ \A s \in Session : incoming[s] # k /\ active[s] # k /\ ~Told(s, k)
  BY DEF HandlerStep, OfCall, CallFind, CallRefused, CallInsert, CallStore, CallRing, At,
         CallOK
<1>d. ASSUME Done(h), row'[k] = row[k], call'[k] = call[k], key'[k] = key[k],
             friendships' = friendships, Hushed(k)
      PROVE  CallOK(k)'
  <2>1. /\ ~(OfCall(h, k))' /\ \A g \in Handler \ {h} : handler'[g] = handler[g]
    BY <1>0, <1>d, DoneFrees
  <2>2. Keeps(k)
    BY <1>1, <1>d, <2>1 DEF Keeps
  <2> QED BY <2>2, KeepsOK
<1>2. CASE CallFind(h)
  <2>1. /\ r.pc = "find" /\ row[k] = "none" /\ UNCHANGED <<friendships, row, key, inbox>>
    BY <1>1, <1>2 DEF CallFind, At, Due, tables
  <2>2. CASE Exists(r.f)
    <3>1. To(h, "row") /\ call' = [call EXCEPT ![k].pair = <<r.s, Other(pair[r.f], r.s)>>]
      BY <1>1, <1>2, <2>2 DEF CallFind
    <3>2. call'[k].f = call[k].f /\ call'[k].pair \in Pairs
      <4>1. Member(r.f, r.s)
        BY <1>0, <1>1 DEF HandlersOK
      <4>2. <<r.s, Other(pair[r.f], r.s)>> \in Pairs
        BY <4>1, PairFacts DEF Member
      <4> QED BY <1>0, <3>1, <4>2
    <3>3. Due(handler'[h]) = "none"
      BY <1>0, <1>1, <3>1, HandlerGoes DEF Due
    <3>4. Goes(h, k)
      BY <1>1, <2>1, <3>1, <3>2, <3>3, HushedSame DEF Goes, CallOK
    <3> QED BY <3>4, GoesOK
  <2>3. CASE ~Exists(r.f)
    BY <1>2, <1>d, <2>1, <2>3, HushedSame DEF CallFind
  <2> QED BY <2>2, <2>3
<1>3. CASE CallRefused(h)
  BY <1>3, <1>d, HushedSame DEF CallRefused, tables
<1>4. CASE CallInsert(h)
  <2>1. /\ r.pc = "row" /\ UNCHANGED <<friendships, call, key, inbox>>
    BY <1>4 DEF CallInsert, At
  <2>2. CASE Exists(r.f)
    <3>1. To(h, "key") /\ row'[k] = "ringing" /\ call[k].pair \in Pairs
      BY <1>0, <1>1, <1>4, <2>1, <2>2 DEF CallInsert, CallOK
    <3>2. Due(handler'[h]) = "ringing"
      BY <1>0, <1>1, <3>1, HandlerGoes DEF Due
    <3>3. row[k] = "none" /\ key[k] = "none"
      BY <1>1, <2>1 DEF CallOK, Due
    <3>4. Goes(h, k)
      BY <1>1, <2>1, <2>2, <3>1, <3>2, <3>3, HushedSame DEF Goes, Exists
    <3> QED BY <3>4, GoesOK
  <2>3. CASE ~Exists(r.f)
    BY <1>4, <1>d, <2>1, <2>3, HushedSame DEF CallInsert
  <2> QED BY <2>2, <2>3
<1>5. CASE CallStore(h)
  <2>1. /\ r.pc = "key" /\ UNCHANGED <<friendships, row, call, inbox>> /\ To(h, "ring")
    BY <1>5 DEF CallStore, At, tables
  <2>2. key'[k] = "ringing"
    BY <1>0, <1>1, <1>5 DEF CallStore
  <2>3. row[k] = "ringing" /\ Due(handler'[h]) = "ringing"
    BY <1>0, <1>1, <2>1, HandlerGoes DEF Due
  <2>4. Goes(h, k)
    BY <1>1, <2>1, <2>2, <2>3, HushedSame DEF Goes, CallOK
  <2> QED BY <2>4, GoesOK
<1>6. CASE CallRing(h)
  <2> DEFINE b == call[k].pair[2]
  <2>1. /\ r.pc = "ring" /\ Done(h) /\ Publish(b, Ring(k))
        /\ UNCHANGED <<friendships, row, call, key>>
    BY <1>1, <1>6 DEF CallRing, At, tables, Ring
  <2>2. row[k] = "ringing" /\ Ring(k) \in Message
    BY <1>1, <2>1, MsgType DEF Due, Ring
  <2>3. /\ \A g \in Handler \ {h} : handler'[g] = handler[g]
        /\ ~(OfCall(h, k))'
    BY <1>0, <2>1, DoneFrees
  <2>4. \A g \in Handler : ~(OfCall(g, k))'
    BY <2>3 DEF OfCall, CallOK
  <2>5. ASSUME NEW s \in Session
        PROVE  /\ (Told(s, k))' => s = b /\ Once(inbox'[s], Ring(k))
               /\ ~(Accepted(s, k))'
    <3>1. ~Told(s, k) /\ ~Accepted(s, k)
      BY <1>1, <2>2 DEF CallOK
    <3>2. Once(inbox[s], Ring(k))
      BY <3>1 DEF Told, Has, Once
    <3>3. (Told(s, k))' => s = b /\ Once(inbox'[s], Ring(k))
      <4>1. ~Has(inbox[s], Ring(k))
        BY <3>1 DEF Told
      <4>2. Has(inbox'[s], Ring(k)) => Has(inbox[s], Ring(k)) \/ s = b
        <5> HIDE DEF b
        <5>1. \A x : Has(inbox'[s], x) <=> Has(inbox[s], x) \/ (s = b /\ x = Ring(k))
          BY <1>0, <2>1, <2>2, PublishHas
        <5> QED BY <5>1
      <4>3. Once(inbox[s], Ring(k)) /\ ~Has(inbox[s], Ring(k)) => Once(inbox'[s], Ring(k))
        BY <1>0, <2>1, <2>2, PublishHas
      <4> QED BY <3>2, <4>1, <4>2, <4>3 DEF Told
    <3>4. ~(Accepted(s, k))'
      BY <1>0, <2>1, <2>2, <3>1, PublishHas, MsgApart DEF Accepted
    <3> QED BY <3>3, <3>4
  <2> QED BY <1>1, <2>1, <2>2, <2>4, <2>5 DEF CallOK, Waits
<1> QED BY <1>2, <1>3, <1>4, <1>5, <1>6

LEMMA AnswerInHand ==
  ASSUME IInv, NEW h \in Handler, NEW k \in CallId, CallOK(k), OfCall(h, k), HandlerStep(h),
         \/ AcceptRead(h) \/ AcceptRow(h) \/ AcceptStore(h) \/ AcceptTell(h)
         \/ DeclineRead(h) \/ DeclineTell(h) \/ DeclineRow(h) \/ DeclineDelete(h)
  PROVE  CallOK(k)'
<1> DEFINE r == handler[h]
<1>0. /\ HandlersOK /\ InboxOK
      /\ row \in [CallId -> RowStatus] /\ key \in [CallId -> KeyStatus]
  BY DEF IInv, TablesOK, CallsOK
<1>1. /\ UNCHANGED <<incoming, active, faults, friendships, call>>
      /\ r.k = k /\ row[k] = Due(r)
      /\ \A s \in Session : ~Told(s, k)
  BY DEF HandlerStep, OfCall, AcceptRead, AcceptRow, AcceptStore, AcceptTell, DeclineRead,
         DeclineTell, DeclineRow, DeclineDelete, tables, CallOK
<1>c. row[k] # "none" => call[k].f \in friendships /\ call[k].pair \in Pairs
  BY DEF CallOK
<1>d. ASSUME Done(h), row'[k] = row[k], key'[k] = key[k] \/ key'[k] = "none", Hushed(k),
             r.op = "accept" \/ key'[k] = "none"
      PROVE  CallOK(k)'
  <2>1. /\ ~(OfCall(h, k))' /\ \A g \in Handler \ {h} : handler'[g] = handler[g]
    BY <1>0, <1>d, DoneFrees
  <2>2. Keeps(k)
    BY <1>1, <1>d, <2>1 DEF Keeps
  <2> QED BY <2>2, KeepsOK
<1>g. ASSUME NEW pc, To(h, pc), row'[k] = Due([r EXCEPT !.pc = pc]), row'[k] # "none",
             row[k] = "active" => row'[k] = "active",
             key'[k] = "active" => row'[k] = "active", Hushed(k)
      PROVE  CallOK(k)'
  <2>1. Due(handler'[h]) = Due([r EXCEPT !.pc = pc])
    <3>1. r \in Requests
      BY <1>0 DEF HandlersOK
    <3> QED BY <1>0, <1>g, <3>1 DEF To, HandlersOK
  <2>2. row[k] # "none"
    BY DEF CallOK, Due, OfCall, AcceptRead, AcceptRow, AcceptStore, AcceptTell, DeclineRead,
         DeclineTell, DeclineRow, DeclineDelete, At
  <2>3. Goes(h, k)
    BY <1>1, <1>c, <1>g, <2>1, <2>2 DEF Goes
  <2> QED BY <2>3, GoesOK
<1>r. r \in Requests
  BY <1>0 DEF HandlersOK
<1>2. CASE AcceptRead(h)
  <2>1. r.op = "accept" /\ r.pc = "read" /\ UNCHANGED <<row, key, inbox>>
    BY <1>2 DEF AcceptRead, At, tables
  <2>2. row[k] = "ringing" /\ Due([r EXCEPT !.pc = "row"]) = "ringing"
    BY <1>1, <1>r, <2>1 DEF Due, Requests
  <2>3. To(h, "row") \/ Done(h)
    BY <1>2 DEF AcceptRead
  <2>4. key[k] # "active"
    BY <2>2 DEF CallOK
  <2> QED BY <1>d, <1>g, <2>1, <2>2, <2>3, <2>4, HushedSame
<1>3. CASE AcceptRow(h)
  <2>1. r.op = "accept" /\ UNCHANGED <<key, inbox>> /\ To(h, "key")
    BY <1>3 DEF AcceptRow, At
  <2>2. row'[k] = "active" /\ Due([r EXCEPT !.pc = "key"]) = "active"
    BY <1>0, <1>1, <1>3, <1>r, <2>1 DEF AcceptRow, Due, Requests
  <2> QED BY <1>g, <2>1, <2>2, HushedSame
<1>4. CASE AcceptStore(h)
  <2>1. r.op = "accept" /\ r.pc = "key" /\ UNCHANGED <<row, inbox>> /\ To(h, "tell")
    BY <1>4 DEF AcceptStore, At, tables
  <2>2. row[k] = "active" /\ Due([r EXCEPT !.pc = "tell"]) = "active"
    BY <1>1, <1>r, <2>1 DEF Due, Requests
  <2> QED BY <1>g, <2>1, <2>2, HushedSame
<1>5. CASE AcceptTell(h)
  <2>1. /\ r.op = "accept" /\ r.pc = "tell" /\ UNCHANGED <<row, key>> /\ Done(h)
        /\ Publish(call[k].pair[1], Msg("friend:call-connected", k))
    BY <1>1, <1>5 DEF AcceptTell, At, tables
  <2>2. row[k] = "active"
    BY <1>1, <2>1 DEF Due
  <2>3. Hushed(k)
    BY <1>0, <2>1, <2>2, MsgType, MsgApart, HushedPublish
  <2> QED BY <1>d, <2>1, <2>3
<1>6. CASE DeclineRead(h)
  <2>1. /\ r.op = "decline" /\ r.pc = "read" /\ UNCHANGED <<row, key, inbox>>
        /\ To(h, "tell") \/ To(h, "row")
    BY <1>6 DEF DeclineRead, At, tables
  <2>2. /\ row[k] = "ringing" /\ Due([r EXCEPT !.pc = "tell"]) = "ringing"
        /\ Due([r EXCEPT !.pc = "row"]) = "ringing"
    BY <1>1, <1>r, <2>1 DEF Due, Requests
  <2>3. key[k] # "active"
    BY <2>2 DEF CallOK
  <2> QED BY <1>g, <2>1, <2>2, <2>3, HushedSame
<1>7. CASE DeclineTell(h)
  <2>1. /\ r.op = "decline" /\ r.pc = "tell" /\ UNCHANGED <<row, key>> /\ To(h, "row")
        /\ \E s : Publish(s, Msg("friend:call-declined", k))
    BY <1>1, <1>7 DEF DeclineTell, At, tables
  <2>2. row[k] = "ringing" /\ Due([r EXCEPT !.pc = "row"]) = "ringing"
    BY <1>1, <1>r, <2>1 DEF Due, Requests
  <2>3. key[k] # "active"
    BY <2>2 DEF CallOK
  <2>4. Hushed(k)
    BY <1>0, <2>1, MsgType, MsgApart, HushedPublish
  <2> QED BY <1>g, <2>1, <2>2, <2>3, <2>4
<1>8. CASE DeclineRow(h)
  <2>1. /\ r.op = "decline" /\ r.pc = "row" /\ UNCHANGED <<key, inbox>> /\ To(h, "key")
    BY <1>8 DEF DeclineRow, At
  <2>2. /\ row[k] = "ringing" /\ row'[k] = "declined"
        /\ Due([r EXCEPT !.pc = "key"]) = "declined"
    BY <1>0, <1>1, <1>8, <1>r, <2>1 DEF DeclineRow, Due, Requests
  <2>3. key[k] # "active"
    BY <2>2 DEF CallOK
  <2> QED BY <1>g, <2>1, <2>2, <2>3, HushedSame
<1>9. CASE DeclineDelete(h)
  <2>1. UNCHANGED <<row, inbox>> /\ Done(h)
    BY <1>9 DEF DeclineDelete, tables
  <2>2. key'[k] = "none"
    BY <1>0, <1>1, <1>9 DEF DeclineDelete
  <2> QED BY <1>d, <2>1, <2>2, HushedSame
<1> QED BY <1>2, <1>3, <1>4, <1>5, <1>6, <1>7, <1>8, <1>9

LEMMA CallsFromHandler ==
  ASSUME IInv, CallInv, NEW h \in Handler, HandlerStep(h)
  PROVE  CallInv'
<1> SUFFICES ASSUME NEW k \in CallId PROVE CallOK(k)'
  BY DEF CallInv
<1>1. CallOK(k)
  BY DEF CallInv
<1>2. CASE OfCall(h, k)
  <2>1. ~(\/ DmFind(h) \/ DmInsert(h) \/ UnfriendFind(h) \/ UnfriendDelete(h)
          \/ UnfriendTell(h) \/ UnfriendReply(h))
    BY <1>2 DEF OfCall, DmFind, DmInsert, UnfriendFind, UnfriendDelete, UnfriendTell,
                UnfriendReply, At
  <2> QED BY <1>1, <1>2, <2>1, CallInHand, AnswerInHand DEF HandlerStep
<1>3. CASE ~OfCall(h, k)
  BY <1>1, <1>3, AsideKeeps, KeepsOK
<1> QED BY <1>2, <1>3

LEMMA CallsFromPage ==
  ASSUME IInv, CallInv, NEW s \in Session, PageStep(s)
  PROVE  CallInv'
<1> SUFFICES ASSUME NEW k \in CallId PROVE CallOK(k)'
  BY DEF CallInv
<1>0. /\ InboxOK /\ CallOK(k) /\ None \notin CallId
      /\ incoming \in [Session -> CallId \cup {None}]
      /\ active \in [Session -> CallId \cup {None}]
  BY FriendsAssumption DEF IInv, PagesOK, CallInv
<1>1. /\ row' = row /\ call' = call /\ key' = key /\ friendships' = friendships
      /\ handler' = handler /\ faults' = faults
  BY DEF PageStep, tables
<1>k. ASSUME Hushed(k), \A t \in Session : /\ incoming'[t] = k => incoming[t] = k
                                           /\ active'[t] = k => \/ active[t] = k
                                                                \/ row[k] = "active"
      PROVE  CallOK(k)'
  <2>1. Keeps(k)
    BY <1>1, <1>k DEF Keeps
  <2> QED BY <1>0, <2>1, KeepsOK
<1> DEFINE c == Head(inbox[s]).id
<1>2. CASE HangUp(s)
  BY <1>0, <1>2, <1>k, HushedSame DEF HangUp
<1>3. CASE AutoConnected(s) \/ Removed(s)
  <2>1. /\ incoming' = incoming /\ active' = active /\ \E type : Delivered(s, type)
    BY <1>3 DEF AutoConnected, Removed
  <2> QED BY <1>0, <1>k, <2>1, HushedDelivered
<1>4. CASE CallDeclined(s)
  <2>1. /\ Delivered(s, "friend:call-declined")
        /\ incoming' = [incoming EXCEPT ![s] = None] /\ active' = [active EXCEPT ![s] = None]
    BY <1>4 DEF CallDeclined
  <2> QED BY <1>0, <1>k, <2>1, HushedDelivered
<1>5. CASE CallConnected(s)
  <2>1. /\ Delivered(s, "friend:call-connected")
        /\ incoming' = [incoming EXCEPT ![s] = None] /\ active' = [active EXCEPT ![s] = c]
    BY <1>5 DEF CallConnected
  <2>2. c = k => Accepted(s, k)
    BY <1>0, <2>1, DeliveredHas DEF Accepted
  <2>3. c = k => row[k] = "active"
    BY <1>0, <2>2 DEF CallOK
  <2> QED BY <1>0, <1>k, <2>1, <2>3, HushedDelivered
<1>6. CASE IncomingCall(s)
  <2>1. /\ Delivered(s, "friend:incoming-call") /\ active' = active
        /\ incoming' = [incoming EXCEPT ![s] = c]
    BY <1>6 DEF IncomingCall
  <2>2. CASE c # k
    BY <1>0, <1>k, <2>1, <2>2, HushedDelivered
  <2>3. CASE c = k
    <3>1. Head(inbox[s]) = Ring(k) /\ Told(s, k)
      BY <1>0, <2>1, <2>3, DeliveredHas DEF Ring, Told
    <3>2. /\ Waits(k, s) /\ Once(inbox[s], Ring(k))
          /\ \A t \in Session : incoming[t] # k /\ ~Accepted(t, k) /\ active[t] # k
          /\ \A h \in Handler : ~OfCall(h, k)
      BY <1>0, <3>1 DEF CallOK, Waits
    <3>3. ASSUME NEW t \in Session, (Told(t, k))' PROVE FALSE
      <4>1. Has(inbox'[t], Ring(k)) /\ Told(t, k)
        BY <1>0, <2>1, <3>3, DeliveredHas DEF Told
      <4>2. Waits(k, t)
        BY <1>0, <4>1 DEF CallOK
      <4>3. t = s
        BY <3>2, <4>2 DEF Waits
      <4>4. ~Has(inbox'[s], Ring(k))
        BY <1>0, <2>1, <3>1, <3>2, DeliveredHas
      <4> QED BY <4>1, <4>3, <4>4
    <3>4. \A t \in Session : ~(Accepted(t, k))'
      BY <1>0, <2>1, <3>2, DeliveredHas DEF Accepted
    <3>5. \A t \in Session : incoming'[t] = k => t = s
      BY <1>0, <2>1, <2>3, <3>2
    <3>6. (Waits(k, s))'
      BY <1>1, <2>1, <3>2 DEF Waits
    <3>7. \A h \in Handler : ~(OfCall(h, k))'
      BY <1>1, <3>2 DEF OfCall
    <3>8. \A t \in Session : active'[t] # k
      BY <2>1, <3>2
    <3>9. /\ row[k] = "ringing" /\ key[k] # "active"
          /\ call[k].f \in friendships /\ call[k].pair \in Pairs
      BY <1>0, <3>2 DEF CallOK, Waits
    <3> QED BY <1>1, <3>3, <3>4, <3>5, <3>6, <3>7, <3>8, <3>9 DEF CallOK
  <2> QED BY <2>2, <2>3
<1> QED BY <1>2, <1>3, <1>4, <1>5, <1>6 DEF PageStep

LEMMA CallsFromEnvironment ==
  ASSUME IInv, CallInv, \/ \E p \in Pod : WorkerThrows(p)
                        \/ \E h \in Handler : HandlerThrows(h)
                        \/ \E m \in MatchId : EndMatch(m)
                        \/ \E k \in CallId : ExpireCall(k)
                        \/ UNCHANGED vars
  PROVE  CallInv'
<1> SUFFICES ASSUME NEW k \in CallId PROVE CallOK(k)'
  BY DEF CallInv
<1>0. HandlersOK /\ CallOK(k) /\ key \in [CallId -> KeyStatus] /\ faults \in Nat
  BY DEF IInv, CallsOK, CallInv, BoundsOK
<1>1. /\ UNCHANGED <<row, call, friendships, inbox, incoming, active>>
      /\ key'[k] \in {key[k], "none"}
  BY <1>0 DEF WorkerThrows, HandlerThrows, EndMatch, ExpireCall, vars, tables, page
<1>2. Hushed(k)
  BY <1>1, HushedSame
<1>3. ASSUME NEW h \in Handler, HandlerThrows(h) PROVE Keeps(k)
  <2>1. /\ faults' = faults + 1
        /\ Done(h) \/ (handler[h].op = "unfriend" /\ To(h, "reply"))
    BY <1>3 DEF HandlerThrows, Fault
  <2>2. /\ ~(OfCall(h, k))' /\ \A g \in Handler \ {h} : handler'[g] = handler[g]
    BY <1>0, <2>1, DoneFrees, HandlerGoes DEF OfCall
  <2> QED BY <1>0, <1>1, <1>2, <2>1, <2>2 DEF Keeps
<1>4. ASSUME handler' = handler PROVE Keeps(k)
  <2>1. faults' = 0 => faults = 0
    BY <1>0 DEF WorkerThrows, HandlerThrows, EndMatch, ExpireCall, Fault, vars
  <2> QED BY <1>1, <1>2, <1>4, <2>1 DEF Keeps
<1>5. Keeps(k)
  BY <1>3, <1>4 DEF WorkerThrows, EndMatch, ExpireCall, vars
<1> QED BY <1>0, <1>5, KeepsOK

LEMMA CallsInit == Init => FreeInv /\ CallInv
<1> SUFFICES ASSUME Init PROVE FreeInv /\ CallInv
  OBVIOUS
<1>1. FreeInv /\ \A h \in Handler, k \in CallId : ~OfCall(h, k)
  BY DEF Init, FreeInv, IdleHandler, OfCall
<1>2. \A s \in Session, k \in CallId : ~Told(s, k) /\ ~Accepted(s, k)
  BY DEF Init, Told, Accepted, Has
<1>3. /\ \A k \in CallId : row[k] = "none" /\ key[k] = "none"
      /\ \A s \in Session : incoming[s] = None /\ active[s] = None
      /\ None \notin CallId
  BY FriendsAssumption DEF Init
<1> QED BY <1>1, <1>2, <1>3 DEF CallInv, CallOK

LEMMA CallsNext == IInv /\ FreeInv /\ CallInv /\ [Next]_vars => CallInv'
BY CallsFromWorker, CallsFromClick, CallsFromHandler, CallsFromPage, CallsFromEnvironment
   DEF Next

LEMMA CallsSafety == Spec => [](IInv /\ CallInv)
<1>1. Init => IInv /\ FreeInv /\ CallInv
  BY InitIInv, CallsInit
<1>2. IInv /\ FreeInv /\ CallInv /\ [Next]_vars => (IInv /\ FreeInv /\ CallInv)'
  BY NextIInv, FreeStep, CallsNext
<1> QED BY <1>1, <1>2, PTL DEF Spec

(* What rings or runs is a call of two friends, and Redis and PostgreSQL   *)
(* agree on it, whatever answers, removals and time-outs race: see         *)
(* CallBacked.                                                             *)
THEOREM CallBackedAlways == Spec => []CallBacked
<1>1. IInv /\ CallInv => CallBacked
  BY DEF CallInv, CallOK, CallBacked, OfCall
<1> QED BY <1>1, CallsSafety, PTL

(* A page rings only for a call that waits for an answer, shows only a     *)
(* call that was not declined, and the caller's only one that was accepted:*)
(* see PagesAgree.                                                         *)
THEOREM PagesAgreeAlways == Spec => []PagesAgree
<1>1. IInv /\ CallInv => PagesAgree
  <2> SUFFICES ASSUME IInv, CallInv PROVE PagesAgree
    OBVIOUS
  <2>1. \A s \in Session : /\ incoming[s] # None => incoming[s] \in CallId
                           /\ active[s] # None => active[s] \in CallId
    BY DEF IInv, PagesOK
  <2>2. ASSUME NEW s \in Session, incoming[s] # None
        PROVE  row[incoming[s]] = "ringing" /\ call[incoming[s]].pair[2] = s
    <3>1. CallOK(incoming[s])
      BY <2>1, <2>2 DEF CallInv
    <3> QED BY <3>1 DEF CallOK, Waits
  <2>3. ASSUME NEW s \in Session, active[s] # None
        PROVE  \/ row[active[s]] = "active"
               \/ row[active[s]] = "ringing" /\ call[active[s]].pair[2] = s
    <3>1. CallOK(active[s])
      BY <2>1, <2>3 DEF CallInv
    <3> QED BY <3>1 DEF CallOK
  <2> QED BY <2>2, <2>3 DEF PagesAgree
<1> QED BY <1>1, CallsSafety, PTL

(***************************************************************************)
(* The lists of the pages.                                                 *)
(***************************************************************************)
Welcome(f) == Msg("friend:auto-connected", f)
Farewell(f) == Msg("friend:removed", f)

(* What every step but the one that makes a friendship does to the lists.  *)
ListKeeps ==
  /\ friendships' \subseteq friendships /\ pair' = pair
  /\ Held \subseteq Held'
  /\ \A f \in friendships', s \in Session :
       /\ f \in list[s] => f \in list'[s] \/ f \in Held'
       /\ Has(inbox[s], Welcome(f)) => Has(inbox'[s], Welcome(f)) \/ f \in list'[s]
       /\ s \in {pair[f][1], pair[f][2]} =>
            \A p \in Pod : Telling(p, f, s) =>
                             (Telling(p, f, s))' \/ Has(inbox'[s], Welcome(f))
  /\ \A f \in FriendshipId, s \in Session :
       Has(inbox'[s], Farewell(f)) =>
         Has(inbox[s], Farewell(f)) \/ (f \notin friendships' /\ pair[f] # <<>>)
  /\ \A h \in Handler :
       handler'[h].op = "unfriend" =>
         \/ handler'[h] = handler[h]
         \/ handler'[h].pc \notin {"tell", "reply"}
         \/ handler'[h].f \notin friendships'
         \/ handler'[h].pc = "reply" /\ handler'[h].f \in Held'

LEMMA ListKeepsOK ==
  ASSUME IInv, ListInv, faults = 0, ListKeeps
  PROVE  ListInv'
<1>0. /\ friendships \subseteq FriendshipId /\ friendships' \subseteq friendships
      /\ pair' = pair /\ \A h \in Handler : handler[h].op = "unfriend" =>
                                              handler[h].f \in FriendshipId
  BY DEF IInv, TablesOK, HandlersOK, Member, ListKeeps
<1>1. ASSUME NEW f \in friendships', NEW s \in Session, s \in {pair'[f][1], pair'[f][2]}
      PROVE  (Listed(f, s))'
  <2>1. Listed(f, s) /\ f \in friendships /\ f \in FriendshipId
    BY <1>0, <1>1 DEF ListInv
  <2>2. CASE f \in Held
    BY <2>2 DEF ListKeeps, Listed
  <2>3. CASE f \in list[s] \/ Has(inbox[s], Welcome(f))
    BY <2>3 DEF ListKeeps, Listed, Welcome
  <2>4. CASE \E p \in Pod : Telling(p, f, s)
    BY <1>0, <1>1, <2>4 DEF ListKeeps, Listed, Welcome
  <2> QED BY <2>1, <2>2, <2>3, <2>4 DEF Listed, Welcome
<1>2. ASSUME NEW s \in Session, NEW f \in FriendshipId, Has(inbox'[s], Farewell(f))
      PROVE  f \notin friendships' /\ pair'[f] # <<>>
  <2>1. CASE Has(inbox[s], Farewell(f))
    BY <1>0, <2>1 DEF ListInv, Farewell
  <2>2. CASE f \notin friendships' /\ pair[f] # <<>>
    BY <1>0, <2>2
  <2> QED BY <1>2, <2>1, <2>2 DEF ListKeeps
<1>3. ASSUME NEW h \in Handler, handler'[h].op = "unfriend"
      PROVE  /\ handler'[h].pc = "tell" => handler'[h].f \notin friendships'
             /\ handler'[h].pc = "reply" => \/ handler'[h].f \notin friendships'
                                            \/ handler'[h].f \in Held'
  <2>1. CASE handler'[h] = handler[h]
    <3>1. handler[h].f \in FriendshipId /\ handler[h].op = "unfriend"
      BY <1>0, <1>3, <2>1
    <3>4. /\ handler[h].pc = "tell" => handler[h].f \notin friendships
          /\ handler[h].pc = "reply" => \/ handler[h].f \notin friendships
                                        \/ handler[h].f \in Held
      BY <3>1 DEF ListInv
    <3> QED BY <1>0, <2>1, <3>4 DEF ListKeeps
  <2>2. CASE \/ handler'[h].pc \notin {"tell", "reply"}
             \/ handler'[h].f \notin friendships'
             \/ handler'[h].pc = "reply" /\ handler'[h].f \in Held'
    BY <2>2
  <2> QED BY <1>3, <2>1, <2>2 DEF ListKeeps
<1> QED BY <1>1, <1>2, <1>3 DEF ListInv, Farewell

(* The inbox, when it is not written to, or a call is what is said.        *)
Unsaid ==
  \A s \in Session, f \in FriendshipId :
    /\ Has(inbox'[s], Welcome(f)) <=> Has(inbox[s], Welcome(f))
    /\ Has(inbox'[s], Farewell(f)) <=> Has(inbox[s], Farewell(f))

LEMMA UnsaidCases ==
  ASSUME InboxOK,
         \/ inbox' = inbox
         \/ \E k \in CallId, type \in {"friend:incoming-call", "friend:call-connected",
                                       "friend:call-declined"} :
              \E s : Publish(s, Msg(type, k))
  PROVE  Unsaid
<1>1. CASE inbox' = inbox
  BY <1>1 DEF Unsaid
<1>2. ASSUME NEW s, NEW k \in CallId,
             NEW type \in {"friend:incoming-call", "friend:call-connected",
                           "friend:call-declined"}, Publish(s, Msg(type, k))
      PROVE  Unsaid
  <2>1. /\ Msg(type, k) \in Message
        /\ \A f : Msg(type, k) # Welcome(f) /\ Msg(type, k) # Farewell(f)
    BY <1>2, MsgType DEF Msg, Welcome, Farewell
  <2> QED BY <1>2, <2>1, PublishHas DEF Unsaid
<1> QED BY <1>1, <1>2

(* A reference to a friendship stays.                                      *)
LEMMA HeldStays ==
  ASSUME dms \subseteq dms',
         \A k \in CallId : row[k] # "none" => row'[k] # "none" /\ call'[k].f = call[k].f
  PROVE  Held \subseteq Held'
BY DEF Held, Referenced

LEMMA ListsFromWorker ==
  ASSUME IInv, ListInv, faults = 0, NEW p \in Pod, WorkerStep(p)
  PROVE  ListInv'
<1>0. /\ InboxOK /\ TablesOK /\ WorkersOK /\ HandlersOK
      /\ worker[p] \in Workers /\ worker \in [Pod -> Workers]
  BY DEF IInv, WorkersOK
<1>1. /\ UNCHANGED <<call, handler, list, faults>> /\ dms' = dms /\ row' = row
  BY DEF WorkerStep, page, Scan, ReadMatch, FindFriendship, InsertFriendship, TellA, TellB,
         tables
<1>2. Held \subseteq Held'
  BY <1>1, HeldStays
<1>3. \A q \in Pod \ {p} : worker'[q] = worker[q]
  BY <1>0 DEF WorkerStep, Scan, ReadMatch, FindFriendship, InsertFriendship, TellA, TellB,
              NextKey, WorkerTo, EndRound
<1>u. ASSUME worker[p].pc \notin {"tellA", "tellB"}, inbox' = inbox,
             UNCHANGED <<friendships, pair>>
      PROVE  ListInv'
  <2>1. \A q \in Pod : \A f, s : Telling(q, f, s) => (Telling(q, f, s))'
    BY <1>3, <1>u DEF Telling
  <2>2. ListKeeps
    BY <1>1, <1>2, <1>u, <2>1 DEF ListKeeps
  <2> QED BY <2>2, ListKeepsOK
<1>4. CASE Scan(p) \/ ReadMatch(p) \/ FindFriendship(p)
  BY <1>4, <1>u DEF Scan, ReadMatch, FindFriendship, tables
<1>5. CASE InsertFriendship(p)
  <2> DEFINE ab  == MatchPair[worker[p].m]
             new == {f \in FriendshipId : pair[f] = <<>>}
             g   == CHOOSE e \in new : TRUE
  <2>1. CASE ~Unique(ab)
    BY <1>5, <1>u, <2>1 DEF InsertFriendship
  <2>2. CASE Unique(ab)
    <3>1. /\ new # {} /\ friendships' = friendships \cup {g}
          /\ pair' = [pair EXCEPT ![g] = ab]
          /\ worker' = [worker EXCEPT ![p].pc = "tellA", ![p].f = g]
          /\ worker[p].pc = "insert" /\ inbox' = inbox
      BY <1>5, <2>2 DEF InsertFriendship
    <3>2. g \in FriendshipId /\ pair[g] = <<>>
      BY <3>1
    <3> HIDE DEF g
    <3>3. /\ worker'[p].pc = "tellA" /\ worker'[p].f = g
      BY <1>0, <3>1 DEF Workers
    <3>4. /\ g \notin friendships
          /\ \A f \in FriendshipId \ {g} : pair'[f] = pair[f]
          /\ pair' \in [FriendshipId -> Pairs \cup {<<>>}]
      <4>1. ab \in Pairs
        <5>1. worker[p].m \in MatchId
          BY <1>0, <3>1 DEF Workers, WorkersOK
        <5> QED BY <5>1, MatchPairs
      <4> QED BY <1>0, <3>1, <3>2, <4>1 DEF TablesOK
    <3>5. ASSUME NEW f \in friendships', NEW s \in Session, s \in {pair'[f][1], pair'[f][2]}
          PROVE  (Listed(f, s))'
      <4>1. CASE f = g
        BY <3>3, <4>1 DEF Listed, Telling
      <4>2. CASE f # g
        <5>1. f \in friendships /\ f \in FriendshipId /\ pair'[f] = pair[f]
          BY <1>0, <3>1, <3>4, <4>2 DEF TablesOK
        <5>2. Listed(f, s)
          BY <3>5, <5>1 DEF ListInv
        <5>3. \A q \in Pod : Telling(q, f, s) => (Telling(q, f, s))'
          BY <1>3, <3>1, <5>1 DEF Telling
        <5> QED BY <1>1, <1>2, <3>1, <5>2, <5>3 DEF Listed
      <4> QED BY <4>1, <4>2
    <3>6. ASSUME NEW s \in Session, NEW f \in FriendshipId, Has(inbox'[s], Farewell(f))
          PROVE  f \notin friendships' /\ pair'[f] # <<>>
      <4>1. f \notin friendships /\ pair[f] # <<>>
        BY <3>1, <3>6 DEF ListInv, Farewell
      <4> QED BY <3>1, <3>2, <3>4, <4>1
    <3>7. ASSUME NEW h \in Handler, handler'[h].op = "unfriend"
          PROVE  /\ handler'[h].pc = "tell" => handler'[h].f \notin friendships'
                 /\ handler'[h].pc = "reply" => \/ handler'[h].f \notin friendships'
                                                \/ handler'[h].f \in Held'
      <4>1. handler'[h] = handler[h]
        BY <1>1
      <4>2. handler[h].f \in FriendshipId /\ pair[handler[h].f] # <<>>
        BY <1>0, <3>7, <4>1, PairFacts DEF HandlersOK, Member
      <4>3. handler[h].f # g
        BY <3>2, <4>2
      <4>4. /\ handler[h].pc = "tell" => handler[h].f \notin friendships
            /\ handler[h].pc = "reply" => \/ handler[h].f \notin friendships
                                          \/ handler[h].f \in Held
        BY <3>7, <4>1 DEF ListInv
      <4> QED BY <1>2, <3>1, <4>1, <4>3, <4>4
    <3> QED BY <3>5, <3>6, <3>7 DEF ListInv, Farewell
  <2> QED BY <2>1, <2>2
<1>6. CASE TellA(p) \/ TellB(p)
  <2> DEFINE e  == worker[p].f
             ab == MatchPair[worker[p].m]
  <2>1. /\ worker[p].pc \in {"tellA", "tellB"} /\ UNCHANGED <<friendships, pair>>
        /\ e \in FriendshipId /\ pair[e] = ab
    BY <1>0, <1>6 DEF TellA, TellB, tables, WorkersOK, Workers
  <2>2. ab \in Pairs
    <3>1. worker[p].m \in MatchId
      BY <1>0, <2>1 DEF Workers, WorkersOK
    <3> QED BY <3>1, MatchPairs
  <2>3. Welcome(e) \in Message
    BY <2>1, MsgType DEF Welcome
  <2>4. PICK b \in {ab[1], ab[2]} : Publish(b, Welcome(e))
    BY <1>6 DEF TellA, TellB, Welcome
  <2>5. \A s \in Session : \A f :
          /\ Has(inbox[s], Welcome(f)) => Has(inbox'[s], Welcome(f))
          /\ Has(inbox'[s], Farewell(f)) => Has(inbox[s], Farewell(f))
    BY <1>0, <2>3, <2>4, PublishHas, MsgApart DEF Welcome, Farewell
  <2>6. ASSUME NEW f \in friendships', NEW s \in Session, s \in {pair[f][1], pair[f][2]},
               NEW q \in Pod, Telling(q, f, s)
        PROVE  (Telling(q, f, s))' \/ Has(inbox'[s], Welcome(f))
    <3>1. CASE q # p
      BY <1>3, <2>1, <2>6, <3>1 DEF Telling
    <3>2. CASE q = p /\ TellA(p)
      <4>1. f = e /\ Publish(ab[1], Welcome(e))
        BY <2>6, <3>2 DEF Telling, TellA, Welcome
      <4>2. worker'[p].pc = "tellB" /\ worker'[p].f = e
        BY <1>0, <3>2 DEF TellA, WorkerTo, Workers
      <4>3. s = ab[1] => Has(inbox'[s], Welcome(f))
        BY <1>0, <2>3, <4>1, PublishHas
      <4>4. s # ab[1] => (Telling(q, f, s))'
        BY <2>1, <3>2, <4>1, <4>2 DEF Telling
      <4> QED BY <4>3, <4>4
    <3>3. CASE q = p /\ TellB(p)
      <4>1. f = e /\ Publish(ab[2], Welcome(e)) /\ worker[p].pc = "tellB"
        BY <2>6, <3>3 DEF Telling, TellB, Welcome
      <4>2. s = ab[2]
        BY <2>1, <2>6, <3>3, <4>1 DEF Telling
      <4> QED BY <1>0, <2>3, <4>1, <4>2, PublishHas
    <3> QED BY <1>6, <3>1, <3>2, <3>3
  <2>7. ListKeeps
    BY <1>1, <1>2, <2>1, <2>5, <2>6 DEF ListKeeps
  <2> QED BY <2>7, ListKeepsOK
<1> QED BY <1>4, <1>5, <1>6 DEF WorkerStep

(* A step that leaves the friendships, the lists and the workers alone.    *)
LEMMA ListsLeft ==
  ASSUME IInv, ListInv, faults = 0, Unsaid, Held \subseteq Held', friendships' = friendships,
         UNCHANGED <<pair, list, worker>>,
         \A h \in Handler : handler'[h].op = "unfriend" =>
           \/ handler'[h] = handler[h]
           \/ handler'[h].pc \notin {"tell", "reply"}
  PROVE  ListInv'
<1>1. friendships \subseteq FriendshipId
  BY DEF IInv, TablesOK
<1>2. \A p \in Pod : \A f, s : Telling(p, f, s) => (Telling(p, f, s))'
  BY DEF Telling
<1>3. ListKeeps
  BY <1>1, <1>2 DEF ListKeeps, Unsaid
<1> QED BY <1>3, ListKeepsOK

LEMMA ListsFromClick ==
  ASSUME IInv, CallInv, ListInv, faults = 0, NEW h \in Handler, NEW s \in Session, Click(h, s)
  PROVE  ListInv'
<1>0. HandlersOK /\ InboxOK
      /\ call \in [CallId -> [f : FriendshipId \cup {None}, pair : Pairs \cup {<<>>}]]
  BY DEF IInv, CallsOK
<1>1. PICK pc \in {"find", "read"} : \E op, f, k : Ask(h, Request(op, pc, s, f, k))
  BY DEF Click, CallFriend, AcceptCall, DeclineCall, SendDm, Unfriend
<1>2. /\ UNCHANGED <<friendships, pair, dms, row, inbox, worker>>
      /\ handler'[h].pc = pc /\ \A g \in Handler \ {h} : handler'[g] = handler[g]
  BY <1>0, <1>1, AskSets DEF Request
<1>3. list' = list
  BY DEF Click, CallFriend, AcceptCall, DeclineCall, SendDm, Unfriend, page
<1>4. \A k \in CallId : row[k] # "none" => call'[k] = call[k]
  <2>1. CASE call' = call
    BY <2>1
  <2>2. ASSUME NEW c \in CallId, call[c] = NoCall, NEW f, call' = [call EXCEPT ![c].f = f]
        PROVE  \A k \in CallId : row[k] # "none" => call'[k] = call[k]
    <3>1. row[c] = "none"
      BY <2>2, FreshCall DEF CallInv
    <3> QED BY <1>0, <2>2, <3>1
  <2> QED BY <2>1, <2>2 DEF Click, CallFriend, AcceptCall, DeclineCall, SendDm, Unfriend
<1>5. Held \subseteq Held'
  BY <1>2, <1>4, HeldStays
<1>6. Unsaid
  BY <1>0, <1>2, UnsaidCases
<1> QED BY <1>2, <1>3, <1>5, <1>6, ListsLeft

LEMMA ListsFromCall ==
  ASSUME IInv, ListInv, faults = 0, NEW h \in Handler, HandlerStep(h),
         \/ CallFind(h) \/ CallRefused(h) \/ CallInsert(h) \/ CallStore(h) \/ CallRing(h)
         \/ AcceptRead(h) \/ AcceptRow(h) \/ AcceptStore(h) \/ AcceptTell(h)
         \/ DeclineRead(h) \/ DeclineTell(h) \/ DeclineRow(h) \/ DeclineDelete(h)
  PROVE  ListInv'
<1> DEFINE r == handler[h]
<1>0. /\ HandlersOK /\ InboxOK /\ row \in [CallId -> RowStatus]
      /\ call \in [CallId -> [f : FriendshipId \cup {None}, pair : Pairs \cup {<<>>}]]
  BY DEF IInv, TablesOK, CallsOK
<1>1. /\ r.op \in {"call", "accept", "decline"} /\ r.k \in CallId
      /\ UNCHANGED <<friendships, pair, dms, list, worker>>
  BY <1>0 DEF HandlerStep, HandlersOK, CallFind, CallRefused, CallInsert, CallStore,
       CallRing, AcceptRead, AcceptRow, AcceptStore, AcceptTell, DeclineRead, DeclineTell,
       DeclineRow, DeclineDelete, At, tables
<1>2. Done(h) \/ \E pc : To(h, pc)
  BY DEF CallFind, CallRefused, CallInsert, CallStore, CallRing, AcceptRead, AcceptRow,
         AcceptStore, AcceptTell, DeclineRead, DeclineTell, DeclineRow, DeclineDelete
<1>3. /\ handler'[h].op # "unfriend" /\ \A g \in Handler \ {h} : handler'[g] = handler[g]
  BY SMTT(30), <1>0, <1>1, <1>2, HandlerGoes DEF IdleHandler
<1>4. \/ inbox' = inbox
      \/ \E k \in CallId, type \in {"friend:incoming-call", "friend:call-connected",
                                    "friend:call-declined"} :
           \E s : Publish(s, Msg(type, k))
  BY <1>1 DEF CallFind, CallRefused, CallInsert, CallStore, CallRing, AcceptRead, AcceptRow,
         AcceptStore, AcceptTell, DeclineRead, DeclineTell, DeclineRow, DeclineDelete
<1>5. /\ \/ row' = row
         \/ \E status \in {"ringing", "active", "declined"} :
              row' = [row EXCEPT ![r.k] = status]
      /\ call' = call \/ \E ab : call' = [call EXCEPT ![r.k].pair = ab]
  BY DEF CallFind, CallRefused, CallInsert, CallStore, CallRing, AcceptRead, AcceptRow,
         AcceptStore, AcceptTell, DeclineRead, DeclineTell, DeclineRow, DeclineDelete, tables
<1>6. \A k \in CallId : row[k] # "none" => row'[k] # "none"
  <2>1. ASSUME NEW status \in {"ringing", "active", "declined"},
               row' = [row EXCEPT ![r.k] = status], NEW k \in CallId
        PROVE  row'[k] \in {row[k], status}
    BY <1>0, <2>1
  <2> QED BY <1>5, <2>1
<1>7. \A k \in CallId : call'[k].f = call[k].f
  <2>1. ASSUME NEW ab, call' = [call EXCEPT ![r.k].pair = ab], NEW k \in CallId
        PROVE  call'[k].f = call[k].f
    BY <1>0, <2>1
  <2> QED BY <1>5, <2>1
<1>8. Held \subseteq Held'
  BY <1>1, <1>6, <1>7, HeldStays
<1>9. Unsaid
  BY <1>0, <1>4, UnsaidCases
<1> QED BY <1>1, <1>3, <1>8, <1>9, ListsLeft

LEMMA ListsFromDm ==
  ASSUME IInv, ListInv, faults = 0, NEW h \in Handler, HandlerStep(h),
         DmFind(h) \/ DmInsert(h) \/ UnfriendFind(h)
  PROVE  ListInv'
<1>0. HandlersOK /\ InboxOK
  BY DEF IInv
<1>1. /\ UNCHANGED <<friendships, pair, row, call, inbox, list, worker>>
      /\ dms \subseteq dms'
  BY DEF HandlerStep, DmFind, DmInsert, UnfriendFind, tables
<1>2. Unsaid /\ Held \subseteq Held'
  BY <1>0, <1>1, UnsaidCases, HeldStays
<1>3. CASE DmFind(h) \/ DmInsert(h)
  <2>1. /\ handler'[h].op # "unfriend" /\ \A g \in Handler \ {h} : handler'[g] = handler[g]
    BY <1>0, <1>3, HandlerGoes DEF DmFind, DmInsert, At, IdleHandler
  <2> QED BY <1>1, <1>2, <2>1, ListsLeft
<1>4. CASE UnfriendFind(h) /\ Exists(handler[h].f)
  <2>1. handler'[h].pc = "delete" /\ \A g \in Handler \ {h} : handler'[g] = handler[g]
    BY <1>0, <1>4, HandlerGoes DEF UnfriendFind
  <2> QED BY <1>1, <1>2, <2>1, ListsLeft
<1>5. CASE UnfriendFind(h) /\ ~Exists(handler[h].f)
  <2>1. /\ handler'[h].f \notin friendships'
        /\ \A g \in Handler \ {h} : handler'[g] = handler[g]
    BY <1>0, <1>1, <1>5, HandlerGoes DEF UnfriendFind, Exists
  <2>2. \A p \in Pod : \A f, s : Telling(p, f, s) => (Telling(p, f, s))'
    BY <1>1 DEF Telling
  <2>3. ListKeeps
    BY <1>1, <1>2, <2>1, <2>2 DEF ListKeeps, Unsaid, IInv, TablesOK
  <2> QED BY <2>3, ListKeepsOK
<1> QED BY <1>3, <1>4, <1>5

LEMMA ListsFromUnfriend ==
  ASSUME IInv, ListInv, faults = 0, NEW h \in Handler, HandlerStep(h),
         UnfriendDelete(h) \/ UnfriendTell(h) \/ UnfriendReply(h)
  PROVE  ListInv'
<1> DEFINE r == handler[h]
<1>0. /\ HandlersOK /\ InboxOK /\ friendships \subseteq FriendshipId
      /\ list \in [Session -> SUBSET FriendshipId]
  BY DEF IInv, TablesOK, PagesOK
<1>1. /\ r.op = "unfriend" /\ r.s \in Session /\ r.f \in FriendshipId
      /\ pair[r.f] \in Pairs /\ UNCHANGED <<pair, dms, row, call, worker>>
  BY <1>0 DEF HandlerStep, HandlersOK, Member, UnfriendDelete, UnfriendTell, UnfriendReply,
              At, tables
<1>2. Held \subseteq Held'
  BY <1>1, HeldStays
<1>3. \A p \in Pod : \A f, s : Telling(p, f, s) => (Telling(p, f, s))'
  BY <1>1 DEF Telling
<1>4. \A g \in Handler \ {h} : handler'[g] = handler[g]
  BY <1>0, HandlerGoes DEF UnfriendDelete, UnfriendTell, UnfriendReply
<1>5. CASE UnfriendDelete(h)
  <2>1. inbox' = inbox /\ list' = list
    BY <1>5 DEF UnfriendDelete
  <2>2. Unsaid
    BY <1>0, <2>1, UnsaidCases
  <2>3. CASE Referenced(r.f)
    <3>1. friendships' = friendships /\ To(h, "reply")
      BY <1>5, <2>3 DEF UnfriendDelete
    <3>2. handler'[h].pc = "reply" /\ handler'[h].f = r.f
      BY <1>0, <3>1, HandlerGoes
    <3>3. handler'[h].f \in Held'
      BY <1>1, <1>2, <2>3, <3>2 DEF Held
    <3>4. ListKeeps
      BY <1>0, <1>1, <1>2, <1>3, <1>4, <2>1, <2>2, <3>1, <3>2, <3>3 DEF ListKeeps, Unsaid
    <3> QED BY <3>4, ListKeepsOK
  <2>4. CASE ~Referenced(r.f)
    <3>1. friendships' = friendships \ {r.f} /\ To(h, "tell")
      BY <1>5, <2>4 DEF UnfriendDelete
    <3>2. handler'[h].f \notin friendships'
      BY <1>0, <3>1, HandlerGoes
    <3>3. ListKeeps
      BY <1>0, <1>1, <1>2, <1>3, <1>4, <2>1, <2>2, <3>1, <3>2 DEF ListKeeps, Unsaid
    <3> QED BY <3>3, ListKeepsOK
  <2> QED BY <2>3, <2>4
<1>6. CASE UnfriendTell(h)
  <2>1. /\ friendships' = friendships /\ list' = list /\ To(h, "reply")
        /\ r.pc = "tell" /\ \E s : Publish(s, Farewell(r.f))
    BY <1>6 DEF UnfriendTell, At, tables, Farewell
  <2>2. r.f \notin friendships /\ pair[r.f] # <<>>
    BY <1>1, <2>1, PairFacts DEF ListInv
  <2>3. handler'[h].f \notin friendships'
    BY <1>0, <2>1, <2>2, HandlerGoes
  <2>4. Farewell(r.f) \in Message
    BY <1>1, MsgType DEF Farewell
  <2>5. ASSUME NEW s \in Session, NEW f \in FriendshipId
        PROVE  /\ Has(inbox[s], Welcome(f)) => Has(inbox'[s], Welcome(f))
               /\ Has(inbox'[s], Farewell(f)) => Has(inbox[s], Farewell(f)) \/ f = r.f
    BY <1>0, <2>1, <2>4, PublishHas, MsgApart DEF Welcome, Farewell
  <2>6. ListKeeps
    BY <1>0, <1>1, <1>2, <1>3, <1>4, <2>1, <2>2, <2>3, <2>5 DEF ListKeeps
  <2> QED BY <2>6, ListKeepsOK
<1>7. CASE UnfriendReply(h)
  <2>1. /\ friendships' = friendships /\ inbox' = inbox /\ Done(h) /\ r.pc = "reply"
        /\ list' = [list EXCEPT ![r.s] = @ \ {r.f}]
    BY <1>7 DEF UnfriendReply, At, tables
  <2>2. Unsaid
    BY <1>0, <2>1, UnsaidCases
  <2>3. r.f \notin friendships \/ r.f \in Held
    BY <1>1, <2>1 DEF ListInv
  <2>4. \A s \in Session : \A f : f \in list[s] => f \in list'[s] \/ f = r.f
    BY <1>0, <1>1, <2>1
  <2>5. handler'[h].op # "unfriend"
    BY <1>0, <2>1, HandlerGoes DEF IdleHandler
  <2>6. ListKeeps
    BY <1>0, <1>1, <1>2, <1>3, <1>4, <2>1, <2>2, <2>3, <2>4, <2>5 DEF ListKeeps, Unsaid
  <2> QED BY <2>6, ListKeepsOK
<1> QED BY <1>5, <1>6, <1>7

LEMMA ListsFromHandler ==
  ASSUME IInv, ListInv, faults = 0, NEW h \in Handler, HandlerStep(h)
  PROVE  ListInv'
BY ListsFromCall, ListsFromDm, ListsFromUnfriend DEF HandlerStep

LEMMA ListsFromPage ==
  ASSUME IInv, ListInv, faults = 0, NEW s \in Session, PageStep(s)
  PROVE  ListInv'
<1> DEFINE e == Head(inbox[s]).id
<1>0. /\ InboxOK /\ friendships \subseteq FriendshipId
      /\ list \in [Session -> SUBSET FriendshipId]
  BY DEF IInv, TablesOK, PagesOK
<1>1. UNCHANGED <<friendships, pair, dms, row, call, worker, handler>>
  BY DEF PageStep, tables
<1>2. Held \subseteq Held'
  BY <1>1, HeldStays
<1>3. \A p \in Pod : \A f, t : Telling(p, f, t) => (Telling(p, f, t))'
  BY <1>1 DEF Telling
<1>4. CASE HangUp(s)
  <2>1. Unsaid /\ list' = list
    BY <1>0, <1>4, UnsaidCases DEF HangUp
  <2> QED BY <1>1, <1>2, <2>1, ListsLeft
<1>5. ASSUME NEW type, Delivered(s, type), NEW t \in Session, NEW f
      PROVE  /\ Has(inbox'[t], Farewell(f)) => Has(inbox[t], Farewell(f))
             /\ Has(inbox[t], Welcome(f)) =>
                  \/ Has(inbox'[t], Welcome(f))
                  \/ t = s /\ type = "friend:auto-connected" /\ f = e
  <2>1. /\ Has(inbox'[t], Farewell(f)) => Has(inbox[t], Farewell(f))
        /\ Has(inbox[t], Welcome(f)) =>
             Has(inbox'[t], Welcome(f)) \/ (t = s /\ Welcome(f) = Head(inbox[s]))
    BY <1>0, <1>5, DeliveredHas
  <2>2. Welcome(f) = Head(inbox[s]) => type = "friend:auto-connected" /\ f = e
    BY <1>5 DEF Welcome, Msg, Delivered
  <2> QED BY <2>1, <2>2
<1>6. CASE IncomingCall(s) \/ CallConnected(s) \/ CallDeclined(s)
  <2>1. PICK type \in {"friend:incoming-call", "friend:call-connected",
                       "friend:call-declined"} : Delivered(s, type)
    BY <1>6 DEF IncomingCall, CallConnected, CallDeclined
  <2>2. list' = list
    BY <1>6 DEF IncomingCall, CallConnected, CallDeclined
  <2>3. ListKeeps
    BY <1>0, <1>1, <1>2, <1>3, <1>5, <2>1, <2>2 DEF ListKeeps
  <2> QED BY <2>3, ListKeepsOK
<1>7. CASE AutoConnected(s)
  <2>1. /\ Delivered(s, "friend:auto-connected")
        /\ list' = [list EXCEPT ![s] = @ \cup {e}]
    BY <1>7 DEF AutoConnected
  <2>2. /\ \A t \in Session : list[t] \subseteq list'[t]
        /\ e \in list'[s]
    BY <1>0, <2>1
  <2>3. ListKeeps
    BY <1>0, <1>1, <1>2, <1>3, <1>5, <2>1, <2>2 DEF ListKeeps
  <2> QED BY <2>3, ListKeepsOK
<1>8. CASE Removed(s)
  <2>1. /\ Delivered(s, "friend:removed")
        /\ list' = [list EXCEPT ![s] = @ \ {e}]
    BY <1>8 DEF Removed
  <2>2. e \notin friendships
    <3>1. Has(inbox[s], Farewell(e))
      BY <1>0, <2>1, DeliveredHas DEF Farewell
    <3> QED BY <1>0, <3>1 DEF ListInv, Farewell
  <2>3. \A t \in Session : \A f : f \in list[t] => f \in list'[t] \/ f = e
    BY <1>0, <2>1
  <2>4. ListKeeps
    BY <1>0, <1>1, <1>2, <1>3, <1>5, <2>1, <2>2, <2>3 DEF ListKeeps
  <2> QED BY <2>4, ListKeepsOK
<1> QED BY <1>4, <1>6, <1>7, <1>8 DEF PageStep

(* What fails, ends or runs out: after a failure nothing more is promised. *)
LEMMA ListsFromEnvironment ==
  ASSUME IInv, ListInv, \/ \E p \in Pod : WorkerThrows(p)
                        \/ \E h \in Handler : HandlerThrows(h)
                        \/ \E m \in MatchId : EndMatch(m)
                        \/ \E k \in CallId : ExpireCall(k)
                        \/ UNCHANGED vars
  PROVE  ListInv'
<1>0. InboxOK /\ faults \in Nat
  BY DEF IInv, BoundsOK
<1>1. CASE faults' # 0
  BY <1>1 DEF ListInv
<1>2. CASE faults' = 0
  <2>1. ~Fault
    BY <1>0, <1>2 DEF Fault
  <2>2. /\ UNCHANGED <<friendships, pair, dms, row, call, worker, handler, inbox, list>>
        /\ faults = 0
    BY <1>2, <2>1 DEF WorkerThrows, HandlerThrows, EndMatch, ExpireCall, vars, tables, page
  <2>3. Unsaid /\ Held \subseteq Held'
    BY <1>0, <2>2, UnsaidCases, HeldStays
  <2> QED BY <2>2, <2>3, ListsLeft
<1> QED BY <1>1, <1>2

LEMMA ListsInit == Init => ListInv
<1> SUFFICES ASSUME Init PROVE ListInv
  OBVIOUS
<1>1. PICK fs \in {{}, {CHOOSE f \in FriendshipId : TRUE}}, ab \in Pairs :
        /\ friendships = fs
        /\ pair = [f \in FriendshipId |-> IF f \in fs THEN ab ELSE <<>>]
        /\ list = [s \in Session |-> IF s \in {ab[1], ab[2]} THEN fs ELSE {}]
  BY DEF Init
<1>2. ASSUME NEW f \in friendships, NEW s \in Session, s \in {pair[f][1], pair[f][2]}
      PROVE  Listed(f, s)
  <2>1. friendships \subseteq FriendshipId
    BY InitIInv DEF IInv, TablesOK
  <2>2. pair[f] = ab /\ f \in fs
    BY <1>1, <2>1
  <2> QED BY <1>1, <1>2, <2>2 DEF Listed
<1>3. \A s \in Session : \A msg : ~Has(inbox[s], msg)
  BY DEF Init, Has
<1>4. \A h \in Handler : handler[h].op = "none"
  BY DEF Init, IdleHandler
<1> QED BY <1>2, <1>3, <1>4 DEF ListInv

LEMMA ListsNext == IInv /\ CallInv /\ ListInv /\ [Next]_vars => ListInv'
<1> SUFFICES ASSUME IInv, CallInv, ListInv, [Next]_vars PROVE ListInv'
  OBVIOUS
<1>1. CASE faults = 0
  BY <1>1, ListsFromWorker, ListsFromClick, ListsFromHandler, ListsFromPage,
     ListsFromEnvironment DEF Next
<1>2. CASE faults # 0
  <2>1. faults \in Nat
    BY DEF IInv, BoundsOK
  <2>2. faults' = faults \/ faults' = faults + 1
    BY DEF Next, vars, WorkerStep, WorkerThrows, Click, CallFriend, AcceptCall, DeclineCall,
           SendDm, Unfriend, Ask, HandlerStep, HandlerThrows, Fault, PageStep, EndMatch,
           ExpireCall
  <2>3. faults' # 0
    BY <1>2, <2>1, <2>2
  <2> QED BY <2>3 DEF ListInv
<1> QED BY <1>1, <1>2

(* Two sessions that are friends see each other on their lists, or are     *)
(* about to be told, while nothing fails: see FriendsListed.               *)
THEOREM FriendsListedAlways == Spec => []FriendsListed
<1>1. Init => IInv /\ FreeInv /\ CallInv /\ ListInv
  BY InitIInv, CallsInit, ListsInit
<1>2. IInv /\ FreeInv /\ CallInv /\ ListInv /\ [Next]_vars
        => (IInv /\ FreeInv /\ CallInv /\ ListInv)'
  BY NextIInv, FreeStep, CallsNext, ListsNext
<1>3. IInv /\ ListInv => FriendsListed
  <2> SUFFICES ASSUME IInv, ListInv, faults = 0, NEW f \in friendships,
                      NEW s \in {pair[f][1], pair[f][2]}
               PROVE  \/ Referenced(f) \/ f \in list[s]
                      \/ \E i \in DOMAIN inbox[s] : inbox[s][i] = Welcome(f)
                      \/ \E p \in Pod :
                           /\ worker[p].f = f
                           /\ worker[p].pc \in {"tellA", "tellB"}
                           /\ pair[f][1] = s => worker[p].pc = "tellA"
    BY DEF FriendsListed, Welcome
  <2>1. f \in FriendshipId /\ pair[f] \in Pairs
    BY DEF IInv, TablesOK
  <2>2. s \in Session
    BY <2>1, PairFacts
  <2>3. Listed(f, s)
    BY <2>2 DEF ListInv
  <2> QED BY <2>3 DEF Listed, Held, Has, Telling, Welcome
<1> QED BY <1>1, <1>2, <1>3, PTL DEF Spec

(***************************************************************************)
(* Friends implements FriendCall.                                          *)
(***************************************************************************)
LEMMA CallStart == Init => Calls!CallInit
BY DEF Init, Calls!CallInit, Parties

(* A step that leaves the rows, the parties and the pages alone.           *)
LEMMA CallStutter ==
  ASSUME UNCHANGED <<row, incoming, active>>,
         \A k \in CallId : row[k] # "none" => call'[k].pair = call[k].pair
  PROVE  UNCHANGED Calls!cvars
<1>1. Parties' = Parties
  BY DEF Parties
<1> QED BY <1>1 DEF Calls!cvars

LEMMA PartiesStay ==
  ASSUME row' = row, call' = call
  PROVE  Parties' = Parties
BY DEF Parties

LEMMA CallShown ==
  ASSUME IInv, CallInv, NEW k \in CallId, row[k] # "none"
  PROVE  /\ Parties[k] = call[k].pair /\ Parties[k] \in Pairs
         /\ Parties[k][1] \in Session /\ Parties[k][2] \in Session
BY PairFacts DEF CallInv, CallOK, Parties

(* The clicks of a page.                                                   *)
LEMMA CallByClick ==
  ASSUME IInv, CallInv, NEW h \in Handler, NEW s \in Session, Click(h, s)
  PROVE  [Calls!CallNext]_(Calls!cvars)
<1>0. /\ call \in [CallId -> [f : FriendshipId \cup {None}, pair : Pairs \cup {<<>>}]]
      /\ incoming \in [Session -> CallId \cup {None}]
      /\ active \in [Session -> CallId \cup {None}]
  BY DEF IInv, CallsOK, PagesOK
<1>1. row' = row
  BY DEF Click, CallFriend, AcceptCall, DeclineCall, SendDm, Unfriend, Ask, tables
<1>2. CASE CallFriend(h, s)
  <2>1. UNCHANGED <<incoming, active>>
    BY <1>2 DEF CallFriend, page
  <2>2. \A k \in CallId : call'[k].pair = call[k].pair
    BY <1>0, <1>2 DEF CallFriend
  <2> QED BY <1>1, <2>1, <2>2, CallStutter
<1>3. CASE AcceptCall(h, s) \/ DeclineCall(h, s)
  <2> DEFINE k == incoming[s]
  <2>1. k \in CallId /\ k # None /\ call' = call
    BY <1>0, <1>3 DEF AcceptCall, DeclineCall
  <2>2. row[k] = "ringing" /\ call[k].pair[2] = s
    BY <2>1 DEF CallInv, CallOK, Waits
  <2>3. Parties' = Parties /\ Parties[k][2] = s
    BY <1>1, <2>1, <2>2, PartiesStay, CallShown
  <2>4. CASE AcceptCall(h, s)
    <3>1. Calls!PickUp(k)
      BY <1>1, <2>2, <2>3, <2>4 DEF AcceptCall, Calls!PickUp, Calls!Callee
    <3> QED BY <2>1, <3>1 DEF Calls!CallNext
  <2>5. CASE DeclineCall(h, s)
    <3>1. Calls!Refuse(k)
      BY <1>1, <2>2, <2>3, <2>5 DEF DeclineCall, Calls!Refuse, Calls!Callee
    <3> QED BY <2>1, <3>1 DEF Calls!CallNext
  <2> QED BY <1>3, <2>4, <2>5
<1>4. CASE SendDm(h, s) \/ Unfriend(h, s)
  BY <1>1, <1>4, CallStutter DEF SendDm, Unfriend, page
<1> QED BY <1>2, <1>3, <1>4 DEF Click

(* The commands of a request.                                              *)
LEMMA CallByHandler ==
  ASSUME IInv, CallInv, NEW h \in Handler, HandlerStep(h)
  PROVE  [Calls!CallNext]_(Calls!cvars)
<1> DEFINE r == handler[h]
           k == r.k
<1>0. /\ HandlersOK /\ row \in [CallId -> RowStatus]
      /\ call \in [CallId -> [f : FriendshipId \cup {None}, pair : Pairs \cup {<<>>}]]
  BY DEF IInv, TablesOK, CallsOK
<1>1. UNCHANGED <<incoming, active>>
  BY DEF HandlerStep
<1>k. ASSUME r.op \in {"call", "accept", "decline"}
      PROVE  /\ k \in CallId /\ row[k] = Due(r)
             /\ \A s \in Session : incoming[s] # k
             /\ r.op # "accept" => \A s \in Session : active[s] # k
             /\ r.op = "call" /\ r.pc # "find" => call[k].pair \in Pairs
  <2>1. k \in CallId /\ OfCall(h, k)
    BY <1>0, <1>k DEF HandlersOK, OfCall
  <2> QED BY <2>1 DEF CallInv, CallOK
<1>2. CASE CallFind(h)
  <2>1. k \in CallId /\ row[k] = "none" /\ row' = row
    BY <1>2, <1>k DEF CallFind, At, Due, tables
  <2>2. \A c \in CallId : c # k => call'[c] = call[c]
    BY <1>0, <1>2 DEF CallFind
  <2> QED BY <1>1, <2>1, <2>2, CallStutter
<1>3. CASE CallInsert(h) /\ Exists(r.f)
  <2>1. /\ k \in CallId /\ row[k] = "none" /\ call[k].pair \in Pairs /\ call' = call
        /\ row' = [row EXCEPT ![k] = "ringing"]
    BY <1>3, <1>k DEF CallInsert, At, Due
  <2>2. PICK s, t \in Session : s # t /\ call[k].pair = <<s, t>>
    BY <2>1 DEF Pairs
  <2>3. Parties' = [Parties EXCEPT ![k] = <<s, t>>]
    BY <1>0, <2>1, <2>2 DEF Parties
  <2>4. Calls!Place(k, s, t)
    BY <1>1, <2>1, <2>2, <2>3 DEF Calls!Place
  <2> QED BY <2>1, <2>4 DEF Calls!CallNext
<1>4. CASE AcceptRow(h) \/ DeclineRow(h)
  <2>1. /\ k \in CallId /\ row[k] = "ringing" /\ call' = call
        /\ \A s \in Session : incoming[s] # k
    BY <1>4, <1>k DEF AcceptRow, DeclineRow, At, Due
  <2>2. \/ row' = [row EXCEPT ![k] = "active"]
        \/ /\ row' = [row EXCEPT ![k] = "declined"]
           /\ \A s \in Session : active[s] # k
    BY <1>4, <1>k DEF AcceptRow, DeclineRow, At
  <2>3. Parties' = Parties
    BY <1>0, <2>1, <2>2 DEF Parties
  <2>4. Calls!Accept(k) \/ Calls!Decline(k)
    BY <1>1, <2>1, <2>2, <2>3 DEF Calls!Accept, Calls!Decline
  <2> QED BY <2>1, <2>4 DEF Calls!CallNext
<1>5. CASE row' = row /\ call' = call
  BY <1>1, <1>5, CallStutter
<1> QED BY <1>2, <1>3, <1>4, <1>5
        DEF HandlerStep, CallRefused, CallInsert, CallStore, CallRing, AcceptRead, AcceptStore,
            AcceptTell, DeclineRead, DeclineTell, DeclineDelete, DmFind, DmInsert,
            UnfriendFind, UnfriendDelete, UnfriendTell, UnfriendReply, tables

(* The messages a page is sent.                                            *)
LEMMA CallByPage ==
  ASSUME IInv, CallInv, NEW s \in Session, PageStep(s)
  PROVE  [Calls!CallNext]_(Calls!cvars)
<1> DEFINE k == Head(inbox[s]).id
<1>0. InboxOK
  BY DEF IInv
<1>1. row' = row /\ call' = call /\ Parties' = Parties
  BY PartiesStay DEF PageStep, tables
<1>2. CASE IncomingCall(s)
  <2>1. Told(s, k) /\ k \in CallId
    <3>1. Delivered(s, "friend:incoming-call")
      BY <1>2 DEF IncomingCall
    <3>2. Head(inbox[s]) \in Message /\ Head(inbox[s]).type = "friend:incoming-call"
      BY <1>0, <3>1 DEF Delivered, InboxOK
    <3>3. k \in CallId
      BY <3>2, MessageId
    <3> QED BY <1>0, <3>1, <3>3, DeliveredHas DEF Told, Ring
  <2>2. /\ row[k] = "ringing" /\ call[k].pair[2] = s
        /\ \A t \in Session : incoming[t] # k /\ active[t] # k
    BY <2>1 DEF CallInv, CallOK, Waits
  <2>3. Parties[k][2] = s
    BY <2>1, <2>2, CallShown
  <2>4. incoming' = [incoming EXCEPT ![s] = k] /\ active' = active
    BY <1>2 DEF IncomingCall
  <2>5. Calls!Ring(k)
    BY <1>1, <2>2, <2>3, <2>4 DEF Calls!Ring, Calls!Callee
  <2> QED BY <2>1, <2>5 DEF Calls!CallNext
<1>3. CASE CallConnected(s)
  <2>1. Accepted(s, k) /\ k \in CallId
    <3>1. Delivered(s, "friend:call-connected")
      BY <1>3 DEF CallConnected
    <3>2. Head(inbox[s]) \in Message /\ Head(inbox[s]).type = "friend:call-connected"
      BY <1>0, <3>1 DEF Delivered, InboxOK
    <3>3. k \in CallId
      BY <3>2, MessageId
    <3> QED BY <1>0, <3>1, <3>3, DeliveredHas DEF Accepted
  <2>2. row[k] = "active" /\ call[k].pair[1] = s
    BY <2>1 DEF CallInv, CallOK
  <2>3. Parties[k][1] = s
    BY <2>1, <2>2, CallShown
  <2>4. incoming' = [incoming EXCEPT ![s] = None] /\ active' = [active EXCEPT ![s] = k]
    BY <1>3 DEF CallConnected
  <2>5. Calls!Connect(k, s)
    BY <1>1, <2>2, <2>3, <2>4 DEF Calls!Connect
  <2> QED BY <2>1, <2>5 DEF Calls!CallNext
<1>4. CASE CallDeclined(s) \/ HangUp(s)
  <2>1. /\ active' = [active EXCEPT ![s] = None]
        /\ incoming' \in {incoming, [incoming EXCEPT ![s] = None]}
    BY <1>4 DEF CallDeclined, HangUp
  <2>2. Calls!Leave(s)
    BY <1>1, <2>1 DEF Calls!Leave
  <2> QED BY <2>2 DEF Calls!CallNext
<1>5. CASE AutoConnected(s) \/ Removed(s)
  BY <1>1, <1>5, CallStutter DEF AutoConnected, Removed
<1> QED BY <1>2, <1>3, <1>4, <1>5 DEF PageStep

LEMMA CallRefines ==
  ASSUME IInv, CallInv, [Next]_vars
  PROVE  [Calls!CallNext]_(Calls!cvars)
<1>1. ASSUME NEW p \in Pod, WorkerStep(p) \/ WorkerThrows(p)
      PROVE  UNCHANGED <<row, call, incoming, active>>
  BY <1>1 DEF WorkerStep, WorkerThrows, Scan, ReadMatch, FindFriendship, InsertFriendship,
              TellA, TellB, tables, page
<1>2. ASSUME NEW h \in Handler, HandlerThrows(h)
      PROVE  UNCHANGED <<row, call, incoming, active>>
  BY <1>2 DEF HandlerThrows, tables, page
<1>3. ASSUME \/ \E m \in MatchId : EndMatch(m)
             \/ \E k \in CallId : ExpireCall(k)
             \/ UNCHANGED vars
      PROVE  UNCHANGED <<row, call, incoming, active>>
  BY <1>3 DEF EndMatch, ExpireCall, vars, tables, page
<1>4. CASE UNCHANGED <<row, call, incoming, active>>
  BY <1>4, CallStutter
<1> QED BY <1>1, <1>2, <1>3, <1>4, CallByClick, CallByHandler, CallByPage DEF Next

(* Friends implements FriendCall, whatever fails or runs out: a call is    *)
(* placed once, rings on the page of its callee only, is accepted or       *)
(* declined when it rings no more, and is shown by the two at most, and    *)
(* never once it was declined.                                             *)
THEOREM CallsImplemented == Spec => CallsPromised
<1>1. Init => IInv /\ FreeInv /\ CallInv
  BY InitIInv, CallsInit
<1>2. IInv /\ FreeInv /\ CallInv /\ [Next]_vars => (IInv /\ FreeInv /\ CallInv)'
  BY NextIInv, FreeStep, CallsNext
<1>3. IInv /\ CallInv /\ [Next]_vars => [Calls!CallNext]_(Calls!cvars)
  BY CallRefines
<1> QED BY <1>1, <1>2, <1>3, CallStart, PTL DEF Spec, CallsPromised, Calls!CallSpec
=============================================================================
