-------------------------- MODULE CallClientProofs --------------------------
(***************************************************************************)
(* A page that shows a call has it, and no connection is set up with the   *)
(* description of another match: for any number of clients and matches,    *)
(* clicks and drops.                                                       *)
(***************************************************************************)
EXTENDS CallClient, TLAPS

(* What the two properties rest on: the Skip button of a page with a call  *)
(* is about that call, and a link belongs to a call.                       *)
Grounded ==
  \A c \in Client : /\ current[c] # None => store[c] = current[c]
                    /\ link[c] # "none" => current[c] # None

CallInv == CallShown /\ SignalsOwnMatch /\ Grounded

IInv == TypeOK /\ CallInv

(* The parts of TypeOK that a step changes together.                       *)
ServerOK ==
  /\ queue \subseteq Client
  /\ match \in [MatchId -> [pair : {<<>>} \cup (Client \X Client), told : 0..2,
                            over : BOOLEAN]]
  /\ owed \subseteq Owed

MailOK == asked \in [Client -> Seq(Request)] /\ inbox \in [Client -> Seq(Message)]

PageOK ==
  /\ status \in [Client -> Status]
  /\ store \in [Client -> MatchId \cup {None}]
  /\ current \in [Client -> MatchId \cup {None}]
  /\ remote \in [Client -> MatchId \cup {None}]
  /\ link \in [Client -> Link]
  /\ timers \in [Client -> SUBSET Timer]
  /\ attempts \in [Client -> 0..MaxIceRestartAttempts]

LEMMA TypeParts ==
  /\ TypeOK <=> ServerOK /\ MailOK /\ PageOK /\ presses \in Nat /\ drops \in Nat
  /\ TypeOK' <=> ServerOK' /\ MailOK' /\ PageOK' /\ presses' \in Nat /\ drops' \in Nat
BY DEF TypeOK, ServerOK, MailOK, PageOK

(***************************************************************************)
(* Messages and requests.                                                  *)
(***************************************************************************)
LEMMA MsgType ==
  /\ Msg("queue:joined", None) \in Message
  /\ \A m \in MatchId, type \in {"match:found", "offer", "answer", "peer:disconnected"} :
       Msg(type, m) \in Message
BY DEF Msg, Message

LEMMA PublishType ==
  ASSUME NEW box \in [Client -> Seq(Message)], NEW c \in Client, NEW msg \in Message
  PROVE  Publish(box, c, msg) \in [Client -> Seq(Message)]
<1>1. Append(box[c], msg) \in Seq(Message)
  OBVIOUS
<1> QED BY <1>1 DEF Publish

LEMMA PairType ==
  ASSUME ServerOK, NEW m \in MatchId, match[m].pair # <<>>
  PROVE  /\ match[m].pair[1] \in Client /\ match[m].pair[2] \in Client
         /\ match[m].told \in 0..2 /\ match[m].over \in BOOLEAN
         /\ \A c \in Client : PeerOf(c, m) \in Client
<1>1. match[m] \in [pair : {<<>>} \cup (Client \X Client), told : 0..2, over : BOOLEAN]
  BY DEF ServerOK
<1>2. match[m].pair \in Client \X Client
  BY <1>1
<1> QED BY <1>1, <1>2 DEF PeerOf

LEMMA SendType ==
  ASSUME MailOK, NEW c \in Client, NEW op, NEW m, [op |-> op, m |-> m] \in Request,
         Send(c, op, m)
  PROVE  asked' \in [Client -> Seq(Request)]
<1>1. Append(asked[c], [op |-> op, m |-> m]) \in Seq(Request)
  BY DEF MailOK
<1> QED BY <1>1 DEF Send, MailOK

LEMMA SignalType ==
  ASSUME MailOK, NEW c \in Client, NEW type \in {"offer", "answer"}, NEW m \in MatchId,
         Signal(c, type, m)
  PROVE  asked' \in [Client -> Seq(Request)]
<1>1. [op |-> type, m |-> m] \in Request
  BY DEF Request
<1> QED BY <1>1, SendType DEF Signal, MailOK

LEMMA SendOfferType ==
  ASSUME MailOK, NEW c \in Client, NEW m \in MatchId, SendOffer(c, m)
  PROVE  asked' \in [Client -> Seq(Request)]
BY SignalType DEF SendOffer, MailOK

LEMMA AskType ==
  ASSUME MailOK, PageOK, NEW c \in Client, Ask(c)
  PROVE  asked' \in [Client -> Seq(Request)]
<1>1. [op |-> IF store[c] = None THEN "join" ELSE "skip", m |-> store[c]] \in Request
  BY DEF PageOK, Request
<1> QED BY <1>1, SendType DEF Ask

LEMMA RemoveAtType ==
  ASSUME NEW S, NEW s \in Seq(S), NEW i \in 1..Len(s)
  PROVE  RemoveAt(s, i) \in Seq(S)
BY DEF RemoveAt

(***************************************************************************)
(* What an event does to a page.                                           *)
(***************************************************************************)
LEMMA CleanupPage ==
  ASSUME PageOK, NEW c \in Client, Cleanup(c)
  PROVE  /\ timers' \in [Client -> SUBSET Timer] /\ link' \in [Client -> Link]
         /\ remote' \in [Client -> MatchId \cup {None}]
         /\ current' \in [Client -> MatchId \cup {None}]
         /\ timers'[c] = {} /\ link'[c] = "none"
         /\ remote'[c] = None /\ current'[c] = None
         /\ \A d \in Client \ {c} :
              /\ timers'[d] = timers[d] /\ link'[d] = link[d]
              /\ remote'[d] = remote[d] /\ current'[d] = current[d]
BY DEF Cleanup, StopTimers, PageOK, Link

LEMMA ShowPage ==
  ASSUME PageOK, NEW c \in Client, NEW s \in Status, Show(c, s)
  PROVE  /\ status' \in [Client -> Status] /\ status'[c] = s
         /\ \A d \in Client \ {c} : status'[d] = status[d]
BY DEF Show, PageOK

(* The page of one client changes, and the invariant holds of it after.    *)
PageInv(c) ==
  /\ status[c] \in InCall => current[c] # None
  /\ timers[c] # {} => current[c] # None
  /\ remote[c] \in {None, current[c]}
  /\ current[c] # None => store[c] = current[c]
  /\ link[c] # "none" => current[c] # None

LEMMA OnePage ==
  ASSUME CallInv, NEW c \in Client, PageInv(c)',
         \A d \in Client \ {c} :
           /\ status'[d] = status[d] /\ store'[d] = store[d]
           /\ current'[d] = current[d] /\ remote'[d] = remote[d]
           /\ link'[d] = link[d] /\ timers'[d] = timers[d]
  PROVE  CallInv'
BY DEF CallInv, CallShown, SignalsOwnMatch, Grounded, PageInv

LEMMA PagesKept ==
  ASSUME PageOK, CallInv, UNCHANGED call
  PROVE  PageOK' /\ CallInv'
BY DEF call, PageOK, CallInv, CallShown, SignalsOwnMatch, Grounded

LEMMA SkipMatchPage ==
  ASSUME MailOK, PageOK, CallInv, NEW c \in Client, SkipMatch(c)
  PROVE  asked' \in [Client -> Seq(Request)] /\ PageOK' /\ CallInv'
<1>1. asked' \in [Client -> Seq(Request)]
  BY AskType DEF SkipMatch
<1>2. /\ store' \in [Client -> MatchId \cup {None}] /\ store'[c] = None
      /\ \A d \in Client \ {c} : store'[d] = store[d]
      /\ attempts' = attempts
  BY DEF SkipMatch, PageOK
<1>3. "searching" \in Status /\ "searching" \notin InCall
  BY DEF Status, InCall
<1>4. Cleanup(c) /\ Show(c, "searching")
  BY DEF SkipMatch
<1>5. PageOK'
  BY <1>2, <1>3, <1>4, CleanupPage, ShowPage DEF PageOK
<1>6. PageInv(c)'
  BY <1>2, <1>3, <1>4, CleanupPage, ShowPage DEF PageInv
<1>7. CallInv'
  BY <1>2, <1>3, <1>4, <1>6, CleanupPage, ShowPage, OnePage
<1> QED BY <1>1, <1>5, <1>7

LEMMA InboxRecord ==
  ASSUME MailOK, NEW c \in Client, inbox[c] # <<>>
  PROVE  /\ Head(inbox[c]) \in Message
         /\ [inbox EXCEPT ![c] = Tail(@)] \in [Client -> Seq(Message)]
<1>1. inbox[c] \in Seq(Message)
  BY DEF MailOK
<1>2. Head(inbox[c]) \in Message /\ Tail(inbox[c]) \in Seq(Message)
  BY <1>1
<1> QED BY <1>2 DEF MailOK

(* triggerRecovery on a page with a call: whether it restarts ICE or gives *)
(* the match up, what it leaves is a page the invariant allows.            *)
LEMMA RecoverPage ==
  ASSUME ServerOK, MailOK, PageOK, CallInv, NEW c \in Client,
         NEW running \in SUBSET Timer, Recover(c, running), current[c] # None,
         CanRestart(c) => link' \in {link, [link EXCEPT ![c] = "down"]}
  PROVE  asked' \in [Client -> Seq(Request)] /\ PageOK' /\ CallInv'
<1>1. CASE CanRestart(c)
  <2>1. current[c] \in MatchId
    BY DEF PageOK
  <2>2. /\ attempts' = [attempts EXCEPT ![c] = @ + 1]
        /\ timers' = [timers EXCEPT ![c] = Watched(running)]
        /\ SendOffer(c, current[c])
        /\ Show(c, "reconnecting")
        /\ store' = store /\ current' = current /\ remote' = remote
    BY <1>1 DEF Recover
  <2>3. asked' \in [Client -> Seq(Request)]
    BY <2>1, <2>2, SendOfferType
  <2>4. attempts' \in [Client -> 0..MaxIceRestartAttempts]
    <3>1. attempts[c] + 1 \in 0..MaxIceRestartAttempts
      BY <1>1 DEF CanRestart, PageOK, MaxIceRestartAttempts
    <3> QED BY <2>2, <3>1 DEF PageOK
  <2>5. /\ link' \in [Client -> Link]
        /\ \A d \in Client \ {c} : link'[d] = link[d]
    BY <1>1 DEF PageOK, Link
  <2>6. /\ timers' \in [Client -> SUBSET Timer]
        /\ \A d \in Client \ {c} : timers'[d] = timers[d]
    BY <2>2 DEF PageOK, Watched, Timer
  <2>7. /\ status' \in [Client -> Status]
        /\ \A d \in Client \ {c} : status'[d] = status[d]
    BY <2>2, ShowPage DEF Status
  <2>8. PageOK'
    BY <2>2, <2>4, <2>5, <2>6, <2>7 DEF PageOK
  <2>9. PageInv(c)'
    BY <2>2 DEF PageInv, CallInv, SignalsOwnMatch, Grounded
  <2>10. CallInv'
    BY <2>2, <2>5, <2>6, <2>7, <2>9, OnePage
  <2> QED BY <2>3, <2>8, <2>10
<1>2. CASE ~CanRestart(c)
  <2>1. SkipMatch(c)
    BY <1>2 DEF Recover
  <2> QED BY <2>1, SkipMatchPage
<1> QED BY <1>1, <1>2

(***************************************************************************)
(* The steps of the server: no page is touched.                            *)
(***************************************************************************)
LEMMA HandleStep ==
  ASSUME ServerOK, MailOK, NEW c \in Client, Handle(c)
  PROVE  ServerOK' /\ MailOK'
<1>1. PICK i \in DOMAIN asked[c] :
        /\ \/ HandleJoin(c, asked[c][i]) \/ HandleSkip(c, asked[c][i])
           \/ Relay(c, asked[c][i]) \/ RelayDropped(asked[c][i])
        /\ asked' = [asked EXCEPT ![c] = RemoveAt(@, i)]
  BY DEF Handle
<1> DEFINE r == asked[c][i]
<1>2. asked[c] \in Seq(Request) /\ i \in 1..Len(asked[c]) /\ r \in Request
  BY DEF MailOK
<1>3. RemoveAt(asked[c], i) \in Seq(Request)
  BY <1>2, RemoveAtType
<1>4. asked' \in [Client -> Seq(Request)]
  BY <1>1, <1>3 DEF MailOK
<1>5. CASE HandleJoin(c, r)
  <2>1. [op |-> "joined", c |-> c] \in Owed
    BY DEF Owed
  <2> QED BY <1>4, <1>5, <2>1 DEF HandleJoin, ServerOK, MailOK
<1>6. CASE HandleSkip(c, r)
  <2>1. r.m \in MatchId
    BY <1>2, <1>6 DEF HandleSkip, Request
  <2>2. CASE Running(r.m)
    <3>1. PeerOf(c, r.m) \in Client
      BY <2>1, <2>2, PairType DEF Running
    <3>2. Msg("peer:disconnected", r.m) \in Message
      BY <2>1, MsgType
    <3>3. Publish(inbox, PeerOf(c, r.m), Msg("peer:disconnected", r.m))
            \in [Client -> Seq(Message)]
      BY <3>1, <3>2, PublishType DEF MailOK
    <3>4. [op |-> "requeue", c |-> c] \in Owed
      BY DEF Owed
    <3>5. [match EXCEPT ![r.m].over = TRUE]
            \in [MatchId -> [pair : {<<>>} \cup (Client \X Client), told : 0..2,
                             over : BOOLEAN]]
      BY <2>1 DEF ServerOK
    <3> QED BY <1>4, <1>6, <2>2, <3>3, <3>4, <3>5 DEF HandleSkip, ServerOK, MailOK
  <2>3. CASE ~Running(r.m)
    BY <1>4, <1>6, <2>3 DEF HandleSkip, ServerOK, MailOK
  <2> QED BY <2>2, <2>3
<1>7. CASE Relay(c, r)
  <2>1. r.op \in {"offer", "answer"} /\ r.m \in MatchId
    BY <1>2, <1>7 DEF Relay, Request
  <2>2. PeerOf(c, r.m) \in Client
    BY <1>7, <2>1, PairType DEF Relay
  <2>3. Msg(r.op, r.m) \in Message
    BY <2>1, MsgType
  <2>4. Publish(inbox, PeerOf(c, r.m), Msg(r.op, r.m)) \in [Client -> Seq(Message)]
    BY <2>2, <2>3, PublishType DEF MailOK
  <2> QED BY <1>4, <1>7, <2>4 DEF Relay, ServerOK, MailOK
<1>8. CASE RelayDropped(r)
  BY <1>4, <1>8 DEF RelayDropped, ServerOK, MailOK
<1> QED BY <1>1, <1>5, <1>6, <1>7, <1>8

LEMMA FinishStep ==
  ASSUME ServerOK, MailOK, NEW o \in owed, Finish(o)
  PROVE  ServerOK' /\ MailOK'
<1>1. o.c \in Client
  BY DEF ServerOK, Owed
<1>2. CASE SendJoined(o)
  <2>1. Publish(inbox, o.c, Msg("queue:joined", None)) \in [Client -> Seq(Message)]
    BY <1>1, MsgType, PublishType DEF MailOK
  <2> QED BY <1>2, <2>1 DEF Finish, SendJoined, ServerOK, MailOK
<1>3. CASE Requeue(o)
  BY <1>1, <1>3 DEF Finish, Requeue, ServerOK, MailOK
<1> QED BY <1>2, <1>3 DEF Finish

LEMMA PairUpStep ==
  ASSUME ServerOK, MailOK, NEW c \in Client, NEW d \in Client, NEW m \in MatchId,
         PairUp(c, d, m)
  PROVE  ServerOK' /\ MailOK'
<1>1. [match EXCEPT ![m].pair = <<c, d>>]
        \in [MatchId -> [pair : {<<>>} \cup (Client \X Client), told : 0..2,
                         over : BOOLEAN]]
  BY DEF ServerOK
<1> QED BY <1>1 DEF PairUp, ServerOK, MailOK

LEMMA TellFoundStep ==
  ASSUME ServerOK, MailOK, NEW m \in MatchId, TellFound(m)
  PROVE  ServerOK' /\ MailOK'
<1>1. match[m].pair # <<>> /\ match[m].told < 2
  BY DEF TellFound
<1>2. match[m].told \in {0, 1}
  BY <1>1, PairType
<1>3. match[m].pair[match[m].told + 1] \in Client
  BY <1>1, <1>2, PairType
<1>4. Publish(inbox, match[m].pair[match[m].told + 1], Msg("match:found", m))
        \in [Client -> Seq(Message)]
  BY <1>3, MsgType, PublishType DEF MailOK
<1>5. [match EXCEPT ![m].told = @ + 1]
        \in [MatchId -> [pair : {<<>>} \cup (Client \X Client), told : 0..2,
                         over : BOOLEAN]]
  BY <1>2 DEF ServerOK
<1> QED BY <1>4, <1>5 DEF TellFound, ServerOK, MailOK

(***************************************************************************)
(* The steps of a page.                                                    *)
(***************************************************************************)
LEMMA FoundPage ==
  ASSUME ServerOK, MailOK, PageOK, CallInv, NEW c \in Client, NEW got \in Message,
         Found(c, got)
  PROVE  asked' \in [Client -> Seq(Request)] /\ PageOK' /\ CallInv'
<1>1. got.m \in MatchId
  BY DEF Found, Message
<1>2. got.m # None
  BY <1>1, CallAssumption
<1>3. asked' \in [Client -> Seq(Request)]
  BY <1>1, SendOfferType DEF Found
<1>4. /\ current' = [current EXCEPT ![c] = got.m]
      /\ store' = [store EXCEPT ![c] = got.m]
      /\ Show(c, "connecting")
      /\ timers' = [timers EXCEPT ![c] = {"initial"}]
      /\ link' = [link EXCEPT ![c] = "new"]
      /\ remote' = [remote EXCEPT ![c] = None]
      /\ attempts' = attempts
  BY DEF Found, InitialTimers
<1>5. "connecting" \in Status
  BY DEF Status
<1>6. PageOK'
  BY <1>1, <1>4, <1>5, ShowPage DEF PageOK, Link, Timer
<1>7. PageInv(c)'
  BY <1>1, <1>2, <1>4 DEF PageInv, PageOK
<1>8. CallInv'
  BY <1>4, <1>5, <1>7, ShowPage, OnePage DEF PageOK
<1> QED BY <1>3, <1>6, <1>8

LEMMA DescribedPage ==
  ASSUME ServerOK, MailOK, PageOK, CallInv, NEW c \in Client, NEW got \in Message,
         Described(c, got)
  PROVE  asked' \in [Client -> Seq(Request)] /\ PageOK' /\ CallInv'
<1>1. got.m \in MatchId
  BY DEF Described, Message
<1>2. asked' \in [Client -> Seq(Request)]
  BY <1>1, SignalType DEF Described, MailOK
<1>3. status' = status /\ store' = store /\ current' = current /\ link' = link
      /\ timers' = timers /\ attempts' = attempts
  BY DEF Described
<1>4. CASE Ours(c, got.m)
  <2>1. remote' = [remote EXCEPT ![c] = got.m] /\ got.m = current[c]
    BY <1>4 DEF Described, Ours
  <2>2. PageOK'
    BY <1>1, <1>3, <2>1 DEF PageOK
  <2>3. PageInv(c)'
    BY <1>3, <2>1 DEF PageInv, PageOK, CallInv, CallShown, Grounded
  <2>4. CallInv'
    BY <1>3, <2>1, <2>3, OnePage DEF PageOK
  <2> QED BY <1>2, <2>2, <2>4
<1>5. CASE ~Ours(c, got.m)
  <2>1. UNCHANGED call
    BY <1>3, <1>5 DEF Described, call
  <2> QED BY <1>2, <2>1, PagesKept
<1> QED BY <1>4, <1>5

LEMMA PeerLeftPage ==
  ASSUME PageOK, CallInv, NEW c \in Client, NEW got \in Message, PeerLeft(c, got)
  PROVE  asked' = asked /\ PageOK' /\ CallInv'
<1>1. asked' = asked /\ store' = store /\ attempts' = attempts
  BY DEF PeerLeft
<1>2. CASE Ours(c, got.m)
  <2>1. Cleanup(c) /\ Show(c, "peer_disconnected")
    BY <1>2 DEF PeerLeft
  <2>2. "peer_disconnected" \in Status /\ "peer_disconnected" \notin InCall
    BY DEF Status, InCall
  <2>3. PageOK'
    BY <1>1, <2>1, <2>2, CleanupPage, ShowPage DEF PageOK
  <2>4. PageInv(c)'
    BY <2>1, <2>2, CleanupPage, ShowPage DEF PageInv
  <2>5. CallInv'
    BY <1>1, <2>1, <2>2, <2>4, CleanupPage, ShowPage, OnePage
  <2> QED BY <1>1, <2>3, <2>5
<1>3. CASE ~Ours(c, got.m)
  <2>1. UNCHANGED call
    BY <1>1, <1>3 DEF PeerLeft, call
  <2> QED BY <1>1, <2>1, PagesKept
<1> QED BY <1>2, <1>3

LEMMA JoinedPage ==
  ASSUME PageOK, CallInv, NEW c \in Client, NEW got \in Message, Joined(c, got)
  PROVE  asked' = asked /\ PageOK' /\ CallInv'
<1>1. /\ Show(c, "searching")
      /\ UNCHANGED <<asked, store, current, remote, link, timers, attempts>>
  BY DEF Joined
<1>2. "searching" \in Status /\ "searching" \notin InCall
  BY DEF Status, InCall
<1>3. PageOK'
  BY <1>1, <1>2, ShowPage DEF PageOK
<1>4. PageInv(c)'
  BY <1>1, <1>2, ShowPage
     DEF PageInv, CallInv, CallShown, SignalsOwnMatch, Grounded
<1>5. CallInv'
  BY <1>1, <1>2, <1>4, ShowPage, OnePage
<1> QED BY <1>1, <1>3, <1>5

LEMMA DeliverStep ==
  ASSUME ServerOK, MailOK, PageOK, CallInv, NEW c \in Client, Deliver(c)
  PROVE  MailOK' /\ PageOK' /\ CallInv'
<1> DEFINE got == Head(inbox[c])
<1>1. got \in Message /\ inbox' \in [Client -> Seq(Message)]
  BY InboxRecord DEF Deliver
<1>2. Joined(c, got) \/ Found(c, got) \/ Described(c, got) \/ PeerLeft(c, got)
  BY DEF Deliver
<1>3. asked' \in [Client -> Seq(Request)] /\ PageOK' /\ CallInv'
  <2> HIDE DEF got
  <2> QED BY <1>1, <1>2, JoinedPage, FoundPage, DescribedPage, PeerLeftPage DEF MailOK
<1> QED BY <1>1, <1>3 DEF MailOK

LEMMA LinkUpStep ==
  ASSUME PageOK, CallInv, NEW c \in Client, LinkUp(c)
  PROVE  PageOK' /\ CallInv'
<1>1. current[c] # None
  BY DEF LinkUp, CallInv, Grounded
<1>2. /\ link' = [link EXCEPT ![c] = "up"] /\ timers' = [timers EXCEPT ![c] = {}]
      /\ attempts' = [attempts EXCEPT ![c] = 0] /\ Show(c, "connected")
      /\ store' = store /\ current' = current /\ remote' = remote
  BY DEF LinkUp, StopTimers
<1>3. "connected" \in Status
  BY DEF Status
<1>4. PageOK'
  BY <1>2, <1>3, ShowPage DEF PageOK, Link, MaxIceRestartAttempts
<1>5. PageInv(c)'
  BY <1>1, <1>2 DEF PageInv, CallInv, SignalsOwnMatch, Grounded
<1> QED BY <1>2, <1>3, <1>4, <1>5, ShowPage, OnePage DEF PageOK

LEMMA LinkDropsStep ==
  ASSUME PageOK, CallInv, NEW c \in Client, LinkDrops(c)
  PROVE  PageOK' /\ CallInv'
<1>1. current[c] # None
  BY DEF LinkDrops, CallInv, Grounded
<1>2. /\ link' = [link EXCEPT ![c] = "down"]
      /\ timers' = [timers EXCEPT ![c] = @ \cup {"grace"}] /\ Show(c, "reconnecting")
      /\ store' = store /\ current' = current /\ remote' = remote
      /\ attempts' = attempts
  BY DEF LinkDrops
<1>3. "reconnecting" \in Status
  BY DEF Status
<1>4. PageOK'
  BY <1>2, <1>3, ShowPage DEF PageOK, Link, Timer
<1>5. PageInv(c)'
  BY <1>1, <1>2 DEF PageInv, CallInv, SignalsOwnMatch, Grounded
<1> QED BY <1>2, <1>3, <1>4, <1>5, ShowPage, OnePage DEF PageOK

(* The steps that give a match up or try to save it.                       *)
LEMMA RecoveryStep ==
  ASSUME ServerOK, MailOK, PageOK, CallInv, NEW c \in Client,
         PressSkip(c) \/ LinkFails(c) \/ IceFails(c) \/ GraceEnds(c) \/ GiveUp(c)
  PROVE  MailOK' /\ PageOK' /\ CallInv'
<1>t. timers[c] \in SUBSET Timer
  BY DEF PageOK
<1>1. CASE PressSkip(c) \/ IceFails(c) \/ GiveUp(c)
  <2>1. SkipMatch(c) /\ inbox' = inbox
    BY <1>1 DEF PressSkip, IceFails, GiveUp
  <2> QED BY <2>1, SkipMatchPage DEF MailOK
<1>2. CASE LinkFails(c)
  <2>1. current[c] # None
    BY <1>2 DEF LinkFails, CallInv, SignalsOwnMatch
  <2>2. /\ Recover(c, timers[c]) /\ inbox' = inbox
        /\ CanRestart(c) => link' = [link EXCEPT ![c] = "down"]
    BY <1>2 DEF LinkFails
  <2> QED BY <1>t, <2>1, <2>2, RecoverPage DEF MailOK
<1>3. CASE GraceEnds(c)
  <2>1. current[c] # None
    BY <1>3 DEF GraceEnds, CallInv, CallShown
  <2>2. /\ Recover(c, timers[c] \ {"grace"}) /\ inbox' = inbox
        /\ CanRestart(c) => link' = link
    BY <1>3 DEF GraceEnds
  <2>3. timers[c] \ {"grace"} \in SUBSET Timer
    BY <1>t
  <2> QED BY <2>1, <2>2, <2>3, RecoverPage DEF MailOK
<1> QED BY <1>1, <1>2, <1>3

(***************************************************************************)
(* The invariant.                                                          *)
(***************************************************************************)
LEMMA InitIInv == Init => IInv
<1> SUFFICES ASSUME Init PROVE IInv
  OBVIOUS
<1>1. ServerOK
  BY DEF Init, ServerOK, NoMatch
<1>2. MailOK
  BY DEF Init, MailOK, Request
<1>3. PageOK /\ presses \in Nat /\ drops \in Nat
  BY DEF Init, PageOK, Status, Link, MaxIceRestartAttempts
<1>4. CallInv
  BY DEF Init, CallInv, CallShown, SignalsOwnMatch, Grounded, InCall
<1> QED BY <1>1, <1>2, <1>3, <1>4, TypeParts DEF IInv

LEMMA NextIInv == IInv /\ [Next]_vars => IInv'
<1> SUFFICES ASSUME IInv, [Next]_vars PROVE IInv'
  OBVIOUS
<1>i. ServerOK /\ MailOK /\ PageOK /\ CallInv /\ presses \in Nat /\ drops \in Nat
  BY TypeParts DEF IInv
<1>q. SUFFICES ServerOK' /\ MailOK' /\ PageOK' /\ CallInv'
               /\ presses' \in Nat /\ drops' \in Nat
  BY TypeParts DEF IInv
<1>1. ASSUME NEW o \in owed, Finish(o) PROVE IInv'
  <2>1. UNCHANGED call /\ presses' = presses /\ drops' = drops
    BY <1>1 DEF Finish
  <2> QED BY <1>i, <1>1, <2>1, FinishStep, PagesKept, TypeParts DEF IInv
<1>2. ASSUME NEW c \in Client, NEW d \in Client, NEW m \in MatchId, PairUp(c, d, m)
      PROVE  IInv'
  <2>1. UNCHANGED call /\ presses' = presses /\ drops' = drops
    BY <1>2 DEF PairUp
  <2> QED BY <1>i, <1>2, <2>1, PairUpStep, PagesKept, TypeParts DEF IInv
<1>3. ASSUME NEW m \in MatchId, TellFound(m) PROVE IInv'
  <2>1. UNCHANGED call /\ presses' = presses /\ drops' = drops
    BY <1>3 DEF TellFound
  <2> QED BY <1>i, <1>3, <2>1, TellFoundStep, PagesKept, TypeParts DEF IInv
<1>4. ASSUME NEW c \in Client, Handle(c) PROVE IInv'
  <2>1. UNCHANGED call /\ presses' = presses /\ drops' = drops
    BY <1>4 DEF Handle
  <2> QED BY <1>i, <1>4, <2>1, HandleStep, PagesKept, TypeParts DEF IInv
<1>5. ASSUME NEW c \in Client, Deliver(c) PROVE IInv'
  <2>1. ServerOK' /\ presses' = presses /\ drops' = drops
    BY <1>i, <1>5 DEF Deliver, server, ServerOK
  <2> QED BY <1>i, <1>5, <2>1, DeliverStep, TypeParts DEF IInv
<1>6. ASSUME NEW c \in Client,
             PressSkip(c) \/ LinkFails(c) \/ IceFails(c) \/ GraceEnds(c) \/ GiveUp(c)
      PROVE  IInv'
  <2>1. ServerOK'
    BY <1>i, <1>6 DEF PressSkip, LinkFails, IceFails, GraceEnds, GiveUp, server, ServerOK
  <2>2. presses' \in Nat /\ drops' \in Nat
    BY <1>i, <1>6 DEF PressSkip, LinkFails, IceFails, GraceEnds, GiveUp, Drop
  <2> QED BY <1>i, <1>6, <2>1, <2>2, RecoveryStep, TypeParts DEF IInv
<1>7. ASSUME NEW c \in Client, LinkUp(c) \/ LinkDrops(c) PROVE IInv'
  <2>1. ServerOK' /\ MailOK'
    BY <1>i, <1>7 DEF LinkUp, LinkDrops, server, ServerOK, MailOK
  <2>2. presses' \in Nat /\ drops' \in Nat
    BY <1>i, <1>7 DEF LinkUp, LinkDrops, Drop
  <2> QED BY <1>i, <1>7, <2>1, <2>2, LinkUpStep, LinkDropsStep, TypeParts DEF IInv
<1>8. CASE UNCHANGED vars
  <2>1. ServerOK' /\ MailOK' /\ UNCHANGED call /\ presses' = presses /\ drops' = drops
    BY <1>i, <1>8 DEF vars, server, call, ServerOK, MailOK
  <2> QED BY <1>i, <2>1, PagesKept
<1>9. CASE Next
  BY <1>1, <1>2, <1>3, <1>4, <1>5, <1>6, <1>7, <1>9, TypeParts DEF Next, IInv
<1> QED BY <1>8, <1>9

LEMMA CallSafety == Spec => []IInv
<1> QED BY InitIInv, NextIInv, PTL DEF Spec

(* Every variable of the clients and of the server keeps its shape; the    *)
(* ICE restarts of a page never exceed their limit.                        *)
THEOREM CallTypeCorrect == Spec => []TypeOK
<1>1. IInv => TypeOK
  BY DEF IInv
<1> QED BY <1>1, CallSafety, PTL

(* A page that shows a call has it, its Skip button is about that call and *)
(* no timer outlives its call: handleMatchFound, cleanupCall, skipMatch.   *)
THEOREM CallShownAlways == Spec => []CallShown
<1>1. IInv => CallShown
  BY DEF IInv, CallInv
<1> QED BY <1>1, CallSafety, PTL

(* An offer or an answer of another match is never applied to a link, at   *)
(* whatever time it arrives: the comparisons of handleOffer, handleAnswer. *)
THEOREM SignalsOwnMatchAlways == Spec => []SignalsOwnMatch
<1>1. IInv => SignalsOwnMatch
  BY DEF IInv, CallInv
<1> QED BY <1>1, CallSafety, PTL
=============================================================================
