-------------------------------- MODULE Chat --------------------------------
(***************************************************************************)
(* The text chat of a match: ChatService and its routes, and the page that *)
(* writes, shows and deletes messages (HomePage, ChatPanel).               *)
(*                                                                         *)
(* A step of the server is one command.  Matches begin and end at any time *)
(* (Matchmaking models how).  What a message says is left out, so is the   *)
(* count of unread messages, and the purge, which nothing calls.           *)
(***************************************************************************)
EXTENDS Integers, Sequences, FiniteSets

CONSTANTS
  Session,
  MatchId,
  MatchPair,     \* MatchPair[m]: the sessionA and sessionB of a match
  MessageId,     \* ids of messages, which the pages choose
  None,
  MaxRequests,   \* bound: requests over HTTP
  MaxFaults      \* bound: commands that fail

ASSUME ChatAssumption ==
  /\ None \notin MatchId
  /\ MatchPair \in [MatchId -> {ab \in Session \X Session : ab[1] # ab[2]}]
  /\ MaxRequests \in Nat /\ MaxFaults \in Nat

VARIABLES
  begun,         \* matches there have been
  open,          \* matches whose HASH match:<match> exists
  row,           \* table chat_messages: match and sender of a message
  struck,        \* its rows with is_deleted_for_everyone
  old,           \* its rows past CHAT_DELETE_EVERYONE_WINDOW_MS
  hidden,        \* table chat_message_deletions
  cleared,       \* table chat_session_deletions
  job,           \* the requests in flight
  inbox,         \* messages published to a session, not yet delivered
  store,         \* useCallStore.matchId
  list,          \* chatMessages of a page: message and sender
  marked,        \* those of them with isDeletedForEveryone
  used,          \* ids that randomUUID has given
  reqs, faults

match  == <<begun, open>>
tables == <<row, struck, old, hidden, cleared>>
page   == <<store, list, marked, used>>
vars   == <<match, tables, job, inbox, page, reqs, faults>>

NoRow  == [m |-> None, by |-> None]
Parties(m) == {MatchPair[m][1], MatchPair[m][2]}
Peer(m, s) == IF MatchPair[m][1] = s THEN MatchPair[m][2] ELSE MatchPair[m][1]

(* "me" and "everyone" are the two scopes of deleteMessage; "ignored" is   *)
(* the chat:message-delete of a page.                                      *)
Place == {"read", "write", "look", "tell"}
Job ==
  [op : {"send", "ignored"}, s : Session, m : MatchId, id : MessageId, at : Place]
  \cup [op : {"me", "everyone"}, s : Session, m : {None}, id : MessageId, at : Place]
  \cup [op : {"session"}, s : Session, m : MatchId, id : {None}, at : Place]
Message == [type : {"chat:message"}, m : MatchId, id : MessageId, by : Session]
           \cup [type : {"chat:message-deleted"}, m : MatchId, id : MessageId, by : {None}]

Init ==
  /\ begun = {} /\ open = {}
  /\ row = [id \in MessageId |-> NoRow]
  /\ struck = {} /\ old = {} /\ hidden = {} /\ cleared = {}
  /\ job = {}
  /\ inbox = [s \in Session |-> <<>>]
  /\ store = [s \in Session |-> None]
  /\ list = [s \in Session |-> {}]
  /\ marked = [s \in Session |-> {}]
  /\ used = {}
  /\ reqs = 0 /\ faults = 0

Request(op, s, m, id) == [op |-> op, s |-> s, m |-> m, id |-> id, at |-> "read"]
Publish(s, type, m, id, by) ==
  inbox' = [inbox EXCEPT ![s] = Append(@, [type |-> type, m |-> m, id |-> id, by |-> by])]

(***************************************************************************)
(* The service.  A job goes from command to command, or ends.              *)
(***************************************************************************)
Ends(j)     == job' = job \ {j}
Goes(j, at) == job' = (job \ {j}) \cup {[j EXCEPT !.at = at]}

(* sendMessage: a match that is over ends it, and the sender is told       *)
(* nothing.                                                                *)
SendRead(j) ==
  /\ j.op = "send" /\ j.at = "read"
  /\ IF j.m \in open THEN Goes(j, "write") ELSE Ends(j)
  /\ UNCHANGED <<tables, inbox>>

(* Mutant of SendInsert: the insert is not awaited, and is lost.           *)
SendInsertLost(j) ==
  /\ j.op = "send" /\ j.at = "write"
  /\ Goes(j, "tell")
  /\ UNCHANGED <<tables, inbox>>

SendInsert(j) ==
  /\ j.op = "send" /\ j.at = "write"
  /\ row' = [row EXCEPT ![j.id] = [m |-> j.m, by |-> j.s]]
  /\ Goes(j, "tell")
  /\ UNCHANGED <<struck, old, hidden, cleared, inbox>>

(* Mutant of SendTell: the match is read again, and may be over.           *)
SendTellOpen(j) ==
  /\ j.op = "send" /\ j.at = "tell"
  /\ IF j.m \in open
     THEN Publish(Peer(j.m, j.s), "chat:message", j.m, j.id, j.s)
     ELSE UNCHANGED inbox
  /\ Ends(j)
  /\ UNCHANGED tables

(* To the peer of the match as it was read.                                *)
SendTell(j) ==
  /\ j.op = "send" /\ j.at = "tell"
  /\ Publish(Peer(j.m, j.s), "chat:message", j.m, j.id, j.s)
  /\ Ends(j)
  /\ UNCHANGED tables

Saved(id) == row[id] # NoRow

(* deleteMessage for me.  onConflictDoNothing: a set.                      *)
HideFind(j) ==
  /\ j.op = "me" /\ j.at = "read"
  /\ IF Saved(j.id) THEN Goes(j, "write") ELSE Ends(j)
  /\ UNCHANGED <<tables, inbox>>

HideInsert(j) ==
  /\ j.op = "me" /\ j.at = "write"
  /\ hidden' = hidden \cup {<<j.id, j.s>>}
  /\ Ends(j)
  /\ UNCHANGED <<row, struck, old, cleared, inbox>>

(* Only in the name of the sender, and only in the window, which is looked *)
(* at once.                                                                *)
MayStrike(j) == Saved(j.id) /\ row[j.id].by = j.s /\ j.id \notin old

(* deleteMessage for everyone.                                             *)
StrikeFind(j) ==
  /\ j.op = "everyone" /\ j.at = "read"
  /\ IF MayStrike(j) THEN Goes(j, "write") ELSE Ends(j)
  /\ UNCHANGED <<tables, inbox>>

(* Mutant of StrikeUpdate: the peer is told although nothing is updated.   *)
StrikeUpdateLost(j) ==
  /\ j.op = "everyone" /\ j.at = "write"
  /\ Goes(j, "look")
  /\ UNCHANGED <<tables, inbox>>

StrikeUpdate(j) ==
  /\ j.op = "everyone" /\ j.at = "write"
  /\ struck' = struck \cup {j.id}
  /\ Goes(j, "look")
  /\ UNCHANGED <<row, old, hidden, cleared, inbox>>

StrikeLook(j) ==
  /\ j.op = "everyone" /\ j.at = "look"
  /\ IF row[j.id].m \in open THEN Goes(j, "tell") ELSE Ends(j)
  /\ UNCHANGED <<tables, inbox>>

StrikeTell(j) ==
  /\ j.op = "everyone" /\ j.at = "tell"
  /\ Publish(Peer(row[j.id].m, j.s), "chat:message-deleted", row[j.id].m, j.id, None)
  /\ Ends(j)
  /\ UNCHANGED tables

(* deleteSessionChat, whose match exists by its foreign key.               *)
ClearInsert(j) ==
  /\ j.op = "session"
  /\ cleared' = cleared \cup ({<<j.m, j.s>>} \cap (begun \X Session))
  /\ Ends(j)
  /\ UNCHANGED <<row, struck, old, hidden, inbox>>

(* chat:message-delete has no case in the gateway.                         *)
Ignore(j) ==
  /\ j.op = "ignored"
  /\ Ends(j)
  /\ UNCHANGED <<tables, inbox>>

JobStep(j) ==
  /\ \/ SendRead(j) \/ SendInsert(j) \/ SendTell(j)
     \/ HideFind(j) \/ HideInsert(j)
     \/ StrikeFind(j) \/ StrikeUpdate(j) \/ StrikeLook(j) \/ StrikeTell(j)
     \/ ClearInsert(j) \/ Ignore(j)
  /\ UNCHANGED <<match, page, reqs, faults>>

(***************************************************************************)
(* The page, whose chat panel is open when the user writes or deletes.     *)
(***************************************************************************)
Ids(items) == {i.id : i \in items}

(* Mutant of Write: it does not matter whether the page has a match.       *)
WriteUnmatched(s, id) ==
  /\ id \notin used
  /\ used' = used \cup {id}
  /\ list' = [list EXCEPT ![s] = @ \cup {[id |-> id, by |-> s]}]
  /\ job' = job \cup {Request("send", s, store[s], id)}
  /\ UNCHANGED <<store, marked>>

(* handleSendMessage: a new message is shown before it is sent.            *)
Write(s, id) ==
  /\ store[s] # None
  /\ id \notin used
  /\ used' = used \cup {id}
  /\ list' = [list EXCEPT ![s] = @ \cup {[id |-> id, by |-> s]}]
  /\ job' = job \cup {Request("send", s, store[s], id)}
  /\ UNCHANGED <<store, marked>>

(* handleDeleteMessage: for me, the server is not told.                    *)
DeleteForMe(s, i) ==
  /\ i \in list[s] /\ i.id \notin marked[s]
  /\ list' = [list EXCEPT ![s] = @ \ {i}]
  /\ UNCHANGED <<job, store, marked, used>>

(* For everyone, if it is "me" that wrote it.                              *)
DeleteForEveryone(s, i) ==
  /\ i \in list[s] /\ i.by = s /\ i.id \notin marked[s]
  /\ store[s] # None
  /\ marked' = [marked EXCEPT ![s] = @ \cup {i.id}]
  /\ job' = job \cup {Request("ignored", s, store[s], i.id)}
  /\ UNCHANGED <<store, list, used>>

(* resetCall: the messages stay.                                           *)
Skip(s) ==
  /\ store[s] # None
  /\ store' = [store EXCEPT ![s] = None]
  /\ UNCHANGED <<job, list, marked, used>>

Click(s) ==
  /\ \/ \E id \in MessageId : Write(s, id)
     \/ \E i \in list[s] : DeleteForMe(s, i) \/ DeleteForEveryone(s, i)
     \/ Skip(s)
  /\ UNCHANGED <<match, tables, inbox, reqs, faults>>

(* onChatMessageReceived: whatever match it is of.                         *)
ChatMessageReceived(s, msg) ==
  /\ msg.type = "chat:message"
  /\ list' = [list EXCEPT ![s] = @ \cup {[id |-> msg.id, by |-> msg.by]}]
  /\ UNCHANGED <<store, marked, used>>

(* onChatMessageDeleted: one that is not on the list is not marked later.  *)
ChatMessageDeleted(s, msg) ==
  /\ msg.type = "chat:message-deleted"
  /\ marked' = [marked EXCEPT ![s] = @ \cup ({msg.id} \cap Ids(list[s]))]
  /\ UNCHANGED <<store, list, used>>

Deliver(s) ==
  /\ inbox[s] # <<>>
  /\ LET msg == Head(inbox[s]) IN
       ChatMessageReceived(s, msg) \/ ChatMessageDeleted(s, msg)
  /\ inbox' = [inbox EXCEPT ![s] = Tail(@)]
  /\ UNCHANGED <<match, tables, job, reqs, faults>>

(***************************************************************************)
(* The environment.                                                        *)
(***************************************************************************)

(* Two sessions in no match are put into one, and onMatchFound stores it.  *)
BeginMatch(m) ==
  /\ m \notin begun
  /\ \A n \in open : Parties(m) \cap Parties(n) = {}
  /\ begun' = begun \cup {m}
  /\ open' = open \cup {m}
  /\ store' = [s \in Session |-> IF s \in Parties(m) THEN m ELSE store[s]]
  /\ UNCHANGED <<tables, job, inbox, list, marked, used, reqs, faults>>

EndMatch(m) ==
  /\ m \in open
  /\ open' = open \ {m}
  /\ UNCHANGED <<begun, tables, job, inbox, page, reqs, faults>>

(* The DELETE routes.  The session they act for is what the client writes  *)
(* into x-session-id, which nothing checks: header is any session, that of *)
(* the peer too, whoever asks, and the id any that a page has given.       *)
AskOverHttp(header) ==
  /\ reqs < MaxRequests /\ reqs' = reqs + 1
  /\ \/ \E op \in {"me", "everyone"}, id \in MessageId :
          /\ id \in used
          /\ job' = job \cup {Request(op, header, None, id)}
     \/ \E m \in MatchId : job' = job \cup {Request("session", header, m, None)}
  /\ UNCHANGED <<match, tables, inbox, page, faults>>

(* Five minutes after a message was sent.                                  *)
WindowEnds(id) ==
  /\ Saved(id) /\ id \notin old
  /\ old' = old \cup {id}
  /\ UNCHANGED <<match, row, struck, hidden, cleared, job, inbox, page, reqs, faults>>

(* The gateway, or the route, answers with an error.                       *)
JobThrows(j) ==
  /\ faults < MaxFaults /\ faults' = faults + 1
  /\ Ends(j)
  /\ UNCHANGED <<match, tables, inbox, page, reqs>>

Next ==
  \/ \E j \in job : JobStep(j) \/ JobThrows(j)
  \/ \E s \in Session : Click(s) \/ Deliver(s) \/ AskOverHttp(s)
  \/ \E m \in MatchId : BeginMatch(m) \/ EndMatch(m)
  \/ \E id \in MessageId : WindowEnds(id)

Spec == Init /\ [][Next]_vars

(* What was asked is handled, and what was published is delivered.         *)
FairSpec ==
  /\ Spec
  /\ WF_vars(\E j \in job : JobStep(j))
  /\ \A s \in Session : WF_vars(Deliver(s))

(***************************************************************************)
(* Properties.                                                             *)
(***************************************************************************)

(* Every variable keeps its shape, and a message is of a match with its    *)
(* sender in it.                                                           *)
TypeOK ==
  /\ begun \subseteq MatchId /\ open \subseteq begun
  /\ row \in [MessageId -> [m : MatchId, by : Session] \cup {NoRow}]
  /\ struck \subseteq MessageId /\ old \subseteq MessageId
  /\ hidden \subseteq MessageId \X Session /\ cleared \subseteq MatchId \X Session
  /\ job \subseteq Job
  /\ inbox \in [Session -> Seq(Message)]
  /\ store \in [Session -> MatchId \cup {None}]
  /\ list \in [Session -> SUBSET [id : MessageId, by : Session]]
  /\ marked \in [Session -> SUBSET MessageId]
  /\ used \subseteq MessageId
  /\ reqs \in Nat /\ faults \in Nat
  /\ \A id \in MessageId : Saved(id) => row[id].by \in Parties(row[id].m)

(* What a page shows from somebody else is saved under that name, and      *)
(* was written in a match of the two, whatever matches came in between.    *)
ShownSaved ==
  \A s \in Session : \A i \in list[s] :
    i.by # s => /\ Saved(i.id) /\ row[i.id].by = i.by
                /\ Parties(row[i.id].m) = {s, i.by}

(* A message of another that a page shows as deleted is deleted in the     *)
(* table: nobody is told of a deletion that was refused or failed.         *)
MarkedStruck ==
  \A s \in Session : \A i \in list[s] :
    i.by # s /\ i.id \in marked[s] => i.id \in struck

(* A message that is saved gets to the peer's page while nothing fails,    *)
(* also when the match ends before it is published.  The peer's page stays *)
(* open here: what is published to a page that has closed is lost.         *)
Delivered ==
  \A id \in MessageId :
    (Saved(id) /\ \E j \in job : j.op = "send" /\ j.id = id) ~>
      (faults > 0 \/ (Saved(id) /\ id \in Ids(list[Peer(row[id].m, row[id].by)])))
=============================================================================
