----------------------------- MODULE ChatProofs -----------------------------
(***************************************************************************)
(* What a page shows of another was written by that other in a match of    *)
(* the two, and what it shows as deleted is deleted, by its sender: for    *)
(* any number of sessions, matches, messages, requests and failures.       *)
(***************************************************************************)
EXTENDS Chat, SequenceTheorems, TLAPS

RestOK ==
  /\ begun \subseteq MatchId /\ open \subseteq begun
  /\ struck \subseteq MessageId /\ old \subseteq MessageId
  /\ hidden \subseteq MessageId \X Session /\ cleared \subseteq MatchId \X Session
  /\ store \in [Session -> MatchId \cup {None}]
  /\ marked \in [Session -> SUBSET MessageId]
  /\ used \subseteq MessageId
  /\ reqs \in Nat /\ faults \in Nat

(* A page is in no match but one of its own.                               *)
StoreOK == \A s \in Session : store[s] # None => s \in Parties(store[s])

RowOK ==
  /\ row \in [MessageId -> [m : MatchId, by : Session] \cup {NoRow}]
  /\ \A id \in MessageId : Saved(id) => row[id].by \in Parties(row[id].m) /\ id \in used

(* What the request of j has done to the tables so far.                    *)
JobOK(j) ==
  /\ j.op = "send" =>
       /\ j.s \in Parties(j.m) /\ j.id \in used /\ j.at # "look"
       /\ j.at \in {"read", "write"} => ~Saved(j.id)
       /\ j.at = "tell" => row[j.id] = [m |-> j.m, by |-> j.s]
  /\ j.op = "everyone" /\ j.at # "read" =>
       /\ Saved(j.id) /\ row[j.id].by = j.s
       /\ j.at # "write" => j.id \in struck

JobsOK == job \subseteq Job /\ \A j \in job : JobOK(j)

(* A message is sent by one request.                                       *)
UniqueOK == \A j, k \in job : j.op = "send" /\ k.op = "send" /\ j.id = k.id => j = k

MsgOK(s, msg) ==
  /\ msg.type = "chat:message" =>
       /\ row[msg.id] = [m |-> msg.m, by |-> msg.by]
       /\ s = Peer(msg.m, msg.by)
  /\ msg.type = "chat:message-deleted" => msg.id \in struck

InboxOK ==
  /\ inbox \in [Session -> Seq(Message)]
  /\ \A s \in Session : \A n \in 1 .. Len(inbox[s]) : MsgOK(s, inbox[s][n])

(* An item is of the session that sends, or has sent, its message.         *)
ItemOK(i) ==
  /\ i.id \in used
  /\ Saved(i.id) => row[i.id].by = i.by
  /\ \A j \in job : j.op = "send" /\ j.id = i.id => j.s = i.by

ListsOK ==
  /\ list \in [Session -> SUBSET [id : MessageId, by : Session]]
  /\ \A s \in Session : \A i \in list[s] : ItemOK(i)

(* What a page marks is struck, or one of its own.                         *)
MarksOK ==
  \A s \in Session : \A id \in marked[s] :
    id \in struck \/ ItemOK([id |-> id, by |-> s])

IInv ==
  /\ RestOK /\ StoreOK /\ RowOK /\ JobsOK /\ UniqueOK /\ InboxOK /\ ListsOK /\ MarksOK
  /\ ShownSaved /\ MarkedStruck

LEMMA InvImplies == IInv => TypeOK
BY DEF IInv, RestOK, RowOK, JobsOK, InboxOK, ListsOK, TypeOK

(***************************************************************************)
(* The parties of a match, requests and messages.                          *)
(***************************************************************************)
LEMMA PeerFacts ==
  ASSUME NEW m \in MatchId
  PROVE  /\ Parties(m) \subseteq Session
         /\ \A s \in Parties(m) : /\ Peer(m, s) \in Session /\ Peer(m, s) # s
                                  /\ Parties(m) = {Peer(m, s), s}
BY ChatAssumption DEF Parties, Peer

LEMMA JobFacts ==
  ASSUME NEW j \in Job
  PROVE  /\ j.s \in Session /\ j.at \in Place
         /\ j.op \in {"send", "ignored", "me", "everyone", "session"}
         /\ j.op \in {"send", "ignored", "session"} => j.m \in MatchId
         /\ j.op # "session" => j.id \in MessageId
BY DEF Job

LEMMA JobMoves ==
  ASSUME NEW j \in Job, NEW at \in Place, NEW k, k = [j EXCEPT !.at = at]
  PROVE  /\ k \in Job /\ k.op = j.op /\ k.s = j.s /\ k.m = j.m /\ k.id = j.id
         /\ k.at = at
BY DEF Job

LEMMA RequestFacts ==
  ASSUME NEW op, NEW s \in Session, NEW m, NEW id, NEW k, k = Request(op, s, m, id),
         \/ op \in {"send", "ignored"} /\ m \in MatchId /\ id \in MessageId
         \/ op \in {"me", "everyone"} /\ m = None /\ id \in MessageId
         \/ op = "session" /\ m \in MatchId /\ id = None
  PROVE  k \in Job /\ k.op = op /\ k.s = s /\ k.m = m /\ k.id = id /\ k.at = "read"
BY DEF Request, Job, Place

LEMMA MessageFacts ==
  ASSUME NEW msg \in Message
  PROVE  /\ msg.m \in MatchId /\ msg.id \in MessageId
         /\ msg.type = "chat:message" => msg.by \in Session
BY DEF Message

LEMMA SavedFacts ==
  ASSUME RowOK, NEW id \in MessageId
  PROVE  /\ Saved(id) => row[id] \in [m : MatchId, by : Session]
         /\ \A m \in MatchId, s \in Session : row[id] = [m |-> m, by |-> s] =>
              Saved(id) /\ row[id].m = m /\ row[id].by = s
BY ChatAssumption DEF RowOK, Saved, NoRow

LEMMA InitInv == Init => IInv
<1> SUFFICES ASSUME Init PROVE IInv
  OBVIOUS
<1> USE DEF Init
<1>1. RestOK /\ StoreOK
  BY DEF RestOK, StoreOK
<1>2. RowOK
  BY DEF RowOK, Saved
<1>3. JobsOK /\ UniqueOK
  BY DEF JobsOK, UniqueOK
<1>4. InboxOK
  BY DEF InboxOK
<1>5. ListsOK /\ MarksOK /\ ShownSaved /\ MarkedStruck
  BY DEF ListsOK, MarksOK, ShownSaved, MarkedStruck
<1> QED BY <1>1, <1>2, <1>3, <1>4, <1>5 DEF IInv

(***************************************************************************)
(* What stays as it is while rows are only added, and messages only struck.*)
(***************************************************************************)
Grows ==
  /\ \A id \in MessageId : Saved(id) => row'[id] = row[id]
  /\ struck \subseteq struck' /\ used \subseteq used'

LEMMA SameRows ==
  ASSUME row' = row, struck \subseteq struck', used \subseteq used'
  PROVE  Grows /\ (RowOK => RowOK') /\ \A id : Saved(id)' = Saved(id)
BY DEF Grows, RowOK, Saved

LEMMA MsgKept ==
  ASSUME RowOK, Grows, NEW s, NEW msg \in Message, MsgOK(s, msg)
  PROVE  MsgOK(s, msg)'
BY MessageFacts, SavedFacts DEF Grows, MsgOK

LEMMA InboxKept ==
  ASSUME RowOK, InboxOK, Grows, UNCHANGED inbox
  PROVE  InboxOK'
<1>1. ASSUME NEW s \in Session, NEW n \in 1 .. Len(inbox[s])
      PROVE  MsgOK(s, inbox[s][n])'
  <2>1. inbox[s] \in Seq(Message) /\ inbox[s][n] \in Message /\ MsgOK(s, inbox[s][n])
    BY ElementOfSeq DEF InboxOK
  <2> DEFINE msg == inbox[s][n]
  <2>2. msg' = msg
    OBVIOUS
  <2> HIDE DEF msg
  <2>3. msg \in Message /\ MsgOK(s, msg)
    BY <2>1 DEF msg
  <2>4. MsgOK(s, msg)'
    BY <2>2, <2>3, MsgKept DEF MsgOK
  <2> QED BY <2>4 DEF msg
<1> QED BY <1>1 DEF InboxOK

LEMMA InboxGets ==
  ASSUME RowOK, InboxOK, Grows, NEW t \in Session, NEW msg \in Message,
         inbox' = [inbox EXCEPT ![t] = Append(@, msg)], MsgOK(t, msg)
  PROVE  InboxOK'
<1>1. inbox' \in [Session -> Seq(Message)]
  BY DEF InboxOK
<1>2. ASSUME NEW s \in Session, NEW n \in 1 .. Len(inbox'[s])
      PROVE  MsgOK(s, inbox[s][n])'
  <2>1. inbox[s] \in Seq(Message)
    BY DEF InboxOK
  <2>2. \/ inbox'[s][n] = msg /\ s = t
        \/ n \in 1 .. Len(inbox[s]) /\ inbox'[s][n] = inbox[s][n]
    <3>1. CASE s = t
      <4>1. inbox'[s] = Append(inbox[s], msg)
        BY <3>1 DEF InboxOK
      <4> QED BY <2>1, <3>1, <4>1, AppendProperties
    <3>2. CASE s # t
      BY <3>2 DEF InboxOK
    <3> QED BY <3>1, <3>2
  <2> DEFINE got == inbox'[s][n]
  <2>3. got \in Message /\ MsgOK(s, got)
    BY <2>1, <2>2, ElementOfSeq DEF InboxOK
  <2> HIDE DEF got
  <2>4. \A x : x \in Message /\ MsgOK(s, x) => MsgOK(s, x)'
    BY MsgKept
  <2> QED BY <2>3, <2>4 DEF got, MsgOK
<1> QED BY <1>1, <1>2 DEF InboxOK

(***************************************************************************)
(* Requests that end, go on and come; lists that stay.                     *)
(***************************************************************************)
LEMMA JobsEnd ==
  ASSUME JobsOK, UniqueOK, job' \subseteq job,
         row' = row, struck \subseteq struck', used \subseteq used'
  PROVE  JobsOK' /\ UniqueOK'
BY DEF JobsOK, JobOK, UniqueOK, Saved

LEMMA JobsGo ==
  ASSUME JobsOK, UniqueOK, NEW j \in job, NEW at \in Place, Goes(j, at),
         row' = row, struck \subseteq struck', used \subseteq used',
         j.op = "send" => j.at = "read" /\ at = "write",
         j.op = "everyone" => /\ Saved(j.id) /\ row[j.id].by = j.s
                              /\ at # "write" => j.id \in struck'
  PROVE  /\ JobsOK' /\ UniqueOK'
         /\ \A l \in job' : \E i \in job : i.op = l.op /\ i.id = l.id /\ i.s = l.s
<1> DEFINE k == [j EXCEPT !.at = at]
<1>1. /\ k \in Job /\ k.op = j.op /\ k.s = j.s /\ k.m = j.m /\ k.id = j.id /\ k.at = at
  BY JobMoves DEF JobsOK
<1>2. job' = (job \ {j}) \cup {k}
  BY DEF Goes
<1> HIDE DEF k
<1>3. JobOK(k)'
  BY <1>1 DEF JobsOK, JobOK, Saved
<1>4. \A i \in job : JobOK(i)'
  BY DEF JobsOK, JobOK, Saved
<1>5. JobsOK'
  BY <1>1, <1>2, <1>3, <1>4 DEF JobsOK
<1>6. UniqueOK'
  BY <1>1, <1>2 DEF UniqueOK
<1> QED BY <1>1, <1>2, <1>5, <1>6

LEMMA JobsCome ==
  ASSUME JobsOK, UniqueOK, NEW k \in Job, k.at = "read", job' = job \cup {k},
         row' = row, struck' = struck, used \subseteq used',
         k.op = "send" => /\ k.s \in Parties(k.m) /\ k.id \in used'
                          /\ k.id \notin used /\ ~Saved(k.id)
  PROVE  JobsOK' /\ UniqueOK'
<1>1. JobOK(k)'
  BY DEF JobOK, Saved
<1>2. \A i \in job : JobOK(i)'
  BY DEF JobsOK, JobOK, Saved
<1>3. JobsOK'
  BY <1>1, <1>2 DEF JobsOK
<1>4. UniqueOK'
  BY ZenonT(30) DEF UniqueOK, JobsOK, JobOK
<1> QED BY <1>3, <1>4

LEMMA ItemsKept ==
  ASSUME row' = row, used \subseteq used',
         \A k \in job' : k.op = "send" =>
           \/ k.id \notin used
           \/ \E j \in job : j.op = k.op /\ j.id = k.id /\ j.s = k.s
  PROVE  \A i : ItemOK(i) => ItemOK(i)'
BY DEF ItemOK, Saved

LEMMA MarksKept ==
  ASSUME MarksOK, RestOK, struck \subseteq struck', marked' = marked,
         \A s \in Session, id \in MessageId :
           ItemOK([id |-> id, by |-> s]) => ItemOK([id |-> id, by |-> s])'
  PROVE  MarksOK'
BY DEF MarksOK, RestOK

LEMMA ListsKept ==
  ASSUME ListsOK, MarksOK, RestOK, list' = list, row' = row, used \subseteq used',
         \A k \in job' : k.op = "send" =>
           \/ k.id \notin used
           \/ \E j \in job : j.op = k.op /\ j.id = k.id /\ j.s = k.s
  PROVE  /\ ListsOK'
         /\ struck \subseteq struck' /\ marked' = marked => MarksOK'
<1>1. \A i : ItemOK(i) => ItemOK(i)'
  BY ItemsKept
<1>2. ListsOK'
  BY <1>1 DEF ListsOK
<1>3. ASSUME struck \subseteq struck', marked' = marked
      PROVE  MarksOK'
  <2>1. \A s \in Session, id \in MessageId :
           ItemOK([id |-> id, by |-> s]) => ItemOK([id |-> id, by |-> s])'
    <3> TAKE s \in Session, id \in MessageId
    <3> DEFINE i == [id |-> id, by |-> s]
    <3> HIDE DEF i
    <3>1. ItemOK(i) => ItemOK(i)'
      BY <1>1
    <3> QED BY <3>1 DEF i, ItemOK
  <2> QED BY <1>3, <2>1, MarksKept
<1> QED BY <1>2, <1>3

LEMMA PageKept ==
  ASSUME RowOK, ListsOK, ShownSaved, MarkedStruck, Grows, UNCHANGED <<list, marked>>
  PROVE  ShownSaved' /\ MarkedStruck'
<1>1. ShownSaved'
  <2> SUFFICES ASSUME NEW s \in Session, NEW i \in list[s], i.by # s
               PROVE  Saved(i.id)' /\ row'[i.id].by = i.by
                      /\ Parties(row'[i.id].m) = {s, i.by}
    BY DEF ShownSaved
  <2>1. i.id \in MessageId /\ Saved(i.id) /\ row'[i.id] = row[i.id]
    BY DEF ListsOK, ShownSaved, Grows
  <2> QED BY <2>1 DEF ShownSaved, Saved
<1>2. MarkedStruck'
  BY DEF MarkedStruck, Grows
<1> QED BY <1>1, <1>2

(***************************************************************************)
(* A step that changes no row and no page, ends or moves a request, and    *)
(* may strike a message or publish one.                                    *)
(***************************************************************************)
Else == <<match, page, reqs, faults>>

LEMMA QuietStep ==
  ASSUME IInv, row' = row, struck \subseteq struck', UNCHANGED <<store, list, marked, used>>,
         RestOK', InboxOK', JobsOK', UniqueOK',
         \A l \in job' : \E i \in job : i.op = l.op /\ i.id = l.id /\ i.s = l.s
  PROVE  IInv'
<1> USE DEF IInv
<1>1. Grows /\ RowOK'
  BY SameRows
<1>2. StoreOK'
  BY DEF StoreOK
<1>3. ListsOK' /\ MarksOK'
  BY ListsKept
<1>4. ShownSaved' /\ MarkedStruck'
  BY <1>1, PageKept
<1> QED BY <1>1, <1>2, <1>3, <1>4

LEMMA EndStep ==
  ASSUME IInv, NEW j \in job, Ends(j), row' = row, struck \subseteq struck',
         UNCHANGED <<store, list, marked, used, inbox>>, RestOK'
  PROVE  IInv'
<1> USE DEF IInv
<1>1. job' \subseteq job
  BY DEF Ends
<1>2. JobsOK' /\ UniqueOK'
  BY <1>1, JobsEnd
<1>3. InboxOK'
  BY SameRows, InboxKept
<1> QED BY <1>1, <1>2, <1>3, QuietStep

LEMMA GoStep ==
  ASSUME IInv, NEW j \in job, NEW at \in Place, Goes(j, at),
         row' = row, struck \subseteq struck',
         UNCHANGED <<store, list, marked, used, inbox>>, RestOK',
         j.op = "send" => j.at = "read" /\ at = "write",
         j.op = "everyone" => /\ Saved(j.id) /\ row[j.id].by = j.s
                              /\ at # "write" => j.id \in struck'
  PROVE  IInv'
<1> USE DEF IInv
<1>1. /\ JobsOK' /\ UniqueOK'
      /\ \A l \in job' : \E i \in job : i.op = l.op /\ i.id = l.id /\ i.s = l.s
  BY JobsGo
<1>2. InboxOK'
  BY SameRows, InboxKept
<1> QED BY <1>1, <1>2, QuietStep

LEMMA TellStep ==
  ASSUME IInv, NEW j \in job, Ends(j), UNCHANGED tables, UNCHANGED Else,
         NEW t \in Session, NEW msg \in Message, MsgOK(t, msg),
         inbox' = [inbox EXCEPT ![t] = Append(@, msg)]
  PROVE  IInv'
<1> USE DEF IInv, tables, Else, match, page
<1>1. job' \subseteq job
  BY DEF Ends
<1>2. JobsOK' /\ UniqueOK'
  BY <1>1, JobsEnd
<1>3. InboxOK'
  BY SameRows, InboxGets
<1>4. RestOK'
  BY DEF RestOK
<1> QED BY <1>1, <1>2, <1>3, <1>4, QuietStep

(***************************************************************************)
(* The steps of sendMessage.                                               *)
(***************************************************************************)
LEMMA SendReadInv ==
  ASSUME IInv, NEW j \in job, SendRead(j), UNCHANGED Else
  PROVE  IInv'
<1> USE DEF tables, Else, match, page
<1>1. RestOK'
  BY DEF IInv, RestOK, SendRead
<1>2. CASE Ends(j)
  BY <1>1, <1>2, EndStep DEF SendRead
<1>3. CASE Goes(j, "write")
  BY <1>1, <1>3, GoStep DEF SendRead, Place
<1> QED BY <1>2, <1>3 DEF SendRead

LEMMA SendInsertInv ==
  ASSUME IInv, NEW j \in job, SendInsert(j), UNCHANGED Else
  PROVE  IInv'
<1> USE DEF IInv, Else, match, page
<1> DEFINE new == [m |-> j.m, by |-> j.s]
           k   == [j EXCEPT !.at = "tell"]
<1>1. /\ j \in Job /\ j.op = "send" /\ j.s \in Session /\ j.m \in MatchId
      /\ j.id \in MessageId /\ ~Saved(j.id) /\ j.s \in Parties(j.m) /\ j.id \in used
  BY JobFacts DEF SendInsert, JobsOK, JobOK
<1>2. /\ k \in Job /\ k.op = "send" /\ k.s = j.s /\ k.m = j.m /\ k.id = j.id
      /\ k.at = "tell"
  BY <1>1, JobMoves DEF Place
<1>3. job' = (job \ {j}) \cup {k} /\ row' = [row EXCEPT ![j.id] = new]
  BY DEF SendInsert, Goes
<1>4. new \in [m : MatchId, by : Session] /\ new # NoRow /\ new.m = j.m /\ new.by = j.s
  BY <1>1, ChatAssumption DEF NoRow
<1>5. row'[j.id] = new /\ \A id \in MessageId : id # j.id => row'[id] = row[id]
  BY <1>1, <1>3 DEF RowOK
<1>6. UNCHANGED <<struck, old, hidden, cleared, inbox, store, list, marked, used>>
  BY DEF SendInsert
<1> HIDE DEF new, k
<1>7. RestOK' /\ StoreOK'
  BY <1>6 DEF RestOK, StoreOK
<1>8. Grows
  BY <1>1, <1>5, <1>6 DEF Grows
<1>9. RowOK'
  <2>1. row' \in [MessageId -> [m : MatchId, by : Session] \cup {NoRow}]
    BY <1>3, <1>4 DEF RowOK
  <2>2. ASSUME NEW id \in MessageId, Saved(id)'
        PROVE  row'[id].by \in Parties(row'[id].m) /\ id \in used'
    <3>1. CASE id = j.id
      BY <1>1, <1>4, <1>5, <1>6, <3>1
    <3>2. CASE id # j.id
      BY <1>5, <1>6, <2>2, <3>2 DEF RowOK, Saved
    <3> QED BY <3>1, <3>2
  <2> QED BY <2>1, <2>2 DEF RowOK
<1>10. UniqueOK'
  BY <1>1, <1>2, <1>3 DEF UniqueOK
<1>11. JobsOK'
  <2>1. JobOK(k)'
    BY <1>1, <1>2, <1>4, <1>5, <1>6 DEF JobOK, new
  <2>2. ASSUME NEW i \in job, i # j
        PROVE  JobOK(i)'
    <3>1. JobOK(i) /\ i \in Job
      BY DEF JobsOK
    <3>2. CASE i.op = "send"
      <4>1. i.id # j.id /\ i.id \in MessageId
        BY <1>1, <2>2, <3>1, <3>2, JobFacts DEF UniqueOK
      <4>2. row'[i.id] = row[i.id]
        BY <1>5, <4>1
      <4> QED BY <1>6, <3>1, <3>2, <4>2 DEF JobOK, Saved
    <3>3. CASE i.op = "everyone" /\ i.at # "read"
      <4>1. i.id \in MessageId /\ Saved(i.id)
        BY <3>1, <3>3, JobFacts DEF JobOK
      <4>2. row'[i.id] = row[i.id]
        BY <1>1, <1>5, <4>1
      <4> QED BY <1>6, <3>1, <3>3, <4>2 DEF JobOK, Saved
    <3> QED BY <3>2, <3>3 DEF JobOK
  <2> QED BY <1>2, <1>3, <2>1, <2>2 DEF JobsOK
<1>12. InboxOK'
  BY <1>6, <1>8, InboxKept
<1>13. ListsOK' /\ MarksOK'
  <2>1. ASSUME NEW i \in [id : MessageId, by : Session], ItemOK(i)
        PROVE  ItemOK(i)'
    <3>1. ItemOK(i) /\ i.id \in MessageId
      BY <2>1
    <3>2. Saved(i.id)' => row'[i.id].by = i.by
      <4>1. CASE i.id = j.id
        BY <1>1, <1>4, <1>5, <3>1, <4>1 DEF ItemOK
      <4>2. CASE i.id # j.id
        BY <1>5, <3>1, <4>2 DEF ItemOK, Saved
      <4> QED BY <4>1, <4>2
    <3>3. \A l \in job' : l.op = "send" /\ l.id = i.id => l.s = i.by
      BY <1>1, <1>2, <1>3, <3>1 DEF ItemOK
    <3> QED BY <1>6, <3>1, <3>2, <3>3 DEF ItemOK
  <2>2. ListsOK'
    BY <1>6, <2>1 DEF ListsOK
  <2>3. ASSUME NEW s \in Session, NEW id \in MessageId, ItemOK([id |-> id, by |-> s])
        PROVE  ItemOK([id |-> id, by |-> s])'
    <3> DEFINE i == [id |-> id, by |-> s]
    <3> HIDE DEF i
    <3>1. i \in [id : MessageId, by : Session]
      BY DEF i
    <3>2. ItemOK(i) => ItemOK(i)'
      BY <2>1, <3>1
    <3> QED BY <2>3, <3>2 DEF i, ItemOK
  <2> QED BY <1>6, <2>2, <2>3, MarksKept
<1>14. ShownSaved' /\ MarkedStruck'
  BY <1>6, <1>8, PageKept
<1> QED BY <1>7, <1>9, <1>10, <1>11, <1>12, <1>13, <1>14

LEMMA SendTellInv ==
  ASSUME IInv, NEW j \in job, SendTell(j), UNCHANGED Else
  PROVE  IInv'
<1> DEFINE t   == Peer(j.m, j.s)
           msg == [type |-> "chat:message", m |-> j.m, id |-> j.id, by |-> j.s]
<1>1. /\ j.s \in Session /\ j.m \in MatchId /\ j.id \in MessageId
      /\ j.s \in Parties(j.m) /\ row[j.id] = [m |-> j.m, by |-> j.s]
  BY JobFacts DEF IInv, JobsOK, JobOK, SendTell
<1>2. t \in Session /\ msg \in Message
  BY <1>1, PeerFacts DEF Message
<1>3. MsgOK(t, msg)
  BY <1>1 DEF MsgOK
<1>4. inbox' = [inbox EXCEPT ![t] = Append(@, msg)] /\ Ends(j) /\ UNCHANGED tables
  BY DEF SendTell, Publish
<1> HIDE DEF t, msg
<1> QED BY <1>2, <1>3, <1>4, TellStep

(***************************************************************************)
(* The steps of deleteMessage and deleteSessionChat.                       *)
(***************************************************************************)
LEMMA HideInv ==
  ASSUME IInv, NEW j \in job, HideFind(j) \/ HideInsert(j), UNCHANGED Else
  PROVE  IInv'
<1> USE DEF tables, Else, match, page
<1>1. j.s \in Session /\ (j.op = "me" => j.id \in MessageId)
  BY JobFacts DEF IInv, JobsOK
<1>2. CASE HideFind(j)
  <2>1. RestOK'
    BY <1>2 DEF IInv, RestOK, HideFind
  <2>2. CASE Ends(j)
    BY <1>2, <2>1, <2>2, EndStep DEF HideFind
  <2>3. CASE Goes(j, "write")
    BY <1>2, <2>1, <2>3, GoStep DEF HideFind, Place
  <2> QED BY <1>2, <2>2, <2>3 DEF HideFind
<1>3. CASE HideInsert(j)
  <2>1. RestOK'
    BY <1>1, <1>3 DEF IInv, RestOK, HideInsert
  <2> QED BY <1>3, <2>1, EndStep DEF HideInsert
<1> QED BY <1>2, <1>3

LEMMA StrikeInv ==
  ASSUME IInv, NEW j \in job, StrikeFind(j) \/ StrikeUpdate(j) \/ StrikeLook(j),
         UNCHANGED Else
  PROVE  IInv'
<1> USE DEF tables, Else, match, page
<1>1. /\ j.op = "everyone" /\ j.id \in MessageId
      /\ j.at # "read" => /\ Saved(j.id) /\ row[j.id].by = j.s
                          /\ j.at # "write" => j.id \in struck
  BY JobFacts DEF IInv, JobsOK, JobOK, StrikeFind, StrikeUpdate, StrikeLook
<1>2. CASE StrikeFind(j)
  <2>1. RestOK'
    BY <1>2 DEF IInv, RestOK, StrikeFind
  <2>2. CASE Ends(j)
    BY <1>2, <2>1, <2>2, EndStep DEF StrikeFind
  <2>3. CASE MayStrike(j) /\ Goes(j, "write")
    BY <1>1, <1>2, <2>1, <2>3, GoStep DEF StrikeFind, MayStrike, Place
  <2> QED BY <1>2, <2>2, <2>3 DEF StrikeFind
<1>3. CASE StrikeUpdate(j)
  <2>1. RestOK'
    BY <1>1, <1>3 DEF IInv, RestOK, StrikeUpdate
  <2> QED BY <1>1, <1>3, <2>1, GoStep DEF StrikeUpdate, Place
<1>4. CASE StrikeLook(j)
  <2>1. RestOK'
    BY <1>4 DEF IInv, RestOK, StrikeLook
  <2>2. CASE Ends(j)
    BY <1>4, <2>1, <2>2, EndStep DEF StrikeLook
  <2>3. CASE Goes(j, "tell")
    BY <1>1, <1>4, <2>1, <2>3, GoStep DEF StrikeLook, Place
  <2> QED BY <1>4, <2>2, <2>3 DEF StrikeLook
<1> QED BY <1>2, <1>3, <1>4

LEMMA StrikeTellInv ==
  ASSUME IInv, NEW j \in job, StrikeTell(j), UNCHANGED Else
  PROVE  IInv'
<1> DEFINE t   == Peer(row[j.id].m, j.s)
           msg == [type |-> "chat:message-deleted", m |-> row[j.id].m, id |-> j.id,
                   by |-> None]
<1>1. /\ j.id \in MessageId /\ Saved(j.id) /\ row[j.id].by = j.s /\ j.id \in struck
  BY JobFacts DEF IInv, JobsOK, JobOK, StrikeTell
<1>2. row[j.id].m \in MatchId /\ j.s \in Parties(row[j.id].m)
  BY <1>1, SavedFacts DEF IInv, RowOK
<1>3. t \in Session /\ msg \in Message
  BY <1>1, <1>2, PeerFacts DEF Message
<1>4. MsgOK(t, msg)
  BY <1>1 DEF MsgOK
<1>5. inbox' = [inbox EXCEPT ![t] = Append(@, msg)] /\ Ends(j) /\ UNCHANGED tables
  BY DEF StrikeTell, Publish
<1> HIDE DEF t, msg
<1> QED BY <1>3, <1>4, <1>5, TellStep

LEMMA EndingsInv ==
  ASSUME IInv, NEW j \in job, ClearInsert(j) \/ Ignore(j), UNCHANGED Else
  PROVE  IInv'
<1> USE DEF tables, Else, match, page
<1>1. RestOK'
  BY DEF IInv, RestOK, ClearInsert, Ignore
<1> QED BY <1>1, EndStep DEF ClearInsert, Ignore

LEMMA JobStepInv ==
  ASSUME IInv, NEW j \in job, JobStep(j)
  PROVE  IInv'
BY SendReadInv, SendInsertInv, SendTellInv, HideInv, StrikeInv, StrikeTellInv, EndingsInv
   DEF JobStep, Else

(***************************************************************************)
(* The page.                                                               *)
(***************************************************************************)
Rest == <<match, tables, inbox, reqs, faults>>

LEMMA WriteInv ==
  ASSUME IInv, NEW s \in Session, NEW id \in MessageId, Write(s, id), UNCHANGED Rest
  PROVE  IInv'
<1> USE DEF IInv, Rest, match, tables
<1> DEFINE k    == Request("send", s, store[s], id)
           item == [id |-> id, by |-> s]
<1>1. store[s] \in MatchId /\ s \in Parties(store[s]) /\ id \notin used /\ ~Saved(id)
  BY DEF Write, RestOK, StoreOK, RowOK
<1>2. /\ k \in Job /\ k.op = "send" /\ k.s = s /\ k.m = store[s] /\ k.id = id
      /\ k.at = "read"
  BY <1>1, RequestFacts
<1>3. /\ job' = job \cup {k} /\ used' = used \cup {id}
      /\ list' = [list EXCEPT ![s] = @ \cup {item}]
      /\ UNCHANGED <<store, marked>>
  BY DEF Write
<1>4. item \in [id : MessageId, by : Session] /\ item.id = id /\ item.by = s
  OBVIOUS
<1> HIDE DEF k, item
<1>5. RestOK' /\ StoreOK'
  BY <1>3 DEF RestOK, StoreOK
<1>6. Grows /\ RowOK'
  BY <1>3, SameRows
<1>7. JobsOK' /\ UniqueOK'
  BY <1>1, <1>2, <1>3, JobsCome
<1>8. InboxOK'
  BY <1>6, InboxKept
<1>9. ListsOK'
  <2>1. list' \in [Session -> SUBSET [id : MessageId, by : Session]]
    BY <1>3, <1>4 DEF ListsOK
  <2>2. ItemOK(item)'
    <3>1. \A j \in job : j.op = "send" => j.id # id
      BY <1>1 DEF JobsOK, JobOK
    <3> QED BY <1>1, <1>2, <1>3, <1>4, <3>1 DEF ItemOK, Saved
  <2>3. ASSUME NEW t \in Session, NEW i \in list[t]
        PROVE  ItemOK(i)'
    <3>1. ItemOK(i)
      BY DEF ListsOK
    <3> QED BY <1>1, <1>2, <1>3, <3>1 DEF ItemOK, Saved
  <2>4. \A t \in Session : list'[t] \subseteq list[t] \cup {item}
    BY <1>3 DEF ListsOK
  <2> QED BY <2>1, <2>2, <2>3, <2>4 DEF ListsOK
<1>10. \A t \in Session : \A i \in list'[t] : i.by # t => i \in list[t]
  BY <1>3, <1>4 DEF ListsOK
<1>11. ShownSaved'
  BY <1>10 DEF ShownSaved, Saved
<1>12. MarkedStruck'
  BY <1>3, <1>10 DEF MarkedStruck
<1>13. MarksOK'
  <2>1. \A t \in Session, x \in MessageId :
          ItemOK([id |-> x, by |-> t]) => ItemOK([id |-> x, by |-> t])'
    BY <1>1, <1>2, <1>3 DEF ItemOK, Saved
  <2> QED BY <1>3, <2>1, MarksKept
<1> QED BY <1>5, <1>6, <1>7, <1>8, <1>9, <1>11, <1>12, <1>13

LEMMA DeleteForMeInv ==
  ASSUME IInv, NEW s \in Session, NEW i \in list[s], DeleteForMe(s, i), UNCHANGED Rest
  PROVE  IInv'
<1> USE DEF IInv, Rest, match, tables
<1>1. UNCHANGED <<job, store, marked, used>>
  BY DEF DeleteForMe
<1>2. \A t \in Session : list'[t] \subseteq list[t]
  BY DEF DeleteForMe, ListsOK
<1>3. RestOK' /\ StoreOK'
  BY <1>1 DEF RestOK, StoreOK
<1>4. Grows /\ RowOK'
  BY <1>1, SameRows
<1>5. JobsOK' /\ UniqueOK'
  BY <1>1, JobsEnd
<1>6. InboxOK'
  BY <1>4, InboxKept
<1>7. ListsOK'
  <2>1. list' \in [Session -> SUBSET [id : MessageId, by : Session]]
    BY DEF DeleteForMe, ListsOK
  <2>2. ASSUME NEW t \in Session, NEW l \in list[t]
        PROVE  ItemOK(l)'
    BY <1>1 DEF ListsOK, ItemOK, Saved
  <2> QED BY <1>2, <2>1, <2>2 DEF ListsOK
<1>8. ShownSaved' /\ MarkedStruck'
  <2>1. ShownSaved'
    BY <1>2 DEF ShownSaved, Saved
  <2>2. MarkedStruck'
    BY <1>1, <1>2 DEF MarkedStruck
  <2> QED BY <2>1, <2>2
<1>9. MarksOK'
  BY <1>1 DEF MarksOK, ItemOK, Saved
<1> QED BY <1>3, <1>4, <1>5, <1>6, <1>7, <1>8, <1>9

LEMMA DeleteForEveryoneInv ==
  ASSUME IInv, NEW s \in Session, NEW i \in list[s], DeleteForEveryone(s, i),
         UNCHANGED Rest
  PROVE  IInv'
<1> USE DEF IInv, Rest, match, tables
<1> DEFINE k == Request("ignored", s, store[s], i.id)
<1>1. i.id \in MessageId /\ i.by = s /\ store[s] \in MatchId
  BY DEF DeleteForEveryone, ListsOK, RestOK
<1>2. k \in Job /\ k.op = "ignored" /\ k.at = "read"
  BY <1>1, RequestFacts
<1>3. /\ job' = job \cup {k} /\ marked' = [marked EXCEPT ![s] = @ \cup {i.id}]
      /\ UNCHANGED <<store, list, used>>
  BY DEF DeleteForEveryone
<1> HIDE DEF k
<1>4. RestOK' /\ StoreOK'
  <2>1. marked' \in [Session -> SUBSET MessageId]
    BY <1>1, <1>3 DEF RestOK
  <2> QED BY <1>3, <2>1 DEF RestOK, StoreOK
<1>5. Grows /\ RowOK'
  BY <1>3, SameRows
<1>6. JobsOK' /\ UniqueOK'
  BY <1>2, <1>3, JobsCome
<1>7. InboxOK'
  BY <1>5, InboxKept
<1>8. ListsOK'
  BY <1>2, <1>3, ListsKept
<1>9. ShownSaved'
  BY <1>3 DEF ShownSaved, Saved
<1>10. MarkedStruck'
  <2> SUFFICES ASSUME NEW t \in Session, NEW l \in list[t], l.by # t, l.id \in marked'[t]
               PROVE  l.id \in struck
    BY <1>3 DEF MarkedStruck
  <2>1. l.id # i.id \/ t # s
    BY <1>1 DEF ShownSaved, ListsOK, ItemOK
  <2>2. l.id \in marked[t]
    BY <1>3, <2>1 DEF RestOK
  <2> QED BY <2>2 DEF MarkedStruck
<1>11. MarksOK'
  <2>1. \A t \in Session, id \in MessageId :
          ItemOK([id |-> id, by |-> t]) => ItemOK([id |-> id, by |-> t])'
    BY <1>2, <1>3 DEF ItemOK, Saved
  <2>2. ItemOK([id |-> i.id, by |-> s])
    <3>1. ItemOK(i) /\ i.by = s
      BY <1>1 DEF ListsOK
    <3> QED BY <3>1 DEF ItemOK
  <2>3. ASSUME NEW t \in Session, NEW id \in marked'[t]
        PROVE  id \in struck \/ ItemOK([id |-> id, by |-> t])
    BY <1>3, <2>2 DEF MarksOK, RestOK
  <2>4. \A t \in Session : marked'[t] \subseteq MessageId
    BY <1>4 DEF RestOK
  <2> QED BY <1>3, <2>1, <2>3, <2>4 DEF MarksOK
<1> QED BY <1>4, <1>5, <1>6, <1>7, <1>8, <1>9, <1>10, <1>11

(* A step that touches neither requests in a way that matters, nor rows,   *)
(* messages on their way or lists.                                         *)
LEMMA StillStep ==
  ASSUME IInv, RestOK', StoreOK', UNCHANGED <<row, struck, list, marked, used, inbox, job>>
  PROVE  IInv'
<1> USE DEF IInv
<1>1. Grows /\ RowOK'
  BY SameRows
<1>2. JobsOK' /\ UniqueOK'
  BY JobsEnd
<1>3. InboxOK'
  BY <1>1, InboxKept
<1>4. ListsOK' /\ MarksOK'
  BY ListsKept
<1>5. ShownSaved' /\ MarkedStruck'
  BY <1>1, PageKept
<1> QED BY <1>1, <1>2, <1>3, <1>4, <1>5

LEMMA ClickInv ==
  ASSUME IInv, NEW s \in Session, Click(s)
  PROVE  IInv'
<1>1. CASE Skip(s)
  <2> USE <1>1 DEF match, tables
  <2>1. RestOK'
    BY DEF IInv, RestOK, Skip, Click
  <2>2. StoreOK'
    BY DEF IInv, StoreOK, RestOK, Skip, Click
  <2> QED BY <2>1, <2>2, StillStep DEF Skip, Click
<1> QED BY <1>1, WriteInv, DeleteForMeInv, DeleteForEveryoneInv DEF Click, Rest

(***************************************************************************)
(* A message that comes.                                                   *)
(***************************************************************************)
LEMMA InboxTakes ==
  ASSUME RowOK, InboxOK, Grows, NEW t \in Session, inbox[t] # <<>>,
         inbox' = [inbox EXCEPT ![t] = Tail(@)]
  PROVE  /\ InboxOK'
         /\ Head(inbox[t]) \in Message /\ MsgOK(t, Head(inbox[t]))
<1>1. inbox[t] \in Seq(Message) /\ Len(inbox[t]) \in Nat \ {0}
  BY EmptySeq, LenProperties DEF InboxOK
<1>2. Head(inbox[t]) = inbox[t][1] /\ 1 \in 1 .. Len(inbox[t])
  BY <1>1, HeadTailProperties
<1>3. Head(inbox[t]) \in Message /\ MsgOK(t, Head(inbox[t]))
  <2>1. Head(inbox[t]) \in Message
    BY <1>1, HeadTailProperties
  <2> QED BY <1>2, <2>1 DEF InboxOK
<1>4. inbox' \in [Session -> Seq(Message)]
  BY <1>1, HeadTailProperties DEF InboxOK
<1>5. ASSUME NEW s \in Session, NEW n \in 1 .. Len(inbox'[s])
      PROVE  MsgOK(s, inbox[s][n])'
  <2>1. \E o \in 1 .. Len(inbox[s]) : inbox'[s][n] = inbox[s][o]
    <3>1. CASE s = t
      <4>1. inbox'[s] = Tail(inbox[t])
        BY <3>1 DEF InboxOK
      <4>2. Len(Tail(inbox[t])) = Len(inbox[t]) - 1
        BY <1>1, HeadTailProperties
      <4>3. n \in 1 .. (Len(inbox[t]) - 1)
        BY <4>1, <4>2
      <4>4. n + 1 \in 1 .. Len(inbox[t])
        BY <1>1, <4>3
      <4>5. Tail(inbox[t])[n] = inbox[t][n + 1]
        BY <1>1, <4>1, <4>2, HeadTailProperties
      <4> QED BY <3>1, <4>1, <4>4, <4>5
    <3>2. CASE s # t
      BY <3>2 DEF InboxOK
    <3> QED BY <3>1, <3>2
  <2> DEFINE got == inbox'[s][n]
  <2>2. got \in Message /\ MsgOK(s, got)
    <3>1. inbox[s] \in Seq(Message)
      BY DEF InboxOK
    <3> QED BY <2>1, <3>1, ElementOfSeq DEF InboxOK
  <2> HIDE DEF got
  <2>3. \A x : x \in Message /\ MsgOK(s, x) => MsgOK(s, x)'
    BY MsgKept
  <2> QED BY <2>2, <2>3 DEF got, MsgOK
<1> QED BY <1>3, <1>4, <1>5 DEF InboxOK

LEMMA DeliverInv ==
  ASSUME IInv, NEW s \in Session, Deliver(s)
  PROVE  IInv'
<1> USE DEF IInv, match, tables
<1> DEFINE msg  == Head(inbox[s])
           item == [id |-> msg.id, by |-> msg.by]
<1>1. /\ UNCHANGED <<match, tables, job, reqs, faults, store, used>>
      /\ inbox[s] # <<>> /\ inbox' = [inbox EXCEPT ![s] = Tail(@)]
  BY DEF Deliver, ChatMessageReceived, ChatMessageDeleted
<1>2. Grows /\ RowOK'
  BY <1>1, SameRows
<1>3. InboxOK' /\ msg \in Message /\ MsgOK(s, msg)
  BY <1>1, <1>2, InboxTakes
<1>4. JobsOK' /\ UniqueOK' /\ StoreOK'
  BY <1>1, JobsEnd DEF StoreOK
<1>5. msg.m \in MatchId /\ msg.id \in MessageId
  BY <1>3, MessageFacts
<1>6. CASE ChatMessageReceived(s, msg)
  <2>1. /\ msg.type = "chat:message" /\ marked' = marked
        /\ list' = [list EXCEPT ![s] = @ \cup {item}]
    BY <1>6 DEF ChatMessageReceived
  <2>2. /\ msg.by \in Session /\ Saved(msg.id) /\ row[msg.id].m = msg.m
        /\ row[msg.id].by = msg.by /\ s = Peer(msg.m, msg.by)
    BY <1>3, <1>5, <2>1, MessageFacts, SavedFacts DEF MsgOK
  <2>3. /\ item \in [id : MessageId, by : Session]
        /\ item.id = msg.id /\ item.by = msg.by
    BY <1>5, <2>2
  <2>4. /\ msg.by \in Parties(msg.m) /\ Parties(msg.m) = {s, msg.by}
        /\ msg.id \in used
    BY <1>5, <2>2, PeerFacts DEF RowOK
  <2> HIDE DEF msg, item
  <2>5. RestOK'
    BY <1>1, <2>1 DEF RestOK
  <2>6. ItemOK(item)
    <3>1. \A j \in job : j.op = "send" /\ j.id = msg.id => j.s = msg.by
      <4> SUFFICES ASSUME NEW j \in job, j.op = "send", j.id = msg.id
                   PROVE  j.s = msg.by
        OBVIOUS
      <4>1. JobOK(j) /\ j \in Job /\ j.at \in Place /\ j.s \in Session /\ j.m \in MatchId
        BY JobFacts DEF JobsOK
      <4>2. row[msg.id] = [m |-> j.m, by |-> j.s]
        BY <2>2, <4>1 DEF JobOK, Place
      <4>3. row[msg.id].by = j.s
        BY <1>5, <4>1, <4>2, SavedFacts
      <4> QED BY <2>2, <4>3
    <3> QED BY <2>2, <2>3, <2>4, <3>1 DEF ItemOK
  <2>7. ListsOK'
    <3>1. list' \in [Session -> SUBSET [id : MessageId, by : Session]]
      BY <2>1, <2>3 DEF ListsOK
    <3>2. \A i : ItemOK(i)' <=> ItemOK(i)
      BY <1>1 DEF ItemOK, Saved
    <3>3. \A t \in Session : list'[t] \subseteq list[t] \cup {item}
      BY <2>1 DEF ListsOK
    <3>4. \A t \in Session : \A i \in list'[t] : ItemOK(i)
      BY <2>6, <3>3 DEF ListsOK
    <3> QED BY <3>1, <3>2, <3>4 DEF ListsOK
  <2>8. \A t \in Session : \A i \in list'[t] : i \in list[t] \/ (t = s /\ i = item)
    BY <2>1 DEF ListsOK
  <2>9. ShownSaved'
    BY <1>1, <2>2, <2>3, <2>4, <2>8 DEF ShownSaved, Saved
  <2>10. MarkedStruck'
    <3> SUFFICES ASSUME NEW t \in Session, NEW i \in list'[t], i.by # t, i.id \in marked[t]
                 PROVE  i.id \in struck
      BY <1>1, <2>1 DEF MarkedStruck
    <3>1. CASE i \in list[t]
      BY <3>1 DEF MarkedStruck
    <3>2. CASE t = s /\ i = item
      <4>1. msg.id \in struck \/ ItemOK([id |-> msg.id, by |-> s])
        BY <2>3, <3>2 DEF MarksOK
      <4>2. ~ItemOK([id |-> msg.id, by |-> s])
        BY <2>2, <2>3, <3>2 DEF ItemOK
      <4> QED BY <2>3, <3>2, <4>1, <4>2
    <3> QED BY <2>8, <3>1, <3>2
  <2>11. MarksOK'
    BY <1>1, <2>1 DEF MarksOK, ItemOK, Saved
  <2> QED BY <1>2, <1>3, <1>4, <2>5, <2>7, <2>9, <2>10, <2>11
<1>7. CASE ChatMessageDeleted(s, msg)
  <2>1. /\ msg.type = "chat:message-deleted" /\ list' = list
        /\ marked' = [marked EXCEPT ![s] = @ \cup ({msg.id} \cap Ids(list[s]))]
    BY <1>7 DEF ChatMessageDeleted
  <2>2. msg.id \in struck
    BY <1>3, <2>1 DEF MsgOK
  <2> HIDE DEF msg
  <2>3. RestOK'
    <3>1. marked' \in [Session -> SUBSET MessageId]
      BY <1>5, <2>1 DEF RestOK
    <3> QED BY <1>1, <2>1, <3>1 DEF RestOK
  <2>4. ListsOK'
    BY <1>1, <2>1, ListsKept
  <2>5. ShownSaved'
    BY <1>1, <2>1 DEF ShownSaved, Saved
  <2>6. MarkedStruck'
    BY <1>1, <2>1, <2>2 DEF MarkedStruck, RestOK
  <2>7. MarksOK'
    <3>1. \A t \in Session : \A id \in marked'[t] : id \in marked[t] \/ id = msg.id
      BY <2>1 DEF RestOK
    <3> QED BY <1>1, <2>2, <3>1 DEF MarksOK, ItemOK, Saved
  <2> QED BY <1>2, <1>3, <1>4, <2>3, <2>4, <2>5, <2>6, <2>7
<1> QED BY <1>6, <1>7 DEF Deliver

(***************************************************************************)
(* The environment.                                                        *)
(***************************************************************************)
LEMMA BeginMatchInv ==
  ASSUME IInv, NEW m \in MatchId, BeginMatch(m)
  PROVE  IInv'
<1> USE DEF tables
<1>1. RestOK'
  BY DEF IInv, RestOK, BeginMatch
<1>2. StoreOK'
  BY DEF IInv, StoreOK, BeginMatch
<1> QED BY <1>1, <1>2, StillStep DEF BeginMatch

LEMMA EndMatchInv ==
  ASSUME IInv, NEW m \in MatchId, EndMatch(m)
  PROVE  IInv'
<1> USE DEF tables, page
<1>1. RestOK' /\ StoreOK'
  BY DEF IInv, RestOK, StoreOK, EndMatch
<1> QED BY <1>1, StillStep DEF EndMatch

LEMMA WindowEndsInv ==
  ASSUME IInv, NEW id \in MessageId, WindowEnds(id)
  PROVE  IInv'
<1> USE DEF match, page
<1>1. RestOK' /\ StoreOK'
  BY DEF IInv, RestOK, StoreOK, WindowEnds
<1> QED BY <1>1, StillStep DEF WindowEnds

LEMMA JobThrowsInv ==
  ASSUME IInv, NEW j \in job, JobThrows(j)
  PROVE  IInv'
<1> USE DEF match, tables, page
<1>1. RestOK'
  BY DEF IInv, RestOK, JobThrows
<1> QED BY <1>1, EndStep DEF JobThrows

LEMMA AskOverHttpInv ==
  ASSUME IInv, NEW s \in Session, AskOverHttp(s)
  PROVE  IInv'
<1> USE DEF IInv, match, tables, page
<1>1. PICK k \in Job : k.op # "send" /\ k.at = "read" /\ job' = job \cup {k}
  <2>1. ASSUME NEW op \in {"me", "everyone"}, NEW id \in MessageId,
               job' = job \cup {Request(op, s, None, id)}
        PROVE  \E k \in Job : k.op # "send" /\ k.at = "read" /\ job' = job \cup {k}
    <3>1. /\ Request(op, s, None, id) \in Job /\ Request(op, s, None, id).op = op
          /\ Request(op, s, None, id).at = "read"
      BY RequestFacts
    <3> QED BY <2>1, <3>1
  <2>2. ASSUME NEW m \in MatchId, job' = job \cup {Request("session", s, m, None)}
        PROVE  \E k \in Job : k.op # "send" /\ k.at = "read" /\ job' = job \cup {k}
    <3>1. /\ Request("session", s, m, None) \in Job
          /\ Request("session", s, m, None).op = "session"
          /\ Request("session", s, m, None).at = "read"
      BY RequestFacts
    <3> QED BY <2>2, <3>1
  <2> QED BY <2>1, <2>2 DEF AskOverHttp
<1>2. RestOK' /\ StoreOK'
  BY DEF RestOK, StoreOK, AskOverHttp
<1>3. Grows /\ RowOK'
  BY SameRows DEF AskOverHttp
<1>4. JobsOK' /\ UniqueOK'
  BY <1>1, JobsCome DEF AskOverHttp
<1>5. InboxOK'
  BY <1>3, InboxKept DEF AskOverHttp
<1>6. ListsOK' /\ MarksOK'
  BY <1>1, ListsKept DEF AskOverHttp
<1>7. ShownSaved' /\ MarkedStruck'
  BY <1>3, PageKept DEF AskOverHttp
<1> QED BY <1>2, <1>3, <1>4, <1>5, <1>6, <1>7

(***************************************************************************)
(* Every step keeps the invariant.                                         *)
(***************************************************************************)
LEMMA NextInv ==
  ASSUME IInv, [Next]_vars
  PROVE  IInv'
<1>1. CASE UNCHANGED vars
  <2> USE <1>1 DEF vars, match, tables, page
  <2>1. RestOK' /\ StoreOK'
    BY DEF IInv, RestOK, StoreOK
  <2> QED BY <2>1, StillStep
<1> QED BY <1>1, JobStepInv, JobThrowsInv, ClickInv, DeliverInv,
           AskOverHttpInv, BeginMatchInv, EndMatchInv, WindowEndsInv DEF Next

THEOREM Invariance == Spec => []IInv
<1>1. IInv /\ [Next]_vars => IInv'
  BY NextInv
<1> QED BY InitInv, <1>1, PTL DEF Spec

(* Every variable keeps its shape, and a message has its sender's match.   *)
THEOREM ChatType == Spec => []TypeOK
BY Invariance, InvImplies, PTL

(* What a page shows of another is in the table, from a match of the two.  *)
THEOREM ChatShown == Spec => []ShownSaved
<1>1. IInv => ShownSaved
  BY DEF IInv
<1> QED BY Invariance, <1>1, PTL

(* What a page shows of another as deleted is deleted.                     *)
THEOREM ChatMarked == Spec => []MarkedStruck
<1>1. IInv => MarkedStruck
  BY DEF IInv
<1> QED BY Invariance, <1>1, PTL
=============================================================================
