-------------------------- MODULE ModerationProofs --------------------------
(***************************************************************************)
(* A ban rests on reports that were made, and enough of them end in one;   *)
(* Redis keeps apart only whom PostgreSQL does, and lets each worker pair  *)
(* those once more: for any number of sessions, matches, reports, requests *)
(* and failures.                                                           *)
(***************************************************************************)
EXTENDS Moderation, FiniteSetTheorems, TLAPS

JobsOK ==
  /\ job \subseteq ReportJob \cup BlockJob
  /\ \A j \in job : j.s \in Parties(j.m)

(* A block that was inserted, and that Redis is to be told of.             *)
InsertedOK ==
  \A j \in job : j.op = "block" /\ j.at = "sadd" => <<j.s, Peer(j.m, j.s)>> \in blocks

(* A report has one request, and is not stored before its insert.          *)
UniqueOK ==
  /\ \A j, k \in job : j.op = "report" /\ k.op = "report" /\ j.id = k.id => j = k
  /\ \A j \in job : j.op = "report" /\ j.at \in {"read", "insert"} => reports[j.id] = NoReport

(* Three reports of s that no more than a day lies between.                *)
Earned(rs, s) ==
  /\ Enough(rs)
  /\ \A r \in rs : reports[r].of = s
  /\ \A r, q \in rs : reports[r].at <= reports[q].at + Day

CountedOK ==
  /\ \A r \in ReportId : reports[r].at <= now
  /\ \A j \in job : j.op = "report" /\ j.at = "ban" => Earned(j.recent, Peer(j.m, j.s))
  /\ \A b \in bans : Earned(b.recent, b.s)

RestOK ==
  /\ begun \subseteq MatchId /\ open \subseteq begun /\ despite \subseteq begun
  /\ pairing \in [Pod -> MatchId \cup {None}]
  /\ reports \in [ReportId -> [of : Session, at : Nat] \cup {NoReport}]
  /\ bans \subseteq [s : Session, until : Nat, recent : SUBSET ReportId]
  /\ blocks \subseteq Session \X Session
  /\ excluded \in [Session -> SUBSET Session]
  /\ now \in Nat /\ lapses \in Nat /\ asked \in Nat /\ faults \in Nat

IInv == RestOK /\ JobsOK /\ InsertedOK /\ BlocksRecorded /\ UniqueOK /\ CountedOK

LEMMA InvImplies == IInv => TypeOK /\ BlocksRecorded /\ BansEarned
BY DEF IInv, RestOK, JobsOK, TypeOK, CountedOK, Earned, Enough, BansEarned

(***************************************************************************)
(* The two of a match, and what a step makes of a request.                 *)
(***************************************************************************)
LEMMA PeerFacts ==
  ASSUME NEW m \in MatchId
  PROVE  /\ Parties(m) \subseteq Session
         /\ \A s \in Parties(m) : Peer(m, s) \in Session
BY ModerationAssumption DEF Parties, Peer

LEMMA JobFacts ==
  ASSUME JobsOK, NEW j \in job
  PROVE  /\ j.m \in MatchId /\ j.s \in Session /\ Peer(j.m, j.s) \in Session
         /\ j \in ReportJob \/ j \in BlockJob
         /\ j.op = "report" => j \in ReportJob /\ j.id \in ReportId
         /\ j.op = "block" => j \in BlockJob
BY PeerFacts DEF JobsOK, ReportJob, BlockJob

LEMMA ReportMoves ==
  ASSUME NEW j \in ReportJob, NEW at \in {"read", "insert", "count", "ban"},
         NEW k, k = [j EXCEPT !.at = at]
  PROVE  /\ k \in ReportJob /\ k.op = j.op /\ k.s = j.s /\ k.m = j.m /\ k.id = j.id
         /\ k.at = at /\ k.recent = j.recent
BY DEF ReportJob

LEMMA BlockMoves ==
  ASSUME NEW j \in BlockJob, NEW at \in {"read", "insert", "sadd"},
         NEW k, k = [j EXCEPT !.at = at]
  PROVE  /\ k \in BlockJob /\ k.op = j.op /\ k.s = j.s /\ k.m = j.m /\ k.at = at
BY DEF BlockJob

LEMMA InitInv == Init => IInv
<1> SUFFICES ASSUME Init PROVE IInv
  OBVIOUS
<1>1. RestOK
  BY DEF Init, RestOK
<1>2. JobsOK /\ InsertedOK /\ UniqueOK
  BY DEF Init, JobsOK, InsertedOK, UniqueOK
<1>3. BlocksRecorded
  BY DEF Init, BlocksRecorded
<1>4. CountedOK
  BY DEF Init, CountedOK, NoReport
<1> QED BY <1>1, <1>2, <1>3, <1>4 DEF IInv

(***************************************************************************)
(* A request that ends, and one that goes on, leave the others as they are.*)
(***************************************************************************)
LEMMA EndsInv ==
  ASSUME JobsOK, InsertedOK, UniqueOK, NEW j \in job, Ends(j), UNCHANGED reports,
         blocks \subseteq blocks'
  PROVE  JobsOK' /\ InsertedOK' /\ UniqueOK'
BY DEF Ends, JobsOK, InsertedOK, UniqueOK

LEMMA BlockGoes ==
  ASSUME JobsOK, InsertedOK, UniqueOK, NEW j \in job, j.op = "block",
         NEW at \in {"insert", "sadd"}, Goes(j, at), UNCHANGED reports,
         blocks \subseteq blocks', at = "sadd" => <<j.s, Peer(j.m, j.s)>> \in blocks'
  PROVE  JobsOK' /\ InsertedOK' /\ UniqueOK'
<1> DEFINE k == [j EXCEPT !.at = at]
<1>1. /\ k \in BlockJob /\ k.op = "block" /\ k.s = j.s /\ k.m = j.m /\ k.at = at
  BY JobFacts, BlockMoves
<1>2. job' = (job \ {j}) \cup {k}
  BY DEF Goes
<1> HIDE DEF k
<1>3. JobsOK'
  BY <1>1, <1>2 DEF JobsOK
<1>4. InsertedOK'
  BY <1>1, <1>2 DEF InsertedOK
<1>5. UniqueOK'
  BY <1>1, <1>2 DEF UniqueOK
<1> QED BY <1>3, <1>4, <1>5

LEMMA ReportGoes ==
  ASSUME JobsOK, InsertedOK, UniqueOK, NEW j \in job, j.op = "report",
         NEW k \in ReportJob, k.op = "report", k.s = j.s, k.m = j.m, k.id = j.id,
         job' = (job \ {j}) \cup {k}, blocks' = blocks,
         \A r \in ReportId : r # j.id => reports'[r] = reports[r],
         k.at \in {"read", "insert"} => reports'[j.id] = NoReport
  PROVE  JobsOK' /\ InsertedOK' /\ UniqueOK'
<1>1. JobsOK'
  BY DEF JobsOK
<1>2. InsertedOK'
  BY DEF InsertedOK
<1>3. (\A i, l \in job : i.op = "report" /\ l.op = "report" /\ i.id = l.id => i = l)'
  BY DEF UniqueOK
<1>4. ASSUME NEW i \in job', i.op = "report", i.at \in {"read", "insert"}
      PROVE  reports'[i.id] = NoReport
  <2>1. CASE i = k
    BY <2>1, <1>4
  <2>2. CASE i # k
    <3>1. i \in job /\ i # j
      BY <2>2
    <3>2. i.id # j.id
      BY <3>1, <1>4 DEF UniqueOK
    <3>3. i.id \in ReportId
      BY <3>1, <1>4, JobFacts
    <3> QED BY <3>1, <3>2, <3>3, <1>4 DEF UniqueOK
  <2> QED BY <2>1, <2>2
<1>5. UniqueOK'
  BY <1>3, <1>4 DEF UniqueOK
<1> QED BY <1>1, <1>2, <1>5

(* What was counted stays counted while reports are only added.            *)
LEMMA EarnedKept ==
  ASSUME NEW rs \in SUBSET ReportId, NEW s \in Session, Earned(rs, s),
         \A r \in ReportId : reports[r] # NoReport => reports'[r] = reports[r]
  PROVE  Earned(rs, s)'
<1>1. \A r \in rs : reports'[r] = reports[r]
  BY ModerationAssumption DEF Earned, NoReport
<1> QED BY <1>1 DEF Earned, Enough

LEMMA CountedKept ==
  ASSUME RestOK, JobsOK, CountedOK, bans' = bans, now' \in Nat, now <= now',
         UNCHANGED reports,
         \A j \in job' : j.op = "report" /\ j.at = "ban" => j \in job
  PROVE  CountedOK'
<1>1. \A r \in ReportId : reports'[r].at <= now'
  <2> SUFFICES ASSUME NEW r \in ReportId PROVE reports[r].at <= now'
    OBVIOUS
  <2>1. reports[r].at \in Nat /\ now \in Nat /\ reports[r].at <= now
    BY DEF RestOK, NoReport, CountedOK
  <2> QED BY <2>1
<1>2. ASSUME NEW j \in job', j.op = "report", j.at = "ban"
      PROVE  Earned(j.recent, Peer(j.m, j.s))'
  BY <1>2 DEF CountedOK, Earned, Enough
<1>3. ASSUME NEW b \in bans'
      PROVE  Earned(b.recent, b.s)'
  BY <1>3 DEF CountedOK, Earned, Enough
<1> QED BY <1>1, <1>2, <1>3 DEF CountedOK

(***************************************************************************)
(* One lemma for each step of a request.                                   *)
(***************************************************************************)
Else == <<begun, open, pairing, despite, now, lapses, asked, faults>>

LEMMA ReadMatchInv ==
  ASSUME IInv, NEW j \in job, ReadMatch(j), UNCHANGED Else
  PROVE  IInv'
<1> USE DEF IInv, report, block, Else
<1>1. RestOK' /\ BlocksRecorded'
  BY DEF ReadMatch, RestOK, BlocksRecorded
<1>2. CASE Ends(j)
  <2>1. JobsOK' /\ InsertedOK' /\ UniqueOK'
    BY <1>2, EndsInv DEF ReadMatch
  <2>2. CountedOK'
    BY <1>2, CountedKept DEF ReadMatch, Ends, RestOK
  <2> QED BY <1>1, <2>1, <2>2
<1>3. CASE Goes(j, "insert")
  <2> DEFINE k == [j EXCEPT !.at = "insert"]
  <2>1. job' = (job \ {j}) \cup {k} /\ k.at = "insert"
    BY <1>3, JobFacts DEF Goes, ReportJob, BlockJob
  <2>2. JobsOK' /\ InsertedOK' /\ UniqueOK'
    <3>1. CASE j.op = "block"
      BY <1>3, <3>1, BlockGoes DEF ReadMatch
    <3>2. CASE j.op = "report"
      <4>1. k \in ReportJob /\ k.op = j.op /\ k.s = j.s /\ k.m = j.m /\ k.id = j.id
        BY <3>2, JobFacts, ReportMoves
      <4>2. reports[j.id] = NoReport
        BY <3>2 DEF ReadMatch, UniqueOK
      <4> QED BY <2>1, <3>2, <4>1, <4>2, ReportGoes DEF ReadMatch
    <3> QED BY <3>1, <3>2, JobFacts DEF ReportJob, BlockJob
  <2>3. \A i \in job' : i.at = "ban" => i \in job
    BY <2>1
  <2>4. CountedOK'
    BY <2>3, CountedKept DEF ReadMatch, RestOK
  <2> QED BY <1>1, <2>2, <2>4
<1> QED BY <1>2, <1>3 DEF ReadMatch

LEMMA InsertReportInv ==
  ASSUME IInv, NEW j \in job, InsertReport(j), UNCHANGED Else
  PROVE  IInv'
<1> USE DEF IInv, report, block, Else
<1> DEFINE k == [j EXCEPT !.at = "count"]
           new == [of |-> Peer(j.m, j.s), at |-> now]
<1>1. /\ k \in ReportJob /\ k.op = "report" /\ k.s = j.s /\ k.m = j.m /\ k.id = j.id
      /\ k.at = "count" /\ j.id \in ReportId /\ Peer(j.m, j.s) \in Session
  BY JobFacts, ReportMoves DEF InsertReport
<1>2. job' = (job \ {j}) \cup {k} /\ reports' = [reports EXCEPT ![j.id] = new]
  BY DEF InsertReport, Goes
<1>3. new \in [of : Session, at : Nat] /\ new.at = now
  BY <1>1 DEF RestOK
<1>4. \A r \in ReportId : r # j.id => reports'[r] = reports[r]
  BY <1>2 DEF RestOK
<1>5. reports[j.id] = NoReport /\ reports'[j.id] = new
  BY <1>1, <1>2 DEF InsertReport, UniqueOK, RestOK
<1> HIDE DEF k, new
<1>6. RestOK'
  <2>1. reports' \in [ReportId -> [of : Session, at : Nat] \cup {NoReport}]
    BY <1>2, <1>3 DEF RestOK
  <2> QED BY <2>1 DEF RestOK, InsertReport
<1>7. BlocksRecorded'
  BY DEF InsertReport, BlocksRecorded
<1>8. JobsOK' /\ InsertedOK' /\ UniqueOK'
  BY <1>1, <1>2, <1>4, ReportGoes DEF InsertReport
<1>9. \A r \in ReportId : reports[r] # NoReport => reports'[r] = reports[r]
  BY <1>4, <1>5
<1>10. CountedOK'
  <2>1. \A r \in ReportId : reports'[r].at <= now'
    BY <1>3, <1>4, <1>5 DEF CountedOK, RestOK
  <2>2. ASSUME NEW i \in job', i.op = "report", i.at = "ban"
        PROVE  Earned(i.recent, Peer(i.m, i.s))'
    <3>1. i \in job
      BY <1>1, <1>2, <2>2
    <3>2. i.recent \in SUBSET ReportId /\ Peer(i.m, i.s) \in Session
      BY <2>2, <3>1, JobFacts DEF ReportJob
    <3>3. Earned(i.recent, Peer(i.m, i.s))
      BY <2>2, <3>1 DEF CountedOK
    <3> QED BY <1>9, <3>2, <3>3, EarnedKept
  <2>3. ASSUME NEW b \in bans'
        PROVE  Earned(b.recent, b.s)'
    <3>1. b \in bans /\ b.recent \in SUBSET ReportId /\ b.s \in Session
      BY DEF InsertReport, RestOK
    <3>2. Earned(b.recent, b.s)
      BY <3>1 DEF CountedOK
    <3> QED BY <1>9, <3>1, <3>2, EarnedKept
  <2> QED BY <2>1, <2>2, <2>3 DEF CountedOK
<1> QED BY <1>6, <1>7, <1>8, <1>10

LEMMA CountReportsInv ==
  ASSUME IInv, NEW j \in job, CountReports(j), UNCHANGED Else
  PROVE  IInv'
<1> USE DEF IInv, report, block, Else
<1> DEFINE rs == Recent(Peer(j.m, j.s))
           k  == [j EXCEPT !.at = "ban", !.recent = rs]
<1>1. RestOK' /\ BlocksRecorded'
  BY DEF CountReports, RestOK, BlocksRecorded
<1>2. CASE Ends(j)
  <2>1. JobsOK' /\ InsertedOK' /\ UniqueOK'
    BY <1>2, EndsInv DEF CountReports
  <2>2. CountedOK'
    BY <1>2, CountedKept DEF CountReports, Ends, RestOK
  <2> QED BY <1>1, <2>1, <2>2
<1>3. CASE Enough(rs) /\ job' = (job \ {j}) \cup {k}
  <2>1. rs \in SUBSET ReportId
    BY DEF Recent
  <2>2. j \in ReportJob /\ j.op = "report" /\ Peer(j.m, j.s) \in Session
    BY JobFacts DEF CountReports
  <2>3. /\ k \in ReportJob /\ k.op = "report" /\ k.s = j.s /\ k.m = j.m /\ k.id = j.id
        /\ k.at = "ban" /\ k.recent = rs
    BY <2>1, <2>2 DEF ReportJob
  <2>4. Earned(rs, Peer(j.m, j.s))
    <3>1. \A r \in rs : r \in ReportId /\ reports[r].of = Peer(j.m, j.s)
                        /\ reports[r].at >= now - Day
      BY DEF Recent
    <3>2. \A r \in rs : reports[r].at \in Nat /\ reports[r].at <= now
      BY <3>1 DEF RestOK, NoReport, CountedOK
    <3>3. now \in Nat /\ Day \in Nat
      BY ModerationAssumption DEF RestOK
    <3>4. \A r, q \in rs : reports[r].at <= reports[q].at + Day
      <4> SUFFICES ASSUME NEW r \in rs, NEW q \in rs
                   PROVE  reports[r].at <= reports[q].at + Day
        OBVIOUS
      <4> HIDE DEF rs
      <4>1. reports[r].at \in Nat /\ reports[r].at <= now
        BY <3>2
      <4>2. reports[q].at \in Nat /\ reports[q].at >= now - Day
        BY <3>1, <3>2
      <4> QED BY <3>3, <4>1, <4>2
    <3> QED BY <1>3, <3>1, <3>4 DEF Earned
  <2> HIDE DEF rs, k
  <2>5. JobsOK' /\ InsertedOK' /\ UniqueOK'
    BY <1>3, <2>2, <2>3, ReportGoes DEF CountReports
  <2>6. CountedOK'
    <3>1. \A r \in ReportId : reports'[r].at <= now'
      BY DEF CountReports, CountedOK
    <3>2. ASSUME NEW i \in job', i.op = "report", i.at = "ban"
          PROVE  Earned(i.recent, Peer(i.m, i.s))
      BY <1>3, <2>3, <2>4, <3>2 DEF CountedOK
    <3>3. \A b \in bans : Earned(b.recent, b.s)
      BY DEF CountedOK
    <3> QED BY <3>1, <3>2, <3>3 DEF CountedOK, CountReports, Earned
  <2> QED BY <1>1, <2>5, <2>6
<1> QED BY <1>2, <1>3 DEF CountReports

LEMMA InsertBanInv ==
  ASSUME IInv, NEW j \in job, InsertBan(j), UNCHANGED Else
  PROVE  IInv'
<1> USE DEF IInv, report, block, Else
<1> DEFINE ban == [s |-> Peer(j.m, j.s), until |-> now + Day, recent |-> j.recent]
<1>1. j \in ReportJob /\ Peer(j.m, j.s) \in Session /\ now + Day \in Nat
  BY JobFacts, ModerationAssumption DEF InsertBan, RestOK
<1>2. /\ ban \in [s : Session, until : Nat, recent : SUBSET ReportId]
      /\ ban.s = Peer(j.m, j.s) /\ ban.recent = j.recent
  BY <1>1 DEF ReportJob
<1>3. bans' = bans \cup {ban}
  BY DEF InsertBan
<1> HIDE DEF ban
<1>4. RestOK' /\ BlocksRecorded'
  BY <1>2, <1>3 DEF InsertBan, RestOK, BlocksRecorded
<1>5. JobsOK' /\ InsertedOK' /\ UniqueOK'
  BY EndsInv DEF InsertBan
<1>6. CountedOK'
  <2>1. \A r \in ReportId : reports'[r].at <= now'
    BY DEF InsertBan, CountedOK
  <2>2. \A i \in job' : i.op = "report" /\ i.at = "ban" => Earned(i.recent, Peer(i.m, i.s))
    BY DEF InsertBan, Ends, CountedOK
  <2>3. \A b \in bans' : Earned(b.recent, b.s)
    BY <1>2, <1>3 DEF InsertBan, CountedOK
  <2> QED BY <2>1, <2>2, <2>3 DEF CountedOK, InsertBan, Earned
<1> QED BY <1>4, <1>5, <1>6

LEMMA InsertBlockInv ==
  ASSUME IInv, NEW j \in job, InsertBlock(j), UNCHANGED Else
  PROVE  IInv'
<1> USE DEF IInv, report, block, Else
<1>1. j \in BlockJob /\ j.s \in Session /\ Peer(j.m, j.s) \in Session
  BY JobFacts DEF InsertBlock
<1>2. RestOK' /\ BlocksRecorded'
  BY <1>1 DEF InsertBlock, RestOK, BlocksRecorded
<1>3. JobsOK' /\ InsertedOK' /\ UniqueOK'
  BY BlockGoes DEF InsertBlock
<1>4. \A i \in job' : i.op = "report" => i \in job
  BY <1>1, BlockMoves DEF InsertBlock, Goes
<1>5. CountedOK'
  BY <1>4, CountedKept DEF InsertBlock, RestOK
<1> QED BY <1>2, <1>3, <1>5

LEMMA ExcludeInv ==
  ASSUME IInv, NEW j \in job, Exclude(j), UNCHANGED Else
  PROVE  IInv'
<1> USE DEF IInv, report, block, Else
<1>1. j.s \in Session /\ Peer(j.m, j.s) \in Session
  BY JobFacts
<1>2. RestOK'
  BY <1>1 DEF Exclude, RestOK
<1>3. BlocksRecorded'
  BY <1>1 DEF Exclude, RestOK, InsertedOK, BlocksRecorded
<1>4. JobsOK' /\ InsertedOK' /\ UniqueOK'
  BY EndsInv DEF Exclude
<1>5. CountedOK'
  BY CountedKept DEF Exclude, Ends, RestOK
<1> QED BY <1>2, <1>3, <1>4, <1>5

(***************************************************************************)
(* The clients, the workers and the environment.                           *)
(***************************************************************************)
LEMMA AskInv ==
  ASSUME IInv, NEW s \in Session, NEW m \in MatchId, Ask(s, m)
  PROVE  IInv'
<1> USE DEF IInv, report, block
<1>1. RestOK'
  BY DEF Ask, AskBlock, AskReport, RestOK
<1>2. BlocksRecorded'
  BY DEF Ask, BlocksRecorded
<1>3. PICK k : /\ job' = job \cup {k} /\ k.at = "read" /\ k.s = s /\ k.m = m
               /\ \/ k \in BlockJob /\ k.op = "block"
                  \/ k \in ReportJob /\ k.op = "report" /\ reports[k.id] = NoReport
                     /\ \A j \in job : j.id # k.id
  <2>1. CASE AskBlock(s, m)
    <3> DEFINE k == Request("block", s, m, None)
    <3>1. k \in BlockJob /\ k.at = "read" /\ k.s = s /\ k.m = m /\ k.op = "block"
      BY DEF Request, BlockJob
    <3>2. job' = job \cup {k}
      BY <2>1 DEF AskBlock
    <3> QED BY <3>1, <3>2
  <2>2. ASSUME NEW r \in ReportId, AskReport(s, m, r)
        PROVE  \E k : /\ job' = job \cup {k} /\ k.at = "read" /\ k.s = s /\ k.m = m
                      /\ k \in ReportJob /\ k.op = "report" /\ reports[k.id] = NoReport
                      /\ \A j \in job : j.id # k.id
    <3> DEFINE k == Request("report", s, m, r)
    <3>1. /\ k \in ReportJob /\ k.at = "read" /\ k.s = s /\ k.m = m /\ k.op = "report"
          /\ k.id = r
      BY DEF Request, ReportJob
    <3>2. job' = job \cup {k} /\ reports[k.id] = NoReport /\ \A j \in job : j.id # k.id
      BY <2>2, <3>1 DEF AskReport
    <3> QED BY <3>1, <3>2
  <2> QED BY <2>1, <2>2 DEF Ask
<1>4. s \in Parties(m)
  BY DEF Ask, AskBlock, AskReport
<1>5. UNCHANGED <<reports, bans, blocks, now>>
  BY DEF Ask
<1>6. JobsOK'
  BY <1>3, <1>4 DEF JobsOK
<1>7. InsertedOK'
  BY <1>3, <1>5 DEF InsertedOK
<1>8. UniqueOK'
  BY <1>3, <1>5 DEF UniqueOK
<1>9. CountedOK'
  BY <1>3, <1>5, CountedKept DEF RestOK
<1> QED BY <1>1, <1>2, <1>6, <1>7, <1>8, <1>9

LEMMA WorkerInv ==
  ASSUME IInv, NEW p \in Pod, WorkerStep(p)
  PROVE  IInv'
<1> USE DEF IInv, report, block
<1>1. RestOK'
  <2>1. PICK m \in MatchId :
                CheckPair(p, m) \/ GiveBack(p, m) \/ OpenMatch(p, m)
    BY DEF WorkerStep
  <2>2. pairing' \in [Pod -> MatchId \cup {None}]
    BY <2>1 DEF CheckPair, GiveBack, OpenMatch, RestOK
  <2>3. begun' \subseteq MatchId /\ open' \subseteq begun' /\ despite' \subseteq begun'
    BY <2>1 DEF CheckPair, GiveBack, OpenMatch, RestOK
  <2> QED BY <2>2, <2>3 DEF WorkerStep, RestOK
<1>2. BlocksRecorded' /\ JobsOK' /\ InsertedOK' /\ UniqueOK'
  BY DEF WorkerStep, BlocksRecorded, JobsOK, InsertedOK, UniqueOK
<1>3. CountedOK'
  BY CountedKept DEF WorkerStep, RestOK
<1> QED BY <1>1, <1>2, <1>3

LEMMA EndMatchInv ==
  ASSUME IInv, NEW m \in MatchId, EndMatch(m)
  PROVE  IInv'
<1> USE DEF IInv, report, block
<1>1. RestOK' /\ BlocksRecorded' /\ JobsOK' /\ InsertedOK' /\ UniqueOK'
  BY DEF EndMatch, RestOK, BlocksRecorded, JobsOK, InsertedOK, UniqueOK
<1>2. CountedOK'
  BY CountedKept DEF EndMatch, RestOK
<1> QED BY <1>1, <1>2

LEMMA TickInv ==
  ASSUME IInv, Tick
  PROVE  IInv'
<1> USE DEF IInv, report, block
<1>1. RestOK' /\ BlocksRecorded' /\ JobsOK' /\ InsertedOK' /\ UniqueOK'
  BY DEF Tick, RestOK, BlocksRecorded, JobsOK, InsertedOK, UniqueOK
<1>2. CountedOK'
  BY CountedKept DEF Tick, RestOK
<1> QED BY <1>1, <1>2

LEMMA ExpireInv ==
  ASSUME IInv, NEW s \in Session, ExpireBlocks(s)
  PROVE  IInv'
<1> USE DEF IInv, report, block
<1>1. RestOK' /\ BlocksRecorded'
  BY DEF ExpireBlocks, RestOK, BlocksRecorded
<1>2. JobsOK' /\ InsertedOK' /\ UniqueOK'
  BY DEF ExpireBlocks, JobsOK, InsertedOK, UniqueOK
<1>3. CountedOK'
  BY CountedKept DEF ExpireBlocks, RestOK
<1> QED BY <1>1, <1>2, <1>3

LEMMA ThrowsInv ==
  ASSUME IInv, NEW j \in job, JobThrows(j)
  PROVE  IInv'
<1> USE DEF IInv, report, block
<1>1. RestOK' /\ BlocksRecorded'
  BY DEF JobThrows, RestOK, BlocksRecorded
<1>2. JobsOK' /\ InsertedOK' /\ UniqueOK'
  BY EndsInv DEF JobThrows
<1>3. CountedOK'
  BY CountedKept DEF JobThrows, Ends, RestOK
<1> QED BY <1>1, <1>2, <1>3

LEMMA NextInv ==
  ASSUME IInv, [Next]_vars
  PROVE  IInv'
<1>1. ASSUME NEW j \in job, JobStep(j)
      PROVE  IInv'
  BY <1>1, ReadMatchInv, InsertReportInv, CountReportsInv, InsertBanInv, InsertBlockInv,
     ExcludeInv DEF JobStep, Else
<1>2. CASE \E s \in Session, m \in MatchId : Ask(s, m)
  BY <1>2, AskInv
<1>3. CASE \E p \in Pod : WorkerStep(p)
  BY <1>3, WorkerInv
<1>4. CASE UNCHANGED vars
  <2>1. RestOK' /\ BlocksRecorded' /\ JobsOK' /\ InsertedOK' /\ UniqueOK'
    BY <1>4 DEF IInv, vars, report, block, RestOK, BlocksRecorded, JobsOK, InsertedOK,
                UniqueOK
  <2>2. CountedOK'
    BY <1>4, CountedKept DEF IInv, vars, report, block, RestOK
  <2> QED BY <2>1, <2>2 DEF IInv
<1> QED BY <1>1, <1>2, <1>3, <1>4, ThrowsInv, EndMatchInv, ExpireInv, TickInv DEF Next

THEOREM Invariance == Spec => []IInv
<1>1. IInv /\ [Next]_vars => IInv'
  BY NextInv
<1> QED BY InitInv, <1>1, PTL DEF Spec

(* Every variable keeps its shape.                                         *)
THEOREM ModerationType == Spec => []TypeOK
<1>1. IInv => TypeOK
  BY InvImplies
<1> QED BY Invariance, <1>1, PTL

(* Whom Redis keeps apart has a row that says so, whatever fails between.  *)
THEOREM ModerationBlocks == Spec => []BlocksRecorded
<1>1. IInv => BlocksRecorded
  BY InvImplies
<1> QED BY Invariance, <1>1, PTL

(* A ban rests on three reports of that session, of one day.               *)
THEOREM ModerationBans == Spec => []BansEarned
<1>1. IInv => BansEarned
  BY InvImplies
<1> QED BY Invariance, <1>1, PTL

(***************************************************************************)
(* Reports do not hide each other.  Who counts last counts them all, and   *)
(* what it inserts outlasts the day of the oldest: so as long as no count  *)
(* of s is under way, whatever three reports of s have in common, back to  *)
(* a day ago, a ban has that lasts a day longer.                           *)
(***************************************************************************)
Made        == {r \in ReportId : reports[r] # NoReport}
Since(s, x) == {r \in ReportId : reports[r].of = s /\ reports[r].at > x}
Outlasts(s, x) == \E b \in bans : b.s = s /\ b.until > x + Day
Counting(s) ==
  \E j \in job : j.op = "report" /\ j.at \in {"count", "ban"} /\ Peer(j.m, j.s) = s

Judged(s) ==
  \A x \in Int :
    x >= now - Day /\ Cardinality(Since(s, x)) >= Threshold => Outlasts(s, x)

BannedInv ==
  /\ IsFiniteSet(Made)
  /\ faults = 0 => \A s \in Session : Counting(s) \/ Judged(s)

LEMMA SinceFinite ==
  ASSUME IInv, IsFiniteSet(Made), NEW s \in Session, NEW x \in Int
  PROVE  /\ IsFiniteSet(Since(s, x)) /\ IsFiniteSet(Recent(s))
         /\ x >= now - Day => Cardinality(Since(s, x)) <= Cardinality(Recent(s))
         /\ Cardinality(Since(s, x)) >= Threshold => Since(s, x) # {}
<1>1. Since(s, x) \subseteq Made /\ Recent(s) \subseteq Made
  BY ModerationAssumption DEF Since, Made, Recent, NoReport
<1>2. IsFiniteSet(Since(s, x)) /\ IsFiniteSet(Recent(s))
  BY <1>1, FS_Subset
<1>3. ASSUME x >= now - Day
      PROVE  Since(s, x) \subseteq Recent(s)
  BY <1>3, ModerationAssumption DEF Since, Recent, IInv, RestOK, NoReport
<1>4. Since(s, x) = {} => ~(Cardinality(Since(s, x)) >= Threshold)
  BY FS_EmptySet DEF Threshold
<1> QED BY <1>2, <1>3, <1>4, FS_Subset

(* A step that leaves reports and bans alone.                              *)
LEMMA JudgedKept ==
  ASSUME IInv, NEW s \in Session, Judged(s), UNCHANGED reports, bans \subseteq bans',
         now' \in Int, now <= now'
  PROVE  Judged(s)'
<1>1. \A x : Since(s, x)' = Since(s, x)
  BY DEF Since
<1>2. ASSUME NEW x \in Int, x >= now' - Day
      PROVE  x >= now - Day
  <2>1. now \in Int /\ Day \in Int
    BY ModerationAssumption DEF IInv, RestOK
  <2>2. \A y, d, i, k \in Int : y >= k - d /\ i <= k => y >= i - d
    OBVIOUS
  <2> QED BY <1>2, <2>1, <2>2
<1>3. ASSUME NEW x \in Int, x >= now' - Day, Cardinality(Since(s, x)') >= Threshold
      PROVE  Outlasts(s, x)'
  <2>1. Outlasts(s, x)
    BY <1>1, <1>2, <1>3 DEF Judged
  <2> QED BY <2>1 DEF Outlasts
<1> QED BY <1>3 DEF Judged

LEMMA BannedFromJob ==
  ASSUME IInv, BannedInv, faults = 0, NEW j \in job, JobStep(j), NEW s \in Session
  PROVE  Counting(s)' \/ Judged(s)'
<1> DEFINE party == Peer(j.m, j.s)
<1>0. /\ now \in Nat /\ now' = now /\ Day \in Nat \ {0}
      /\ j.m \in MatchId /\ party \in Session
      /\ IsFiniteSet(Made)
      /\ Counting(s) \/ Judged(s)
  BY ModerationAssumption, JobFacts DEF IInv, RestOK, JobStep, BannedInv
(* The job of another request goes on counting.                            *)
<1>1. ASSUME NEW i \in job, i.op = "report", i.at \in {"count", "ban"},
             Peer(i.m, i.s) = s, i # j
      PROVE  Counting(s)'
  <2>1. i \in job'
    BY <1>1 DEF JobStep, ReadMatch, InsertReport, CountReports, InsertBan, InsertBlock,
                Exclude, Goes, Ends
  <2> QED BY <1>1, <2>1 DEF Counting
<1>2. CASE ~(j.op = "report" /\ j.at \in {"count", "ban"} /\ party = s)
  <2>1. Counting(s) => Counting(s)'
    BY <1>1, <1>2 DEF Counting
  <2>2. ASSUME Judged(s), UNCHANGED reports, bans \subseteq bans'
        PROVE  Judged(s)'
    BY <1>0, <2>2, JudgedKept
  <2>3. CASE InsertReport(j)
    <3>1. CASE party = s
      <4> DEFINE k == [j EXCEPT !.at = "count"]
      <4>1. k \in job'
        BY <2>3 DEF InsertReport, Goes
      <4>2. /\ k.op = "report" /\ k.at = "count" /\ Peer(k.m, k.s) = s
        BY <2>3, <3>1, JobFacts, ReportMoves DEF InsertReport, IInv
      <4> QED BY <4>1, <4>2 DEF Counting
    <3>2. CASE party # s
      <4>1. /\ UNCHANGED <<bans, now>>
            /\ \A r \in ReportId : r # j.id => reports'[r] = reports[r]
            /\ j.id \in ReportId /\ reports[j.id] = NoReport /\ reports'[j.id].of = party
        BY <1>0, <2>3, JobFacts DEF InsertReport, IInv, RestOK, UniqueOK
      <4>2. reports[j.id].of # s
        BY <4>1, ModerationAssumption DEF NoReport
      <4>3. \A x : Since(s, x)' = Since(s, x)
        BY <3>2, <4>1, <4>2 DEF Since
      <4>4. Judged(s) => Judged(s)'
        BY <4>1, <4>3 DEF Judged, Outlasts
      <4> QED BY <1>0, <2>1, <4>4
    <3> QED BY <3>1, <3>2
  <2>4. CASE ~InsertReport(j)
    <3>1. UNCHANGED reports /\ bans \subseteq bans'
      BY <2>4 DEF JobStep, ReadMatch, CountReports, InsertBan, InsertBlock, Exclude, report
    <3> QED BY <1>0, <2>1, <2>2, <3>1
  <2> QED BY <2>3, <2>4
<1>3. CASE j.op = "report" /\ j.at = "count" /\ party = s
  <2>1. CountReports(j)
    BY <1>3 DEF JobStep, ReadMatch, InsertReport, InsertBan, InsertBlock, Exclude
  <2>2. CASE Enough(Recent(s))
    <3> DEFINE k == [j EXCEPT !.at = "ban", !.recent = Recent(s)]
    <3>1. k \in job'
      BY <1>3, <2>1, <2>2 DEF CountReports
    <3>2. j \in ReportJob
      BY <1>3, JobFacts DEF IInv
    <3>3. k.op = "report" /\ k.at = "ban" /\ Peer(k.m, k.s) = s
      BY <1>3, <3>2 DEF ReportJob
    <3> QED BY <3>1, <3>3 DEF Counting
  <2>3. CASE ~Enough(Recent(s))
    <3>1. UNCHANGED <<reports, bans, now>>
      BY <1>0, <2>1 DEF CountReports, report
    <3>2. ASSUME NEW x \in Int, x >= now - Day
          PROVE  ~(Cardinality(Since(s, x)) >= Threshold)
      <4>1. /\ Cardinality(Since(s, x)) <= Cardinality(Recent(s))
            /\ IsFiniteSet(Since(s, x)) /\ IsFiniteSet(Recent(s))
        BY <1>0, <3>2, SinceFinite
      <4>2. Cardinality(Since(s, x)) \in Nat /\ Cardinality(Recent(s)) \in Nat
        BY <4>1, FS_CardinalityType
      <4> QED BY <2>3, <4>1, <4>2 DEF Enough, Threshold
    <3>3. \A x : Since(s, x)' = Since(s, x)
      BY <3>1 DEF Since
    <3> QED BY <3>1, <3>2, <3>3 DEF Judged
  <2> QED BY <2>2, <2>3
<1>4. CASE j.op = "report" /\ j.at = "ban" /\ party = s
  <2>1. InsertBan(j)
    BY <1>4 DEF JobStep, ReadMatch, InsertReport, CountReports, InsertBlock, Exclude
  <2> DEFINE ban == [s |-> s, until |-> now + Day, recent |-> j.recent]
  <2>2. ban \in bans' /\ UNCHANGED reports
    BY <1>4, <2>1 DEF InsertBan
  <2>3. ASSUME NEW x \in Int, Cardinality(Since(s, x)) >= Threshold
        PROVE  Outlasts(s, x)'
    <3>1. PICK r \in ReportId : reports[r].at > x
      BY <1>0, <2>3, SinceFinite DEF Since
    <3>2. reports[r].at \in Nat /\ reports[r].at <= now
      BY DEF IInv, RestOK, CountedOK, NoReport
    <3>3. ban.s = s /\ ban.until > x + Day
      BY <1>0, <3>1, <3>2
    <3> QED BY <2>2, <3>3 DEF Outlasts
  <2>4. \A x : Since(s, x)' = Since(s, x)
    BY <2>2 DEF Since
  <2> QED BY <2>3, <2>4 DEF Judged
<1> QED BY <1>2, <1>3, <1>4

LEMMA MadeStep ==
  ASSUME IInv, IsFiniteSet(Made), [Next]_vars
  PROVE  IsFiniteSet(Made)'
<1>1. ASSUME NEW j \in job, InsertReport(j) PROVE IsFiniteSet(Made)'
  <2>1. Made' \subseteq Made \cup {j.id}
    BY <1>1 DEF InsertReport, Made, IInv, RestOK
  <2>2. IsFiniteSet(Made \cup {j.id})
    BY FS_AddElement
  <2> QED BY <2>1, <2>2, FS_Subset
<1>2. CASE reports' = reports
  BY <1>2 DEF Made
<1>3. reports' = reports \/ \E j \in job : InsertReport(j)
  BY DEF Next, vars, JobStep, ReadMatch, CountReports, InsertBan, InsertBlock, Exclude,
         JobThrows, Ask, WorkerStep, EndMatch, ExpireBlocks, Tick, report
<1> QED BY <1>1, <1>2, <1>3

LEMMA BannedStep ==
  ASSUME IInv, BannedInv, [Next]_vars
  PROVE  BannedInv'
<1>0. now \in Nat /\ faults \in Nat
  BY DEF IInv, RestOK
<1> SUFFICES ASSUME faults' = 0, NEW s \in Session PROVE Counting(s)' \/ Judged(s)'
  BY MadeStep DEF BannedInv
<1>1. faults = 0
  BY <1>0 DEF Next, vars, JobStep, JobThrows, Ask, WorkerStep, EndMatch, ExpireBlocks, Tick
<1>2. CASE \E j \in job : JobStep(j)
  BY <1>1, <1>2, BannedFromJob
<1>3. ASSUME UNCHANGED <<reports, bans>>, job \subseteq job', now' \in Nat, now <= now'
      PROVE  Counting(s)' \/ Judged(s)'
  <2>1. Counting(s) => Counting(s)'
    BY <1>3 DEF Counting
  <2>2. Judged(s) => Judged(s)'
    BY <1>3, JudgedKept
  <2> QED BY <1>1, <2>1, <2>2 DEF BannedInv
<1>4. CASE Tick
  BY <1>0, <1>3, <1>4 DEF Tick, report
<1>5. CASE \E t \in Session, m \in MatchId : Ask(t, m)
  BY <1>0, <1>3, <1>5 DEF Ask, AskBlock, AskReport, report
<1>6. CASE \/ \E p \in Pod : WorkerStep(p)
           \/ \E m \in MatchId : EndMatch(m)
           \/ \E t \in Session : ExpireBlocks(t)
           \/ UNCHANGED vars
  BY <1>0, <1>3, <1>6 DEF WorkerStep, EndMatch, ExpireBlocks, vars, report
<1>7. ~(\E j \in job : JobThrows(j))
  BY <1>0, <1>1 DEF JobThrows
<1> QED BY <1>2, <1>4, <1>5, <1>6, <1>7 DEF Next

(* While nothing fails, a session with enough reports of the last 24 hours *)
(* is banned, or a report of it is still being counted: see AutoBanned.    *)
THEOREM ModerationAutoBans == Spec => []AutoBanned
<1>1. Init => BannedInv
  <2> SUFFICES ASSUME Init PROVE BannedInv
    OBVIOUS
  <2>1. Made = {}
    BY DEF Init, Made
  <2>2. \A s \in Session : \A x : Since(s, x) = {}
    BY ModerationAssumption DEF Init, Since, NoReport
  <2> QED BY <2>1, <2>2, FS_EmptySet DEF BannedInv, Judged, Threshold
<1>2. IInv /\ BannedInv /\ [Next]_vars => BannedInv'
  BY BannedStep
<1>3. IInv /\ BannedInv => AutoBanned
  <2> SUFFICES ASSUME IInv, BannedInv, faults = 0, NEW s \in Session, ~Counting(s),
                      Cardinality(Since(s, now - Day)) >= Threshold
               PROVE  \E b \in bans : b.s = s /\ b.until > now
    BY DEF AutoBanned, Counting, Since
  <2>1. now - Day \in Int /\ now - Day >= now - Day /\ (now - Day) + Day = now
    BY ModerationAssumption DEF IInv, RestOK
  <2>2. Outlasts(s, now - Day)
    BY <2>1 DEF BannedInv, Judged
  <2> QED BY <2>1, <2>2 DEF Outlasts
<1> QED BY Invariance, <1>1, <1>2, <1>3, PTL DEF Spec

(***************************************************************************)
(* Who blocked each other meet at most once for each worker.               *)
(***************************************************************************)
Apart(s, t) == t \in excluded[s] \/ s \in excluded[t]
Again(s, t) == {m \in despite : Parties(m) = {s, t}}
Bound(s, t) == {p \in Pod : pairing[p] # None /\ Parties(pairing[p]) = {s, t}}

(* A worker that had looked the two up before the block still has its one  *)
(* match in hand, or has spent it: no worker looks them up again.          *)
MetOK(s, t) ==
  /\ Again(s, t) # {} => Apart(s, t)
  /\ IsFiniteSet(Again(s, t))
  /\ Cardinality(Again(s, t)) + Cardinality(Bound(s, t)) <= Cardinality(Pod)

RematchInv == lapses = 0 => \A s, t \in Session : MetOK(s, t)

LEMMA BoundFinite ==
  ASSUME NEW S \in SUBSET Pod
  PROVE  IsFiniteSet(S) /\ Cardinality(S) \in Nat /\ Cardinality(S) <= Cardinality(Pod)
BY ModerationAssumption, FS_Subset, FS_CardinalityType

LEMMA ApartExcluded ==
  ASSUME NEW s \in Session, NEW t \in Session, NEW m \in MatchId, Parties(m) = {s, t}
  PROVE  Apart(s, t) <=> Excluded(m)
BY ModerationAssumption DEF Parties, Peer, Apart, Excluded

LEMMA MetFromCheck ==
  ASSUME IInv, NEW s \in Session, NEW t \in Session, MetOK(s, t),
         NEW p \in Pod, NEW m \in MatchId, CheckPair(p, m), UNCHANGED excluded
  PROVE  MetOK(s, t)'
<1>1. /\ Again(s, t)' = Again(s, t) /\ Apart(s, t)' = Apart(s, t)
      /\ pairing[p] = None /\ ~Excluded(m) /\ pairing' = [pairing EXCEPT ![p] = m]
  BY DEF CheckPair, Again, Apart
<1>2. \A q \in Pod \ {p} : pairing'[q] = pairing[q]
  BY <1>1 DEF IInv, RestOK
<1>3. CASE Parties(m) = {s, t}
  <2>1. Again(s, t) = {}
    BY <1>1, <1>3, ApartExcluded DEF MetOK
  <2>2. Bound(s, t)' \in SUBSET Pod
    BY DEF Bound
  <2> QED BY <1>1, <2>1, <2>2, BoundFinite, FS_EmptySet DEF MetOK
<1>4. CASE Parties(m) # {s, t}
  <2>1. pairing'[p] = m
    BY <1>1 DEF IInv, RestOK
  <2>2. Bound(s, t)' = Bound(s, t)
    BY <1>1, <1>2, <1>4, <2>1 DEF Bound
  <2> QED BY <1>1, <2>2 DEF MetOK
<1> QED BY <1>3, <1>4

LEMMA MetFromOpen ==
  ASSUME IInv, NEW s \in Session, NEW t \in Session, MetOK(s, t),
         NEW p \in Pod, NEW m \in MatchId, GiveBack(p, m) \/ OpenMatch(p, m),
         UNCHANGED excluded
  PROVE  MetOK(s, t)'
<1>1. /\ pairing[p] = m /\ pairing' = [pairing EXCEPT ![p] = None] /\ m # None
      /\ despite' = despite \/ (despite' = despite \cup {m} /\ Excluded(m))
      /\ Apart(s, t)' = Apart(s, t)
  BY ModerationAssumption DEF GiveBack, OpenMatch, Excluded, Apart
<1>2. pairing'[p] = None /\ \A q \in Pod \ {p} : pairing'[q] = pairing[q]
  BY <1>1 DEF IInv, RestOK
<1>3. Bound(s, t)' = Bound(s, t) \ {p}
  BY <1>2 DEF Bound
<1>4. /\ IsFiniteSet(Bound(s, t)) /\ Cardinality(Bound(s, t)) \in Nat
      /\ Cardinality(Bound(s, t)') \in Nat /\ Cardinality(Pod) \in Nat
      /\ Cardinality(Again(s, t)) \in Nat
  BY BoundFinite, FS_CardinalityType DEF Bound, MetOK
<1>5. CASE Parties(m) = {s, t} /\ despite' = despite \cup {m} /\ Excluded(m)
  <2>1. p \in Bound(s, t)
    BY <1>1, <1>5 DEF Bound
  <2>2. Cardinality(Bound(s, t)') = Cardinality(Bound(s, t)) - 1
    BY <1>3, <1>4, <2>1, FS_RemoveElement
  <2>3. Again(s, t)' = Again(s, t) \cup {m}
    BY <1>5 DEF Again
  <2>4. /\ IsFiniteSet(Again(s, t)')
        /\ Cardinality(Again(s, t)') \in {Cardinality(Again(s, t)), Cardinality(Again(s, t)) + 1}
    BY <2>3, FS_AddElement DEF MetOK
  <2>5. Apart(s, t)
    BY <1>5, ApartExcluded
  <2> QED BY <1>1, <1>4, <2>2, <2>4, <2>5 DEF MetOK
<1>6. CASE ~(Parties(m) = {s, t} /\ despite' = despite \cup {m} /\ Excluded(m))
  <2>1. Again(s, t)' = Again(s, t)
    BY <1>1, <1>6 DEF Again
  <2>2. Cardinality(Bound(s, t)') <= Cardinality(Bound(s, t))
    BY <1>3, <1>4, FS_Subset
  <2> QED BY <1>1, <1>4, <2>1, <2>2 DEF MetOK
<1> QED BY <1>5, <1>6

LEMMA RematchStep ==
  ASSUME IInv, RematchInv, [Next]_vars
  PROVE  RematchInv'
<1> SUFFICES ASSUME lapses' = 0, NEW s \in Session, NEW t \in Session
             PROVE  MetOK(s, t)'
  BY DEF RematchInv
<1>1. lapses = 0 /\ ~(\E u \in Session : ExpireBlocks(u))
  BY DEF IInv, RestOK, Next, vars, JobStep, JobThrows, Ask, WorkerStep, EndMatch, ExpireBlocks,
         Tick
<1>2. MetOK(s, t)
  BY <1>1 DEF RematchInv
<1>3. CASE \E p \in Pod : WorkerStep(p)
  BY <1>2, <1>3, MetFromCheck, MetFromOpen DEF WorkerStep, block
<1>4. ASSUME UNCHANGED <<despite, pairing>>, \A u \in Session : excluded[u] \subseteq excluded'[u]
      PROVE  MetOK(s, t)'
  <2>1. Again(s, t)' = Again(s, t) /\ Bound(s, t)' = Bound(s, t)
    BY <1>4 DEF Again, Bound
  <2>2. Apart(s, t) => Apart(s, t)'
    BY <1>4 DEF Apart
  <2> QED BY <1>2, <2>1, <2>2 DEF MetOK
<1>5. ASSUME NEW j \in job, JobStep(j)
      PROVE  MetOK(s, t)'
  <2>1. \A u \in Session : excluded[u] \subseteq excluded'[u]
    BY <1>5 DEF JobStep, ReadMatch, InsertReport, CountReports, InsertBan, InsertBlock, Exclude,
                block, IInv, RestOK
  <2> QED BY <1>4, <1>5, <2>1 DEF JobStep
<1>6. CASE \/ \E j \in job : JobThrows(j)
           \/ \E u \in Session, m \in MatchId : Ask(u, m)
           \/ \E m \in MatchId : EndMatch(m)
           \/ Tick \/ UNCHANGED vars
  BY <1>4, <1>6 DEF JobThrows, Ask, EndMatch, Tick, vars, block
<1> QED BY <1>1, <1>3, <1>5, <1>6 DEF Next

(* A stored block does not stop the workers that had looked the pair up    *)
(* before, as the design document has it (BlockedApart), but it stops all  *)
(* others: for any number of pods, each opens one match more at most.      *)
THEOREM ModerationRematches == Spec => []RematchBounded
<1>1. Init => RematchInv
  <2> SUFFICES ASSUME Init, NEW s \in Session, NEW t \in Session PROVE MetOK(s, t)
    BY DEF RematchInv
  <2>1. Again(s, t) = {} /\ Bound(s, t) = {}
    BY DEF Init, Again, Bound
  <2> QED BY <2>1, BoundFinite, FS_EmptySet DEF MetOK
<1>2. IInv /\ RematchInv /\ [Next]_vars => RematchInv'
  BY RematchStep
<1>3. RematchInv => RematchBounded
  <2> SUFFICES ASSUME RematchInv, lapses = 0, NEW s \in Session, NEW t \in Session
               PROVE  Cardinality(Again(s, t)) <= Cardinality(Pod)
    BY DEF RematchBounded, Again
  <2>1. MetOK(s, t)
    BY DEF RematchInv
  <2>2. Cardinality(Again(s, t)) \in Nat /\ Cardinality(Bound(s, t)) \in Nat
        /\ Cardinality(Pod) \in Nat
    BY <2>1, BoundFinite, FS_CardinalityType DEF MetOK, Bound
  <2> QED BY <2>1, <2>2 DEF MetOK
<1> QED BY Invariance, <1>1, <1>2, <1>3, PTL DEF Spec
=============================================================================
