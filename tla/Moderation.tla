----------------------------- MODULE Moderation -----------------------------
(***************************************************************************)
(* Moderation: reports and the ban they end in, blocks and what they keep  *)
(* out of matchmaking (ModerationService, and checkBlockExclusion of       *)
(* MatchmakingService).                                                    *)
(*                                                                         *)
(* A step is one command of the server.  Of matchmaking only this is left: *)
(* a worker looks two sessions up, then puts them into a match.  Time goes *)
(* by in ticks, of which Day make 24 hours.  Manual bans are left out:     *)
(* they are of an address, a fingerprint or a user, never of a session.    *)
(***************************************************************************)
EXTENDS Integers, FiniteSets

CONSTANTS
  Session,
  Pod,
  MatchId,
  MatchPair,     \* MatchPair[m]: the sessionA and sessionB of a match
  ReportId,
  None,
  Day,           \* ticks in 24 hours
  MaxBlocks,     \* bound: blocks asked for
  MaxTime,       \* bound: ticks
  MaxFaults      \* bound: commands that fail, and keys that run out

ASSUME ModerationAssumption ==
  /\ None \notin Session /\ None \notin MatchId /\ None \notin ReportId
  /\ MatchPair \in [MatchId -> {ab \in Session \X Session : ab[1] # ab[2]}]
  /\ IsFiniteSet(Pod) /\ Day \in Nat \ {0}
  /\ MaxBlocks \in Nat /\ MaxTime \in Nat /\ MaxFaults \in Nat

VARIABLES
  begun,         \* table matches
  open,          \* matches whose HASH match:<match> exists
  pairing,       \* the match a worker is about to insert
  reports,       \* table reports: reported session and created_at of an id
  bans,          \* table bans: session, expires_at, and the reports counted
  blocks,        \* table blocks: who blocked whom
  excluded,      \* SET blocks:<session>
  job,           \* the requests in flight
  despite,       \* history: matches that began although one excluded the other
  now, lapses, asked, faults

report == <<reports, bans>>
block  == <<blocks, excluded>>
vars   == <<begun, open, pairing, report, block, job, despite, now, lapses, asked, faults>>

NoReport == [of |-> None, at |-> 0]
Threshold == 3
Parties(m) == {MatchPair[m][1], MatchPair[m][2]}

(* Mutant of Peer: for sessionA only.                                      *)
PeerOfFirst(m, s) == IF MatchPair[m][1] = s THEN MatchPair[m][2] ELSE None

Peer(m, s) == IF MatchPair[m][1] = s THEN MatchPair[m][2] ELSE MatchPair[m][1]

ReportJob == [op : {"report"}, s : Session, m : MatchId, id : ReportId,
              at : {"read", "insert", "count", "ban"}, recent : SUBSET ReportId]
BlockJob  == [op : {"block"}, s : Session, m : MatchId, id : {None},
              at : {"read", "insert", "sadd"}, recent : {{}}]

Init ==
  /\ begun = {} /\ open = {}
  /\ pairing = [p \in Pod |-> None]
  /\ reports = [r \in ReportId |-> NoReport]
  /\ bans = {} /\ blocks = {}
  /\ excluded = [s \in Session |-> {}]
  /\ job = {} /\ despite = {}
  /\ now = 0 /\ lapses = 0 /\ asked = 0 /\ faults = 0

Ends(j)     == job' = job \ {j}
Goes(j, at) == job' = (job \ {j}) \cup {[j EXCEPT !.at = at]}

(* hgetall of the match.  A report is refused when it is over, a block is  *)
(* dropped.                                                                *)
ReadMatch(j) ==
  /\ j.at = "read"
  /\ IF j.m \in open THEN Goes(j, "insert") ELSE Ends(j)
  /\ UNCHANGED <<report, block>>

(***************************************************************************)
(* reportUser.                                                             *)
(***************************************************************************)
InsertReport(j) ==
  /\ j.op = "report" /\ j.at = "insert"
  /\ reports' = [reports EXCEPT ![j.id] = [of |-> Peer(j.m, j.s), at |-> now]]
  /\ Goes(j, "count")
  /\ UNCHANGED <<bans, block>>

(* Mutant of Recent: reports of any age count.                             *)
RecentEver(s) == {r \in ReportId : reports[r].of = s}

Recent(s) == {r \in ReportId : reports[r].of = s /\ reports[r].at >= now - Day}

(* The code compares with >= (62), where the comments at lines 10 and 49   *)
(* have more than three: see README, "Divergences".                        *)
Enough(rs) == Cardinality(rs) >= Threshold

(* Mutant of CountReports: the reports there were before this one count.   *)
CountReportsBefore(j) ==
  /\ j.op = "report" /\ j.at = "count"
  /\ LET rs == Recent(Peer(j.m, j.s)) \ {j.id} IN
       IF Enough(rs)
       THEN job' = (job \ {j}) \cup {[j EXCEPT !.at = "ban", !.recent = rs]}
       ELSE Ends(j)
  /\ UNCHANGED <<report, block>>

CountReports(j) ==
  /\ j.op = "report" /\ j.at = "count"
  /\ LET rs == Recent(Peer(j.m, j.s)) IN
       IF Enough(rs)
       THEN job' = (job \ {j}) \cup {[j EXCEPT !.at = "ban", !.recent = rs]}
       ELSE Ends(j)
  /\ UNCHANGED <<report, block>>

InsertBan(j) ==
  /\ j.op = "report" /\ j.at = "ban"
  /\ bans' = bans \cup {[s |-> Peer(j.m, j.s), until |-> now + Day, recent |-> j.recent]}
  /\ Ends(j)
  /\ UNCHANGED <<reports, block>>

(***************************************************************************)
(* blockUser.                                                              *)
(***************************************************************************)

(* Mutant of InsertBlock: Redis is written first.                          *)
InsertBlockLast(j) ==
  /\ j.op = "block" /\ j.at = "insert"
  /\ excluded' = [excluded EXCEPT ![j.s] = @ \cup {Peer(j.m, j.s)}]
  /\ Goes(j, "sadd")
  /\ UNCHANGED <<report, blocks>>

InsertBlock(j) ==
  /\ j.op = "block" /\ j.at = "insert"
  /\ blocks' = blocks \cup {<<j.s, Peer(j.m, j.s)>>}
  /\ Goes(j, "sadd")
  /\ UNCHANGED <<report, excluded>>

Exclude(j) ==
  /\ j.op = "block" /\ j.at = "sadd"
  /\ excluded' = [excluded EXCEPT ![j.s] = @ \cup {Peer(j.m, j.s)}]
  /\ Ends(j)
  /\ UNCHANGED <<report, blocks>>

JobStep(j) ==
  /\ \/ ReadMatch(j) \/ InsertReport(j) \/ CountReports(j) \/ InsertBan(j)
     \/ InsertBlock(j) \/ Exclude(j)
  /\ UNCHANGED <<begun, open, pairing, despite, now, lapses, asked, faults>>

(***************************************************************************)
(* The clients.  A match is reported or blocked, as often as one likes,    *)
(* while it runs; it may be over when the request is read.                 *)
(***************************************************************************)
Request(op, s, m, id) ==
  [op |-> op, s |-> s, m |-> m, id |-> id, at |-> "read", recent |-> {}]

AskReport(s, m, r) ==
  /\ m \in open /\ s \in Parties(m)
  /\ reports[r] = NoReport /\ \A j \in job : j.id # r
  /\ job' = job \cup {Request("report", s, m, r)}
  /\ UNCHANGED asked

AskBlock(s, m) ==
  /\ m \in open /\ s \in Parties(m)
  /\ asked < MaxBlocks /\ asked' = asked + 1
  /\ job' = job \cup {Request("block", s, m, None)}

Ask(s, m) ==
  /\ AskBlock(s, m) \/ \E r \in ReportId : AskReport(s, m, r)
  /\ UNCHANGED <<begun, open, pairing, report, block, despite, now, lapses, faults>>

(***************************************************************************)
(* The worker of a pod.                                                    *)
(***************************************************************************)

Excluded(m) == \E s \in Parties(m) : Peer(m, s) \in excluded[s]

(* Two sessions of the queue that have not blocked each other.  Either may *)
(* be in a match already, or in the hands of another worker.               *)
CheckPair(p, m) ==
  /\ pairing[p] = None /\ m \notin begun
  /\ \A q \in Pod : pairing[q] # m
  /\ ~Excluded(m)
  /\ pairing' = [pairing EXCEPT ![p] = m]
  /\ UNCHANGED <<begun, open, despite>>

(* Without a lock of both, or after a throw, the pair is given back.       *)
GiveBack(p, m) ==
  /\ pairing[p] = m
  /\ pairing' = [pairing EXCEPT ![p] = None]
  /\ UNCHANGED <<begun, open, despite>>

(* Nothing is looked up again, neither the queue nor the blocks.           *)
OpenMatch(p, m) ==
  /\ pairing[p] = m
  /\ pairing' = [pairing EXCEPT ![p] = None]
  /\ begun' = begun \cup {m} /\ open' = open \cup {m}
  /\ despite' = IF \E s \in Parties(m) : Peer(m, s) \in excluded[s]
                THEN despite \cup {m} ELSE despite

WorkerStep(p) ==
  /\ \E m \in MatchId : CheckPair(p, m) \/ GiveBack(p, m) \/ OpenMatch(p, m)
  /\ UNCHANGED <<report, block, job, now, lapses, asked, faults>>

(***************************************************************************)
(* The environment.                                                        *)
(***************************************************************************)
EndMatch(m) ==
  /\ m \in open
  /\ open' = open \ {m}
  /\ UNCHANGED <<begun, pairing, report, block, job, despite, now, lapses, asked, faults>>

Tick ==
  /\ now < MaxTime
  /\ now' = now + 1
  /\ UNCHANGED <<begun, open, pairing, report, block, job, despite, lapses, asked, faults>>

(* The 30 days of blocks:<session>.                                        *)
ExpireBlocks(s) ==
  /\ excluded[s] # {} /\ lapses + faults < MaxFaults
  /\ excluded' = [excluded EXCEPT ![s] = {}]
  /\ lapses' = lapses + 1
  /\ UNCHANGED <<begun, open, pairing, report, blocks, job, despite, now, asked, faults>>

(* The sender gets an error.                                               *)
JobThrows(j) ==
  /\ lapses + faults < MaxFaults /\ faults' = faults + 1
  /\ Ends(j)
  /\ UNCHANGED <<begun, open, pairing, report, block, despite, now, lapses, asked>>

Next ==
  \/ \E j \in job : JobStep(j) \/ JobThrows(j)
  \/ \E s \in Session, m \in MatchId : Ask(s, m)
  \/ \E p \in Pod : WorkerStep(p)
  \/ \E m \in MatchId : EndMatch(m)
  \/ \E s \in Session : ExpireBlocks(s)
  \/ Tick

Spec == Init /\ [][Next]_vars

(***************************************************************************)
(* Properties.                                                             *)
(***************************************************************************)

(* Every variable keeps its shape.                                         *)
TypeOK ==
  /\ begun \subseteq MatchId /\ open \subseteq begun /\ despite \subseteq begun
  /\ pairing \in [Pod -> MatchId \cup {None}]
  /\ reports \in [ReportId -> [of : Session, at : Nat] \cup {NoReport}]
  /\ bans \subseteq [s : Session, until : Nat, recent : SUBSET ReportId]
  /\ blocks \subseteq Session \X Session
  /\ excluded \in [Session -> SUBSET Session]
  /\ job \subseteq ReportJob \cup BlockJob
  /\ now \in Nat /\ lapses \in Nat /\ asked \in Nat /\ faults \in Nat

(* While nothing fails, a session with three reports of the last 24 hours  *)
(* is banned, or a report of it is still being counted: reports that come  *)
(* at the same time do not hide each other, and the ban outlasts them.     *)
(* This is the >= 3 of line 62; the comments of lines 10 and 49 promise a  *)
(* ban only for more than three, which the code does not keep.             *)
AutoBanned ==
  faults = 0 =>
    \A s \in Session :
      Cardinality({r \in ReportId : reports[r].of = s /\ reports[r].at > now - Day})
        >= Threshold =>
        \/ \E b \in bans : b.s = s /\ b.until > now
        \/ \E j \in job : j.op = "report" /\ j.at \in {"count", "ban"} /\ Peer(j.m, j.s) = s

(* No ban rests on less than three reports of that session, no two of them *)
(* more than a day apart, however many requests count and insert at the    *)
(* same time.  That three are enough is the code's; its comments say four. *)
BansEarned ==
  \A b \in bans :
    /\ Cardinality(b.recent) >= Threshold
    /\ \A r \in b.recent : reports[r].of = b.s
    /\ \A r, q \in b.recent : reports[r].at <= reports[q].at + Day

(* Whom Redis keeps apart has a row in PostgreSQL that says so, whatever   *)
(* fails between the two stores.                                           *)
BlocksRecorded ==
  \A s \in Session : \A t \in excluded[s] : <<s, t>> \in blocks

(* What is left of a block against the workers that had looked the pair up *)
(* before it was stored: each may put the two into one more match, and no  *)
(* more, while the block does not run out.                                 *)
RematchBounded ==
  \A s, t \in Session :
    lapses = 0 =>
      Cardinality({m \in despite : Parties(m) = {s, t}}) <= Cardinality(Pod)

(***************************************************************************)
(* What the design document says, and the code does not do.                *)
(***************************************************************************)

(* "A blocked peer should not be matched again."                           *)
BlockedApart == despite = {}
=============================================================================
