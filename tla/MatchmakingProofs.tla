------------------------- MODULE MatchmakingProofs -------------------------
(***************************************************************************)
(* Theorems about Matchmaking, for every set of sessions, pods, handlers   *)
(* and match ids, and every value of the bounds.                           *)
(***************************************************************************)
EXTENDS Matchmaking, TLAPS

(* ZREM keeps a queue of sessions one, and takes out nobody else.          *)
LEMMA ZRemType ==
  ASSUME NEW q \in Seq(Session), NEW s \in Session
  PROVE  ZRem(q, s) \in Seq(Session)
BY DEF ZRem, RemoveAt

LEMMA ZRemKeeps ==
  ASSUME NEW q \in Seq(Session), NEW s \in Session,
         NEW i \in DOMAIN q, q[i] # s
  PROVE  \E j \in DOMAIN ZRem(q, s) : ZRem(q, s)[j] = q[i]
<1>1. CASE ~\E k \in DOMAIN q : q[k] = s
  BY <1>1 DEF ZRem
<1>2. CASE \E k \in DOMAIN q : q[k] = s
  <2> DEFINE k == CHOOSE k \in DOMAIN q : q[k] = s
  <2>1. k \in 1..Len(q) /\ q[k] = s /\ i \in 1..Len(q) /\ i # k
    BY <1>2
  <2> DEFINE left == SubSeq(q, 1, k-1)
             right == SubSeq(q, k+1, Len(q))
  <2>2. ZRem(q, s) = left \o right
    BY <1>2 DEF ZRem, RemoveAt
  <2> HIDE DEF k
  <2>3. /\ left \in Seq(Session) /\ right \in Seq(Session)
        /\ Len(left) = k-1 /\ Len(right) = Len(q)-k
        /\ \A j \in 1..k-1 : left[j] = q[j]
        /\ \A j \in 1..Len(q)-k : right[j] = q[j+k]
    BY <2>1
  <2> HIDE DEF left, right
  <2>4. CASE i < k
    <3>1. i \in 1..Len(left \o right) /\ (left \o right)[i] = left[i]
      BY <2>1, <2>3, <2>4
    <3> QED BY <3>1, <2>1, <2>2, <2>3, <2>4
  <2>5. CASE i > k
    <3>1. /\ i-1 \in 1..Len(left \o right)
          /\ (left \o right)[i-1] = right[i-k]
      BY <2>1, <2>3, <2>5
    <3>2. right[i-k] = q[i]
      BY <2>1, <2>3, <2>5
    <3> QED BY <3>1, <3>2, <2>2
  <2> QED BY <2>1, <2>4, <2>5
<1> QED BY <1>1, <1>2

(* What a poll or the next pair of a round leaves in the worker.           *)
LEMMA RoundType ==
  ASSUME NEW b \in Seq(Session)
  PROVE  Round(b) \in WorkerType /\ WorkerOK(Round(b)) /\ Round(b).got = {}
<1>1. IdleWorker \in WorkerType /\ WorkerOK(IdleWorker) /\ IdleWorker.got = {}
  <2>1. <<>> \in Seq(Session)
    OBVIOUS
  <2> QED BY <2>1 DEF IdleWorker, WorkerType, WorkerOK, WorkerPc, TryPc
<1>2. CASE Len(b) < 2
  BY <1>1, <1>2 DEF Round
<1>3. CASE ~(Len(b) < 2)
  <2>1. Round(b) = [pc |-> "check", batch |-> b, n |-> 1, got |-> {}, m |-> None]
    BY <1>3 DEF Round, IdleWorker
  <2>2. Len(b) >= 2
    BY <1>3
  <2> QED BY <2>1, <2>2 DEF WorkerType, WorkerOK, WorkerPc, TryPc
<1> QED BY <1>2, <1>3

LEMMA IdleTypes ==
  /\ IdleWorker \in WorkerType /\ WorkerOK(IdleWorker)
  /\ IdleHandler \in HandlerType /\ HandlerOK(IdleHandler)
<1>1. <<>> \in Seq(Session)
  OBVIOUS
<1> QED
  BY <1>1 DEF IdleWorker, WorkerType, WorkerOK, WorkerPc, TryPc, IdleHandler,
              HandlerType, HandlerOK, HandlerPc, SkipPc, Op, MaybePair, Skipping

LEMMA TypeInit == Init => TypeOK
BY IdleTypes, ConstantsAssumption
   DEF Init, TypeOK, DataOK, MaybePair, NoRow, SessionState

(* Assigning fields of a worker's record keeps it one.                     *)
LEMMA WorkerUpdate ==
  ASSUME NEW r \in WorkerType
  PROVE  \A pc \in WorkerPc :
           /\ [r EXCEPT !.pc = pc] \in WorkerType
           /\ \A m \in MatchId : [r EXCEPT !.pc = pc, !.m = m] \in WorkerType
           /\ \A n \in {1, 2} :
                /\ [r EXCEPT !.n = n, !.pc = pc] \in WorkerType
                /\ \A got \in SUBSET Session :
                     [r EXCEPT !.got = got, !.n = n, !.pc = pc] \in WorkerType
BY DEF WorkerType

(* A command for each of the pair keeps the workers well-formed.           *)
LEMMA EachPartyType ==
  ASSUME TypeOK, NEW p \in Pod, NEW pc \in WorkerPc, EachParty(p, pc),
         worker[p].pc # "idle",
         pc \in {"hset", "index", "call", "tell"} => worker[p].m \in MatchId
  PROVE  worker' \in [Pod -> WorkerType] /\ \A q \in Pod : WorkerOK(worker'[q])
<1> DEFINE w == worker[p]
           next == IF w.n = 1 THEN w.pc ELSE pc
           rec == [w EXCEPT !.n = 3 - w.n, !.pc = next]
<1>1. w \in WorkerType /\ WorkerOK(w)
  BY DEF TypeOK
<1>2. 3 - w.n \in {1, 2} /\ next \in WorkerPc
  BY <1>1 DEF WorkerType
<1>3. rec \in WorkerType
  <2> HIDE DEF w, next
  <2> QED BY <1>1, <1>2, WorkerUpdate
<1>4. WorkerOK(rec)
  BY <1>1 DEF WorkerOK, WorkerType
<1>5. worker' = [worker EXCEPT ![p] = rec]
  BY DEF EachParty, TypeOK
<1> HIDE DEF rec
<1> QED BY <1>3, <1>4, <1>5 DEF TypeOK

(* The steps of a worker.                                                  *)
LEMMA WorkerStepType ==
  ASSUME TypeOK, NEW p \in Pod, WorkerStep(p)
  PROVE  TypeOK'
<1> USE DEF TypeOK
<1> DEFINE w == worker[p]
<1>w. /\ w \in WorkerType /\ WorkerOK(w)
      /\ w.n \in {1, 2} /\ w.batch \in Seq(Session)
      /\ w.pc # "idle" => Party(p) \in Session /\ Pair(p) \in Session \X Session
                         /\ w.batch[1] \in Session /\ w.batch[2] \in Session
  BY DEF WorkerType, WorkerOK, Party, Pair
<1>h. handler' = handler
  BY DEF WorkerStep
<1>n. NextPair(p) => /\ worker' \in [Pod -> WorkerType]
                     /\ \A q \in Pod : WorkerOK(worker'[q])
  <2>1. SubSeq(w.batch, 3, Len(w.batch)) \in Seq(Session)
    BY <1>w
  <2> QED BY <2>1, RoundType DEF NextPair
<1>1. CASE Poll(p)
  <2> DEFINE len == IF Len(queue) < QueueWindow THEN Len(queue) ELSE QueueWindow
  <2>1. worker' = [worker EXCEPT ![p] = Round(SubSeq(queue, 1, len))]
    BY <1>1 DEF Poll
  <2>2. SubSeq(queue, 1, len) \in Seq(Session)
    BY ConstantsAssumption DEF DataOK
  <2>3. DataOK'
    BY <1>1 DEF Poll, WorkerStep, DataOK, bounds
  <2> QED BY <2>1, <2>2, <2>3, <1>h, RoundType
<1>2. CASE CheckBlockExclusion(p)
  <2>1. DataOK'
    BY <1>2 DEF CheckBlockExclusion, WorkerStep, DataOK, bounds
  <2>2. WorkerTo(p, "lock") => /\ worker' \in [Pod -> WorkerType]
                               /\ \A q \in Pod : WorkerOK(worker'[q])
    <3>1. w.pc = "check"
      BY <1>2 DEF CheckBlockExclusion
    <3>2. [w EXCEPT !.pc = "lock"] \in WorkerType
      BY <1>w, WorkerUpdate DEF WorkerPc
    <3>3. WorkerOK([w EXCEPT !.pc = "lock"])
      BY <1>w, <3>1 DEF WorkerType, WorkerOK
    <3> QED BY <3>2, <3>3 DEF WorkerTo
  <2> QED BY <1>2, <1>n, <1>h, <2>1, <2>2 DEF CheckBlockExclusion
<1>3. CASE LockParty(p)
  <2> DEFINE got == w.got \cup Acquired(Party(p))
             pc  == IF w.n = 1 THEN "lock"
                    ELSE IF got = Parties(p) THEN "zrem" ELSE "release"
             rec == [w EXCEPT !.got = got, !.n = 3 - w.n, !.pc = pc]
  <2>1. DataOK'
    BY <1>3, <1>w DEF LockParty, WorkerStep, DataOK, bounds
  <2>2. worker' = [worker EXCEPT ![p] = rec]
    BY <1>3 DEF LockParty
  <2>3. got \in SUBSET Session /\ pc \in WorkerPc /\ w.pc = "lock"
    BY <1>3, <1>w DEF LockParty, Acquired, WorkerType, WorkerPc, TryPc
  <2>4. 3 - w.n \in {1, 2}
    BY <1>w
  <2>5. rec \in WorkerType
    <3> HIDE DEF got, pc, w
    <3> QED BY <1>w, <2>3, <2>4, WorkerUpdate
  <2>6. WorkerOK(rec)
    BY <1>w, <2>3 DEF WorkerType, WorkerOK
  <2> HIDE DEF rec
  <2> QED BY <1>h, <2>1, <2>2, <2>5, <2>6
<1>4. CASE PopPair(p)
  <2>1. DataOK'
    BY <1>4, <1>w, ZRemType DEF PopPair, WorkerStep, DataOK, bounds
  <2>2. worker' \in [Pod -> WorkerType]
    BY <1>4, <1>w DEF PopPair, WorkerType, WorkerPc, TryPc, WorkerTo
  <2>3. \A q \in Pod : WorkerOK(worker'[q])
    BY <1>4, <1>w DEF PopPair, WorkerOK, WorkerTo
  <2> QED BY <1>h, <2>1, <2>2, <2>3
<1>5. CASE InsertMatch(p)
  <2>1. PICK m \in MatchId :
          /\ rows' = [rows EXCEPT ![m].pair = Pair(p)]
          /\ worker' = [worker EXCEPT ![p].pc = "hset", ![p].m = m]
    BY <1>5 DEF InsertMatch
  <2> DEFINE rec == [w EXCEPT !.pc = "hset", !.m = m]
  <2>2. rows' \in [MatchId -> [pair : MaybePair, ended : BOOLEAN, meets : Nat]]
    <3>1. Pair(p) \in MaybePair
      BY <1>5, <1>w DEF InsertMatch, MaybePair
    <3> QED BY <2>1, <3>1 DEF DataOK
  <2>3. DataOK'
    BY <1>5, <2>2 DEF InsertMatch, WorkerStep, DataOK, bounds
  <2>4. rec \in WorkerType /\ WorkerOK(rec)
    <3>1. rec \in WorkerType
      BY <1>w, WorkerUpdate DEF WorkerPc, TryPc
    <3>2. WorkerOK(rec)
      BY <1>w, <1>5 DEF WorkerType, WorkerOK, InsertMatch
    <3> QED BY <3>1, <3>2
  <2>5. worker' = [worker EXCEPT ![p] = rec]
    BY <2>1
  <2> HIDE DEF rec
  <2> QED BY <1>h, <2>3, <2>4, <2>5
<1>6. CASE StoreMatch(p)
  <2>1. DataOK'
    BY <1>6, <1>w DEF StoreMatch, WorkerStep, DataOK, bounds, MaybePair
  <2>2. worker' \in [Pod -> WorkerType]
    BY <1>6, <1>w DEF StoreMatch, WorkerType, WorkerPc, TryPc, WorkerTo
  <2>3. \A q \in Pod : WorkerOK(worker'[q])
    BY <1>6, <1>w DEF StoreMatch, WorkerOK, WorkerTo
  <2> QED BY <1>h, <2>1, <2>2, <2>3
<1>7. CASE IndexParty(p)
  <2>1. w.m \in MatchId
    BY <1>7, <1>w DEF IndexParty, WorkerOK
  <2>2. DataOK'
    BY <1>7, <1>w, <2>1 DEF IndexParty, WorkerStep, DataOK, bounds, SessionState
  <2>3. EachParty(p, "call") /\ w.pc # "idle" /\ "call" \in WorkerPc
    BY <1>7 DEF IndexParty, WorkerPc, TryPc
  <2> QED BY <1>h, <2>1, <2>2, <2>3, EachPartyType
<1>8. CASE PutInCall(p)
  <2>1. w.m \in MatchId
    BY <1>8, <1>w DEF PutInCall, WorkerOK
  <2>2. DataOK'
    BY <1>8, <1>w, <2>1 DEF PutInCall, WorkerStep, DataOK, bounds, SessionState
  <2>3. EachParty(p, "tell") /\ w.pc # "idle" /\ "tell" \in WorkerPc
    BY <1>8 DEF PutInCall, WorkerPc, TryPc
  <2> QED BY <1>h, <2>1, <2>2, <2>3, EachPartyType
<1>9. CASE TellFound(p)
  <2>1. w.m \in MatchId
    BY <1>9, <1>w DEF TellFound, WorkerOK
  <2>2. DataOK'
    BY <1>9, <1>w, <2>1 DEF TellFound, WorkerStep, DataOK, bounds, SessionState
  <2>3. EachParty(p, "release") /\ w.pc # "idle" /\ "release" \in WorkerPc
    BY <1>9 DEF TellFound, WorkerPc, TryPc
  <2> QED BY <1>h, <2>1, <2>2, <2>3, EachPartyType
<1>10. CASE ReleasePair(p)
  <2>1. DataOK'
    BY <1>10, <1>w DEF ReleasePair, WorkerStep, DataOK, bounds
  <2> QED BY <1>10, <1>n, <1>h, <2>1 DEF ReleasePair
<1> QED
  BY <1>1, <1>2, <1>3, <1>4, <1>5, <1>6, <1>7, <1>8, <1>9, <1>10 DEF WorkerStep

(* The same for the record of a handler.                                   *)
LEMMA HandlerUpdate ==
  ASSUME NEW r \in HandlerType
  PROVE  \A pc \in HandlerPc :
           /\ [r EXCEPT !.pc = pc] \in HandlerType
           /\ \A m \in MatchId \cup {None} :
                [r EXCEPT !.m = m, !.pc = pc] \in HandlerType
           /\ \A pair \in MaybePair :
                [r EXCEPT !.pair = pair, !.pc = pc] \in HandlerType
           /\ \A n \in {1, 2} : [r EXCEPT !.n = n, !.pc = pc] \in HandlerType
BY DEF HandlerType

LEMMA HandlerToType ==
  ASSUME TypeOK, NEW h \in Handler, NEW pc \in HandlerPc, HandlerTo(h, pc),
         pc # "idle" => HandlerOK([handler[h] EXCEPT !.pc = pc])
  PROVE  /\ handler' \in [Handler -> HandlerType]
         /\ \A g \in Handler : HandlerOK(handler'[g])
<1> DEFINE rec == IF pc = "idle" THEN IdleHandler
                                ELSE [handler[h] EXCEPT !.pc = pc]
<1>1. handler' = [handler EXCEPT ![h] = rec]
  BY DEF HandlerTo
<1>2. rec \in HandlerType /\ HandlerOK(rec)
  BY IdleTypes, HandlerUpdate DEF TypeOK
<1> HIDE DEF rec
<1> QED BY <1>1, <1>2 DEF TypeOK

(* The steps of a handler.                                                 *)
LEMMA HandlerStepType ==
  ASSUME TypeOK, NEW h \in Handler, HandlerStep(h)
  PROVE  TypeOK'
<1> DEFINE r == handler[h]
<1>r. /\ r \in HandlerType /\ HandlerOK(r)
      /\ r.n \in {1, 2} /\ r.pair \in MaybePair /\ r.op \in Op
      /\ r.pair # <<>> => r.pair[1] \in Session /\ r.pair[2] \in Session
      /\ r.pair # <<>> => Peer(h) \in Session /\ r.pair[r.n] \in Session
  BY DEF TypeOK, HandlerType, MaybePair, Peer
<1>w. worker' = worker
  BY DEF HandlerStep
<1>u. UNCHANGED <<pairLock, banned, told, open, reqs, faults, stalls>>
  BY DEF HandlerStep, bounds
<1>d. DataOK
  BY DEF TypeOK
<1>1. CASE BanCheck(h)
  <2>1. DataOK'
    BY <1>1, <1>r, <1>u, <1>d DEF BanCheck, At, HandlerOK, DataOK
  <2> DEFINE pc == IF r.s \in banned THEN AfterJoin(h) ELSE "searching"
  <2>2. HandlerTo(h, pc)
    BY <1>1 DEF BanCheck, AfterJoin, AfterSkip
  <2>3. pc \in HandlerPc
    BY DEF HandlerPc, SkipPc, AfterJoin, AfterSkip
  <2>4. pc # "idle" => HandlerOK([r EXCEPT !.pc = pc])
    BY <1>1, <1>r DEF BanCheck, At, HandlerOK, HandlerType, Skipping, SkipPc,
                      AfterJoin, AfterSkip
  <2> HIDE DEF pc
  <2> QED BY <1>w, <2>1, <2>2, <2>3, <2>4, HandlerToType DEF TypeOK
<1>2. CASE SetSearching(h)
  <2>1. DataOK'
    BY <1>2, <1>r, <1>u, <1>d DEF SetSearching, At, HandlerOK, DataOK, SessionState
  <2> DEFINE pc == "zadd"
  <2>2. HandlerTo(h, pc)
    BY <1>2 DEF SetSearching, AfterJoin, AfterSkip
  <2>3. pc \in HandlerPc
    BY DEF HandlerPc, SkipPc, AfterJoin, AfterSkip
  <2>4. pc # "idle" => HandlerOK([r EXCEPT !.pc = pc])
    BY <1>2, <1>r DEF SetSearching, At, HandlerOK, HandlerType, Skipping, SkipPc,
                      AfterJoin, AfterSkip
  <2> HIDE DEF pc
  <2> QED BY <1>w, <2>1, <2>2, <2>3, <2>4, HandlerToType DEF TypeOK
<1>3. CASE Enqueue(h)
  <2>1. DataOK'
    BY <1>3, <1>r, <1>u, <1>d, ZRemType DEF Enqueue, At, HandlerOK, DataOK, ZAdd
  <2> DEFINE pc == AfterJoin(h)
  <2>2. HandlerTo(h, pc)
    BY <1>3 DEF Enqueue, AfterJoin, AfterSkip
  <2>3. pc \in HandlerPc
    BY DEF HandlerPc, SkipPc, AfterJoin, AfterSkip
  <2>4. pc # "idle" => HandlerOK([r EXCEPT !.pc = pc])
    BY <1>3, <1>r DEF Enqueue, At, HandlerOK, HandlerType, Skipping, SkipPc,
                      AfterJoin, AfterSkip
  <2> HIDE DEF pc
  <2> QED BY <1>w, <2>1, <2>2, <2>3, <2>4, HandlerToType DEF TypeOK
<1>4. CASE Dequeue(h)
  <2>1. DataOK'
    BY <1>4, <1>r, <1>u, <1>d, ZRemType DEF Dequeue, At, HandlerOK, DataOK
  <2> DEFINE pc == "ready"
  <2>2. HandlerTo(h, pc)
    BY <1>4 DEF Dequeue, AfterJoin, AfterSkip
  <2>3. pc \in HandlerPc
    BY DEF HandlerPc, SkipPc, AfterJoin, AfterSkip
  <2>4. pc # "idle" => HandlerOK([r EXCEPT !.pc = pc])
    BY <1>4, <1>r DEF Dequeue, At, HandlerOK, HandlerType, Skipping, SkipPc,
                      AfterJoin, AfterSkip
  <2> HIDE DEF pc
  <2> QED BY <1>w, <2>1, <2>2, <2>3, <2>4, HandlerToType DEF TypeOK
<1>5. CASE SetReady(h)
  <2>1. DataOK'
    BY <1>5, <1>r, <1>u, <1>d DEF SetReady, At, HandlerOK, DataOK, SessionState
  <2> DEFINE pc == IF r.op = "close" THEN "find" ELSE "idle"
  <2>2. HandlerTo(h, pc)
    BY <1>5 DEF SetReady, AfterJoin, AfterSkip
  <2>3. pc \in HandlerPc
    BY DEF HandlerPc, SkipPc, AfterJoin, AfterSkip
  <2>4. pc # "idle" => HandlerOK([r EXCEPT !.pc = pc])
    BY <1>5, <1>r DEF SetReady, At, HandlerOK, HandlerType, Skipping, SkipPc,
                      AfterJoin, AfterSkip
  <2> HIDE DEF pc
  <2> QED BY <1>w, <2>1, <2>2, <2>3, <2>4, HandlerToType DEF TypeOK
<1>6. CASE FindMatch(h)
  <2>1. DataOK'
    BY <1>6, <1>u, <1>d DEF FindMatch, DataOK
  <2> DEFINE m  == idx[r.s]
             pc == IF m = None THEN "disconnect" ELSE "lock"
             rec == [r EXCEPT !.m = m, !.pc = pc]
  <2>2. m \in MatchId \cup {None} /\ pc \in HandlerPc /\ r.op = "close"
    BY <1>6, <1>r, <1>d DEF FindMatch, At, HandlerOK, DataOK, HandlerPc
  <2>3. handler' = [handler EXCEPT ![h] = rec]
    BY <1>6 DEF FindMatch
  <2>4. HandlerOK(rec)
    BY <1>6, <1>r, <2>2 DEF FindMatch, At, HandlerOK, HandlerType, Skipping, SkipPc
  <2>5. rec \in HandlerType
    <3> HIDE DEF m, pc, r
    <3> QED BY <1>r, <2>2, HandlerUpdate
  <2> HIDE DEF rec
  <2> QED BY <1>w, <2>1, <2>3, <2>4, <2>5 DEF TypeOK
<1>7. CASE LockSkip(h)
  <2>1. DataOK'
    BY <1>7, <1>r, <1>u, <1>d DEF LockSkip, At, HandlerOK, DataOK, Skipping
  <2> DEFINE pc == IF SkipLocked(r.m) THEN AfterSkip(h) ELSE "read"
  <2>2. HandlerTo(h, pc)
    BY <1>7 DEF LockSkip, AfterJoin, AfterSkip
  <2>3. pc \in HandlerPc
    BY DEF HandlerPc, SkipPc, AfterJoin, AfterSkip
  <2>4. pc # "idle" => HandlerOK([r EXCEPT !.pc = pc])
    BY <1>7, <1>r DEF LockSkip, At, HandlerOK, HandlerType, Skipping, SkipPc,
                      AfterJoin, AfterSkip
  <2> HIDE DEF pc
  <2> QED BY <1>w, <2>1, <2>2, <2>3, <2>4, HandlerToType DEF TypeOK
<1>8. CASE ReadMatch(h)
  <2>1. DataOK'
    BY <1>8, <1>u, <1>d DEF ReadMatch, DataOK
  <2> DEFINE pair == hash[r.m]
  <2>2. pair \in MaybePair /\ r.pc = "read"
    BY <1>8, <1>r, <1>d DEF ReadMatch, At, HandlerOK, DataOK, Skipping, SkipPc
  <2>3. CASE pair = <<>>
    <3> DEFINE pc == IF r.op = "block" THEN "idle" ELSE "unlock"
    <3>1. HandlerTo(h, pc) /\ pc \in HandlerPc
      BY <1>8, <2>3 DEF ReadMatch, HandlerPc
    <3>2. pc # "idle" => HandlerOK([r EXCEPT !.pc = pc])
      BY <1>r, <2>2 DEF HandlerOK, HandlerType, Skipping, SkipPc
    <3> HIDE DEF pc
    <3> QED BY <1>w, <2>1, <3>1, <3>2, HandlerToType DEF TypeOK
  <2>4. CASE pair # <<>>
    <3> DEFINE pc  == IF r.op = "block" THEN "sadd" ELSE "end"
               rec == [r EXCEPT !.pair = pair, !.pc = pc]
    <3>1. handler' = [handler EXCEPT ![h] = rec] /\ pc \in HandlerPc
      BY <1>8, <2>4 DEF ReadMatch, HandlerPc, SkipPc
    <3>2. HandlerOK(rec)
      BY <1>r, <2>2, <2>4 DEF HandlerOK, HandlerType, Skipping, SkipPc
    <3>3. rec \in HandlerType
      <4> HIDE DEF pc, pair, r
      <4> QED BY <1>r, <2>2, <3>1, HandlerUpdate
    <3> HIDE DEF rec
    <3> QED BY <1>w, <2>1, <3>1, <3>2, <3>3 DEF TypeOK
  <2> QED BY <2>3, <2>4
<1>9. CASE EndRow(h)
  <2>1. DataOK'
    BY <1>9, <1>r, <1>u, <1>d DEF EndRow, At, HandlerOK, DataOK, Skipping, SkipPc
  <2> DEFINE pc == "history"
  <2>2. HandlerTo(h, pc)
    BY <1>9 DEF EndRow, AfterJoin, AfterSkip
  <2>3. pc \in HandlerPc
    BY DEF HandlerPc, SkipPc, AfterJoin, AfterSkip
  <2>4. pc # "idle" => HandlerOK([r EXCEPT !.pc = pc])
    BY <1>9, <1>r DEF EndRow, At, HandlerOK, HandlerType, Skipping, SkipPc,
                      AfterJoin, AfterSkip
  <2> HIDE DEF pc
  <2> QED BY <1>w, <2>1, <2>2, <2>3, <2>4, HandlerToType DEF TypeOK
<1>10. CASE WriteHistory(h)
  <2>1. DataOK'
    <3> DEFINE Row == [pair : MaybePair, ended : BOOLEAN, meets : Nat]
               row == [rows[r.m] EXCEPT !.meets = @ + 1]
    <3>1. r.m \in MatchId /\ rows' = [rows EXCEPT ![r.m] = row]
      BY <1>10, <1>r DEF WriteHistory, At, HandlerOK, Skipping, SkipPc
    <3>2. rows[r.m] \in Row
      BY <3>1, <1>d DEF DataOK
    <3>3. row \in Row
      BY <3>2
    <3>4. rows' \in [MatchId -> Row]
      <4> HIDE DEF row, Row
      <4> QED BY <3>1, <3>3, <1>d DEF DataOK, Row
    <3> HIDE DEF row
    <3> QED BY <1>10, <1>u, <1>d, <3>4 DEF WriteHistory, DataOK
  <2> DEFINE pc == "delete"
  <2>2. HandlerTo(h, pc)
    BY <1>10 DEF WriteHistory, AfterJoin, AfterSkip
  <2>3. pc \in HandlerPc
    BY DEF HandlerPc, SkipPc, AfterJoin, AfterSkip
  <2>4. pc # "idle" => HandlerOK([r EXCEPT !.pc = pc])
    BY <1>10, <1>r DEF WriteHistory, At, HandlerOK, HandlerType, Skipping, SkipPc,
                      AfterJoin, AfterSkip
  <2> HIDE DEF pc
  <2> QED BY <1>w, <2>1, <2>2, <2>3, <2>4, HandlerToType DEF TypeOK
<1>11. CASE DeleteMatch(h)
  <2>1. DataOK'
    BY <1>11, <1>r, <1>u, <1>d DEF DeleteMatch, At, HandlerOK, DataOK, Skipping, MaybePair
  <2> DEFINE pc == "unindex"
  <2>2. HandlerTo(h, pc)
    BY <1>11 DEF DeleteMatch, AfterJoin, AfterSkip
  <2>3. pc \in HandlerPc
    BY DEF HandlerPc, SkipPc, AfterJoin, AfterSkip
  <2>4. pc # "idle" => HandlerOK([r EXCEPT !.pc = pc])
    BY <1>11, <1>r DEF DeleteMatch, At, HandlerOK, HandlerType, Skipping, SkipPc,
                      AfterJoin, AfterSkip
  <2> HIDE DEF pc
  <2> QED BY <1>w, <2>1, <2>2, <2>3, <2>4, HandlerToType DEF TypeOK
<1>12. CASE Unindex(h)
  <2>1. DataOK'
    BY <1>12, <1>r, <1>u, <1>d DEF Unindex, At, HandlerOK, DataOK
  <2> DEFINE pc == IF r.n = 1 THEN r.pc ELSE "freepeer"
             rec == [r EXCEPT !.n = 3 - r.n, !.pc = pc]
  <2>2. 3 - r.n \in {1, 2} /\ r.pc = "unindex" /\ pc \in HandlerPc
    BY <1>12, <1>r DEF Unindex, At, HandlerPc, SkipPc
  <2>3. handler' = [handler EXCEPT ![h] = rec]
    BY <1>12 DEF Unindex
  <2>4. HandlerOK(rec)
    BY <1>r, <2>2 DEF HandlerOK, HandlerType, Skipping, SkipPc
  <2>5. rec \in HandlerType
    <3> HIDE DEF pc, r
    <3> QED BY <1>r, <2>2, HandlerUpdate
  <2> HIDE DEF rec
  <2> QED BY <1>w, <2>1, <2>3, <2>4, <2>5 DEF TypeOK
<1>13. CASE FreePeer(h)
  <2>1. DataOK'
    BY <1>13, <1>r, <1>u, <1>d DEF FreePeer, At, HandlerOK, DataOK, SessionState
  <2> DEFINE pc == "tellpeer"
  <2>2. HandlerTo(h, pc)
    BY <1>13 DEF FreePeer, AfterJoin, AfterSkip
  <2>3. pc \in HandlerPc
    BY DEF HandlerPc, SkipPc, AfterJoin, AfterSkip
  <2>4. pc # "idle" => HandlerOK([r EXCEPT !.pc = pc])
    BY <1>13, <1>r DEF FreePeer, At, HandlerOK, HandlerType, Skipping, SkipPc,
                      AfterJoin, AfterSkip
  <2> HIDE DEF pc
  <2> QED BY <1>w, <2>1, <2>2, <2>3, <2>4, HandlerToType DEF TypeOK
<1>14. CASE TellPeer(h)
  <2>1. DataOK'
    BY <1>14, <1>r, <1>u, <1>d DEF TellPeer, At, HandlerOK, DataOK, Skipping, SkipPc
  <2> DEFINE pc == "ban"
  <2>2. HandlerTo(h, pc)
    BY <1>14 DEF TellPeer, AfterJoin, AfterSkip
  <2>3. pc \in HandlerPc
    BY DEF HandlerPc, SkipPc, AfterJoin, AfterSkip
  <2>4. pc # "idle" => HandlerOK([r EXCEPT !.pc = pc])
    BY <1>14, <1>r DEF TellPeer, At, HandlerOK, HandlerType, Skipping, SkipPc,
                      AfterJoin, AfterSkip
  <2> HIDE DEF pc
  <2> QED BY <1>w, <2>1, <2>2, <2>3, <2>4, HandlerToType DEF TypeOK
<1>15. CASE UnlockSkip(h)
  <2>1. DataOK'
    BY <1>15, <1>r, <1>u, <1>d DEF UnlockSkip, At, HandlerOK, DataOK
  <2> DEFINE pc == AfterSkip(h)
  <2>2. HandlerTo(h, pc)
    BY <1>15 DEF UnlockSkip, AfterJoin, AfterSkip
  <2>3. pc \in HandlerPc
    BY DEF HandlerPc, SkipPc, AfterJoin, AfterSkip
  <2>4. pc # "idle" => HandlerOK([r EXCEPT !.pc = pc])
    BY <1>15, <1>r DEF UnlockSkip, At, HandlerOK, HandlerType, Skipping, SkipPc,
                      AfterJoin, AfterSkip
  <2> HIDE DEF pc
  <2> QED BY <1>w, <2>1, <2>2, <2>3, <2>4, HandlerToType DEF TypeOK
<1>16. CASE Disconnect(h)
  <2>1. DataOK'
    BY <1>16, <1>r, <1>u, <1>d DEF Disconnect, At, HandlerOK, DataOK, SessionState
  <2> DEFINE pc == "idle"
  <2>2. HandlerTo(h, pc)
    BY <1>16 DEF Disconnect, AfterJoin, AfterSkip
  <2>3. pc \in HandlerPc
    BY DEF HandlerPc, SkipPc, AfterJoin, AfterSkip
  <2>4. pc # "idle" => HandlerOK([r EXCEPT !.pc = pc])
    BY <1>16, <1>r DEF Disconnect, At, HandlerOK, HandlerType, Skipping, SkipPc,
                      AfterJoin, AfterSkip
  <2> HIDE DEF pc
  <2> QED BY <1>w, <2>1, <2>2, <2>3, <2>4, HandlerToType DEF TypeOK
<1>17. CASE AddBlock(h)
  <2>1. DataOK'
    <3>1. Peer(h) \in Session /\ r.s \in Session
      BY <1>17, <1>r DEF AddBlock, At, HandlerOK
    <3>2. blocks' \in [Session -> SUBSET Session]
      <4> HIDE DEF r
      <4> QED BY <1>17, <3>1, <1>d DEF AddBlock, DataOK, r
    <3> QED BY <1>17, <1>u, <1>d, <3>2 DEF AddBlock, DataOK
  <2> DEFINE pc == "idle"
  <2>2. HandlerTo(h, pc)
    BY <1>17 DEF AddBlock, AfterJoin, AfterSkip
  <2>3. pc \in HandlerPc
    BY DEF HandlerPc, SkipPc, AfterJoin, AfterSkip
  <2>4. pc # "idle" => HandlerOK([r EXCEPT !.pc = pc])
    BY <1>17, <1>r DEF AddBlock, At, HandlerOK, HandlerType, Skipping, SkipPc,
                      AfterJoin, AfterSkip
  <2> HIDE DEF pc
  <2> QED BY <1>w, <2>1, <2>2, <2>3, <2>4, HandlerToType DEF TypeOK
<1> QED
  BY <1>1, <1>2, <1>3, <1>4, <1>5, <1>6, <1>7, <1>8, <1>9, <1>10, <1>11, <1>12,
     <1>13, <1>14, <1>15, <1>16, <1>17 DEF HandlerStep

(* A message or a close fills an idle slot.                                *)
LEMMA StartType ==
  ASSUME TypeOK, NEW h \in Handler, NEW op \in Op, NEW s \in Session,
         NEW m \in MatchId \cup {None}, NEW pc \in HandlerPc,
         Start(h, op, s, m, pc),
         \/ pc = "ban" /\ op = "join"
         \/ pc = "zrem" /\ op \in {"leave", "close"}
         \/ pc = "lock" /\ op = "skip" /\ m \in MatchId
         \/ pc = "read" /\ op = "block" /\ m \in MatchId
  PROVE  /\ handler' \in [Handler -> HandlerType]
         /\ \A g \in Handler : HandlerOK(handler'[g])
<1> DEFINE rec == [IdleHandler EXCEPT !.op = op, !.s = s, !.m = m, !.pc = pc]
<1>1. handler' = [handler EXCEPT ![h] = rec]
  BY DEF Start
<1>2. rec \in HandlerType /\ rec.pc = pc /\ rec.op = op /\ rec.s = s /\ rec.m = m
  <2>1. IdleHandler \in HandlerType
    BY IdleTypes
  <2> QED BY <2>1 DEF HandlerType
<1>3. HandlerOK(rec)
  <2> HIDE DEF rec
  <2> QED BY <1>2 DEF HandlerOK, Skipping, SkipPc
<1> HIDE DEF rec
<1> QED BY <1>1, <1>2, <1>3 DEF TypeOK

LEMMA ClientType == TypeOK /\ Client => TypeOK'
<1> SUFFICES ASSUME TypeOK, NEW h \in Handler, NEW s \in Session,
                    \/ QueueJoin(h, s) \/ QueueLeave(h, s) \/ SocketClose(h, s)
                    \/ \E m \in MatchId : MatchSkip(h, s, m) \/ MatchBlock(h, s, m)
             PROVE  TypeOK'
  BY DEF Client
<1> USE DEF Op, HandlerPc, SkipPc
<1>1. CASE QueueJoin(h, s)
  BY <1>1, StartType DEF QueueJoin, Request, TypeOK, DataOK, redis, sent
<1>2. CASE QueueLeave(h, s)
  BY <1>2, StartType DEF QueueLeave, Request, TypeOK, DataOK, redis, sent
<1>3. CASE SocketClose(h, s)
  BY <1>3, StartType DEF SocketClose, TypeOK, DataOK, redis, sent, bounds
<1>4. ASSUME NEW m \in MatchId, MatchSkip(h, s, m) PROVE TypeOK'
  BY <1>4, StartType DEF MatchSkip, Request, TypeOK, DataOK, redis, sent
<1>5. ASSUME NEW m \in MatchId, MatchBlock(h, s, m) PROVE TypeOK'
  BY <1>5, StartType DEF MatchBlock, Request, TypeOK, DataOK, redis, sent
<1> QED BY <1>1, <1>2, <1>3, <1>4, <1>5

(* Bans, failures, crashes and locks that run out.                         *)
LEMMA EnvironmentType == TypeOK /\ Environment => TypeOK'
<1> SUFFICES ASSUME TypeOK, Environment PROVE TypeOK'
  OBVIOUS
<1>1. ASSUME NEW s \in Session, Ban(s) PROVE TypeOK'
  BY <1>1 DEF Ban, TypeOK, DataOK, redis, sent, bounds
<1>2. ASSUME NEW s \in Session, ExpirePairLock(s) PROVE TypeOK'
  BY <1>2 DEF ExpirePairLock, Expire, TypeOK, DataOK, sent
<1>3. ASSUME NEW m \in MatchId, ExpireSkipLock(m) PROVE TypeOK'
  BY <1>3 DEF ExpireSkipLock, Expire, TypeOK, DataOK, sent
<1>4. ASSUME NEW p \in Pod, WorkerThrows(p) PROVE TypeOK'
  <2> DEFINE rec == IF worker[p].pc \in TryPc
                    THEN [worker[p] EXCEPT !.pc = "release"] ELSE IdleWorker
  <2>1. DataOK'
    BY <1>4 DEF WorkerThrows, Fault, TypeOK, DataOK, redis, sent
  <2>2. worker' = [worker EXCEPT ![p] = rec] /\ handler' = handler
    BY <1>4 DEF WorkerThrows
  <2>3. rec \in WorkerType
    BY IdleTypes, WorkerUpdate DEF TypeOK, WorkerPc
  <2>4. WorkerOK(rec)
    BY IdleTypes DEF TypeOK, WorkerOK, WorkerType, TryPc
  <2> HIDE DEF rec
  <2> QED BY <2>1, <2>2, <2>3, <2>4 DEF TypeOK
<1>5. ASSUME NEW p \in Pod, PodCrash(p) PROVE TypeOK'
  <2>1. DataOK'
    BY <1>5 DEF PodCrash, Fault, TypeOK, DataOK, redis, sent
  <2> QED BY <1>5, <2>1, IdleTypes DEF PodCrash, TypeOK
<1>6. ASSUME NEW h \in Handler, HandlerThrows(h) PROVE TypeOK'
  <2> DEFINE pc == IF HoldsSkip(h) /\ ~At(h, "unlock") THEN "unlock"
                   ELSE IF At(h, "disconnect") THEN "idle" ELSE AfterSkip(h)
  <2>1. DataOK'
    BY <1>6 DEF HandlerThrows, Fault, TypeOK, DataOK, redis, sent
  <2>2. HandlerTo(h, pc) /\ worker' = worker /\ pc \in HandlerPc
    BY <1>6 DEF HandlerThrows, HandlerPc, AfterSkip
  <2>3. pc # "idle" => HandlerOK([handler[h] EXCEPT !.pc = pc])
    BY <1>6 DEF HandlerThrows, TypeOK, HandlerOK, HandlerType, HoldsSkip, Skipping,
                SkipPc, At, AfterSkip
  <2> HIDE DEF pc
  <2> QED BY <2>1, <2>2, <2>3, HandlerToType DEF TypeOK
<1> QED BY <1>1, <1>2, <1>3, <1>4, <1>5, <1>6 DEF Environment

LEMMA TypeStep == TypeOK /\ [Next]_vars => TypeOK'
<1> SUFFICES ASSUME TypeOK, [Next]_vars PROVE TypeOK'
  OBVIOUS
<1>1. CASE UNCHANGED vars
  BY <1>1 DEF vars, redis, sent, bounds, TypeOK, DataOK
<1> QED
  BY <1>1, WorkerStepType, HandlerStepType, ClientType, EnvironmentType DEF Next

(* Type correctness.                                                       *)
THEOREM TypeCorrect == Spec => []TypeOK
BY TypeInit, TypeStep, PTL DEF Spec

(***************************************************************************)
(* Pairing is exclusive.  A worker that holds a lock by its own account    *)
(* (got) holds it in Redis too, as long as none has run out under it; and  *)
(* SET NX gives the key to one worker only.                                *)
(***************************************************************************)
LockInv ==
  stalls = 0 => /\ \A p \in Pod : worker[p].got \subseteq pairLock
                /\ \A p, q \in Pod : p # q => worker[p].got \cap worker[q].got = {}

(* A step that takes no lock and drops none keeps the invariant.           *)
LEMMA LockFrame ==
  ASSUME LockInv, pairLock' = pairLock, stalls' = 0 => stalls = 0,
         \A p \in Pod : worker'[p].got \subseteq worker[p].got
  PROVE  LockInv'
BY DEF LockInv

LEMMA LockInit == Init => LockInv
BY DEF Init, LockInv, IdleWorker

(* What moving a worker on leaves as it was.                               *)
LEMMA WorkerToMoves ==
  ASSUME TypeOK, NEW p \in Pod, NEW pc, NEW q \in Pod, WorkerTo(p, pc)
  PROVE  /\ worker'[q].got = worker[q].got
         /\ worker'[q].batch = worker[q].batch
         /\ worker'[q].n = worker[q].n /\ worker'[q].m = worker[q].m
         /\ worker'[q].pc = IF q = p THEN pc ELSE worker[q].pc
<1>1. worker \in [Pod -> WorkerType] /\ worker[p] \in WorkerType
  BY DEF TypeOK
<1> QED BY <1>1 DEF WorkerTo, WorkerType

LEMMA EachPartyMoves ==
  ASSUME TypeOK, NEW p \in Pod, NEW pc, NEW q \in Pod, EachParty(p, pc)
  PROVE  /\ worker'[q].got = worker[q].got
         /\ worker'[q].batch = worker[q].batch
         /\ worker'[q].n = (IF q = p THEN 3 - worker[q].n ELSE worker[q].n)
         /\ worker'[q].m = worker[q].m
         /\ worker'[q].pc = IF q = p /\ worker[q].n # 1 THEN pc
                                                       ELSE worker[q].pc
<1> DEFINE rec == [worker[p] EXCEPT !.n = 3 - worker[p].n,
                      !.pc = IF worker[p].n = 1 THEN worker[p].pc ELSE pc]
<1>1. worker \in [Pod -> WorkerType] /\ worker[p] \in WorkerType
  BY DEF TypeOK
<1>2. worker' = [worker EXCEPT ![p] = rec]
  BY <1>1 DEF EachParty
<1>3. /\ rec.got = worker[p].got /\ rec.batch = worker[p].batch
      /\ rec.n = 3 - worker[p].n /\ rec.m = worker[p].m
      /\ rec.pc = IF worker[p].n = 1 THEN worker[p].pc ELSE pc
  BY <1>1 DEF WorkerType
<1> HIDE DEF rec
<1>4. worker'[q] = IF q = p THEN rec ELSE worker[q]
  BY <1>1, <1>2
<1> QED BY <1>3, <1>4

LEMMA LockWorker ==
  ASSUME TypeOK, LockInv, NEW p \in Pod, WorkerStep(p)
  PROVE  LockInv'
<1> DEFINE w == worker[p]
<1>t. /\ worker \in [Pod -> WorkerType] /\ w \in WorkerType
      /\ w.batch \in Seq(Session) /\ queue \in Seq(Session)
  BY DEF TypeOK, DataOK, WorkerType
<1>s. stalls' = stalls
  BY DEF WorkerStep, bounds
<1>n. SubSeq(w.batch, 3, Len(w.batch)) \in Seq(Session)
  BY <1>t
<1>1. CASE Poll(p)
  <2> DEFINE len == IF Len(queue) < QueueWindow THEN Len(queue) ELSE QueueWindow
  <2>0. SubSeq(queue, 1, len) \in Seq(Session)
    BY <1>t, ConstantsAssumption
  <2>1. worker'[p].got = {}
    BY <1>1, <1>t, <2>0, RoundType DEF Poll
  <2> QED BY <1>1, <2>1, <1>t, <1>s, LockFrame DEF Poll
<1>2. CASE CheckBlockExclusion(p)
  <2>1. worker'[p].got = {} \/ worker'[p].got = w.got
    BY <1>2, <1>n, <1>t, RoundType, WorkerToMoves DEF CheckBlockExclusion, NextPair
  <2>2. \A q \in Pod \ {p} : worker'[q] = worker[q]
    BY <1>2, <1>t DEF CheckBlockExclusion, NextPair, WorkerTo
  <2> QED BY <1>2, <2>1, <2>2, <1>s, LockFrame DEF CheckBlockExclusion
<1>3. CASE LockParty(p)
  <2>1. /\ worker'[p].got = w.got \cup ({Party(p)} \ pairLock)
        /\ \A q \in Pod \ {p} : worker'[q].got = worker[q].got
        /\ pairLock' = pairLock \cup {Party(p)}
    BY <1>3, <1>t DEF LockParty, Acquired, WorkerType
  <2> QED BY <2>1, <1>s DEF LockInv
<1>4. CASE ReleasePair(p)
  <2>1. worker'[p].got = {}
    BY <1>4, <1>n, <1>t, RoundType DEF ReleasePair, NextPair
  <2>2. /\ \A q \in Pod \ {p} : worker'[q].got = worker[q].got
        /\ pairLock' = pairLock \ w.got
    BY <1>4, <1>t DEF ReleasePair, NextPair
  <2> QED BY <2>1, <2>2, <1>s DEF LockInv
<1>5. CASE \/ PopPair(p) \/ InsertMatch(p) \/ StoreMatch(p) \/ IndexParty(p)
           \/ PutInCall(p) \/ TellFound(p)
  <2>1. \A q \in Pod : worker'[q].got = worker[q].got
    <3>1. CASE InsertMatch(p)
      BY <1>t, <3>1 DEF InsertMatch, WorkerType
    <3> QED BY <1>5, <3>1, WorkerToMoves, EachPartyMoves DEF PopPair, StoreMatch, IndexParty,
                                           PutInCall, TellFound
  <2>2. pairLock' = pairLock
    BY <1>5 DEF PopPair, InsertMatch, StoreMatch, IndexParty, PutInCall,
                TellFound, redis
  <2> QED BY <2>1, <2>2, <1>s, LockFrame
<1> QED BY <1>1, <1>2, <1>3, <1>4, <1>5 DEF WorkerStep

LEMMA LockStep == TypeOK /\ LockInv /\ [Next]_vars => LockInv'
<1> SUFFICES ASSUME TypeOK, LockInv, [Next]_vars PROVE LockInv'
  OBVIOUS
<1>t. stalls \in Nat /\ worker \in [Pod -> WorkerType]
  BY DEF TypeOK, DataOK
<1>1. ASSUME NEW p \in Pod, WorkerStep(p) PROVE LockInv'
  BY <1>1, LockWorker
<1>2. ASSUME NEW h \in Handler, HandlerStep(h) PROVE LockInv'
  BY <1>2, LockFrame DEF HandlerStep, bounds
<1>3. CASE Client
  BY <1>3, LockFrame DEF Client, QueueJoin, QueueLeave, SocketClose, MatchSkip,
                         MatchBlock, Request, redis, bounds
<1>4. CASE Environment
  <2>1. ASSUME NEW s \in Session, Ban(s) PROVE LockInv'
    BY <2>1, LockFrame DEF Ban, redis, bounds
  <2>2. ASSUME NEW s \in Session, ExpirePairLock(s) PROVE LockInv'
    BY <2>2, <1>t DEF ExpirePairLock, Expire, LockInv
  <2>3. ASSUME NEW m \in MatchId, ExpireSkipLock(m) PROVE LockInv'
    BY <2>3, <1>t, LockFrame DEF ExpireSkipLock, Expire
  <2>4. ASSUME NEW p \in Pod, WorkerThrows(p) \/ PodCrash(p) PROVE LockInv'
    <3>1. worker'[p].got \subseteq worker[p].got
      BY <2>4, <1>t DEF WorkerThrows, PodCrash, IdleWorker, WorkerType
    <3>2. \A q \in Pod \ {p} : worker'[q] = worker[q]
      BY <2>4, <1>t DEF WorkerThrows, PodCrash
    <3> QED BY <2>4, <3>1, <3>2, LockFrame DEF WorkerThrows, PodCrash, redis
  <2>5. ASSUME NEW h \in Handler, HandlerThrows(h) PROVE LockInv'
    BY <2>5, LockFrame DEF HandlerThrows, redis
  <2> QED BY <1>4, <2>1, <2>2, <2>3, <2>4, <2>5 DEF Environment
<1>5. CASE UNCHANGED vars
  BY <1>5, LockFrame DEF vars, redis, bounds
<1> QED BY <1>1, <1>2, <1>3, <1>4, <1>5 DEF Next

(* While no worker outlives its locks, no two workers are pairing one      *)
(* session, whatever commands fail and pods crash.                         *)
THEOREM PairingExclusive == Spec => []PairMutex
<1>1. LockInv => PairMutex
  BY DEF LockInv, PairMutex
<1> QED BY <1>1, LockInit, LockStep, TypeInit, TypeStep, PTL DEF Spec

(***************************************************************************)
(* No session is lost.                                                     *)
(***************************************************************************)
LEMMA QueuedAfterZRem ==
  ASSUME NEW q \in Seq(Session), NEW t \in Session, NEW s \in Session, s # t,
         \E i \in DOMAIN q : q[i] = s
  PROVE  \E j \in DOMAIN ZRem(q, t) : ZRem(q, t)[j] = s
BY ZRemKeeps

LEMMA TrackedByWorker ==
  ASSUME TypeOK, NEW p \in Pod, WorkerStep(p), NEW s \in Session,
         state[s] = "SEARCHING" => Tracked(s), state'[s] = "SEARCHING"
  PROVE  Tracked(s)'
<1> DEFINE w == worker[p]
<1>t. /\ worker \in [Pod -> WorkerType] /\ w \in WorkerType /\ w.n \in {1, 2}
      /\ queue \in Seq(Session) /\ state \in [Session -> SessionState]
      /\ w.pc # "idle" => w.batch[1] \in Session /\ w.batch[2] \in Session
  BY DEF TypeOK, DataOK, WorkerType, WorkerOK
<1>h. handler' = handler
  BY DEF WorkerStep
<1>f. ASSUME state[s] = "SEARCHING", queue' = queue,
             \A q \in Pod : Popped(q, s) => Popped(q, s)'
      PROVE  Tracked(s)'
  BY <1>f, <1>h DEF Tracked, Queued
<1>1. CASE Poll(p) \/ CheckBlockExclusion(p) \/ LockParty(p) \/ ReleasePair(p)
  <2>1. state[s] = "SEARCHING" /\ queue' = queue /\ ~Popped(p, s)
    BY <1>1 DEF Poll, CheckBlockExclusion, LockParty, ReleasePair, Popped
  <2>2. \A q \in Pod \ {p} : worker'[q] = worker[q]
    BY <1>1, <1>t DEF Poll, CheckBlockExclusion, LockParty, ReleasePair,
                      NextPair, WorkerTo
  <2> QED BY <2>1, <2>2, <1>f DEF Popped, Parties
<1>2. CASE PopPair(p)
  <2>1. /\ state[s] = "SEARCHING" /\ w.pc = "zrem"
        /\ queue' = ZRem(ZRem(queue, w.batch[1]), w.batch[2])
    BY <1>2 DEF PopPair
  <2>2. \A q \in Pod : /\ worker'[q].batch = worker[q].batch
                       /\ worker'[q].n = worker[q].n
                       /\ worker'[q].pc = IF q = p THEN "insert" ELSE worker[q].pc
    BY <1>2, WorkerToMoves DEF PopPair
  <2>3. CASE s \in Parties(p)
    BY <2>2, <2>3 DEF Tracked, Popped, Parties
  <2>4. CASE s \notin Parties(p)
    <3>1. Queued(s) => Queued(s)'
      <4>1. SUFFICES ASSUME Queued(s) PROVE Queued(s)'
        OBVIOUS
      <4>2. /\ w.batch[1] \in Session /\ w.batch[2] \in Session
            /\ s # w.batch[1] /\ s # w.batch[2]
        BY <2>1, <2>4, <1>t DEF Parties
      <4>3. \E i \in DOMAIN queue : queue[i] = s
        BY <4>1 DEF Queued
      <4>4. \E i \in DOMAIN ZRem(queue, w.batch[1]) : ZRem(queue, w.batch[1])[i] = s
        BY <4>2, <4>3, <1>t, QueuedAfterZRem
      <4>5. ZRem(queue, w.batch[1]) \in Seq(Session)
        BY <4>2, <1>t, ZRemType
      <4>6. \E i \in DOMAIN ZRem(ZRem(queue, w.batch[1]), w.batch[2]) :
              ZRem(ZRem(queue, w.batch[1]), w.batch[2])[i] = s
        BY <4>2, <4>4, <4>5, QueuedAfterZRem
      <4> QED BY <4>6, <2>1 DEF Queued
    <3>2. \A q \in Pod : Popped(q, s) => Popped(q, s)'
      BY <2>1, <2>2 DEF Popped, Parties
    <3> QED BY <2>1, <3>1, <3>2, <1>h DEF Tracked
  <2> QED BY <2>3, <2>4
<1>3. CASE InsertMatch(p) \/ StoreMatch(p)
  <2>1. state[s] = "SEARCHING" /\ queue' = queue
    BY <1>3 DEF InsertMatch, StoreMatch, redis
  <2>2. CASE InsertMatch(p)
    BY <2>1, <2>2, <1>t, <1>f DEF InsertMatch, WorkerType, Popped, Parties
  <2>3. CASE StoreMatch(p)
    BY <2>1, <2>3, <1>f, WorkerToMoves DEF StoreMatch, Popped, Parties
  <2> QED BY <1>3, <2>2, <2>3
<1>4. CASE IndexParty(p) \/ TellFound(p)
  <2>1. state[s] = "SEARCHING" /\ queue' = queue
    BY <1>4 DEF IndexParty, TellFound, redis
  <2>2. PICK pc \in {"call", "release"} :
          EachParty(p, pc) /\ ((w.pc = "index" /\ pc = "call") \/ w.pc = "tell")
    BY <1>4 DEF IndexParty, TellFound
  <2>3. \A q \in Pod :
          /\ worker'[q].batch = worker[q].batch
          /\ worker'[q].n = (IF q = p THEN 3 - worker[q].n ELSE worker[q].n)
          /\ worker'[q].pc = IF q = p /\ worker[q].n # 1 THEN pc ELSE worker[q].pc
    BY <2>2, EachPartyMoves
  <2>4. ASSUME NEW q \in Pod, Popped(q, s) PROVE Popped(q, s)'
    <3>1. CASE q # p
      BY <2>3, <2>4, <3>1 DEF Popped, Parties
    <3>2. CASE q = p
      <4>1. w.pc = "index" /\ pc = "call" /\ s \in Parties(p)
        BY <2>2, <2>4, <3>2 DEF Popped
      <4>2. worker'[p].batch = w.batch
        BY <2>3
      <4>3. \/ worker'[p].pc = "index"
            \/ worker'[p].pc = "call" /\ worker'[p].n = 1
        BY <4>1, <2>3, <1>t
      <4> QED BY <4>1, <4>2, <4>3, <3>2 DEF Popped, Parties
    <3> QED BY <3>1, <3>2
  <2> QED BY <2>1, <2>4, <1>f
<1>5. CASE PutInCall(p)
  <2>1. /\ state[s] = "SEARCHING" /\ queue' = queue /\ s # Party(p)
    BY <1>5, <1>t DEF PutInCall
  <2> QED BY <1>5, <2>1, <1>t, <1>f, EachPartyMoves
          DEF PutInCall, Popped, Parties, Party
<1> QED BY <1>1, <1>2, <1>3, <1>4, <1>5 DEF WorkerStep

(* A handler that goes on to zadd or ready counts, one that leaves them    *)
(* has done its command.                                                   *)
LEMMA TrackedByHandler ==
  ASSUME TypeOK, NEW h \in Handler, HandlerStep(h), NEW s \in Session,
         state[s] = "SEARCHING" => Tracked(s), state'[s] = "SEARCHING"
  PROVE  Tracked(s)'
<1> DEFINE r == handler[h]
<1>t. /\ handler \in [Handler -> HandlerType] /\ r \in HandlerType
      /\ r.pc # "idle" => r.s \in Session
      /\ queue \in Seq(Session) /\ state \in [Session -> SessionState]
  BY DEF TypeOK, DataOK, HandlerOK
<1>w. worker' = worker
  BY DEF HandlerStep
<1>p. \A p \in Pod : Popped(p, s) => Popped(p, s)'
  BY <1>w DEF Popped, Parties
<1>f. ASSUME state[s] = "SEARCHING", queue' = queue, r.pc \notin {"zadd", "ready"},
             \A g \in Handler \ {h} : handler'[g] = handler[g]
      PROVE  Tracked(s)'
  BY <1>f, <1>p DEF Tracked, Queued
<1>o. \A g \in Handler \ {h} : handler'[g] = handler[g]
  BY <1>t DEF HandlerStep, BanCheck, SetSearching, Enqueue, Dequeue, SetReady,
       FindMatch, LockSkip, ReadMatch, EndRow, WriteHistory, DeleteMatch, Unindex,
       FreePeer, TellPeer, UnlockSkip, Disconnect, AddBlock, HandlerTo
<1>1. CASE SetSearching(h)
  <2>1. CASE r.s = s
    <3>1. handler'[h].s = s /\ handler'[h].pc = "zadd"
      BY <1>1, <1>t, <2>1 DEF SetSearching, HandlerTo, HandlerType
    <3> QED BY <3>1 DEF Tracked
  <2>2. CASE r.s # s
    <3>1. state[s] = "SEARCHING" /\ queue' = queue /\ r.pc = "searching"
      BY <1>1, <1>t, <2>2 DEF SetSearching, At
    <3> QED BY <3>1, <1>f, <1>o
  <2> QED BY <2>1, <2>2
<1>2. CASE Enqueue(h)
  <2> DEFINE q == ZRem(queue, r.s)
  <2>1. /\ state[s] = "SEARCHING" /\ r.pc = "zadd" /\ q \in Seq(Session)
        /\ queue' = Append(q, r.s)
    BY <1>2, <1>t, ZRemType DEF Enqueue, At, ZAdd
  <2>2. CASE r.s = s
    BY <2>1, <2>2 DEF Tracked, Queued
  <2>3. CASE r.s # s
    <3>1. Queued(s) => Queued(s)'
      <4>1. SUFFICES ASSUME Queued(s) PROVE Queued(s)'
        OBVIOUS
      <4>2. PICK j \in DOMAIN q : q[j] = s
        BY <4>1, <2>1, <2>3, <1>t, QueuedAfterZRem DEF Queued
      <4> HIDE DEF q
      <4> QED BY <4>2, <2>1, <1>t DEF Queued
    <3> QED BY <2>1, <2>3, <3>1, <1>o, <1>p DEF Tracked
  <2> QED BY <2>2, <2>3
<1>3. CASE Dequeue(h)
  <2>1. state[s] = "SEARCHING" /\ r.pc = "zrem" /\ queue' = ZRem(queue, r.s)
    BY <1>3 DEF Dequeue, At
  <2>2. CASE r.s = s
    <3>1. handler'[h].s = s /\ handler'[h].pc = "ready"
      BY <1>3, <1>t, <2>2 DEF Dequeue, HandlerTo, HandlerType
    <3> QED BY <3>1 DEF Tracked
  <2>3. CASE r.s # s
    <3>1. Queued(s) => Queued(s)'
      BY <2>1, <2>3, <1>t, QueuedAfterZRem DEF Queued
    <3> QED BY <2>1, <3>1, <1>o, <1>p DEF Tracked
  <2> QED BY <2>2, <2>3
<1>4. CASE SetReady(h)
  <2>1. state[s] = "SEARCHING" /\ r.s # s /\ queue' = queue
    BY <1>4, <1>t DEF SetReady, At
  <2> QED BY <2>1, <1>o, <1>p DEF Tracked, Queued
<1>5. CASE \/ BanCheck(h) \/ FindMatch(h) \/ LockSkip(h) \/ ReadMatch(h)
           \/ EndRow(h) \/ WriteHistory(h) \/ DeleteMatch(h) \/ Unindex(h)
           \/ FreePeer(h) \/ TellPeer(h) \/ UnlockSkip(h) \/ Disconnect(h)
           \/ AddBlock(h)
  <2>1. r.pc \notin {"zadd", "ready"} /\ queue' = queue
    BY <1>5 DEF BanCheck, FindMatch, LockSkip, ReadMatch, EndRow, WriteHistory,
       DeleteMatch, Unindex, FreePeer, TellPeer, UnlockSkip, Disconnect, AddBlock,
       At, redis
  <2>2. state' = state \/ \E t \in Session, x \in {"READY", "DISCONNECTED"} :
                            state' = [state EXCEPT ![t] = x]
    <3>1. CASE FreePeer(h)
      <4>1. Peer(h) \in Session
        BY <3>1 DEF FreePeer, At, Peer, TypeOK, HandlerType, HandlerOK, MaybePair
      <4> QED BY <3>1, <4>1 DEF FreePeer
    <3>2. CASE Disconnect(h)
      BY <3>2, <1>t DEF Disconnect, At
    <3> QED BY <1>5, <3>1, <3>2 DEF BanCheck, FindMatch, LockSkip, ReadMatch,
          EndRow, WriteHistory, DeleteMatch, Unindex, TellPeer, UnlockSkip,
          AddBlock, redis
  <2>3. state[s] = "SEARCHING"
    BY <2>2, <1>t
  <2> QED BY <2>1, <2>3, <1>f, <1>o
<1> QED BY <1>1, <1>2, <1>3, <1>4, <1>5 DEF HandlerStep

LEMMA TrackedStep == TypeOK /\ SearchingTracked /\ [Next]_vars => SearchingTracked'
<1> SUFFICES ASSUME TypeOK, SearchingTracked, [Next]_vars, faults' = 0,
                    NEW s \in Session, state'[s] = "SEARCHING"
             PROVE  Tracked(s)'
  BY DEF SearchingTracked
<1>1. ASSUME NEW p \in Pod, WorkerStep(p) PROVE Tracked(s)'
  BY <1>1, TrackedByWorker DEF SearchingTracked, WorkerStep, bounds
<1>2. ASSUME NEW h \in Handler, HandlerStep(h) PROVE Tracked(s)'
  BY <1>2, TrackedByHandler DEF SearchingTracked, HandlerStep, bounds
<1>f. ASSUME faults = 0, state' = state, queue' = queue, worker' = worker,
             \A g \in Handler : handler[g].pc = "idle" \/ handler'[g] = handler[g]
      PROVE  Tracked(s)'
  BY <1>f DEF SearchingTracked, Tracked, Queued, Popped, Parties
<1>3. CASE Client
  <2>1. PICK h \in Handler, op \in Op, z \in Session, m \in MatchId \cup {None},
             pc \in HandlerPc : Start(h, op, z, m, pc)
    BY <1>3 DEF Client, QueueJoin, QueueLeave, SocketClose, MatchSkip, MatchBlock,
                Request, Op, HandlerPc, SkipPc
  <2>2. UNCHANGED <<state, queue, worker, faults>>
    BY <1>3 DEF Client, QueueJoin, QueueLeave, SocketClose, MatchSkip, MatchBlock,
                Request, redis, bounds
  <2>3. \A g \in Handler : handler[g].pc = "idle" \/ handler'[g] = handler[g]
    BY <2>1 DEF Start, TypeOK
  <2> QED BY <2>2, <2>3, <1>f
<1>4. CASE Environment
  <2>1. faults \in Nat
    BY DEF TypeOK, DataOK
  <2>2. faults' # faults + 1
    BY <2>1
  <2>3. UNCHANGED <<state, queue, worker, handler, faults>>
    BY <1>4, <2>2 DEF Environment, Ban, ExpirePairLock, ExpireSkipLock,
       WorkerThrows, PodCrash, HandlerThrows, Fault, redis, bounds
  <2> QED BY <2>3, <1>f
<1>5. CASE UNCHANGED vars
  BY <1>5, <1>f DEF vars, redis, bounds
<1> QED BY <1>1, <1>2, <1>3, <1>4, <1>5 DEF Next

(* As long as no command fails, a session that is shown as SEARCHING is in *)
(* the queue, or a handler or a worker is on its way with it.              *)
THEOREM NoSessionLost == Spec => []SearchingTracked
<1>1. Init => SearchingTracked
  BY DEF Init, SearchingTracked
<1> QED BY <1>1, TrackedStep, TypeInit, TypeStep, PTL DEF Spec

(***************************************************************************)
(* A match ends once.  EndOnce is not inductive: it takes that a skip lock *)
(* has one holder, that who is about to write history does so for a match  *)
(* that is still in Redis and has none, that who wrote it is the one that  *)
(* will delete the match, and that a worker stores a match nobody knows.   *)
(***************************************************************************)
SkipMutex ==
  /\ \A h \in Handler : HoldsSkip(h) => handler[h].m \in skipLock
  /\ \A g, h \in Handler :
       g # h /\ HoldsSkip(g) /\ HoldsSkip(h) => handler[g].m # handler[h].m

EndsStored ==
  \A h \in Handler :
    HoldsSkip(h) /\ handler[h].pc \in {"end", "history", "delete"} =>
      /\ hash[handler[h].m] # <<>>
      /\ handler[h].pc # "delete" => rows[handler[h].m].meets = 0

HistoryOnce ==
  \A m \in MatchId :
    /\ rows[m].meets <= 1
    /\ rows[m].meets = 1 /\ hash[m] # <<>> =>
         \E h \in Handler : /\ HoldsSkip(h) /\ handler[h].m = m
                            /\ handler[h].pc = "delete"
    /\ rows[m].pair = <<>> => hash[m] = <<>> /\ rows[m].meets = 0

StoresFresh ==
  /\ \A p \in Pod :
       worker[p].pc = "hset" =>
         /\ rows[worker[p].m].pair # <<>> /\ rows[worker[p].m].meets = 0
         /\ hash[worker[p].m] = <<>>
  /\ \A p, q \in Pod :
       p # q /\ worker[p].pc = "hset" /\ worker[q].pc = "hset" =>
         worker[p].m # worker[q].m

EndInv == faults = 0 /\ stalls = 0 =>
            SkipMutex /\ EndsStored /\ HistoryOnce /\ StoresFresh

LEMMA EndInit == Init => EndInv
BY DEF Init, EndInv, SkipMutex, EndsStored, HistoryOnce, StoresFresh, HoldsSkip,
       Skipping, IdleHandler, IdleWorker, NoRow

(* What moving a handler on leaves as it was.                              *)
LEMMA HandlerToMoves ==
  ASSUME TypeOK, NEW h \in Handler, NEW pc, HandlerTo(h, pc), NEW g \in Handler
  PROVE  /\ g # h => handler'[g] = handler[g] /\ (HoldsSkip(g))' = HoldsSkip(g)
         /\ g = h /\ pc # "idle" =>
              /\ handler'[g].pc = pc /\ handler'[g].op = handler[g].op
              /\ handler'[g].m = handler[g].m /\ handler'[g].s = handler[g].s
              /\ handler'[g].pair = handler[g].pair
         /\ g = h /\ pc = "idle" => handler'[g] = IdleHandler /\ ~(HoldsSkip(g))'
<1>1. handler \in [Handler -> HandlerType] /\ handler[h] \in HandlerType
  BY DEF TypeOK
<1>2. CASE g # h
  BY <1>1, <1>2 DEF HandlerTo, HoldsSkip
<1>3. CASE g = h
  BY <1>1, <1>3 DEF HandlerTo, HandlerType, IdleHandler, HoldsSkip, Skipping
<1> QED BY <1>2, <1>3

LEMMA EndWorker ==
  ASSUME TypeOK, SkipMutex, EndsStored, HistoryOnce, StoresFresh,
         NEW p \in Pod, WorkerStep(p)
  PROVE  SkipMutex' /\ EndsStored' /\ HistoryOnce' /\ StoresFresh'
<1> DEFINE w == worker[p]
<1>t. /\ worker \in [Pod -> WorkerType] /\ w \in WorkerType /\ WorkerOK(w)
      /\ hash \in [MatchId -> MaybePair]
      /\ rows \in [MatchId -> [pair : MaybePair, ended : BOOLEAN, meets : Nat]]
      /\ handler \in [Handler -> HandlerType]
      /\ \A h \in Handler : HoldsSkip(h) => handler[h].m \in MatchId
      /\ \A q \in Pod : worker[q].pc = "hset" => worker[q].m \in MatchId
  BY DEF TypeOK, DataOK, WorkerOK, HandlerOK, HoldsSkip
<1>h. handler' = handler /\ skipLock' = skipLock
  BY DEF WorkerStep
<1>s. SkipMutex'
  BY <1>h DEF SkipMutex, HoldsSkip
<1>f. ASSUME rows' = rows, hash' = hash,
             \A q \in Pod : worker'[q].pc = "hset" =>
                              worker[q].pc = "hset" /\ worker'[q].m = worker[q].m
      PROVE  EndsStored' /\ HistoryOnce' /\ StoresFresh'
  BY <1>f, <1>h DEF EndsStored, HistoryOnce, StoresFresh, HoldsSkip
<1>1. CASE InsertMatch(p)
  <2>1. PICK m \in MatchId :
          /\ rows[m].pair = <<>>
          /\ rows' = [rows EXCEPT ![m].pair = Pair(p)]
          /\ worker' = [worker EXCEPT ![p].pc = "hset", ![p].m = m]
    BY <1>1 DEF InsertMatch
  <2>2. hash' = hash
    BY <1>1 DEF InsertMatch, redis
  <2>3. /\ \A k \in MatchId : /\ rows'[k].meets = rows[k].meets
                              /\ k # m => rows'[k].pair = rows[k].pair
        /\ rows'[m].pair # <<>>
    BY <2>1, <1>t DEF Pair
  <2>4. /\ \A q \in Pod \ {p} : worker'[q] = worker[q]
        /\ worker'[p].m = m /\ worker'[p].pc = "hset"
    BY <2>1, <1>t DEF WorkerType
  <2>5. EndsStored' /\ HistoryOnce'
    BY <2>1, <2>2, <2>3, <1>t, <1>h DEF EndsStored, HistoryOnce, HoldsSkip
  <2>6. StoresFresh'
    BY <2>1, <2>2, <2>3, <2>4, <1>t DEF StoresFresh, HistoryOnce
  <2> QED BY <2>5, <2>6, <1>s
<1>2. CASE StoreMatch(p)
  <2>1. /\ w.pc = "hset" /\ w.m \in MatchId /\ rows' = rows
        /\ hash' = [hash EXCEPT ![w.m] = Pair(p)] /\ Pair(p) # <<>>
    BY <1>2, <1>t DEF StoreMatch, Pair
  <2>2. \A q \in Pod : /\ worker'[q].m = worker[q].m
                       /\ worker'[q].pc = IF q = p THEN "index" ELSE worker[q].pc
    BY <1>2, WorkerToMoves DEF StoreMatch
  <2>3. EndsStored'
    BY <2>1, <1>t, <1>h DEF EndsStored, HoldsSkip
  <2>4. HistoryOnce'
    BY <2>1, <1>t, <1>h DEF HistoryOnce, StoresFresh, HoldsSkip
  <2>5. ASSUME NEW q \in Pod, worker'[q].pc = "hset"
        PROVE  q # p /\ worker[q].pc = "hset" /\ worker'[q].m = worker[q].m
    BY <2>2, <2>5
  <2>6. ASSUME NEW q \in Pod, worker'[q].pc = "hset"
        PROVE  /\ rows'[worker'[q].m].pair # <<>> /\ rows'[worker'[q].m].meets = 0
               /\ hash'[worker'[q].m] = <<>>
    <3>1. worker[q].m # w.m /\ worker[q].m \in MatchId
      BY <2>1, <2>5, <2>6, <1>t DEF StoresFresh
    <3>2. hash'[worker[q].m] = hash[worker[q].m]
      BY <2>1, <3>1, <1>t
    <3> QED BY <2>1, <2>5, <2>6, <3>2 DEF StoresFresh
  <2>7. \A q, r \in Pod : q # r /\ worker'[q].pc = "hset" /\ worker'[r].pc = "hset" =>
                            worker'[q].m # worker'[r].m
    BY <2>5 DEF StoresFresh
  <2>8. StoresFresh'
    BY <2>6, <2>7 DEF StoresFresh
  <2> QED BY <2>3, <2>4, <2>8, <1>s
<1>3. CASE Poll(p) \/ ReleasePair(p) \/ CheckBlockExclusion(p)
  <2>1. ASSUME NEW b, worker' = [worker EXCEPT ![p] = Round(b)]
        PROVE  worker'[p].pc # "hset" /\ \A q \in Pod \ {p} : worker'[q] = worker[q]
    <3>1. Round(b).pc \in {"idle", "check"}
      BY DEF Round, IdleWorker
    <3> QED BY <2>1, <3>1, <1>t DEF WorkerType
  <2>2. ASSUME WorkerTo(p, "lock")
        PROVE  worker'[p].pc # "hset" /\ \A q \in Pod \ {p} : worker'[q] = worker[q]
    BY <2>2, <1>t DEF WorkerTo, WorkerType
  <2>3. worker'[p].pc # "hset" /\ \A q \in Pod \ {p} : worker'[q] = worker[q]
    BY <1>3, <2>1, <2>2 DEF Poll, ReleasePair, CheckBlockExclusion, NextPair
  <2> QED BY <1>3, <2>3, <1>f, <1>s DEF Poll, ReleasePair, CheckBlockExclusion
<1>4. CASE LockParty(p)
  <2>1. worker'[p].pc # "hset" /\ \A q \in Pod \ {p} : worker'[q] = worker[q]
    BY <1>4, <1>t DEF LockParty, WorkerType
  <2> QED BY <1>4, <2>1, <1>f, <1>s DEF LockParty
<1>5. CASE PopPair(p)
  BY <1>5, <1>f, <1>s, WorkerToMoves DEF PopPair
<1>6. CASE IndexParty(p) \/ PutInCall(p) \/ TellFound(p)
  <2>1. PICK pc \in {"call", "tell", "release"} : EachParty(p, pc) /\ w.pc # "hset"
    BY <1>6 DEF IndexParty, PutInCall, TellFound
  <2>2. rows' = rows /\ hash' = hash
    BY <1>6 DEF IndexParty, PutInCall, TellFound, redis
  <2> QED BY <2>1, <2>2, <1>f, <1>s, EachPartyMoves
<1> QED BY <1>1, <1>2, <1>3, <1>4, <1>5, <1>6 DEF WorkerStep

LEMMA EndHandler ==
  ASSUME TypeOK, SkipMutex, EndsStored, HistoryOnce, StoresFresh,
         NEW h \in Handler, HandlerStep(h)
  PROVE  SkipMutex' /\ EndsStored' /\ HistoryOnce' /\ StoresFresh'
<1> DEFINE r == handler[h]
<1>t. /\ handler \in [Handler -> HandlerType] /\ r \in HandlerType /\ HandlerOK(r)
      /\ hash \in [MatchId -> MaybePair]
      /\ rows \in [MatchId -> [pair : MaybePair, ended : BOOLEAN, meets : Nat]]
      /\ \A g \in Handler : HoldsSkip(g) => handler[g].m \in MatchId
      /\ \A q \in Pod : worker[q].pc = "hset" => worker[q].m \in MatchId
  BY DEF TypeOK, DataOK, WorkerOK, HandlerOK, HoldsSkip
<1>w. worker' = worker
  BY DEF HandlerStep
<1> DEFINE Same(g) == handler'[g] = handler[g] /\ (HoldsSkip(g))' = HoldsSkip(g)
<1>o. \A g \in Handler \ {h} : Same(g)
  BY <1>t DEF HandlerStep, BanCheck, SetSearching, Enqueue, Dequeue, SetReady,
       FindMatch, LockSkip, ReadMatch, EndRow, WriteHistory, DeleteMatch, Unindex,
       FreePeer, TellPeer, UnlockSkip, Disconnect, AddBlock, HandlerTo, HoldsSkip
(* A step that ends or deletes nothing, and comes from no step that does.  *)
<1>f. ASSUME rows' = rows, hash' = hash, skipLock' = skipLock,
             r.pc # "delete", handler'[h].pc \notin {"end", "history", "delete"},
             (HoldsSkip(h))' => HoldsSkip(h) /\ handler'[h].m = r.m
      PROVE  SkipMutex' /\ EndsStored' /\ HistoryOnce' /\ StoresFresh'
  <2>1. SkipMutex'
    BY <1>f, <1>o DEF SkipMutex
  <2>2. EndsStored'
    BY <1>f, <1>o DEF EndsStored
  <2>3. HistoryOnce'
    BY <1>f, <1>o DEF HistoryOnce
  <2> QED BY <1>f, <1>w, <2>1, <2>2, <2>3 DEF StoresFresh
<1>1. CASE LockSkip(h)
  <2>1. r.pc = "lock" /\ rows' = rows /\ hash' = hash
    BY <1>1 DEF LockSkip, At
  <2>2. CASE r.m \in skipLock
    <3>1. skipLock' = skipLock /\ HandlerTo(h, AfterSkip(h))
      BY <1>1, <2>2 DEF LockSkip, SkipLocked
    <3>2. /\ handler'[h].pc \notin {"end", "history", "delete"}
          /\ ~(HoldsSkip(h))'
      BY <3>1, HandlerToMoves DEF AfterSkip, HoldsSkip, Skipping, SkipPc, IdleHandler
    <3> QED BY <2>1, <3>1, <3>2, <1>f
  <2>3. CASE r.m \notin skipLock
    <3>1. /\ skipLock' = skipLock \cup {r.m}
          /\ handler'[h].pc = "read" /\ handler'[h].m = r.m
      BY <1>1, <2>3, HandlerToMoves DEF LockSkip, SkipLocked
    <3>2. SkipMutex'
      BY <2>3, <3>1, <1>o DEF SkipMutex
    <3>3. EndsStored'
      BY <2>1, <3>1, <1>o DEF EndsStored
    <3>4. HistoryOnce'
      BY <2>1, <3>1, <1>o DEF HistoryOnce
    <3> QED BY <2>1, <3>2, <3>3, <3>4, <1>w DEF StoresFresh
  <2> QED BY <2>2, <2>3
<1>2. CASE ReadMatch(h)
  <2> DEFINE pair == hash[r.m]
  <2>1. /\ r.pc = "read" /\ rows' = rows /\ hash' = hash /\ skipLock' = skipLock
        /\ r.op = "block" \/ HoldsSkip(h)
    BY <1>2, <1>t DEF ReadMatch, At, HandlerOK, HoldsSkip, Skipping, SkipPc
  <2>2. CASE pair = <<>>
    <3>1. HandlerTo(h, IF r.op = "block" THEN "idle" ELSE "unlock")
      BY <1>2, <2>2 DEF ReadMatch
    <3>2. /\ handler'[h].pc \notin {"end", "history", "delete"}
          /\ (HoldsSkip(h))' => handler'[h].m = r.m /\ HoldsSkip(h)
      BY <2>1, <3>1, HandlerToMoves DEF IdleHandler
    <3> QED BY <2>1, <3>2, <1>f
  <2>3. CASE pair # <<>>
    <3>1. /\ handler'[h].m = r.m /\ handler'[h].op = r.op
          /\ handler'[h].pc = IF r.op = "block" THEN "sadd" ELSE "end"
      BY <1>2, <1>t, <2>3 DEF ReadMatch, HandlerType
    <3>2. CASE r.op = "block"
      <4>1. ~(HoldsSkip(h))'
        BY <3>1, <3>2 DEF HoldsSkip, Skipping
      <4> QED BY <2>1, <3>1, <3>2, <4>1, <1>f
    <3>3. CASE r.op # "block"
      <4>1. HoldsSkip(h) /\ handler'[h].pc = "end" /\ r.m \in MatchId
        BY <2>1, <3>1, <3>3, <1>t
      <4>2. rows[r.m].meets = 0
        <5>1. ~\E g \in Handler : /\ HoldsSkip(g) /\ handler[g].m = r.m
                                  /\ handler[g].pc = "delete"
          BY <2>1, <4>1 DEF SkipMutex
        <5>2. rows[r.m].meets \in Nat /\ rows[r.m].meets <= 1 /\ rows[r.m].meets # 1
          BY <5>1, <4>1, <2>3, <1>t DEF HistoryOnce
        <5> QED BY <5>2
      <4>3. SkipMutex'
        BY <2>1, <3>1, <4>1, <1>o DEF SkipMutex
      <4>4. EndsStored'
        BY <2>1, <2>3, <3>1, <4>1, <4>2, <1>o DEF EndsStored
      <4>5. HistoryOnce'
        BY <2>1, <4>1, <1>o DEF HistoryOnce
      <4> QED BY <2>1, <4>3, <4>4, <4>5, <1>w DEF StoresFresh
    <3> QED BY <3>2, <3>3
  <2> QED BY <2>2, <2>3
<1>3. CASE EndRow(h)
  <2>1. /\ r.pc = "end" /\ HoldsSkip(h) /\ r.m \in MatchId
        /\ hash' = hash /\ skipLock' = skipLock
        /\ rows' = [rows EXCEPT ![r.m].ended = TRUE]
    BY <1>3, <1>t DEF EndRow, At, HandlerOK, HoldsSkip, Skipping, SkipPc
  <2>2. handler'[h].pc = "history" /\ handler'[h].m = r.m
    BY <1>3, HandlerToMoves DEF EndRow
  <2>3. \A m \in MatchId : /\ rows'[m].meets = rows[m].meets
                           /\ rows'[m].pair = rows[m].pair
    BY <2>1, <1>t
  <2>4. SkipMutex'
    BY <2>1, <2>2, <1>o DEF SkipMutex
  <2>5. EndsStored'
    BY <2>1, <2>2, <2>3, <1>t, <1>o DEF EndsStored
  <2>6. HistoryOnce'
    BY <2>1, <2>3, <1>o DEF HistoryOnce
  <2> QED BY <2>1, <2>3, <2>4, <2>5, <2>6, <1>t, <1>w DEF StoresFresh
<1>4. CASE WriteHistory(h)
  <2>1. /\ r.pc = "history" /\ HoldsSkip(h) /\ r.m \in MatchId
        /\ hash' = hash /\ skipLock' = skipLock
        /\ rows' = [rows EXCEPT ![r.m].meets = @ + 1]
    BY <1>4, <1>t DEF WriteHistory, At, HandlerOK, HoldsSkip, Skipping, SkipPc
  <2>2. /\ handler'[h].pc = "delete" /\ handler'[h].m = r.m
        /\ handler'[h].op = r.op
    BY <1>4, HandlerToMoves DEF WriteHistory
  <2>3. (HoldsSkip(h))'
    BY <2>1, <2>2 DEF HoldsSkip, Skipping, SkipPc
  <2>4. hash[r.m] # <<>> /\ rows[r.m].meets = 0
    BY <2>1 DEF EndsStored
  <2>5. /\ rows'[r.m].meets = 1
        /\ \A m \in MatchId : /\ m # r.m => rows'[m].meets = rows[m].meets
                              /\ rows'[m].pair = rows[m].pair
    BY <2>1, <2>4, <1>t
  <2>6. SkipMutex'
    BY <2>1, <2>2, <1>o DEF SkipMutex
  <2>7. EndsStored'
    BY <2>1, <2>2, <2>4, <2>5, <1>t, <1>o DEF EndsStored, SkipMutex
  <2>8. HistoryOnce'
    BY <2>1, <2>2, <2>3, <2>4, <2>5, <1>o DEF HistoryOnce
  <2>9. StoresFresh'
    BY <2>1, <2>4, <2>5, <1>t, <1>w DEF StoresFresh
  <2> QED BY <2>6, <2>7, <2>8, <2>9
<1>5. CASE DeleteMatch(h)
  <2>1. /\ r.pc = "delete" /\ HoldsSkip(h) /\ r.m \in MatchId
        /\ rows' = rows /\ skipLock' = skipLock
        /\ hash' = [hash EXCEPT ![r.m] = <<>>]
    BY <1>5, <1>t DEF DeleteMatch, At, HandlerOK, HoldsSkip, Skipping, SkipPc
  <2>2. handler'[h].pc = "unindex" /\ handler'[h].m = r.m
    BY <1>5, HandlerToMoves DEF DeleteMatch
  <2>3. SkipMutex'
    BY <2>1, <2>2, <1>o DEF SkipMutex
  <2>4. EndsStored'
    BY <2>1, <2>2, <1>t, <1>o DEF EndsStored, SkipMutex
  <2>5. HistoryOnce'
    BY <2>1, <1>t, <1>o DEF HistoryOnce
  <2>6. StoresFresh'
    BY <2>1, <1>t, <1>w DEF StoresFresh
  <2> QED BY <2>3, <2>4, <2>5, <2>6
<1>6. CASE UnlockSkip(h)
  <2>1. /\ r.pc = "unlock" /\ HoldsSkip(h) /\ rows' = rows /\ hash' = hash
        /\ skipLock' = skipLock \ {r.m}
    BY <1>6, <1>t DEF UnlockSkip, At, HandlerOK, HoldsSkip, Skipping
  <2>2. ~(HoldsSkip(h))'
    BY <1>6, HandlerToMoves DEF UnlockSkip, AfterSkip, HoldsSkip, Skipping, SkipPc
  <2>3. SkipMutex'
    BY <2>1, <2>2, <1>o DEF SkipMutex
  <2>4. EndsStored'
    BY <2>1, <2>2, <1>o DEF EndsStored
  <2>5. HistoryOnce'
    BY <2>1, <1>o DEF HistoryOnce
  <2> QED BY <2>1, <2>3, <2>4, <2>5, <1>w DEF StoresFresh
<1>7. CASE FindMatch(h) \/ Unindex(h)
  <2>1. /\ rows' = rows /\ hash' = hash /\ skipLock' = skipLock
        /\ r.pc # "delete" /\ handler'[h].pc \notin {"end", "history", "delete"}
    BY <1>7, <1>t DEF FindMatch, Unindex, At, HandlerType, redis
  <2>2. (HoldsSkip(h))' => HoldsSkip(h) /\ handler'[h].m = r.m
    <3>1. CASE FindMatch(h)
      <4>1. handler'[h].pc \in {"disconnect", "lock"}
        BY <3>1, <1>t DEF FindMatch, HandlerType
      <4> QED BY <4>1 DEF HoldsSkip, Skipping, SkipPc
    <3>2. CASE Unindex(h)
      <4>1. handler'[h].m = r.m /\ handler'[h].op = r.op /\ r.pc = "unindex"
        BY <3>2, <1>t DEF Unindex, HandlerType, At
      <4> QED BY <4>1 DEF HoldsSkip, Skipping, SkipPc
    <3> QED BY <1>7, <3>1, <3>2
  <2> QED BY <2>1, <2>2, <1>f
<1>8. CASE \/ BanCheck(h) \/ SetSearching(h) \/ Enqueue(h) \/ Dequeue(h)
           \/ SetReady(h) \/ FreePeer(h) \/ TellPeer(h) \/ Disconnect(h)
           \/ AddBlock(h)
  <2>1. PICK pc \in HandlerPc \ {"lock", "read", "end", "history", "delete"} :
          /\ HandlerTo(h, pc)
          /\ pc \in SkipPc \cup {"unlock"} => r.pc \in SkipPc
    BY <1>8, <1>t DEF BanCheck, SetSearching, Enqueue, Dequeue, SetReady, FreePeer,
       TellPeer, Disconnect, AddBlock, AfterJoin, At, HandlerPc, SkipPc
  <2>2. /\ rows' = rows /\ hash' = hash /\ skipLock' = skipLock
        /\ r.pc # "delete"
    BY <1>8 DEF BanCheck, SetSearching, Enqueue, Dequeue, SetReady, FreePeer,
       TellPeer, Disconnect, AddBlock, At, redis
  <2>3. /\ handler'[h].pc \notin {"end", "history", "delete"}
        /\ (HoldsSkip(h))' => HoldsSkip(h) /\ handler'[h].m = r.m
    <3>1. CASE pc = "idle"
      BY <2>1, <3>1, HandlerToMoves DEF IdleHandler
    <3>2. CASE pc # "idle"
      BY <2>1, <3>2, HandlerToMoves DEF HoldsSkip, Skipping
    <3> QED BY <3>1, <3>2
  <2> QED BY <2>2, <2>3, <1>f
<1> QED BY <1>1, <1>2, <1>3, <1>4, <1>5, <1>6, <1>7, <1>8 DEF HandlerStep

LEMMA EndStep == TypeOK /\ EndInv /\ [Next]_vars => EndInv'
<1> SUFFICES ASSUME TypeOK, EndInv, [Next]_vars, faults' = 0, stalls' = 0
             PROVE  SkipMutex' /\ EndsStored' /\ HistoryOnce' /\ StoresFresh'
  BY DEF EndInv
<1>n. faults \in Nat /\ stalls \in Nat
  BY DEF TypeOK, DataOK
<1>1. ASSUME NEW p \in Pod, WorkerStep(p)
      PROVE  SkipMutex' /\ EndsStored' /\ HistoryOnce' /\ StoresFresh'
  BY <1>1, EndWorker DEF EndInv, WorkerStep, bounds
<1>2. ASSUME NEW h \in Handler, HandlerStep(h)
      PROVE  SkipMutex' /\ EndsStored' /\ HistoryOnce' /\ StoresFresh'
  BY <1>2, EndHandler DEF EndInv, HandlerStep, bounds
<1>3. CASE Client
  <2>1. PICK h \in Handler, op \in Op, s \in Session, m \in MatchId \cup {None},
             pc \in HandlerPc :
          /\ Start(h, op, s, m, pc)
          /\ pc \in {"ban", "read"} => op \in {"join", "block"}
          /\ pc \in {"ban", "zrem", "lock", "read"}
    BY <1>3 DEF Client, QueueJoin, QueueLeave, SocketClose, MatchSkip, MatchBlock,
                Request, Op, HandlerPc, SkipPc
  <2>2. UNCHANGED <<hash, rows, skipLock, worker, faults, stalls>>
    BY <1>3 DEF Client, QueueJoin, QueueLeave, SocketClose, MatchSkip, MatchBlock,
                Request, redis, bounds
  <2>3. /\ \A g \in Handler \ {h} : handler'[g] = handler[g]
        /\ handler'[h].pc = pc /\ handler'[h].op = op /\ handler[h].pc = "idle"
    <3>1. IdleHandler \in HandlerType /\ handler \in [Handler -> HandlerType]
      BY IdleTypes DEF TypeOK
    <3> QED BY <2>1, <3>1 DEF Start, HandlerType
  <2>4. ~(HoldsSkip(h))' /\ ~HoldsSkip(h)
    BY <2>1, <2>3 DEF HoldsSkip, Skipping, SkipPc
  <2>5. \A g \in Handler \ {h} : (HoldsSkip(g))' = HoldsSkip(g)
    BY <2>3 DEF HoldsSkip
  <2>6. SkipMutex /\ EndsStored /\ HistoryOnce /\ StoresFresh
    BY <2>2 DEF EndInv
  <2> QED BY <2>2, <2>3, <2>4, <2>5, <2>6
          DEF SkipMutex, EndsStored, HistoryOnce, StoresFresh
<1>u. ASSUME UNCHANGED <<hash, rows, worker, handler, faults, stalls>>,
             \A h \in Handler : HoldsSkip(h) /\ handler[h].m \in skipLock =>
                                  handler[h].m \in skipLock'
      PROVE  SkipMutex' /\ EndsStored' /\ HistoryOnce' /\ StoresFresh'
  BY <1>u DEF EndInv, SkipMutex, EndsStored, HistoryOnce, StoresFresh, HoldsSkip
<1>4. CASE Environment
  <2>1. ASSUME NEW m \in MatchId, ExpireSkipLock(m)
        PROVE  SkipMutex' /\ EndsStored' /\ HistoryOnce' /\ StoresFresh'
    BY <2>1, <1>n, <1>u DEF ExpireSkipLock, Expire
  <2>2. ASSUME NEW s \in Session, Ban(s)
        PROVE  SkipMutex' /\ EndsStored' /\ HistoryOnce' /\ StoresFresh'
    BY <2>2, <1>u DEF Ban, redis, bounds
  <2>3. ASSUME NEW s \in Session, ExpirePairLock(s)
        PROVE  SkipMutex' /\ EndsStored' /\ HistoryOnce' /\ StoresFresh'
    BY <2>3, <1>n, <1>u DEF ExpirePairLock, Expire
  <2> QED BY <1>4, <1>n, <2>1, <2>2, <2>3
          DEF Environment, WorkerThrows, PodCrash, HandlerThrows, Fault
<1>5. CASE UNCHANGED vars
  BY <1>5, <1>u DEF vars, redis, bounds
<1> QED BY <1>1, <1>2, <1>3, <1>4, <1>5 DEF Next

(* Skips and closes, however many and in whatever order, end a match once, *)
(* as long as no command fails and no lock runs out under its holder.      *)
THEOREM MatchEndsOnce == Spec => []EndOnce
<1>1. EndInv => EndOnce
  BY DEF EndInv, EndOnce, HistoryOnce
<1> QED BY <1>1, EndInit, EndStep, TypeInit, TypeStep, PTL DEF Spec
=============================================================================
