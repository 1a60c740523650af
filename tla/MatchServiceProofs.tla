------------------------ MODULE MatchServiceProofs -------------------------
(***************************************************************************)
(* Matchmaking implements MatchService while no command fails and no lock  *)
(* runs out under its holder, for every value of the constants; the two    *)
(* stores agree on a match, its end is announced and remembered once, and  *)
(* a session shown as IN_CALL is in a call.                                *)
(***************************************************************************)
EXTENDS MatchmakingProofs, FiniteSetTheorems

(***************************************************************************)
(* The waiting sessions are different ones, and so are those of the        *)
(* snapshot of a worker: a match is never opened for one session alone.    *)
(***************************************************************************)
Distinct(q) == \A i, j \in DOMAIN q : q[i] = q[j] => i = j

LEMMA ZRemDistinct ==
  ASSUME NEW q \in Seq(Session), NEW s \in Session, Distinct(q)
  PROVE  Distinct(ZRem(q, s)) /\ \A i \in DOMAIN ZRem(q, s) : ZRem(q, s)[i] # s
<1>1. CASE ~\E k \in DOMAIN q : q[k] = s
  BY <1>1 DEF ZRem, Distinct
<1>2. CASE \E k \in DOMAIN q : q[k] = s
  <2> DEFINE k == CHOOSE k \in DOMAIN q : q[k] = s
  <2>1. k \in 1..Len(q) /\ q[k] = s
    BY <1>2
  <2> DEFINE left == SubSeq(q, 1, k-1)
             right == SubSeq(q, k+1, Len(q))
  <2>2. ZRem(q, s) = left \o right
    BY <1>2 DEF ZRem, RemoveAt
  <2> HIDE DEF k
  <2>3. /\ left \in Seq(Session) /\ right \in Seq(Session)
        /\ Len(left) = k-1 /\ Len(right) = Len(q)-k
        /\ \A j \in 1..k-1 : left[j] = q[j]
        /\ \A j \in 1..Len(q)-k : right[j] = q[j+k]
    BY <2>1
  <2> HIDE DEF left, right
  <2> DEFINE old(i) == IF i < k THEN i ELSE i+1
  <2>4. ASSUME NEW i \in DOMAIN (left \o right)
        PROVE  old(i) \in DOMAIN q /\ old(i) # k /\ (left \o right)[i] = q[old(i)]
    <3>1. i \in 1..Len(q)-1
      BY <2>1, <2>3
    <3>2. CASE i < k
      <4>1. (left \o right)[i] = left[i] /\ i \in 1..k-1
        BY <2>1, <2>3, <3>1, <3>2
      <4> QED BY <4>1, <3>1, <3>2, <2>1, <2>3
    <3>3. CASE i >= k
      <4> DEFINE j == i-(k-1)
      <4>1. j \in 1..Len(q)-k /\ j+k = i+1
        BY <2>1, <3>1, <3>3
      <4>2. (left \o right)[i] = right[j]
        <5>1. i \in 1..Len(left)+Len(right) /\ i > Len(left)
          BY <2>1, <2>3, <3>1, <3>3
        <5>2. (left \o right)[i] = right[i-Len(left)]
          BY <5>1, <2>3
        <5> QED BY <5>2, <2>3
      <4> HIDE DEF j
      <4>3. right[j] = q[i+1]
        BY <4>1, <2>3
      <4> QED BY <4>2, <4>3, <3>1, <3>3, <2>1
    <3> QED BY <3>1, <3>2, <3>3, <2>1
  <2>5. \A i, j \in DOMAIN (left \o right) : old(i) = old(j) => i = j
    BY <2>1, <2>3
  <2> HIDE DEF old
  <2> QED BY <2>1, <2>2, <2>4, <2>5 DEF Distinct
<1> QED BY <1>1, <1>2

LEMMA ZAddDistinct ==
  ASSUME NEW q \in Seq(Session), NEW s \in Session, Distinct(q)
  PROVE  Distinct(ZAdd(q, s))
<1> DEFINE r == ZRem(q, s)
<1>1. r \in Seq(Session) /\ Distinct(r) /\ \A i \in DOMAIN r : r[i] # s
  BY ZRemType, ZRemDistinct
<1> HIDE DEF r
<1>2. /\ DOMAIN Append(r, s) = 1..Len(r)+1
      /\ \A i \in 1..Len(r) : Append(r, s)[i] = r[i]
      /\ Append(r, s)[Len(r)+1] = s
  BY <1>1
<1>3. Distinct(Append(r, s))
  BY <1>1, <1>2 DEF Distinct
<1> QED BY <1>3 DEF ZAdd, r

LEMMA SubSeqDistinct ==
  ASSUME NEW q \in Seq(Session), Distinct(q), NEW i \in Nat \ {0},
         NEW n \in Nat, n <= Len(q)
  PROVE  Distinct(SubSeq(q, i, n))
<1>1. /\ DOMAIN SubSeq(q, i, n) = 1..(IF i <= n THEN n-i+1 ELSE 0)
      /\ \A j \in DOMAIN SubSeq(q, i, n) : SubSeq(q, i, n)[j] = q[i+j-1]
                                            /\ i+j-1 \in DOMAIN q
  OBVIOUS
<1>2. \A j, k \in DOMAIN SubSeq(q, i, n) : i+j-1 = i+k-1 => j = k
  BY <1>1
<1> QED BY <1>1, <1>2 DEF Distinct

LEMMA RoundDistinct ==
  ASSUME NEW b \in Seq(Session), Distinct(b)
  PROVE  Distinct(Round(b).batch)
BY DEF Round, IdleWorker, Distinct

DistinctInv == Distinct(queue) /\ \A p \in Pod : Distinct(worker[p].batch)

LEMMA DistinctInit == Init => DistinctInv
BY DEF Init, DistinctInv, Distinct, IdleWorker

LEMMA DistinctStep == TypeOK /\ DistinctInv /\ [Next]_vars => DistinctInv'
<1> SUFFICES ASSUME TypeOK, DistinctInv, [Next]_vars PROVE DistinctInv'
  OBVIOUS
<1>t. /\ queue \in Seq(Session) /\ worker \in [Pod -> WorkerType]
      /\ \A p \in Pod : worker[p].batch \in Seq(Session) /\ WorkerOK(worker[p])
      /\ handler \in [Handler -> HandlerType]
      /\ \A h \in Handler : HandlerOK(handler[h])
  BY DEF TypeOK, DataOK, WorkerType
<1>e. Distinct(<<>>)
  BY DEF Distinct
<1>s. ASSUME queue' = queue, \A p \in Pod : worker'[p].batch = worker[p].batch
      PROVE  DistinctInv'
  BY <1>s DEF DistinctInv
<1>1. ASSUME NEW p \in Pod, WorkerStep(p) PROVE DistinctInv'
  <2> DEFINE w == worker[p]
  <2>r. ASSUME queue' = queue, NEW b \in Seq(Session), Distinct(b),
               worker' = [worker EXCEPT ![p] = Round(b)]
        PROVE  DistinctInv'
    <3>1. \A q \in Pod : worker'[q] = IF q = p THEN Round(b) ELSE worker[q]
      BY <2>r, <1>t
    <3> QED BY <2>r, <3>1, RoundDistinct DEF DistinctInv
  <2>n. ASSUME queue' = queue, NextPair(p), Len(w.batch) >= 2 PROVE DistinctInv'
    <3> DEFINE b == SubSeq(w.batch, 3, Len(w.batch))
    <3>1. Distinct(b) /\ b \in Seq(Session)
      BY <1>t, SubSeqDistinct DEF DistinctInv
    <3> QED BY <2>n, <3>1, <2>r DEF NextPair
  <2>1. CASE Poll(p)
    <3> DEFINE len == IF Len(queue) < QueueWindow THEN Len(queue) ELSE QueueWindow
    <3>1. len \in Nat /\ len <= Len(queue)
      BY <1>t, ConstantsAssumption
    <3> DEFINE b == SubSeq(queue, 1, len)
    <3>2. worker' = [worker EXCEPT ![p] = Round(b)] /\ queue' = queue
      BY <2>1 DEF Poll
    <3> HIDE DEF len
    <3>3. b \in Seq(Session) /\ Distinct(b)
      BY <3>1, <1>t, SubSeqDistinct DEF DistinctInv
    <3> QED BY <3>2, <3>3, <2>r
  <2>2. CASE CheckBlockExclusion(p)
    BY <2>2, <2>n, <1>t, <1>s, WorkerToMoves DEF CheckBlockExclusion, WorkerOK
  <2>3. CASE LockParty(p)
    BY <2>3, <1>t, <1>s DEF LockParty, WorkerType
  <2>4. CASE PopPair(p)
    <3>1. w.pc # "idle" /\ w.batch[1] \in Session /\ w.batch[2] \in Session
      BY <2>4, <1>t DEF PopPair, WorkerOK
    <3>2. ZRem(queue, w.batch[1]) \in Seq(Session) /\ Distinct(ZRem(queue, w.batch[1]))
      BY <1>t, <3>1, ZRemType, ZRemDistinct DEF DistinctInv
    <3>3. Distinct(queue')
      BY <2>4, <3>1, <3>2, ZRemDistinct DEF PopPair
    <3> QED BY <2>4, <3>3, WorkerToMoves DEF PopPair, DistinctInv
  <2>5. CASE InsertMatch(p)
    BY <2>5, <1>t, <1>s DEF InsertMatch, WorkerType
  <2>6. CASE StoreMatch(p)
    BY <2>6, <1>s, WorkerToMoves DEF StoreMatch
  <2>7. CASE IndexParty(p) \/ PutInCall(p) \/ TellFound(p)
    BY <2>7, <1>s, EachPartyMoves DEF IndexParty, PutInCall, TellFound
  <2>8. CASE ReleasePair(p)
    BY <2>8, <2>n, <1>t DEF ReleasePair, WorkerOK
  <2> QED BY <1>1, <2>1, <2>2, <2>3, <2>4, <2>5, <2>6, <2>7, <2>8 DEF WorkerStep
<1>2. ASSUME NEW h \in Handler, HandlerStep(h) PROVE DistinctInv'
  <2>1. worker' = worker
    BY <1>2 DEF HandlerStep
  <2>2. CASE Enqueue(h)
    <3>1. handler[h].s \in Session
      BY <2>2, <1>t DEF Enqueue, At, HandlerOK
    <3> QED BY <2>1, <2>2, <3>1, <1>t, ZAddDistinct DEF Enqueue, DistinctInv
  <2>3. CASE Dequeue(h)
    <3>1. handler[h].s \in Session
      BY <2>3, <1>t DEF Dequeue, At, HandlerOK
    <3> QED BY <2>1, <2>3, <3>1, <1>t, ZRemDistinct DEF Dequeue, DistinctInv
  <2>4. CASE ~Enqueue(h) /\ ~Dequeue(h)
    <3>1. queue' = queue
      BY <1>2, <2>4 DEF HandlerStep, BanCheck, SetSearching, SetReady, FindMatch,
         LockSkip, ReadMatch, EndRow, WriteHistory, DeleteMatch, Unindex, FreePeer,
         TellPeer, UnlockSkip, Disconnect, AddBlock
    <3> QED BY <2>1, <3>1, <1>s
  <2> QED BY <2>2, <2>3, <2>4
<1>3. CASE Client
  BY <1>3, <1>s DEF Client, QueueJoin, QueueLeave, SocketClose, MatchSkip, MatchBlock,
                    Request, redis
<1>4. CASE Environment
  <2>1. ASSUME NEW p \in Pod, WorkerThrows(p) \/ PodCrash(p) PROVE DistinctInv'
    <3>1. worker'[p].batch = worker[p].batch \/ worker'[p].batch = <<>>
      BY <2>1, <1>t DEF WorkerThrows, PodCrash, IdleWorker, WorkerType
    <3>2. queue' = queue /\ \A q \in Pod \ {p} : worker'[q] = worker[q]
      BY <2>1, <1>t DEF WorkerThrows, PodCrash, redis
    <3> QED BY <3>1, <3>2, <1>e DEF DistinctInv
  <2>2. CASE ~\E p \in Pod : WorkerThrows(p) \/ PodCrash(p)
    BY <1>4, <2>2, <1>s DEF Environment, Ban, ExpirePairLock, ExpireSkipLock,
                            HandlerThrows, redis
  <2> QED BY <2>1, <2>2
<1>5. CASE UNCHANGED vars
  BY <1>5, <1>s DEF vars, redis
<1> QED BY <1>1, <1>2, <1>3, <1>4, <1>5 DEF Next

(***************************************************************************)
(* What a step of a worker, and of a handler, can do to a match.           *)
(***************************************************************************)
Writing == {"hset", "index", "call", "tell"}
Ending  == {"end", "history", "delete", "unindex", "freepeer", "tellpeer"}

LEMMA WorkerEffect ==
  ASSUME TypeOK, NEW p \in Pod, WorkerStep(p)
  PROVE  /\ \A q \in Pod \ {p} : worker'[q] = worker[q]
         /\ handler' = handler /\ gone' = gone
         /\ worker'[p].pc \in Writing => worker'[p].batch = worker[p].batch
         /\ \/ /\ worker[p].pc = "insert" /\ worker'[p].pc = "hset"
               /\ worker'[p].m \in MatchId /\ rows[worker'[p].m].pair = <<>>
               /\ rows' = [rows EXCEPT ![worker'[p].m].pair = Pair(p)]
               /\ hash' = hash /\ told' = told
            \/ /\ worker[p].pc = "hset" /\ worker'[p].pc = "index"
               /\ worker'[p].m = worker[p].m
               /\ hash' = [hash EXCEPT ![worker[p].m] = Pair(p)]
               /\ rows' = rows /\ told' = told
            \/ /\ worker[p].pc = "tell" /\ worker'[p].m = worker[p].m
               /\ worker'[p].pc \notin {"hset", "index", "call"}
               /\ told' = [told EXCEPT ![Party(p)] = @ \cup {worker[p].m}]
               /\ rows' = rows /\ hash' = hash
            \/ /\ worker'[p].pc \in Writing =>
                    worker'[p].pc # "hset" /\ worker[p].pc \in Writing
                    /\ worker'[p].m = worker[p].m
               /\ worker[p].pc \notin {"hset", "tell"}
               /\ rows' = rows /\ hash' = hash /\ told' = told
<1> DEFINE w == worker[p]
<1>t. worker \in [Pod -> WorkerType] /\ w \in WorkerType
  BY DEF TypeOK
<1>h. handler' = handler /\ gone' = gone
  BY DEF WorkerStep
<1>r. ASSUME NEW b, worker' = [worker EXCEPT ![p] = Round(b)]
      PROVE  worker'[p].pc \notin Writing /\ \A q \in Pod \ {p} : worker'[q] = worker[q]
  <2>1. Round(b).pc \in {"idle", "check"}
    BY DEF Round, IdleWorker
  <2> QED BY <1>r, <1>t, <2>1 DEF Writing
<1>1. CASE Poll(p)
  BY <1>1, <1>h, <1>r DEF Poll
<1>2. CASE CheckBlockExclusion(p)
  <2>1. CASE NextPair(p)
    BY <1>2, <2>1, <1>h, <1>r DEF CheckBlockExclusion, NextPair
  <2>2. CASE WorkerTo(p, "lock")
    BY <1>2, <2>2, <1>h, <1>t DEF CheckBlockExclusion, WorkerTo, Writing, WorkerType
  <2> QED BY <1>2, <2>1, <2>2 DEF CheckBlockExclusion
<1>3. CASE LockParty(p)
  <2>1. worker'[p].pc \notin Writing /\ \A q \in Pod \ {p} : worker'[q] = worker[q]
    BY <1>3, <1>t DEF LockParty, Writing, WorkerType
  <2> QED BY <1>3, <1>h, <2>1 DEF LockParty
<1>4. CASE PopPair(p)
  BY <1>4, <1>h, <1>t DEF PopPair, WorkerTo, Writing, WorkerType
<1>5. CASE InsertMatch(p)
  <2>1. PICK m \in MatchId : /\ rows[m].pair = <<>>
                             /\ rows' = [rows EXCEPT ![m].pair = Pair(p)]
                             /\ worker' = [worker EXCEPT ![p].pc = "hset", ![p].m = m]
    BY <1>5 DEF InsertMatch
  <2>2. /\ worker'[p].pc = "hset" /\ worker'[p].m = m /\ worker'[p].batch = w.batch
        /\ \A q \in Pod \ {p} : worker'[q] = worker[q]
    BY <2>1, <1>t DEF WorkerType
  <2> QED BY <1>5, <1>h, <2>1, <2>2 DEF InsertMatch
<1>6. CASE StoreMatch(p)
  BY <1>6, <1>h, <1>t DEF StoreMatch, WorkerTo, WorkerType
<1>7. CASE IndexParty(p) \/ PutInCall(p) \/ TellFound(p)
  <2>1. PICK pc \in {"call", "tell", "release"} : EachParty(p, pc)
    BY <1>7 DEF IndexParty, PutInCall, TellFound
  <2>2. \A q \in Pod \ {p} : worker'[q] = worker[q]
    BY <2>1, <1>t DEF EachParty
  <2>3. worker'[p].batch = w.batch /\ worker'[p].m = w.m
    BY <2>1, EachPartyMoves
  <2>4. CASE TellFound(p)
    <3>1. EachParty(p, "release")
      BY <2>4 DEF TellFound
    <3>2. worker'[p].pc \notin {"hset", "index", "call"}
      BY <2>4, <3>1, EachPartyMoves DEF TellFound
    <3> QED BY <2>4, <1>h, <2>2, <2>3, <3>2 DEF TellFound
  <2>5. CASE IndexParty(p) \/ PutInCall(p)
    <3>1. w.pc \in {"index", "call"} /\ rows' = rows /\ hash' = hash /\ told' = told
      BY <2>5 DEF IndexParty, PutInCall
    <3>2. worker'[p].pc # "hset"
      BY <2>1, <3>1, EachPartyMoves
    <3> QED BY <1>h, <2>2, <2>3, <3>1, <3>2 DEF Writing
  <2> QED BY <1>7, <2>4, <2>5
<1>8. CASE ReleasePair(p)
  BY <1>8, <1>h, <1>r DEF ReleasePair, NextPair
<1> QED BY <1>1, <1>2, <1>3, <1>4, <1>5, <1>6, <1>7, <1>8 DEF WorkerStep

LEMMA HandlerEffect ==
  ASSUME TypeOK, NEW h \in Handler, HandlerStep(h)
  PROVE  /\ \A g \in Handler \ {h} : handler'[g] = handler[g]
         /\ worker' = worker /\ told' = told
         /\ handler'[h].pc \in Ending =>
              /\ handler'[h].m = handler[h].m
              /\ \/ /\ handler'[h].pc = "end"
                    /\ handler[h].pc = "read" /\ HoldsSkip(h)
                    /\ hash[handler[h].m] # <<>>
                    /\ handler'[h].pair = hash[handler[h].m]
                 \/ /\ handler'[h].pair = handler[h].pair
                    /\ \/ handler[h].pc = "end" /\ handler'[h].pc = "history"
                       \/ handler[h].pc = "history" /\ handler'[h].pc = "delete"
                       \/ handler[h].pc = "delete" /\ handler'[h].pc = "unindex"
                       \/ /\ handler[h].pc \in {"unindex", "freepeer"}
                          /\ handler'[h].pc \in {"unindex", "freepeer", "tellpeer"}
         /\ IF handler[h].pc = "end"
            THEN rows' = [rows EXCEPT ![handler[h].m].ended = TRUE]
            ELSE IF handler[h].pc = "history"
            THEN rows' = [rows EXCEPT ![handler[h].m].meets = @ + 1]
            ELSE rows' = rows
         /\ IF handler[h].pc = "delete"
            THEN hash' = [hash EXCEPT ![handler[h].m] = <<>>]
            ELSE hash' = hash
         /\ IF handler[h].pc = "tellpeer"
            THEN /\ gone' = [gone EXCEPT ![Peer(h)] = @ \cup {handler[h].m}]
                 /\ handler'[h].pc = "ban"
            ELSE gone' = gone
<1> DEFINE r == handler[h]
<1>t. /\ handler \in [Handler -> HandlerType] /\ r \in HandlerType /\ HandlerOK(r)
  BY DEF TypeOK
<1>w. worker' = worker /\ told' = told
  BY DEF HandlerStep
<1>o. \A g \in Handler \ {h} : handler'[g] = handler[g]
  BY <1>t DEF HandlerStep, BanCheck, SetSearching, Enqueue, Dequeue, SetReady,
       FindMatch, LockSkip, ReadMatch, EndRow, WriteHistory, DeleteMatch, Unindex,
       FreePeer, TellPeer, UnlockSkip, Disconnect, AddBlock, HandlerTo
<1>m. ASSUME NEW pc, HandlerTo(h, pc), pc # "idle"
      PROVE  handler'[h].pc = pc /\ handler'[h].m = r.m /\ handler'[h].pair = r.pair
  BY <1>m, HandlerToMoves
<1>i. ASSUME NEW pc, HandlerTo(h, pc), pc \notin Ending PROVE handler'[h].pc \notin Ending
  <2>1. CASE pc = "idle"
    BY <1>i, <2>1, HandlerToMoves DEF IdleHandler, Ending
  <2>2. CASE pc # "idle"
    BY <1>i, <2>2, HandlerToMoves
  <2> QED BY <2>1, <2>2
<1>1. CASE \/ BanCheck(h) \/ SetSearching(h) \/ Enqueue(h) \/ Dequeue(h)
           \/ SetReady(h) \/ LockSkip(h) \/ UnlockSkip(h) \/ Disconnect(h)
           \/ AddBlock(h)
  <2>1. \E pc : HandlerTo(h, pc) /\ pc \notin Ending
    BY <1>1 DEF BanCheck, SetSearching, Enqueue, Dequeue, SetReady, LockSkip,
         UnlockSkip, Disconnect, AddBlock, AfterJoin, AfterSkip, Ending
  <2>2. handler'[h].pc \notin Ending
    BY <2>1, <1>i
  <2>3. /\ r.pc \notin {"end", "history", "delete", "tellpeer"}
        /\ rows' = rows /\ hash' = hash /\ gone' = gone
    BY <1>1 DEF BanCheck, SetSearching, Enqueue, Dequeue, SetReady, LockSkip,
         UnlockSkip, Disconnect, AddBlock, At
  <2> QED BY <2>2, <2>3, <1>o, <1>w
<1>2. CASE FindMatch(h)
  <2>1. handler'[h].pc \notin Ending
    BY <1>2, <1>t DEF FindMatch, Ending, HandlerType
  <2> QED BY <1>2, <2>1, <1>o, <1>w DEF FindMatch, At
<1>3. CASE ReadMatch(h)
  <2>1. r.pc = "read" /\ rows' = rows /\ hash' = hash /\ gone' = gone
    BY <1>3 DEF ReadMatch, At
  <2>2. CASE hash[r.m] = <<>>
    <3>1. \E pc \in {"idle", "unlock"} : HandlerTo(h, pc)
      BY <1>3, <2>2 DEF ReadMatch
    <3> QED BY <2>1, <3>1, <1>i, <1>o, <1>w DEF Ending
  <2>3. CASE hash[r.m] # <<>>
    <3>1. /\ handler'[h].m = r.m /\ handler'[h].pair = hash[r.m]
          /\ handler'[h].pc = IF r.op = "block" THEN "sadd" ELSE "end"
      BY <1>3, <2>3, <1>t DEF ReadMatch, HandlerType
    <3>2. handler'[h].pc \in Ending => handler'[h].pc = "end" /\ HoldsSkip(h)
      BY <2>1, <3>1, <1>t DEF Ending, HandlerOK, HoldsSkip, Skipping, SkipPc
    <3> QED BY <2>1, <2>3, <3>1, <3>2, <1>o, <1>w
  <2> QED BY <2>2, <2>3
<1>4. CASE EndRow(h)
  BY <1>4, <1>m, <1>o, <1>w DEF EndRow, At
<1>5. CASE WriteHistory(h)
  BY <1>5, <1>m, <1>o, <1>w DEF WriteHistory, At
<1>6. CASE DeleteMatch(h)
  BY <1>6, <1>m, <1>o, <1>w DEF DeleteMatch, At
<1>7. CASE Unindex(h)
  <2>1. /\ handler'[h].m = r.m /\ handler'[h].pair = r.pair /\ r.pc = "unindex"
        /\ handler'[h].pc \in {"unindex", "freepeer"}
    BY <1>7, <1>t DEF Unindex, At, HandlerType
  <2>2. rows' = rows /\ hash' = hash /\ gone' = gone
    BY <1>7 DEF Unindex
  <2> QED BY <2>1, <2>2, <1>o, <1>w
<1>8. CASE FreePeer(h)
  <2>1. /\ handler'[h].m = r.m /\ handler'[h].pair = r.pair /\ r.pc = "freepeer"
        /\ handler'[h].pc = "tellpeer"
    BY <1>8, <1>m DEF FreePeer, At
  <2>2. rows' = rows /\ hash' = hash /\ gone' = gone
    BY <1>8 DEF FreePeer
  <2> QED BY <2>1, <2>2, <1>o, <1>w
<1>9. CASE TellPeer(h)
  <2>1. handler'[h].pc = "ban"
    BY <1>9, <1>m DEF TellPeer
  <2>2. rows' = rows /\ hash' = hash /\ r.pc = "tellpeer"
    BY <1>9 DEF TellPeer, At
  <2> QED BY <1>9, <2>1, <2>2, <1>o, <1>w DEF TellPeer, Ending
<1> QED BY <1>1, <1>2, <1>3, <1>4, <1>5, <1>6, <1>7, <1>8, <1>9 DEF HandlerStep

(* Requests and the environment touch no match, and only drop what a       *)
(* worker or a handler was doing.                                          *)
LEMMA OtherEffect ==
  ASSUME TypeOK, Client \/ Environment \/ UNCHANGED vars
  PROVE  /\ UNCHANGED <<rows, hash, told, gone>>
         /\ \A p \in Pod : worker'[p].pc \in Writing =>
              /\ worker'[p].pc = worker[p].pc /\ worker'[p].m = worker[p].m
              /\ worker'[p].batch = worker[p].batch
         /\ \A h \in Handler : handler'[h].pc \in Ending => handler'[h] = handler[h]
<1>t. worker \in [Pod -> WorkerType] /\ handler \in [Handler -> HandlerType]
  BY DEF TypeOK
<1>1. CASE Client
  <2>1. PICK h \in Handler, op \in Op, s \in Session, m \in MatchId \cup {None},
             pc \in {"ban", "zrem", "lock", "read"} : Start(h, op, s, m, pc)
    BY <1>1 DEF Client, QueueJoin, QueueLeave, SocketClose, MatchSkip, MatchBlock,
                Request, Op
  <2>2. handler'[h].pc = pc /\ \A g \in Handler \ {h} : handler'[g] = handler[g]
    <3>1. IdleHandler \in HandlerType
      BY IdleTypes
    <3> QED BY <1>t, <2>1, <3>1 DEF Start, HandlerType
  <2>3. UNCHANGED <<rows, hash, told, gone, worker>>
    BY <1>1 DEF Client, QueueJoin, QueueLeave, SocketClose, MatchSkip, MatchBlock,
                Request, redis, sent
  <2> QED BY <2>1, <2>2, <2>3 DEF Ending
<1>2. CASE Environment
  <2>1. UNCHANGED <<rows, hash, told, gone>>
    BY <1>2 DEF Environment, Ban, ExpirePairLock, ExpireSkipLock, WorkerThrows, PodCrash,
                HandlerThrows, redis, sent
  <2>2. ASSUME NEW p \in Pod, WorkerThrows(p)
        PROVE  /\ worker'[p].pc \notin Writing /\ handler' = handler
               /\ \A q \in Pod \ {p} : worker'[q] = worker[q]
    BY <2>2, <1>t DEF WorkerThrows, IdleWorker, Writing, WorkerType
  <2>3. ASSUME NEW p \in Pod, PodCrash(p)
        PROVE  /\ worker'[p].pc \notin Writing
               /\ \A q \in Pod \ {p} : worker'[q] = worker[q]
               /\ \A h \in Handler : handler'[h] = handler[h] \/ handler'[h] = IdleHandler
    BY <2>3, <1>t DEF PodCrash, IdleWorker, Writing
  <2>4. ASSUME NEW h \in Handler, HandlerThrows(h)
        PROVE  /\ handler'[h].pc \notin Ending /\ worker' = worker
               /\ \A g \in Handler \ {h} : handler'[g] = handler[g]
    <3>1. PICK pc \in {"unlock", "disconnect", "idle"} : HandlerTo(h, pc)
      BY <2>4 DEF HandlerThrows, AfterSkip
    <3>2. handler'[h].pc = pc
      BY <3>1, HandlerToMoves DEF IdleHandler
    <3>3. \A g \in Handler \ {h} : handler'[g] = handler[g]
      BY <3>1, HandlerToMoves
    <3> QED BY <2>4, <3>2, <3>3 DEF HandlerThrows, Ending
  <2>5. CASE UNCHANGED <<worker, handler>>
    BY <2>1, <2>5
  <2>6. CASE \E p \in Pod : WorkerThrows(p)
    BY <2>1, <2>2, <2>6
  <2>7. CASE \E p \in Pod : PodCrash(p)
    <3>1. IdleHandler.pc \notin Ending
      BY DEF IdleHandler, Ending
    <3> QED BY <2>1, <2>3, <2>7, <3>1
  <2>8. CASE \E h \in Handler : HandlerThrows(h)
    BY <2>1, <2>4, <2>8
  <2> QED BY <1>2, <2>5, <2>6, <2>7, <2>8
          DEF Environment, Ban, ExpirePairLock, ExpireSkipLock
<1>3. CASE UNCHANGED vars
  BY <1>3 DEF vars, redis, sent
<1> QED BY <1>1, <1>2, <1>3

(***************************************************************************)
(* The rows and the Redis keys of a match agree on its parties, whatever   *)
(* fails: a worker writes the pair it inserted, a handler goes by the pair *)
(* it read.                                                                *)
(***************************************************************************)
RowInv ==
  /\ \A p \in Pod : worker[p].pc \in Writing => rows[worker[p].m].pair = Pair(p)
  /\ \A m \in MatchId : hash[m] # <<>> => rows[m].pair = hash[m]
  /\ \A m \in MatchId : rows[m].ended => rows[m].pair # <<>>
  /\ \A h \in Handler :
       handler[h].pc \in Ending =>
         /\ rows[handler[h].m].pair = handler[h].pair
         /\ handler[h].pc # "end" => rows[handler[h].m].ended

(* And while nothing fails, a match whose end was announced is not stored, *)
(* written or ended any more.                                              *)
OverInv ==
  faults = 0 /\ stalls = 0 =>
    /\ \A h \in Handler :
         handler[h].pc \in {"unindex", "freepeer", "tellpeer"} => hash[handler[h].m] = <<>>
    /\ \A p \in Pod, h \in Handler :
         worker[p].pc = "hset" /\ handler[h].pc \in Ending => handler[h].m # worker[p].m
    /\ \A m \in MatchId, s \in Session :
         m \in gone[s] =>
           /\ rows[m].pair # <<>> /\ hash[m] = <<>>
           /\ \A h \in Handler : handler[h].pc \in Ending => handler[h].m # m
           /\ \A p \in Pod : worker[p].pc = "hset" => worker[p].m # m

LEMMA ServiceTypes ==
  ASSUME TypeOK
  PROVE  /\ rows \in [MatchId -> [pair : MaybePair, ended : BOOLEAN, meets : Nat]]
         /\ hash \in [MatchId -> MaybePair]
         /\ told \in [Session -> SUBSET MatchId] /\ gone \in [Session -> SUBSET MatchId]
         /\ worker \in [Pod -> WorkerType] /\ handler \in [Handler -> HandlerType]
         /\ \A p \in Pod : worker[p].pc \in Writing => worker[p].m \in MatchId
         /\ \A p \in Pod : worker[p].pc \in Writing \cup {"insert"} =>
              /\ worker[p].batch[1] \in Session /\ worker[p].batch[2] \in Session
              /\ 1 \in DOMAIN worker[p].batch /\ 2 \in DOMAIN worker[p].batch
         /\ \A h \in Handler :
              handler[h].pc \in Ending => /\ HoldsSkip(h) /\ handler[h].m \in MatchId
                                          /\ handler[h].pair \in Session \X Session
                                          /\ handler[h].pair # <<>>
<1>1. ASSUME NEW p \in Pod, worker[p].pc \in Writing \cup {"insert"}
      PROVE  /\ worker[p].batch[1] \in Session /\ worker[p].batch[2] \in Session
             /\ 1 \in DOMAIN worker[p].batch /\ 2 \in DOMAIN worker[p].batch
  <2>1. worker[p].batch \in Seq(Session) /\ Len(worker[p].batch) >= 2
    BY <1>1 DEF TypeOK, WorkerType, WorkerOK, Writing
  <2> QED BY <2>1
<1>2. ASSUME NEW h \in Handler, handler[h].pc \in Ending
      PROVE  /\ HoldsSkip(h) /\ handler[h].m \in MatchId
             /\ handler[h].pair \in Session \X Session /\ handler[h].pair # <<>>
  <2>1. handler[h] \in HandlerType /\ HandlerOK(handler[h])
    BY DEF TypeOK
  <2>2. HoldsSkip(h)
    BY <1>2, <2>1 DEF HandlerOK, HoldsSkip, Skipping, Ending, SkipPc
  <2> QED BY <1>2, <2>1, <2>2 DEF HandlerOK, HandlerType, HoldsSkip, Ending, MaybePair
<1> QED BY <1>1, <1>2 DEF TypeOK, DataOK, WorkerOK, Writing

(* A handler never changes the parties of a match, and ends it for good.   *)
LEMMA RowsKept ==
  ASSUME TypeOK, NEW h \in Handler, HandlerStep(h)
  PROVE  /\ \A m \in MatchId :
              /\ rows'[m].pair = rows[m].pair
              /\ rows'[m].ended = IF handler[h].pc = "end" /\ m = handler[h].m
                                 THEN TRUE ELSE rows[m].ended
         /\ handler[h].pc = "end" => handler[h].m \in MatchId /\ rows'[handler[h].m].ended
<1> DEFINE r == handler[h]
<1>t. rows \in [MatchId -> [pair : MaybePair, ended : BOOLEAN, meets : Nat]]
  BY ServiceTypes
<1>1. r.pc \in {"end", "history"} => r.m \in MatchId
  BY ServiceTypes DEF Ending
<1>2. CASE r.pc = "end"
  <2>1. rows' = [rows EXCEPT ![r.m].ended = TRUE]
    BY <1>2, HandlerEffect
  <2>2. \A m \in MatchId : /\ rows'[m].pair = rows[m].pair
                           /\ rows'[m].ended = IF m = r.m THEN TRUE ELSE rows[m].ended
    BY <2>1, <1>1, <1>2, <1>t
  <2> QED BY <2>2, <1>1, <1>2
<1>3. CASE r.pc = "history"
  <2>1. rows' = [rows EXCEPT ![r.m].meets = @ + 1]
    BY <1>3, HandlerEffect
  <2> QED BY <2>1, <1>1, <1>3, <1>t
<1>4. CASE r.pc \notin {"end", "history"}
  BY <1>4, HandlerEffect
<1> QED BY <1>2, <1>3, <1>4

LEMMA RowInit == Init => RowInv /\ OverInv
BY DEF Init, RowInv, OverInv, IdleWorker, IdleHandler, NoRow, Writing, Ending

LEMMA RowStep == TypeOK /\ RowInv /\ [Next]_vars => RowInv'
<1> SUFFICES ASSUME TypeOK, RowInv, [Next]_vars PROVE RowInv'
  OBVIOUS
<1>t. /\ rows \in [MatchId -> [pair : MaybePair, ended : BOOLEAN, meets : Nat]]
      /\ hash \in [MatchId -> MaybePair]
      /\ \A p \in Pod : worker[p].pc \in Writing => worker[p].m \in MatchId
      /\ \A h \in Handler : handler[h].pc \in Ending =>
           handler[h].m \in MatchId /\ handler[h].pair # <<>>
  BY ServiceTypes
<1>1. ASSUME NEW p \in Pod, WorkerStep(p) PROVE RowInv'
  <2> DEFINE w == worker[p]
             v == worker'[p]
  <2>e. /\ \A q \in Pod \ {p} : worker'[q] = worker[q]
        /\ handler' = handler
        /\ v.pc \in Writing => v.batch = w.batch
    BY <1>1, WorkerEffect
  <2>1. CASE /\ w.pc = "insert" /\ v.pc = "hset"
             /\ v.m \in MatchId /\ rows[v.m].pair = <<>>
             /\ rows' = [rows EXCEPT ![v.m].pair = Pair(p)]
             /\ hash' = hash
    <3>1. /\ \A m \in MatchId : /\ m # v.m => rows'[m] = rows[m]
                                /\ rows'[m].ended = rows[m].ended
          /\ rows'[v.m].pair = Pair(p)
      BY <2>1, <1>t
    <3>2. ASSUME NEW q \in Pod, worker'[q].pc \in Writing
          PROVE  rows'[worker'[q].m].pair = (Pair(q))'
      <4>1. CASE q = p
        BY <4>1, <2>e, <2>1, <3>1 DEF Pair, Writing
      <4>2. CASE q # p
        <5>1. rows[worker[q].m].pair = Pair(q) /\ worker[q].m \in MatchId
          BY <4>2, <3>2, <2>e, <1>t DEF RowInv
        <5>2. worker[q].m # v.m
          BY <5>1, <2>1 DEF Pair
        <5> QED BY <4>2, <5>1, <5>2, <2>e, <3>1 DEF Pair
      <4> QED BY <4>1, <4>2
    <3>3. ASSUME NEW m \in MatchId, hash'[m] # <<>> PROVE rows'[m].pair = hash'[m]
      BY <3>3, <2>1, <3>1 DEF RowInv
    <3>5. ASSUME NEW m \in MatchId, rows'[m].ended PROVE rows'[m].pair # <<>>
      BY <3>5, <2>1, <3>1 DEF RowInv, Pair
    <3>4. ASSUME NEW h \in Handler, handler[h].pc \in Ending
          PROVE  rows'[handler[h].m] = rows[handler[h].m]
      BY <3>4, <1>t, <2>1, <3>1 DEF RowInv
    <3> QED BY <3>2, <3>3, <3>4, <3>5, <2>e DEF RowInv
  <2>2. CASE /\ w.pc = "hset" /\ v.pc = "index" /\ v.m = w.m
             /\ hash' = [hash EXCEPT ![w.m] = Pair(p)] /\ rows' = rows
    <3>1. w.m \in MatchId /\ rows[w.m].pair = Pair(p)
      BY <2>2, <1>t DEF RowInv, Writing
    <3>2. \A q \in Pod : worker'[q].pc \in Writing => rows'[worker'[q].m].pair = (Pair(q))'
      BY <2>2, <2>e, <3>1 DEF RowInv, Pair, Writing
    <3>3. \A m \in MatchId : hash'[m] # <<>> => rows'[m].pair = hash'[m]
      BY <2>2, <3>1, <1>t DEF RowInv
    <3> QED BY <2>2, <2>e, <3>2, <3>3 DEF RowInv
  <2>3. CASE /\ v.pc \in Writing => w.pc \in Writing /\ v.m = w.m
             /\ rows' = rows /\ hash' = hash
    <3>1. ASSUME NEW q \in Pod, worker'[q].pc \in Writing
          PROVE  rows'[worker'[q].m].pair = (Pair(q))'
      <4>1. /\ worker[q].pc \in Writing /\ worker'[q].m = worker[q].m
            /\ worker'[q].batch = worker[q].batch
        BY <3>1, <2>3, <2>e
      <4> QED BY <4>1, <2>3 DEF RowInv, Pair
    <3> QED BY <2>3, <2>e, <3>1 DEF RowInv
  <2> QED BY <1>1, WorkerEffect, <2>1, <2>2, <2>3 DEF Writing
<1>2. ASSUME NEW h \in Handler, HandlerStep(h) PROVE RowInv'
  <2> DEFINE r == handler[h]
             u == handler'[h]
  <2>1. /\ \A m \in MatchId : /\ rows'[m].pair = rows[m].pair
                              /\ rows[m].ended => rows'[m].ended
        /\ r.pc = "end" => rows'[r.m].ended
    BY <1>2, RowsKept
  <2>2. \A m \in MatchId : hash'[m] # <<>> => hash'[m] = hash[m]
    <3>1. r.pc = "delete" => r.m \in MatchId
      BY <1>t DEF Ending
    <3> QED BY <1>2, <3>1, <1>t, HandlerEffect
  <2>3. worker' = worker /\ \A g \in Handler \ {h} : handler'[g] = handler[g]
    BY <1>2, HandlerEffect
  <2>4. ASSUME u.pc \in Ending
        PROVE  /\ rows'[u.m].pair = u.pair
               /\ u.pc # "end" => rows'[u.m].ended
    <3>1. CASE u.pc = "end" /\ u.m = r.m /\ u.pair = hash[r.m] /\ hash[r.m] # <<>>
               /\ HoldsSkip(h)
      <4>1. r.m \in MatchId
        BY <3>1 DEF TypeOK, HandlerOK, HoldsSkip
      <4> QED BY <3>1, <4>1, <2>1 DEF RowInv
    <3>2. CASE /\ u.m = r.m /\ u.pair = r.pair /\ r.pc \in Ending
               /\ u.pc # "end"
      BY <3>2, <2>1, <1>t DEF RowInv
    <3> QED BY <2>4, <1>2, HandlerEffect, <3>1, <3>2 DEF Ending
  <2>5. \A p \in Pod : worker'[p].pc \in Writing => rows'[worker'[p].m].pair = (Pair(p))'
    BY <2>1, <2>3, <1>t DEF RowInv, Pair
  <2>6. \A m \in MatchId : hash'[m] # <<>> => rows'[m].pair = hash'[m]
    BY <2>1, <2>2 DEF RowInv
  <2>8. ASSUME NEW m \in MatchId, rows'[m].ended PROVE rows'[m].pair # <<>>
    <3>1. r.pc = "end" => rows[r.m].pair # <<>>
      BY <1>t DEF RowInv, Ending
    <3>2. rows[m].ended \/ (r.pc = "end" /\ m = r.m)
      BY <2>8, <1>2, RowsKept
    <3> QED BY <2>1, <3>1, <3>2 DEF RowInv
  <2>7. \A g \in Handler \ {h} :
          handler'[g].pc \in Ending =>
            /\ rows'[handler'[g].m].pair = handler'[g].pair
            /\ handler'[g].pc # "end" => rows'[handler'[g].m].ended
    BY <2>1, <2>3, <1>t DEF RowInv
  <2> QED BY <2>4, <2>5, <2>6, <2>7, <2>8 DEF RowInv
<1>3. CASE Client \/ Environment \/ UNCHANGED vars
  BY ZenonT(30), <1>3, OtherEffect DEF RowInv, Pair
<1> QED BY <1>1, <1>2, <1>3 DEF Next

(* Faults and stalls are counted and never forgotten.                      *)
LEMMA Quiet ==
  ASSUME TypeOK, [Next]_vars, faults' = 0, stalls' = 0
  PROVE  faults = 0 /\ stalls = 0
<1>n. faults \in Nat /\ stalls \in Nat
  BY DEF TypeOK, DataOK
<1>1. ASSUME NEW p \in Pod, WorkerStep(p) PROVE faults = 0 /\ stalls = 0
  BY <1>1 DEF WorkerStep, bounds
<1>2. ASSUME NEW h \in Handler, HandlerStep(h) PROVE faults = 0 /\ stalls = 0
  BY <1>2 DEF HandlerStep, bounds
<1>3. CASE Client
  BY <1>3 DEF Client, QueueJoin, QueueLeave, SocketClose, MatchSkip, MatchBlock, Request,
              bounds
<1>4. CASE Environment
  BY <1>4, <1>n DEF Environment, Ban, ExpirePairLock, ExpireSkipLock, WorkerThrows,
                    PodCrash, HandlerThrows, Fault, Expire, bounds
<1> QED BY <1>1, <1>2, <1>3, <1>4 DEF Next, vars, bounds

LEMMA OverStep == TypeOK /\ EndInv /\ RowInv /\ OverInv /\ [Next]_vars => OverInv'
<1> DEFINE Deleted == \A h \in Handler :
                        handler[h].pc \in {"unindex", "freepeer", "tellpeer"} =>
                          hash[handler[h].m] = <<>>
           Apart == \A p \in Pod, h \in Handler :
                      worker[p].pc = "hset" /\ handler[h].pc \in Ending =>
                        handler[h].m # worker[p].m
           Over == \A m \in MatchId, s \in Session :
                     m \in gone[s] =>
                       /\ rows[m].pair # <<>> /\ hash[m] = <<>>
                       /\ \A h \in Handler : handler[h].pc \in Ending => handler[h].m # m
                       /\ \A p \in Pod : worker[p].pc = "hset" => worker[p].m # m
<1> SUFFICES ASSUME TypeOK, EndInv, RowInv, OverInv, [Next]_vars, faults' = 0, stalls' = 0
             PROVE  Deleted' /\ Apart' /\ Over'
  BY DEF OverInv
<1>a. SkipMutex /\ StoresFresh /\ Deleted /\ Apart /\ Over
  BY Quiet DEF OverInv, EndInv
<1>t. /\ rows \in [MatchId -> [pair : MaybePair, ended : BOOLEAN, meets : Nat]]
      /\ hash \in [MatchId -> MaybePair]
      /\ gone \in [Session -> SUBSET MatchId]
      /\ \A p \in Pod : worker[p].pc \in Writing => worker[p].m \in MatchId
      /\ \A h \in Handler : handler[h].pc \in Ending =>
           HoldsSkip(h) /\ handler[h].m \in MatchId /\ handler[h].pair # <<>>
  BY ServiceTypes
<1>1. ASSUME NEW p \in Pod, WorkerStep(p) PROVE Deleted' /\ Apart' /\ Over'
  <2> DEFINE w == worker[p]
             v == worker'[p]
  <2>e. /\ \A q \in Pod \ {p} : worker'[q] = worker[q]
        /\ handler' = handler /\ gone' = gone
    BY <1>1, WorkerEffect
  <2>1. CASE /\ v.pc = "hset"
             /\ v.m \in MatchId /\ rows[v.m].pair = <<>>
             /\ rows' = [rows EXCEPT ![v.m].pair = Pair(p)]
             /\ hash' = hash
    <3>1. \A m \in MatchId : m # v.m => rows'[m] = rows[m]
      BY <2>1, <1>t
    <3>2. \A h \in Handler : handler[h].pc \in Ending => handler[h].m # v.m
      BY SMTT(30), <2>1, <1>t DEF RowInv
    <3>3. \A s \in Session : v.m \notin gone[s]
      BY <2>1, <1>a
    <3>4. Apart'
      BY <2>e, <3>2, <1>a
    <3>5. ASSUME NEW m \in MatchId, NEW s \in Session, m \in gone[s]
          PROVE  /\ rows'[m].pair # <<>> /\ hash'[m] = <<>>
                 /\ \A h \in Handler : handler[h].pc \in Ending => handler[h].m # m
                 /\ \A q \in Pod : worker'[q].pc = "hset" => worker'[q].m # m
      BY <2>e, <2>1, <3>1, <3>3, <3>5, <1>a
    <3> QED BY <2>1, <2>e, <3>4, <3>5, <1>a
  <2>2. CASE /\ w.pc = "hset" /\ v.pc = "index"
             /\ hash' = [hash EXCEPT ![w.m] = Pair(p)] /\ rows' = rows
    <3>1. w.m \in MatchId /\ \A m \in MatchId \ {w.m} : hash'[m] = hash[m]
      BY <2>2, <1>t DEF Writing
    <3>2. Deleted'
      BY <2>2, <2>e, <3>1, <1>a, <1>t DEF Ending
    <3>3. Apart'
      BY <2>2, <2>e, <1>a
    <3>4. ASSUME NEW m \in MatchId, NEW s \in Session, m \in gone[s]
          PROVE  /\ rows'[m].pair # <<>> /\ hash'[m] = <<>>
                 /\ \A h \in Handler : handler[h].pc \in Ending => handler[h].m # m
                 /\ \A q \in Pod : worker'[q].pc = "hset" => worker'[q].m # m
      <4>1. m # w.m
        BY <2>2, <3>4, <1>a
      <4> QED BY <2>2, <2>e, <3>1, <3>4, <4>1, <1>a
    <3> QED BY <2>e, <3>2, <3>3, <3>4
  <2>3. CASE v.pc # "hset" /\ rows' = rows /\ hash' = hash
    BY <2>3, <2>e, <1>a
  <2> QED BY <1>1, WorkerEffect, <2>1, <2>2, <2>3 DEF Writing
<1>2. ASSUME NEW h \in Handler, HandlerStep(h) PROVE Deleted' /\ Apart' /\ Over'
  <2> DEFINE r == handler[h]
             u == handler'[h]
  <2>w. worker' = worker /\ \A g \in Handler \ {h} : handler'[g] = handler[g]
    BY <1>2, HandlerEffect
  <2>p. \A m \in MatchId : rows'[m].pair = rows[m].pair
    BY <1>2, RowsKept
  <2>h. /\ \A m \in MatchId : hash[m] = <<>> => hash'[m] = <<>>
        /\ r.pc = "delete" => hash'[r.m] = <<>>
    <3>1. r.pc = "delete" => r.m \in MatchId
      BY <1>t DEF Ending
    <3> QED BY <1>2, <3>1, <1>t, HandlerEffect
  (* Whoever is ending a match was already, or has just read it.           *)
  <2>u. ASSUME u.pc \in Ending
        PROVE  /\ u.m = r.m /\ r.m \in MatchId
               /\ r.pc \in Ending \/ hash[r.m] # <<>>
               /\ u.pc \in {"unindex", "freepeer", "tellpeer"} =>
                    r.pc \in {"delete", "unindex", "freepeer"}
    <3>1. u.m = r.m
      BY <2>u, <1>2, HandlerEffect
    <3>2. CASE u.pc = "end" /\ HoldsSkip(h) /\ hash[r.m] # <<>>
      <4>1. r.m \in MatchId
        BY <3>2 DEF TypeOK, HandlerOK, HoldsSkip
      <4> QED BY <3>1, <3>2, <4>1
    <3>3. CASE r.pc \in Ending /\ (u.pc \in {"unindex", "freepeer", "tellpeer"} =>
                                    r.pc \in {"delete", "unindex", "freepeer"})
      BY <3>1, <3>3, <1>t
    <3> QED BY <2>u, <1>2, HandlerEffect, <3>2, <3>3 DEF Ending
  <2>1. Deleted'
    <3>1. u.pc \in {"unindex", "freepeer", "tellpeer"} => hash'[u.m] = <<>>
      BY <2>u, <2>h, <1>a DEF Ending
    <3>2. \A g \in Handler \ {h} :
            handler[g].pc \in {"unindex", "freepeer", "tellpeer"} => hash'[handler[g].m] = <<>>
      BY <2>h, <1>a, <1>t DEF Ending
    <3> QED BY <2>w, <3>1, <3>2
  <2>2. Apart'
    <3>1. ASSUME NEW p \in Pod, worker[p].pc = "hset", u.pc \in Ending
          PROVE  u.m # worker[p].m
      BY <3>1, <2>u, <1>a DEF StoresFresh
    <3> QED BY <2>w, <3>1, <1>a
  <2>3. ASSUME NEW m \in MatchId, NEW s \in Session, m \in gone'[s]
        PROVE  /\ rows'[m].pair # <<>> /\ hash'[m] = <<>>
               /\ \A g \in Handler : handler'[g].pc \in Ending => handler'[g].m # m
               /\ \A p \in Pod : worker'[p].pc = "hset" => worker'[p].m # m
    <3>1. CASE m \in gone[s]
      <4>1. u.pc \in Ending => u.m # m
        BY <3>1, <2>u, <1>a
      <4> QED BY <3>1, <4>1, <2>p, <2>h, <2>w, <1>a
    <3>2. CASE m \notin gone[s]
      <4>1. r.pc = "tellpeer" /\ u.pc = "ban" /\ m = r.m
        <5>1. r.pc = "tellpeer"
          BY <2>3, <3>2, <1>2, HandlerEffect
        <5>2. gone' = [gone EXCEPT ![Peer(h)] = @ \cup {r.m}] /\ u.pc = "ban"
          BY <5>1, <1>2, HandlerEffect
        <5>3. m = r.m
          BY <2>3, <3>2, <5>2, <1>t
        <5> QED BY <5>1, <5>2, <5>3
      <4>2. rows[m].pair # <<>> /\ hash[m] = <<>>
        BY <4>1, <1>a, <1>t DEF RowInv, Ending
      <4>3. \A g \in Handler \ {h} : handler[g].pc \in Ending => handler[g].m # m
        BY <4>1, <1>a, <1>t DEF SkipMutex, Ending
      <4>4. \A p \in Pod : worker[p].pc = "hset" => worker[p].m # m
        BY <4>1, <1>a DEF Ending
      <4> QED BY <4>1, <4>2, <4>3, <4>4, <2>p, <2>h, <2>w DEF Ending
    <3> QED BY <3>1, <3>2
  <2> QED BY <2>1, <2>2, <2>3
<1>3. CASE Client \/ Environment \/ UNCHANGED vars
  BY <1>3, OtherEffect, <1>a, <1>t DEF Writing, Ending
<1> QED BY <1>1, <1>2, <1>3 DEF Next

(***************************************************************************)
(* The refinement: the insert opens a match, the update of its row ends    *)
(* it, the two publishes tell, and every other step is a stutter.          *)
(***************************************************************************)
PartySets == [m \in MatchId |-> PartyOf(rows[m].pair)]

LEMMA ServiceStart == Init => Service!ServiceInit
BY DEF Init, NoRow, Service!ServiceInit, Life, PartyOf

LEMMA ServiceStutter ==
  ASSUME \A m \in MatchId : rows'[m].pair = rows[m].pair /\ rows'[m].ended = rows[m].ended,
         UNCHANGED <<told, gone>>
  PROVE  UNCHANGED Service!svars
<1>1. Life' = Life
  BY DEF Life
<1>2. PartySets' = PartySets
  BY DEF PartySets, PartyOf
<1> QED BY <1>1, <1>2 DEF Service!svars, PartySets

LEMMA ServiceStep ==
  ASSUME TypeOK, DistinctInv, RowInv, OverInv, faults = 0, stalls = 0, [Next]_vars
  PROVE  [Service!ServiceNext]_(Service!svars)
<1>t. /\ rows \in [MatchId -> [pair : MaybePair, ended : BOOLEAN, meets : Nat]]
      /\ \A p \in Pod : worker[p].pc \in Writing => worker[p].m \in MatchId
      /\ \A p \in Pod : worker[p].pc \in Writing \cup {"insert"} =>
           /\ worker[p].batch[1] \in Session /\ worker[p].batch[2] \in Session
           /\ 1 \in DOMAIN worker[p].batch /\ 2 \in DOMAIN worker[p].batch
      /\ \A h \in Handler : handler[h].pc \in Ending =>
           /\ handler[h].m \in MatchId
           /\ handler[h].pair \in Session \X Session /\ handler[h].pair # <<>>
  BY ServiceTypes
<1>p. \A a, b : PartyOf(<<a, b>>) = {a, b}
  BY DEF PartyOf
<1>1. ASSUME NEW p \in Pod, WorkerStep(p)
      PROVE  [Service!ServiceNext]_(Service!svars)
  <2> DEFINE w == worker[p]
             v == worker'[p]
  <2>1. CASE /\ w.pc = "insert" /\ v.m \in MatchId /\ rows[v.m].pair = <<>>
             /\ rows' = [rows EXCEPT ![v.m].pair = Pair(p)]
             /\ told' = told /\ gone' = gone
    <3> DEFINE m == v.m
               a == w.batch[1]
               b == w.batch[2]
    <3>1. a \in Session /\ b \in Session /\ a # b
      BY <2>1, <1>t DEF DistinctInv, Distinct
    <3>2. \A k \in MatchId : /\ rows'[k].pair = IF k = m THEN <<a, b>> ELSE rows[k].pair
                             /\ rows'[k].ended = rows[k].ended
      BY <2>1, <1>t DEF Pair
    <3>3. ~rows[m].ended
      BY <2>1 DEF RowInv
    <3>4. Life[m] = "none" /\ Life' = [Life EXCEPT ![m] = "open"]
      BY SMTT(30), <2>1, <3>2, <3>3 DEF Life
    <3>5. PartySets' = [PartySets EXCEPT ![m] = {a, b}]
      <4>1. \A k \in MatchId :
              PartyOf(rows'[k].pair) = IF k = m THEN {a, b} ELSE PartyOf(rows[k].pair)
        BY <3>2, <1>p
      <4>2. PartySets' = [k \in MatchId |-> PartyOf(rows'[k].pair)]
        BY DEF PartySets, PartyOf
      <4> HIDE DEF m, a, b
      <4> QED BY <4>1, <4>2 DEF PartySets
    <3>6. Service!Open(m, a, b)
      BY <2>1, <3>1, <3>4, <3>5 DEF Service!Open, PartySets
    <3> QED BY <2>1, <3>1, <3>6 DEF Service!ServiceNext
  <2>2. CASE /\ w.pc = "tell" /\ told' = [told EXCEPT ![Party(p)] = @ \cup {w.m}]
             /\ rows' = rows /\ gone' = gone
    <3>1. w.m \in MatchId /\ rows[w.m].pair = Pair(p)
      BY <2>2, <1>t DEF RowInv, Writing
    <3>2. Party(p) \in Session /\ Party(p) \in PartyOf(rows[w.m].pair)
      <4>1. w.n \in {1, 2}
        BY DEF TypeOK, WorkerType
      <4> QED BY <2>2, <3>1, <4>1, <1>t, <1>p DEF Party, Pair, Writing
    <3>3. Life[w.m] # "none" /\ Life' = Life /\ PartySets' = PartySets
      BY <2>2, <3>1 DEF Life, PartySets, Pair
    <3>4. Service!Tell(w.m, Party(p))
      BY <2>2, <3>1, <3>2, <3>3 DEF Service!Tell, PartySets
    <3> QED BY <3>1, <3>2, <3>4 DEF Service!ServiceNext
  <2>3. CASE rows' = rows /\ told' = told /\ gone' = gone
    BY <2>3, ServiceStutter
  <2> QED BY <1>1, WorkerEffect, <2>1, <2>2, <2>3
<1>2. ASSUME NEW h \in Handler, HandlerStep(h)
      PROVE  [Service!ServiceNext]_(Service!svars)
  <2> DEFINE r == handler[h]
  <2>k. \A m \in MatchId : rows'[m].pair = rows[m].pair
    BY <1>2, RowsKept
  <2>l. PartySets' = PartySets
    BY <2>k DEF PartySets, PartyOf
  <2>1. CASE r.pc = "end" /\ ~rows[r.m].ended
    <3>1. r.m \in MatchId /\ rows[r.m].pair # <<>>
      BY <2>1, <1>t DEF RowInv, Ending
    <3>2. \A m \in MatchId : rows'[m].ended = IF m = r.m THEN TRUE ELSE rows[m].ended
      BY <2>1, <1>2, RowsKept
    <3>3. Life[r.m] = "open" /\ Life' = [Life EXCEPT ![r.m] = "over"]
      <4>1. Life[r.m] = "open"
        BY <2>1, <3>1 DEF Life
      <4>2. \A m \in MatchId : (Life')[m] = IF m = r.m THEN "over" ELSE Life[m]
        BY <2>k, <3>1, <3>2 DEF Life
      <4>3. Life' = [m \in MatchId |-> (Life')[m]]
        BY DEF Life
      <4> HIDE DEF Life
      <4> QED BY <4>1, <4>2, <4>3 DEF Life
    <3>4. told' = told /\ gone' = gone
      BY <2>1, <1>2, HandlerEffect
    <3>5. Service!End(r.m)
      BY <2>l, <3>3, <3>4 DEF Service!End, PartySets
    <3> QED BY <3>1, <3>5 DEF Service!ServiceNext
  <2>2. CASE r.pc = "tellpeer"
    <3>1. /\ r.m \in MatchId /\ r.pair \in Session \X Session /\ r.pair # <<>>
          /\ rows[r.m].pair = r.pair /\ rows[r.m].ended
      BY <2>2, <1>t DEF RowInv, Ending
    <3>2. Peer(h) \in Session /\ Peer(h) \in PartyOf(r.pair)
      BY <3>1, <1>p DEF Peer, PartyOf
    <3>3. \A s \in Session : r.m \notin gone[s]
      BY <2>2, <3>1 DEF OverInv, Ending
    <3>4. /\ gone' = [gone EXCEPT ![Peer(h)] = @ \cup {r.m}]
          /\ rows' = rows /\ told' = told
      BY <2>2, <1>2, HandlerEffect
    <3>5. Life[r.m] = "over" /\ Life' = Life
      BY <3>1, <3>4 DEF Life
    <3>6. Service!Bereave(r.m, Peer(h))
      BY <2>l, <3>1, <3>2, <3>3, <3>4, <3>5 DEF Service!Bereave, PartySets
    <3> QED BY <3>1, <3>2, <3>6 DEF Service!ServiceNext
  <2>3. CASE r.pc # "tellpeer" /\ (r.pc = "end" => rows[r.m].ended)
    <3>1. \A m \in MatchId : rows'[m].ended = rows[m].ended
      BY <2>3, <1>2, <1>t, RowsKept
    <3>2. told' = told /\ gone' = gone
      BY <2>3, <1>2, HandlerEffect
    <3> QED BY <2>k, <3>1, <3>2, ServiceStutter
  <2> QED BY <2>1, <2>2, <2>3
<1>3. CASE Client \/ Environment \/ UNCHANGED vars
  BY <1>3, OtherEffect, ServiceStutter
<1> QED BY <1>1, <1>2, <1>3 DEF Next

(* Matchmaking implements MatchService: a match is opened for two sessions *)
(* and announced to them only, it ends once, and one party at most is told *)
(* that the other left, while no command fails and no lock runs out.       *)
THEOREM ServiceImplemented ==
  Spec /\ [](faults = 0 /\ stalls = 0) => ServicePromised
<1> DEFINE Inv == TypeOK /\ DistinctInv /\ EndInv /\ RowInv /\ OverInv
<1>1. Init => Inv
  BY TypeInit, DistinctInit, EndInit, RowInit
<1>2. Inv /\ [Next]_vars => Inv'
  BY TypeStep, DistinctStep, EndStep, RowStep, OverStep
<1>3. Inv /\ (faults = 0 /\ stalls = 0) /\ [Next]_vars =>
        [Service!ServiceNext]_(Service!svars)
  BY ServiceStep
<1> QED BY <1>1, <1>2, <1>3, ServiceStart, PTL
        DEF Spec, ServicePromised, Service!ServiceSpec

(***************************************************************************)
(* A match that anyone can name.  Its id reaches clients and handlers by   *)
(* match:found and by match:session:<session>, both written after the hash *)
(* is, so what a handler works on is never still being inserted.           *)
(***************************************************************************)
Known(m) ==
  rows[m].pair # <<>> /\ \A p \in Pod : worker[p].pc = "hset" => worker[p].m # m

KnownInv ==
  /\ \A p, q \in Pod :
       p # q /\ worker[p].pc \in Writing /\ worker[q].pc \in Writing =>
         worker[p].m # worker[q].m
  /\ \A p \in Pod :
       worker[p].pc = "hset" =>
         /\ hash[worker[p].m] = <<>> /\ ~rows[worker[p].m].ended
         /\ rows[worker[p].m].meets = 0
  /\ \A m \in MatchId : rows[m].pair = <<>> => rows[m].meets = 0
  /\ \A s \in Session : idx[s] # None => Known(idx[s])
  /\ \A s \in Session : \A m \in told[s] : Known(m)
  /\ \A h \in Handler : handler[h].m # None => Known(handler[h].m)

LEMMA KnownInit == Init => KnownInv
BY DEF Init, KnownInv, IdleWorker, IdleHandler, NoRow, Writing

(* What a step of a worker writes besides the row and the hash.            *)
LEMMA WorkerWrites ==
  ASSUME TypeOK, NEW p \in Pod, WorkerStep(p)
  PROVE  /\ \/ idx' = idx
            \/ /\ worker[p].pc = "index"
               /\ idx' = [idx EXCEPT ![Party(p)] = worker[p].m]
         /\ \/ state' = state
            \/ /\ worker[p].pc = "call"
               /\ state' = [state EXCEPT ![Party(p)] = "IN_CALL"]
         /\ UNCHANGED <<skipLock, banned, open, bounds>>
BY DEF WorkerStep, Poll, CheckBlockExclusion, LockParty, PopPair, InsertMatch,
       StoreMatch, IndexParty, PutInCall, TellFound, ReleasePair

(* A handler keeps the match it is about, or finds one, until it is done.  *)
LEMMA HandlerNames ==
  ASSUME TypeOK, NEW h \in Handler, HandlerStep(h)
  PROVE  /\ \/ handler'[h] = IdleHandler
            \/ /\ handler'[h].op = handler[h].op /\ handler'[h].s = handler[h].s
               /\ \/ handler'[h].m = handler[h].m
                  \/ /\ handler[h].pc = "find" /\ handler[h].op = "close"
                     /\ handler[h].s \in Session
                     /\ handler'[h].m = idx[handler[h].s]
         /\ \A s \in Session : idx'[s] \in {idx[s], None}
         /\ UNCHANGED <<banned, open, bounds>>
<1> DEFINE r == handler[h]
<1>t. /\ handler \in [Handler -> HandlerType] /\ r \in HandlerType /\ HandlerOK(r)
      /\ idx \in [Session -> MatchId \cup {None}]
  BY DEF TypeOK, DataOK
<1>m. ASSUME NEW pc, HandlerTo(h, pc)
      PROVE  \/ handler'[h] = IdleHandler
             \/ /\ handler'[h].op = r.op /\ handler'[h].s = r.s
                /\ handler'[h].m = r.m
  BY <1>m, HandlerToMoves
<1>u. UNCHANGED <<banned, open, bounds>>
  BY DEF HandlerStep
<1>1. CASE FindMatch(h)
  <2>1. /\ handler'[h].op = r.op /\ handler'[h].s = r.s /\ handler'[h].m = idx[r.s]
        /\ r.pc = "find" /\ idx' = idx
    BY <1>1, <1>t DEF FindMatch, At, HandlerType
  <2>2. r.op = "close" /\ r.s \in Session
    BY <2>1, <1>t DEF HandlerOK
  <2> QED BY <2>1, <2>2, <1>u
<1>2. CASE ReadMatch(h)
  <2>1. \/ \E pc : HandlerTo(h, pc)
        \/ /\ handler'[h].op = r.op /\ handler'[h].s = r.s /\ handler'[h].m = r.m
    BY <1>2, <1>t DEF ReadMatch, HandlerType
  <2>2. idx' = idx
    BY <1>2 DEF ReadMatch
  <2> QED BY <2>1, <2>2, <1>m, <1>u
<1>3. CASE Unindex(h)
  <2>1. /\ handler'[h].op = r.op /\ handler'[h].s = r.s /\ handler'[h].m = r.m
    BY <1>3, <1>t DEF Unindex, HandlerType
  <2>2. \A s \in Session : idx'[s] \in {idx[s], None}
    BY <1>3, <1>t DEF Unindex
  <2> QED BY <2>1, <2>2, <1>u
<1>4. CASE \/ BanCheck(h) \/ SetSearching(h) \/ Enqueue(h) \/ Dequeue(h)
           \/ SetReady(h) \/ LockSkip(h) \/ EndRow(h) \/ WriteHistory(h)
           \/ DeleteMatch(h) \/ FreePeer(h) \/ TellPeer(h) \/ UnlockSkip(h)
           \/ Disconnect(h) \/ AddBlock(h)
  <2>1. (\E pc : HandlerTo(h, pc)) /\ idx' = idx
    BY <1>4 DEF BanCheck, SetSearching, Enqueue, Dequeue, SetReady, LockSkip, EndRow,
         WriteHistory, DeleteMatch, FreePeer, TellPeer, UnlockSkip, Disconnect, AddBlock
  <2> QED BY <2>1, <1>m, <1>u
<1> QED BY <1>1, <1>2, <1>3, <1>4 DEF HandlerStep

(* A request is about a match its sender was told of, or about none.       *)
LEMMA OtherNames ==
  ASSUME TypeOK, Client \/ Environment \/ UNCHANGED vars
  PROVE  /\ idx' = idx /\ state' = state
         /\ \A h \in Handler :
              \/ handler'[h] = handler[h]
              \/ handler'[h].m = None /\ handler'[h].op \notin {"skip", "block"}
              \/ /\ handler'[h].m = handler[h].m /\ handler'[h].op = handler[h].op
                 /\ handler'[h].s = handler[h].s
              \/ /\ handler[h].pc = "idle" /\ handler'[h].op \in {"skip", "block"}
                 /\ handler'[h].s \in Session /\ handler'[h].m \in told[handler'[h].s]
<1>t. handler \in [Handler -> HandlerType]
  BY DEF TypeOK
<1>s. ASSUME NEW h \in Handler, NEW op \in Op, NEW s \in Session,
             NEW m \in MatchId \cup {None}, NEW pc \in HandlerPc,
             Start(h, op, s, m, pc)
      PROVE  /\ handler[h].pc = "idle" /\ handler'[h].m = m /\ handler'[h].op = op
             /\ handler'[h].s = s
             /\ \A g \in Handler \ {h} : handler'[g] = handler[g]
  <2>1. IdleHandler \in HandlerType
    BY IdleTypes
  <2> QED BY <1>s, <1>t, <2>1 DEF Start, HandlerType
<1>1. CASE Client
  <2>1. PICK h \in Handler, s \in Session :
             \/ QueueJoin(h, s) \/ QueueLeave(h, s) \/ SocketClose(h, s)
             \/ \E m \in MatchId : MatchSkip(h, s, m) \/ MatchBlock(h, s, m)
    BY <1>1 DEF Client
  <2>2. idx' = idx /\ state' = state
    BY <2>1 DEF QueueJoin, QueueLeave, SocketClose, MatchSkip, MatchBlock, Request, redis
  <2>3. CASE QueueJoin(h, s) \/ QueueLeave(h, s) \/ SocketClose(h, s)
    <3>1. \E op \in {"join", "leave", "close"}, pc \in {"ban", "zrem"} :
            Start(h, op, s, None, pc)
      BY <2>3 DEF QueueJoin, QueueLeave, SocketClose, Request
    <3> QED BY <2>2, <3>1, <1>s DEF Op, HandlerPc, SkipPc
  <2>4. CASE \E m \in MatchId : MatchSkip(h, s, m) \/ MatchBlock(h, s, m)
    <3>1. \E m \in MatchId, op \in {"skip", "block"}, pc \in {"lock", "read"} :
            m \in told[s] /\ Start(h, op, s, m, pc)
      BY <2>4 DEF MatchSkip, MatchBlock, Request
    <3> QED BY <2>2, <3>1, <1>s DEF Op, HandlerPc, SkipPc
  <2> QED BY <2>1, <2>3, <2>4
<1>2. CASE Environment
  <2>1. idx' = idx /\ state' = state
    BY <1>2 DEF Environment, Ban, ExpirePairLock, ExpireSkipLock, WorkerThrows, PodCrash,
                HandlerThrows, redis
  <2>2. CASE \E p \in Pod : PodCrash(p)
    BY <2>1, <2>2 DEF PodCrash, IdleHandler
  <2>3. CASE \E h \in Handler : HandlerThrows(h)
    <3>1. PICK h \in Handler, pc \in HandlerPc : HandlerTo(h, pc)
      BY <2>3 DEF HandlerThrows, AfterSkip, HandlerPc, SkipPc
    <3> QED BY <2>1, <3>1, HandlerToMoves DEF IdleHandler
  <2>4. CASE handler' = handler
    BY <2>1, <2>4
  <2> QED BY <1>2, <2>2, <2>3, <2>4
          DEF Environment, Ban, ExpirePairLock, ExpireSkipLock, WorkerThrows
<1>3. CASE UNCHANGED vars
  BY <1>3 DEF vars, redis
<1> QED BY <1>1, <1>2, <1>3

LEMMA KnownKept ==
  ASSUME TypeOK, [Next]_vars, NEW m \in MatchId, Known(m)
  PROVE  (Known(m))'
<1>t. rows \in [MatchId -> [pair : MaybePair, ended : BOOLEAN, meets : Nat]]
  BY ServiceTypes
<1>1. ASSUME NEW p \in Pod, WorkerStep(p) PROVE (Known(m))'
  <2>1. rows'[m].pair # <<>> /\ (worker'[p].pc = "hset" => worker'[p].m # m)
    <3>1. CASE /\ worker'[p].m \in MatchId /\ rows[worker'[p].m].pair = <<>>
               /\ rows' = [rows EXCEPT ![worker'[p].m].pair = Pair(p)]
      BY <3>1, <1>t DEF Known
    <3>2. CASE worker'[p].pc # "hset" /\ rows' = rows
      BY <3>2 DEF Known
    <3> QED BY <1>1, <3>1, <3>2, WorkerEffect DEF Writing
  <2>2. \A q \in Pod \ {p} : worker'[q] = worker[q]
    BY <1>1, WorkerEffect
  <2> QED BY <2>1, <2>2 DEF Known
<1>2. ASSUME NEW h \in Handler, HandlerStep(h) PROVE (Known(m))'
  <2>1. worker' = worker
    BY <1>2, HandlerEffect
  <2>2. rows'[m].pair = rows[m].pair
    BY <1>2, RowsKept
  <2> QED BY <2>1, <2>2 DEF Known
<1>3. CASE Client \/ Environment \/ UNCHANGED vars
  BY <1>3, OtherEffect DEF Known, Writing
<1> QED BY <1>1, <1>2, <1>3 DEF Next

LEMMA KnownStep == TypeOK /\ RowInv /\ KnownInv /\ [Next]_vars => KnownInv'
<1> DEFINE Apart == \A p, q \in Pod :
                      p # q /\ worker[p].pc \in Writing /\ worker[q].pc \in Writing =>
                        worker[p].m # worker[q].m
           Fresh == \A p \in Pod :
                      worker[p].pc = "hset" =>
                        /\ hash[worker[p].m] = <<>> /\ ~rows[worker[p].m].ended
                        /\ rows[worker[p].m].meets = 0
           Unmet == \A m \in MatchId : rows[m].pair = <<>> => rows[m].meets = 0
           Names == /\ \A s \in Session : idx[s] # None => Known(idx[s])
                    /\ \A s \in Session : \A m \in told[s] : Known(m)
                    /\ \A h \in Handler : handler[h].m # None => Known(handler[h].m)
<1> SUFFICES ASSUME TypeOK, RowInv, KnownInv, [Next]_vars
             PROVE  Apart' /\ Fresh' /\ Unmet' /\ Names'
  BY DEF KnownInv
<1>a. Apart /\ Fresh /\ Unmet /\ Names
  BY DEF KnownInv
<1>t. /\ rows \in [MatchId -> [pair : MaybePair, ended : BOOLEAN, meets : Nat]]
      /\ hash \in [MatchId -> MaybePair]
      /\ told \in [Session -> SUBSET MatchId]
      /\ idx \in [Session -> MatchId \cup {None}]
      /\ \A p \in Pod : worker[p].pc \in Writing =>
           worker[p].m \in MatchId /\ Party(p) \in Session
      /\ \A h \in Handler : /\ handler[h].m \in MatchId \cup {None}
                            /\ handler[h].pc \in Ending => handler[h].m \in MatchId
  <2>1. \A p \in Pod : worker[p].pc \in Writing => Party(p) \in Session
    <3>1. \A p \in Pod : worker[p].n \in {1, 2}
      BY DEF TypeOK, WorkerType
    <3> QED BY <3>1, ServiceTypes DEF Party
  <2> QED BY <2>1, ServiceTypes DEF TypeOK, DataOK, HandlerType
<1>k. \A m \in MatchId : Known(m) => (Known(m))'
  BY KnownKept
<1>n. None \notin MatchId
  BY ConstantsAssumption
<1>p. \A p \in Pod : worker[p].pc \in Writing => rows[worker[p].m].pair # <<>>
  <2>1. \A p \in Pod : Pair(p) # <<>>
    BY DEF Pair
  <2> QED BY <2>1 DEF RowInv
<1>1. ASSUME NEW p \in Pod, WorkerStep(p) PROVE Apart' /\ Fresh' /\ Unmet' /\ Names'
  <2> DEFINE w == worker[p]
             v == worker'[p]
  <2>e. /\ \A q \in Pod \ {p} : worker'[q] = worker[q]
        /\ handler' = handler
    BY <1>1, WorkerEffect
  <2>1. Apart' /\ Fresh' /\ Unmet'
    <3>1. CASE /\ v.pc = "hset" /\ v.m \in MatchId /\ rows[v.m].pair = <<>>
               /\ rows' = [rows EXCEPT ![v.m].pair = Pair(p)] /\ hash' = hash
      <4>1. /\ \A m \in MatchId : /\ m # v.m => rows'[m] = rows[m]
                                  /\ rows'[m].meets = rows[m].meets
                                  /\ rows'[m].ended = rows[m].ended
            /\ rows'[v.m].pair # <<>>
        BY <3>1, <1>t DEF Pair
      <4>2. hash[v.m] = <<>> /\ ~rows[v.m].ended
        BY <3>1 DEF RowInv
      <4>3. \A q \in Pod : worker[q].pc \in Writing => worker[q].m # v.m
        BY <3>1 DEF RowInv, Pair
      <4>4. Apart'
        BY <2>e, <4>3, <1>a
      <4>5. Fresh'
        BY <2>e, <3>1, <4>1, <4>2, <1>a, <1>t DEF Writing
      <4>6. Unmet'
        BY <4>1, <1>a
      <4> QED BY <4>4, <4>5, <4>6
    <3>2. CASE /\ w.pc = "hset" /\ v.pc = "index" /\ v.m = w.m
               /\ hash' = [hash EXCEPT ![w.m] = Pair(p)] /\ rows' = rows
      <4>1. \A q \in Pod \ {p} : worker[q].pc \in Writing =>
              worker[q].m # w.m /\ worker[q].m \in MatchId
        BY <3>2, <1>a, <1>t DEF Writing
      <4>2. Fresh'
        BY <2>e, <3>2, <4>1, <1>a, <1>t DEF Writing
      <4> QED BY <2>e, <3>2, <4>1, <4>2, <1>a DEF Writing
    <3>3. CASE /\ v.pc \in Writing => v.pc # "hset" /\ w.pc \in Writing /\ v.m = w.m
               /\ rows' = rows /\ hash' = hash
      BY <2>e, <3>3, <1>a DEF Writing
    <3> QED BY <1>1, <3>1, <3>2, <3>3, WorkerEffect DEF Writing
  <2>2. ASSUME NEW s \in Session, idx'[s] # None PROVE (Known(idx[s]))'
    <3>1. CASE idx'[s] = idx[s]
      BY <2>2, <3>1, <1>a, <1>k, <1>t DEF Known
    <3>2. CASE w.pc = "index" /\ idx'[s] = w.m
      <4>1. Known(w.m) /\ w.m \in MatchId
        <5>1. w.m \in MatchId /\ rows[w.m].pair # <<>>
          BY <3>2, <1>t, <1>p DEF Writing
        <5> QED BY <3>2, <5>1, <1>a DEF Known, Writing
      <4> QED BY <3>2, <4>1, <1>k DEF Known
    <3> QED BY <1>1, WorkerWrites, <1>t, <3>1, <3>2 DEF Writing
  <2>3. ASSUME NEW s \in Session, NEW m \in told'[s] PROVE (Known(m))'
    <3>1. CASE m \in told[s]
      BY <3>1, <1>a, <1>k, <1>t
    <3>2. CASE w.pc = "tell" /\ m = w.m
      <4>1. w.m \in MatchId /\ rows[w.m].pair # <<>>
        BY <3>2, <1>t, <1>p DEF Writing
      <4>2. Known(w.m)
        BY <3>2, <4>1, <1>a DEF Known, Writing
      <4> QED BY <3>2, <4>1, <4>2, <1>k
    <3>3. \/ told' = told
          \/ w.pc = "tell" /\ told' = [told EXCEPT ![Party(p)] = @ \cup {w.m}]
      BY <1>1, WorkerEffect
    <3> QED BY <2>3, <3>1, <3>2, <3>3, <1>t
  <2>4. \A h \in Handler : handler'[h].m # None => (Known(handler[h].m))'
    BY <2>e, <1>a, <1>k, <1>t
  <2> QED BY <2>1, <2>2, <2>3, <2>4
<1>2. ASSUME NEW h \in Handler, HandlerStep(h) PROVE Apart' /\ Fresh' /\ Unmet' /\ Names'
  <2> DEFINE r == handler[h]
             u == handler'[h]
  <2>e. /\ worker' = worker /\ told' = told
        /\ \A g \in Handler \ {h} : handler'[g] = handler[g]
        /\ \A m \in MatchId : rows'[m].pair = rows[m].pair
    BY <1>2, HandlerEffect, RowsKept
  <2>k. r.pc \in Ending => r.m \in MatchId /\ Known(r.m)
    BY <1>a, <1>t, <1>n
  <2>1. ASSUME NEW m \in MatchId, m # r.m PROVE rows'[m] = rows[m] /\ hash'[m] = hash[m]
    BY <2>1, <1>2, <1>t, HandlerEffect
  <2>2. r.pc \notin Ending => rows' = rows /\ hash' = hash
    BY <1>2, HandlerEffect DEF Ending
  <2>3. Fresh'
    <3> SUFFICES ASSUME NEW p \in Pod, worker[p].pc = "hset"
                 PROVE  /\ hash'[worker[p].m] = <<>> /\ ~rows'[worker[p].m].ended
                        /\ rows'[worker[p].m].meets = 0
      BY <2>e
    <3>1. worker[p].m \in MatchId
      BY <1>t DEF Writing
    <3>2. CASE r.pc \in Ending
      <4>1. worker[p].m # r.m
        BY <2>k, <3>2 DEF Known
      <4> QED BY <3>1, <4>1, <2>1, <1>a
    <3>3. CASE r.pc \notin Ending
      BY <3>3, <2>2, <1>a
    <3> QED BY <3>2, <3>3
  <2>4. Unmet'
    BY <2>e, <2>1, <2>2, <2>k, <1>a DEF Known
  <2>5. ASSUME NEW s \in Session, idx'[s] # None PROVE (Known(idx[s]))'
    <3>1. idx'[s] = idx[s] /\ idx[s] \in MatchId
      BY <1>2, <2>5, HandlerNames, <1>t
    <3> QED BY <3>1, <1>a, <1>k, <1>n DEF Known
  <2>6. ASSUME NEW g \in Handler, handler'[g].m # None PROVE (Known(handler[g].m))'
    <3>1. CASE handler'[g].m = handler[g].m
      BY <2>6, <3>1, <1>a, <1>k, <1>t DEF Known
    <3>2. CASE g = h /\ r.s \in Session /\ u.m = idx[r.s]
      BY <2>6, <3>2, <1>a, <1>k, <1>t DEF Known
    <3> QED BY <1>2, <2>6, <2>e, HandlerNames, <3>1, <3>2 DEF IdleHandler
  <2> QED BY <2>e, <2>3, <2>4, <2>5, <2>6, <1>a, <1>k, <1>t
<1>3. CASE Client \/ Environment \/ UNCHANGED vars
  <2>1. /\ UNCHANGED <<rows, hash, told>> /\ idx' = idx
        /\ \A p \in Pod : worker'[p].pc \in Writing =>
             worker'[p].pc = worker[p].pc /\ worker'[p].m = worker[p].m
    BY <1>3, OtherEffect, OtherNames
  <2>2. ASSUME NEW h \in Handler, handler'[h].m # None PROVE (Known(handler[h].m))'
    <3>1. \/ handler'[h].m = handler[h].m
          \/ \E s \in Session : handler'[h].m \in told[s]
      BY <1>3, <2>2, OtherNames
    <3>2. Known(handler'[h].m) /\ handler'[h].m \in MatchId
      BY <2>2, <3>1, <1>a, <1>t
    <3> QED BY <3>2, <1>k DEF Known
  <2>3. \A s \in Session : idx'[s] # None => (Known(idx[s]))'
    BY <2>1, <1>a, <1>k, <1>t DEF Known
  <2> QED BY <2>1, <2>2, <2>3, <1>a, <1>k, <1>t DEF Writing
<1> QED BY <1>1, <1>2, <1>3 DEF Next

(***************************************************************************)
(* PostgreSQL and Redis agree on a match, and its end is announced.  Known *)
(* matches are stored or over; who updates a row goes on, unless a command *)
(* fails, to delete the hash and to tell the peer.                         *)
(***************************************************************************)
LEMMA EndingProceeds ==
  ASSUME TypeOK, NEW h \in Handler, HandlerStep(h), handler[h].pc \in Ending
  PROVE  /\ handler'[h].m = handler[h].m
         /\ handler'[h].op = handler[h].op /\ handler'[h].s = handler[h].s
         /\ handler'[h].pair = handler[h].pair
         /\ \/ handler[h].pc = "end" /\ handler'[h].pc = "history"
            \/ handler[h].pc = "history" /\ handler'[h].pc = "delete"
            \/ handler[h].pc = "delete" /\ handler'[h].pc = "unindex"
            \/ handler[h].pc = "unindex" /\ handler'[h].pc \in {"unindex", "freepeer"}
            \/ handler[h].pc = "freepeer" /\ handler'[h].pc = "tellpeer"
            \/ handler[h].pc = "tellpeer" /\ handler'[h].pc = "ban"
<1> DEFINE r == handler[h]
<1>t. handler \in [Handler -> HandlerType]
  BY DEF TypeOK
<1>1. CASE Unindex(h)
  BY <1>1, <1>t DEF Unindex, At, HandlerType
<1>2. ASSUME NEW pc \in {"history", "delete", "unindex", "tellpeer", "ban"},
             HandlerTo(h, pc)
      PROVE  /\ handler'[h].m = r.m /\ handler'[h].op = r.op /\ handler'[h].s = r.s
             /\ handler'[h].pair = r.pair /\ handler'[h].pc = pc
  BY <1>2, HandlerToMoves
<1>3. CASE EndRow(h) \/ WriteHistory(h) \/ DeleteMatch(h) \/ FreePeer(h) \/ TellPeer(h)
  BY <1>2, <1>3 DEF EndRow, WriteHistory, DeleteMatch, FreePeer, TellPeer, At
<1> QED BY <1>1, <1>3 DEF HandlerStep, Ending, BanCheck, SetSearching, Enqueue, Dequeue,
           SetReady, FindMatch, LockSkip, ReadMatch, UnlockSkip, Disconnect, AddBlock, At

(* Only a failure takes a worker or a handler away from what it does.      *)
LEMMA OtherKeeps ==
  ASSUME TypeOK, Client \/ Environment \/ UNCHANGED vars, faults' = faults
  PROVE  /\ worker' = worker
         /\ \A h \in Handler : handler[h].pc # "idle" => handler'[h] = handler[h]
<1>n. faults \in Nat /\ handler \in [Handler -> HandlerType]
  BY DEF TypeOK, DataOK
<1>1. ~Fault
  BY <1>n DEF Fault
<1>2. CASE Client
  <2>1. worker' = worker
    BY <1>2 DEF Client, QueueJoin, QueueLeave, SocketClose, MatchSkip, MatchBlock, Request
  <2>2. \E h \in Handler, op \in Op, s \in Session, m \in MatchId \cup {None},
           pc \in {"ban", "zrem", "lock", "read"} : Start(h, op, s, m, pc)
    BY <1>2 DEF Client, QueueJoin, QueueLeave, SocketClose, MatchSkip, MatchBlock,
                Request, Op
  <2> QED BY <2>1, <2>2, <1>n DEF Start
<1>3. CASE Environment
  BY <1>1, <1>3 DEF Environment, Ban, ExpirePairLock, ExpireSkipLock, WorkerThrows,
                    PodCrash, HandlerThrows
<1>4. CASE UNCHANGED vars
  BY <1>4 DEF vars
<1> QED BY <1>2, <1>3, <1>4

LEMMA Faultless ==
  ASSUME TypeOK, [Next]_vars, faults' = 0
  PROVE  faults = 0
<1>n. faults \in Nat
  BY DEF TypeOK, DataOK
<1>1. ASSUME NEW p \in Pod, WorkerStep(p) PROVE faults = 0
  BY <1>1 DEF WorkerStep, bounds
<1>2. ASSUME NEW h \in Handler, HandlerStep(h) PROVE faults = 0
  BY <1>2 DEF HandlerStep, bounds
<1>3. CASE Client
  BY <1>3 DEF Client, QueueJoin, QueueLeave, SocketClose, MatchSkip, MatchBlock, Request,
              bounds
<1>4. CASE Environment
  <2>1. CASE Fault
    BY <2>1, <1>n DEF Fault
  <2>2. CASE faults' = faults
    BY <2>2
  <2> QED BY <1>4, <2>1, <2>2 DEF Environment, Ban, ExpirePairLock, ExpireSkipLock,
             WorkerThrows, PodCrash, HandlerThrows, bounds
<1> QED BY <1>1, <1>2, <1>3, <1>4 DEF Next, vars, bounds

(* A row that is open is in Redis or about to be; one that is ended is     *)
(* leaving Redis, and its peer is told or about to be.                     *)
Stored(m) == hash[m] # <<>> \/ \E p \in Pod : worker[p].pc = "hset" /\ worker[p].m = m
Deleting(m) ==
  \E h \in Handler : handler[h].m = m /\ handler[h].pc \in {"history", "delete"}
Announced(m) ==
  \/ \E s \in Session : m \in gone[s]
  \/ \E h \in Handler : handler[h].m = m /\ handler[h].pc \in Ending \ {"end"}

EndedInv ==
  faults = 0 =>
    \A m \in MatchId :
      /\ rows[m].pair # <<>> /\ ~rows[m].ended => Stored(m)
      /\ rows[m].ended => Announced(m) /\ (hash[m] # <<>> => Deleting(m))

LEMMA EndedInit == Init => EndedInv
BY DEF Init, EndedInv, NoRow

LEMMA EndedStep ==
  TypeOK /\ RowInv /\ KnownInv /\ EndedInv /\ [Next]_vars => EndedInv'
<1> DEFINE Good(m) ==
             /\ rows[m].pair # <<>> /\ ~rows[m].ended => Stored(m)
             /\ rows[m].ended => Announced(m) /\ (hash[m] # <<>> => Deleting(m))
<1> SUFFICES ASSUME TypeOK, RowInv, KnownInv, EndedInv, [Next]_vars, faults' = 0,
                    NEW m \in MatchId
             PROVE  Good(m)'
  BY DEF EndedInv
<1>0. faults = 0
  BY Faultless
<1>a. Good(m)
  BY <1>0 DEF EndedInv
<1>t. /\ rows \in [MatchId -> [pair : MaybePair, ended : BOOLEAN, meets : Nat]]
      /\ hash \in [MatchId -> MaybePair]
      /\ gone \in [Session -> SUBSET MatchId]
      /\ \A p \in Pod : worker[p].pc \in Writing => worker[p].m \in MatchId
      /\ \A h \in Handler : handler[h].pc \in Ending =>
           handler[h].m \in MatchId /\ handler[h].pair \in Session \X Session
  BY ServiceTypes
<1>1. ASSUME NEW p \in Pod, WorkerStep(p) PROVE Good(m)'
  <2> DEFINE w == worker[p]
             v == worker'[p]
  <2>e. /\ \A q \in Pod \ {p} : worker'[q] = worker[q]
        /\ handler' = handler /\ gone' = gone
    BY <1>1, WorkerEffect
  <2>1. CASE /\ v.pc = "hset" /\ v.m \in MatchId /\ rows[v.m].pair = <<>>
             /\ w.pc = "insert"
             /\ rows' = [rows EXCEPT ![v.m].pair = Pair(p)] /\ hash' = hash
    <3>1. rows'[m].ended = rows[m].ended /\ (m # v.m => rows'[m] = rows[m])
      BY <2>1, <1>t
    <3>2. m = v.m => Stored(m)'
      BY <2>1 DEF Stored
    <3>3. Stored(m) => Stored(m)'
      <4>1. ASSUME NEW q \in Pod, worker[q].pc = "hset", worker[q].m = m
            PROVE  worker'[q].pc = "hset" /\ worker'[q].m = m
        BY <4>1, <2>1, <2>e
      <4> QED BY <4>1, <2>1 DEF Stored
    <3>4. (Announced(m) => Announced(m)') /\ (Deleting(m) => Deleting(m)')
      BY <2>e DEF Announced, Deleting
    <3> QED BY <3>1, <3>2, <3>3, <3>4, <2>1, <1>a
  <2>2. CASE /\ w.pc = "hset" /\ v.m = w.m
             /\ hash' = [hash EXCEPT ![w.m] = Pair(p)] /\ rows' = rows
    <3>1. w.m \in MatchId /\ ~rows[w.m].ended /\ Pair(p) # <<>>
      BY <2>2, <1>t DEF KnownInv, Writing, Pair
    <3>2. m = w.m => hash'[m] # <<>> /\ ~rows'[m].ended
      BY <2>2, <3>1, <1>t
    <3>3. m # w.m => hash'[m] = hash[m] /\ (Stored(m) => Stored(m)')
      <4>1. ASSUME m # w.m PROVE hash'[m] = hash[m]
        BY <2>2, <3>1, <4>1, <1>t
      <4>2. ASSUME m # w.m, NEW q \in Pod, worker[q].pc = "hset", worker[q].m = m
            PROVE  worker'[q].pc = "hset" /\ worker'[q].m = m
        BY <2>2, <2>e, <4>2
      <4> QED BY <4>1, <4>2 DEF Stored
    <3>4. (Announced(m) => Announced(m)') /\ (Deleting(m) => Deleting(m)')
      BY <2>e DEF Announced, Deleting
    <3> QED BY <3>2, <3>3, <3>4, <2>2, <1>a DEF Stored
  <2>3. CASE w.pc # "hset" /\ rows' = rows /\ hash' = hash
    <3>1. Stored(m) => Stored(m)'
      BY <2>3, <2>e DEF Stored
    <3>4. (Announced(m) => Announced(m)') /\ (Deleting(m) => Deleting(m)')
      BY <2>e DEF Announced, Deleting
    <3> QED BY <3>1, <3>4, <2>3, <1>a
  <2> QED BY <1>1, WorkerEffect, <2>1, <2>2, <2>3 DEF Writing
<1>2. ASSUME NEW h \in Handler, HandlerStep(h) PROVE Good(m)'
  <2> DEFINE r == handler[h]
             u == handler'[h]
  <2>e. worker' = worker /\ \A g \in Handler \ {h} : handler'[g] = handler[g]
    BY <1>2, HandlerEffect
  <2>r. /\ rows'[m].pair = rows[m].pair
        /\ rows'[m].ended = IF r.pc = "end" /\ m = r.m THEN TRUE ELSE rows[m].ended
    BY <1>2, RowsKept
  <2>h. hash'[m] = IF r.pc = "delete" /\ m = r.m THEN <<>> ELSE hash[m]
    <3>1. r.pc = "delete" => r.m \in MatchId
      BY <1>t DEF Ending
    <3> QED BY ZenonT(30), <1>2, <3>1, <1>t, HandlerEffect
  <2>u. r.pc \in Ending =>
          /\ u.m = r.m
          /\ r.pc = "end" => u.pc = "history"
          /\ r.pc = "history" => u.pc = "delete"
          /\ r.pc # "tellpeer" => u.pc \in Ending \ {"end"}
    BY <1>2, EndingProceeds DEF Ending
  <2>1. rows'[m].pair # <<>> /\ ~rows'[m].ended => Stored(m)'
    <3>1. ASSUME rows'[m].pair # <<>>, ~rows'[m].ended PROVE hash'[m] = hash[m]
      <4>1. ~rows[m].ended
        BY <3>1, <2>r
      <4>2. ~(r.pc = "delete" /\ m = r.m)
        BY <4>1 DEF RowInv, Ending
      <4> QED BY <4>2, <2>h
    <3> QED BY <3>1, <2>r, <2>e, <1>a DEF Stored
  <2>2. Announced(m) => Announced(m)'
    <3>1. CASE \E s \in Session : m \in gone[s]
      <4>1. \/ gone' = gone
            \/ gone' = [gone EXCEPT ![Peer(h)] = @ \cup {r.m}]
        BY <1>2, HandlerEffect
      <4>2. \A s \in Session : gone[s] \subseteq gone'[s]
        BY <4>1, <1>t
      <4> QED BY <3>1, <4>2 DEF Announced
    <3>2. ASSUME NEW g \in Handler, handler[g].m = m, handler[g].pc \in Ending \ {"end"}
          PROVE  Announced(m)'
      <4>1. CASE g # h
        BY <4>1, <3>2, <2>e DEF Announced
      <4>2. CASE g = h /\ r.pc # "tellpeer"
        BY <4>2, <3>2, <2>u DEF Announced
      <4>3. CASE g = h /\ r.pc = "tellpeer"
        <5>1. Peer(h) \in Session
          BY <4>3, <1>t DEF Peer, Ending
        <5>2. gone' = [gone EXCEPT ![Peer(h)] = @ \cup {m}]
          BY <1>2, <3>2, <4>3, HandlerEffect
        <5> QED BY <5>1, <5>2, <1>t DEF Announced
      <4> QED BY <4>1, <4>2, <4>3
    <3> QED BY <3>1, <3>2 DEF Announced
  <2>3. ASSUME rows'[m].ended, hash'[m] # <<>> PROVE Deleting(m)'
    <3>1. CASE r.pc = "end" /\ m = r.m
      BY <3>1, <2>u DEF Deleting, Ending
    <3>2. CASE ~(r.pc = "end" /\ m = r.m)
      <4>1. PICK g \in Handler : handler[g].m = m /\ handler[g].pc \in {"history", "delete"}
        BY <2>3, <3>2, <2>r, <2>h, <1>a DEF Deleting
      <4>2. CASE g # h
        BY <4>1, <4>2, <2>e DEF Deleting
      <4>3. CASE g = h
        BY <4>1, <4>3, <2>3, <2>h, <2>u DEF Deleting, Ending
      <4> QED BY <4>2, <4>3
    <3> QED BY <3>1, <3>2
  <2>4. rows'[m].ended => Announced(m)'
    <3>1. CASE r.pc = "end" /\ m = r.m
      BY <3>1, <2>u DEF Announced, Ending
    <3>2. CASE ~(r.pc = "end" /\ m = r.m)
      BY <3>2, <2>r, <2>2, <1>a
    <3> QED BY <3>1, <3>2
  <2> QED BY <2>1, <2>3, <2>4
<1>3. CASE Client \/ Environment \/ UNCHANGED vars
  <2>1. UNCHANGED <<rows, hash, gone>>
    BY <1>3, OtherEffect
  <2>2. /\ worker' = worker
        /\ \A h \in Handler : handler[h].pc # "idle" => handler'[h] = handler[h]
    BY <1>3, <1>0, OtherKeeps
  <2>3. /\ Announced(m) => Announced(m)'
        /\ Deleting(m) => Deleting(m)'
        /\ Stored(m) => Stored(m)'
    BY <2>1, <2>2 DEF Announced, Deleting, Stored, Ending
  <2> QED BY <2>1, <2>3, <1>a
<1> QED BY <1>1, <1>2, <1>3 DEF Next

(* The two stores agree on which matches are running, whatever skips,      *)
(* closes, crashes of the lock and other workers do, while no command      *)
(* fails: see StoresAgree.                                                 *)
THEOREM StoresAgreeAlways == Spec => []StoresAgree
<1> DEFINE Inv == TypeOK /\ RowInv /\ KnownInv /\ EndedInv
<1>1. Init => Inv
  BY TypeInit, RowInit, KnownInit, EndedInit
<1>2. Inv /\ [Next]_vars => Inv'
  BY TypeStep, RowStep, KnownStep, EndedStep
<1>3. Inv => StoresAgree
  BY DEF RowInv, EndedInv, Stored, Deleting, StoresAgree
<1> QED BY <1>1, <1>2, <1>3, PTL DEF Spec

(* A match does not end behind the back of both: who set its end in the    *)
(* table tells the peer before it lets go of the match.                    *)
THEOREM EndAnnouncedAlways == Spec => []EndAnnounced
<1> DEFINE Inv == TypeOK /\ RowInv /\ KnownInv /\ EndedInv
<1>1. Init => Inv
  BY TypeInit, RowInit, KnownInit, EndedInit
<1>2. Inv /\ [Next]_vars => Inv'
  BY TypeStep, RowStep, KnownStep, EndedStep
<1>3. Inv => EndAnnounced
  <2>1. ASSUME TypeOK, NEW h \in Handler, handler[h].pc \in Ending \ {"end"}
        PROVE  HoldsSkip(h)
    BY <2>1, ServiceTypes
  <2> QED BY <2>1 DEF EndedInv, Announced, EndAnnounced
<1> QED BY <1>1, <1>2, <1>3, PTL DEF Spec

(***************************************************************************)
(* How often a match can be ended.  While its hash exists, everyone who    *)
(* holds its skip lock and has not written history yet may write a batch;  *)
(* one more may come when the lock can be had.  A batch beyond the first   *)
(* takes a failure or a stall that let another holder in.                  *)
(***************************************************************************)
After == {"unindex", "freepeer", "tellpeer", "ban", "searching", "zadd"}

Holders(m) == {h \in Handler : HoldsSkip(h) /\ handler[h].m = m}
Owed(m) == {h \in Holders(m) :
              \/ handler[h].pc \in {"end", "history"}
              \/ handler[h].pc \in {"read", "unlock"} /\ hash[m] # <<>>}
Spare(m) == IF hash[m] # <<>> /\ (m \notin skipLock \/ Holders(m) = {}) THEN 1 ELSE 0

CountOK(m) ==
  /\ IsFiniteSet(Holders(m))
  /\ rows[m].meets + Cardinality(Owed(m)) + Spare(m) <= 1 + faults + stalls
  /\ \A h \in Holders(m) : handler[h].pc \in After => hash[m] = <<>>

CountInv == \A m \in MatchId : CountOK(m)

LEMMA CountInit == Init => CountInv
<1> SUFFICES ASSUME Init, NEW m \in MatchId PROVE CountOK(m)
  BY DEF CountInv
<1>1. Holders(m) = {} /\ Owed(m) = {}
  BY DEF Init, Holders, Owed, HoldsSkip, Skipping, IdleHandler
<1>2. rows[m].meets = 0 /\ Spare(m) = 0 /\ faults = 0 /\ stalls = 0
  BY DEF Init, NoRow, Spare
<1> QED BY <1>1, <1>2, FS_EmptySet DEF CountOK

(* Sets that differ in one member at most.                                 *)
LEMMA CardMoves ==
  ASSUME NEW S, NEW T, NEW h, IsFiniteSet(S), S \ {h} = T \ {h}
  PROVE  /\ IsFiniteSet(T) /\ Cardinality(S) \in Nat /\ Cardinality(T) \in Nat
         /\ h \in T /\ h \notin S => Cardinality(T) = Cardinality(S) + 1
         /\ h \in S /\ h \notin T => Cardinality(T) = Cardinality(S) - 1
         /\ (h \in S <=> h \in T) => Cardinality(T) = Cardinality(S)
<1>1. /\ IsFiniteSet(S \ {h})
      /\ Cardinality(S \ {h}) = IF h \in S THEN Cardinality(S) - 1 ELSE Cardinality(S)
  BY FS_RemoveElement
<1>2. T = S \ {h} \/ T = (S \ {h}) \cup {h}
  OBVIOUS
<1>3. IsFiniteSet(T)
  BY <1>1, <1>2, FS_AddElement
<1>4. Cardinality(T \ {h}) = IF h \in T THEN Cardinality(T) - 1 ELSE Cardinality(T)
  BY <1>3, FS_RemoveElement
<1>5. Cardinality(S) \in Nat /\ Cardinality(T) \in Nat
  BY <1>3, FS_CardinalityType
<1> QED BY <1>1, <1>3, <1>4, <1>5

LEMMA OwedCounts ==
  ASSUME NEW m \in MatchId, IsFiniteSet(Holders(m))
  PROVE  IsFiniteSet(Owed(m)) /\ Cardinality(Owed(m)) \in Nat
<1>1. Owed(m) \in SUBSET Holders(m)
  BY DEF Owed
<1> QED BY <1>1, FS_Subset, FS_CardinalityType

(* What a handler does to the skip locks, and on its way while it has one. *)
LEMMA HandlerSkips ==
  ASSUME TypeOK, NEW h \in Handler, HandlerStep(h)
  PROVE  \/ /\ handler[h].pc = "lock" /\ ~HoldsSkip(h) /\ (HoldsSkip(h))'
            /\ handler[h].m \notin skipLock /\ skipLock' = skipLock \cup {handler[h].m}
            /\ handler'[h].pc = "read" /\ handler'[h].m = handler[h].m
         \/ /\ handler[h].pc = "unlock" /\ HoldsSkip(h) /\ ~(HoldsSkip(h))'
            /\ skipLock' = skipLock \ {handler[h].m}
         \/ /\ HoldsSkip(h) /\ (HoldsSkip(h))' /\ skipLock' = skipLock
            /\ handler'[h].m = handler[h].m
            /\ \/ /\ handler[h].pc = "read" /\ handler'[h].pc = "end"
                  /\ hash[handler[h].m] # <<>>
               \/ /\ handler[h].pc = "read" /\ handler'[h].pc = "unlock"
                  /\ hash[handler[h].m] = <<>>
               \/ handler[h].pc = "end" /\ handler'[h].pc = "history"
               \/ handler[h].pc = "history" /\ handler'[h].pc = "delete"
               \/ handler[h].pc = "delete" /\ handler'[h].pc = "unindex"
               \/ handler[h].pc \in After /\ handler'[h].pc \in After \cup {"unlock"}
         \/ ~HoldsSkip(h) /\ ~(HoldsSkip(h))' /\ skipLock' = skipLock
<1> DEFINE r == handler[h]
           u == handler'[h]
<1>t. handler \in [Handler -> HandlerType] /\ r \in HandlerType /\ HandlerOK(r)
  BY DEF TypeOK
<1>m. ASSUME NEW pc, HandlerTo(h, pc), pc # "idle"
      PROVE  u.pc = pc /\ u.m = r.m /\ u.op = r.op
  BY <1>m, HandlerToMoves
<1>i. HandlerTo(h, "idle") => ~(HoldsSkip(h))'
  BY HandlerToMoves
<1>1. CASE LockSkip(h)
  <2>1. r.pc = "lock" /\ r.op \in {"skip", "close"} /\ ~HoldsSkip(h)
    BY <1>1, <1>t DEF LockSkip, At, HandlerOK, HoldsSkip, Skipping, SkipPc
  <2>2. CASE r.m \in skipLock
    <3>1. HandlerTo(h, AfterSkip(h)) /\ skipLock' = skipLock
      BY <1>1, <2>2 DEF LockSkip, SkipLocked
    <3>2. ~(HoldsSkip(h))'
      BY <3>1, <1>m, <1>i DEF AfterSkip, HoldsSkip, Skipping, SkipPc
    <3> QED BY <2>1, <3>1, <3>2
  <2>3. CASE r.m \notin skipLock
    <3>1. HandlerTo(h, "read") /\ skipLock' = skipLock \cup {r.m}
      BY <1>1, <2>3 DEF LockSkip, SkipLocked
    <3> QED BY <2>1, <2>3, <3>1, <1>m DEF HoldsSkip, Skipping, SkipPc
  <2> QED BY <2>2, <2>3
<1>2. CASE UnlockSkip(h)
  <2>1. r.pc = "unlock" /\ HoldsSkip(h)
    BY <1>2, <1>t DEF UnlockSkip, At, HandlerOK, HoldsSkip, Skipping
  <2>2. ~(HoldsSkip(h))'
    BY <1>2, <1>m, <1>i DEF UnlockSkip, AfterSkip, HoldsSkip, Skipping, SkipPc
  <2> QED BY <1>2, <2>1, <2>2 DEF UnlockSkip
<1>3. CASE ReadMatch(h)
  <2>1. r.pc = "read" /\ skipLock' = skipLock
    BY <1>3 DEF ReadMatch, At
  <2>2. CASE r.op = "block"
    <3>1. u.op = "block" \/ u = IdleHandler
      <4>1. CASE hash[r.m] = <<>>
        BY <1>3, <2>2, <4>1, HandlerToMoves DEF ReadMatch
      <4>2. CASE hash[r.m] # <<>>
        BY <1>3, <2>2, <4>2, <1>t DEF ReadMatch, HandlerType
      <4> QED BY <4>1, <4>2
    <3> QED BY <2>1, <2>2, <3>1 DEF HoldsSkip, Skipping, IdleHandler
  <2>3. CASE r.op # "block"
    <3>1. r.op \in {"skip", "close"} /\ HoldsSkip(h)
      BY <2>1, <2>3, <1>t DEF HandlerOK, HoldsSkip, Skipping, SkipPc
    <3>2. CASE hash[r.m] = <<>>
      <4>1. HandlerTo(h, "unlock")
        BY <1>3, <2>3, <3>2 DEF ReadMatch
      <4> QED BY <2>1, <3>1, <3>2, <4>1, <1>m DEF HoldsSkip, Skipping
    <3>3. CASE hash[r.m] # <<>>
      <4>1. u.pc = "end" /\ u.op = r.op /\ u.m = r.m
        BY <1>3, <2>3, <3>3, <1>t DEF ReadMatch, HandlerType
      <4> QED BY <2>1, <3>1, <3>3, <4>1 DEF HoldsSkip, Skipping, SkipPc
    <3> QED BY <3>2, <3>3
  <2> QED BY <2>2, <2>3
<1>4. CASE EndRow(h) \/ WriteHistory(h) \/ DeleteMatch(h)
  <2>1. HoldsSkip(h) /\ skipLock' = skipLock
    BY <1>4, ServiceTypes DEF EndRow, WriteHistory, DeleteMatch, At, Ending
  <2>2. /\ \/ r.pc = "end" /\ HandlerTo(h, "history")
           \/ r.pc = "history" /\ HandlerTo(h, "delete")
           \/ r.pc = "delete" /\ HandlerTo(h, "unindex")
    BY <1>4 DEF EndRow, WriteHistory, DeleteMatch, At
  <2>3. /\ u.m = r.m /\ u.op = r.op
        /\ \/ r.pc = "end" /\ u.pc = "history"
           \/ r.pc = "history" /\ u.pc = "delete"
           \/ r.pc = "delete" /\ u.pc = "unindex"
    BY <2>2, <1>m
  <2> QED BY <2>1, <2>3 DEF HoldsSkip, Skipping, SkipPc
<1>5. CASE Unindex(h) \/ FreePeer(h) \/ TellPeer(h)
  <2>1. HoldsSkip(h) /\ skipLock' = skipLock /\ r.pc \in After
    BY <1>5, ServiceTypes DEF Unindex, FreePeer, TellPeer, At, Ending, After
  <2>2. u.m = r.m /\ u.op = r.op /\ u.pc \in {"unindex", "freepeer", "tellpeer", "ban"}
    <3>1. CASE Unindex(h)
      BY <3>1, <1>t DEF Unindex, At, HandlerType
    <3>2. CASE FreePeer(h) \/ TellPeer(h)
      BY <3>2, <1>m DEF FreePeer, TellPeer
    <3> QED BY <1>5, <3>1, <3>2
  <2> QED BY <2>1, <2>2 DEF HoldsSkip, Skipping, SkipPc, After
<1>6. CASE BanCheck(h) \/ SetSearching(h) \/ Enqueue(h)
  <2>1. PICK pc \in {AfterJoin(h), "searching", "zadd"} : HandlerTo(h, pc)
    BY <1>6 DEF BanCheck, SetSearching, Enqueue
  <2>2. skipLock' = skipLock /\ r.pc \in {"ban", "searching", "zadd"}
    BY <1>6 DEF BanCheck, SetSearching, Enqueue, At
  <2>3. CASE r.op = "join"
    <3>1. ~HoldsSkip(h)
      BY <2>3 DEF HoldsSkip, Skipping
    <3>2. CASE pc = "idle"
      BY <2>1, <2>2, <3>1, <3>2, <1>i
    <3>3. CASE pc # "idle"
      <4>1. u.op = "join"
        BY <2>1, <2>3, <3>3, <1>m
      <4>2. ~(HoldsSkip(h))'
        BY <4>1 DEF HoldsSkip, Skipping
      <4> QED BY <2>2, <3>1, <4>2
    <3> QED BY <3>2, <3>3
  <2>4. CASE r.op # "join"
    <3>1. r.op \in {"skip", "close"} /\ pc \in {"unlock", "searching", "zadd"}
      BY <2>1, <2>2, <2>4, <1>t DEF HandlerOK, SkipPc, AfterJoin
    <3>2. u.pc = pc /\ u.m = r.m /\ u.op = r.op
      BY <2>1, <3>1, <1>m
    <3> QED BY <2>2, <3>1, <3>2 DEF HoldsSkip, Skipping, SkipPc, After
  <2> QED BY <2>3, <2>4
<1>7. CASE Dequeue(h) \/ SetReady(h) \/ FindMatch(h) \/ Disconnect(h) \/ AddBlock(h)
  <2>1. skipLock' = skipLock /\ ~HoldsSkip(h)
    BY <1>7 DEF Dequeue, SetReady, FindMatch, Disconnect, AddBlock, At, HoldsSkip,
                Skipping, SkipPc
  <2>2. ~(HoldsSkip(h))'
    <3>1. CASE FindMatch(h)
      <4>1. u.pc \in {"disconnect", "lock"}
        <5>1. handler'[h] = [r EXCEPT !.m = idx[r.s],
                                      !.pc = IF idx[r.s] = None THEN "disconnect" ELSE "lock"]
          BY <3>1, <1>t DEF FindMatch
        <5> QED BY <5>1, <1>t DEF HandlerType
      <4> QED BY <4>1 DEF HoldsSkip, Skipping, SkipPc
    <3>2. CASE Dequeue(h) \/ SetReady(h) \/ Disconnect(h) \/ AddBlock(h)
      <4>1. PICK pc \in {"ready", "find", "idle"} : HandlerTo(h, pc)
        BY <3>2 DEF Dequeue, SetReady, Disconnect, AddBlock
      <4> QED BY <4>1, <1>m, <1>i DEF HoldsSkip, Skipping, SkipPc
    <3> QED BY <1>7, <3>1, <3>2
  <2> QED BY <2>1, <2>2
<1> QED BY <1>1, <1>2, <1>3, <1>4, <1>5, <1>6, <1>7 DEF HandlerStep

(* A match whose holders, hash, lock and row a step leaves alone.          *)
LEMMA CountFrame ==
  ASSUME NEW m \in MatchId, CountOK(m), Holders(m)' = Holders(m),
         \A h \in Holders(m) : handler'[h].pc = handler[h].pc,
         hash'[m] = hash[m], rows'[m].meets = rows[m].meets, Spare(m)' = Spare(m),
         faults' + stalls' >= faults + stalls,
         faults \in Nat, stalls \in Nat, faults' \in Nat, stalls' \in Nat,
         rows[m].meets \in Nat
  PROVE  CountOK(m)'
<1>1. Owed(m)' = Owed(m)
  BY DEF Owed
<1>2. Cardinality(Owed(m)) \in Nat /\ Spare(m) \in {0, 1}
  BY OwedCounts DEF CountOK, Spare
<1>3. rows'[m].meets + Cardinality(Owed(m)') + Spare(m)' <= 1 + faults' + stalls'
  <2>1. rows'[m].meets + Cardinality(Owed(m)') + Spare(m)'
          = rows[m].meets + Cardinality(Owed(m)) + Spare(m)
    BY <1>1
  <2>2. rows[m].meets + Cardinality(Owed(m)) + Spare(m) <= 1 + faults + stalls
    BY DEF CountOK
  <2>3. rows[m].meets + Cardinality(Owed(m)) + Spare(m) \in Nat
    BY <1>2
  <2>4. \A n \in Nat : n <= 1 + faults + stalls => n <= 1 + faults' + stalls'
    OBVIOUS
  <2> QED BY <2>1, <2>2, <2>3, <2>4
<1>4. \A h \in Holders(m)' : handler'[h].pc \in After => hash'[m] = <<>>
  BY DEF CountOK
<1> QED BY <1>3, <1>4 DEF CountOK

LEMMA CountHandler ==
  ASSUME TypeOK, NEW h \in Handler, HandlerStep(h), NEW m \in MatchId, CountOK(m)
  PROVE  CountOK(m)'
<1> DEFINE r == handler[h]
           u == handler'[h]
<1>t. /\ rows \in [MatchId -> [pair : MaybePair, ended : BOOLEAN, meets : Nat]]
      /\ hash \in [MatchId -> MaybePair] /\ faults \in Nat /\ stalls \in Nat
      /\ r.pc \in Ending => HoldsSkip(h) /\ r.m \in MatchId
  BY ServiceTypes DEF TypeOK, DataOK
<1>b. faults' = faults /\ stalls' = stalls
  BY HandlerNames DEF bounds
<1>o. \A g \in Handler \ {h} : handler'[g] = handler[g] /\ (HoldsSkip(g))' = HoldsSkip(g)
  BY HandlerEffect DEF HoldsSkip
<1>c. /\ IsFiniteSet(Holders(m)) /\ IsFiniteSet(Owed(m)) /\ Cardinality(Owed(m)) \in Nat
      /\ rows[m].meets \in Nat
  BY OwedCounts, <1>t DEF CountOK
<1>e. Holders(m) \ {h} = Holders(m)' \ {h}
  BY <1>o DEF Holders
<1>f. IsFiniteSet(Holders(m)')
  BY <1>c, <1>e, CardMoves
<1>s. Spare(m) \in {0, 1} /\ Spare(m)' \in {0, 1}
  BY DEF Spare
<1>1. CASE ~(HoldsSkip(h) /\ r.m = m) /\ ~((HoldsSkip(h))' /\ u.m = m)
  <2>1. Holders(m)' = Holders(m) /\ \A g \in Holders(m) : handler'[g].pc = handler[g].pc
    BY <1>1, <1>o DEF Holders
  <2>2. hash'[m] = hash[m]
    BY <1>1, <1>t, HandlerEffect DEF Ending
  <2>3. rows'[m].meets = rows[m].meets
    BY <1>1, <1>t, HandlerEffect DEF Ending
  <2>4. m \in skipLock' <=> m \in skipLock
    BY <1>1, HandlerSkips
  <2>5. Spare(m)' = Spare(m)
    BY <2>1, <2>2, <2>4 DEF Spare
  <2> QED BY <2>1, <2>2, <2>3, <2>5, <1>b, <1>t, <1>c, CountFrame
<1>2. CASE (HoldsSkip(h) /\ r.m = m) \/ ((HoldsSkip(h))' /\ u.m = m)
  <2>h. /\ hash'[m] = IF r.pc = "delete" THEN <<>> ELSE hash[m]
        /\ rows'[m].meets = IF r.pc = "history" THEN rows[m].meets + 1 ELSE rows[m].meets
    <3>1. r.m = m
      BY <1>2, HandlerSkips
    <3>2. /\ IF r.pc = "delete" THEN hash' = [hash EXCEPT ![r.m] = <<>>] ELSE hash' = hash
          /\ IF r.pc = "end" THEN rows' = [rows EXCEPT ![r.m].ended = TRUE]
             ELSE IF r.pc = "history" THEN rows' = [rows EXCEPT ![r.m].meets = @ + 1]
             ELSE rows' = rows
      BY HandlerEffect
    <3> QED BY <3>1, <3>2, <1>t
  <2>n. CASE hash'[m] = hash[m]
    <3>1. Owed(m) \ {h} = Owed(m)' \ {h}
      BY <1>e, <1>o, <2>n DEF Owed, Holders
    <3>2. /\ Cardinality(Owed(m)') \in Nat
          /\ h \in Owed(m)' /\ h \notin Owed(m) => Cardinality(Owed(m)') = Cardinality(Owed(m)) + 1
          /\ h \in Owed(m) /\ h \notin Owed(m)' => Cardinality(Owed(m)') = Cardinality(Owed(m)) - 1
          /\ (h \in Owed(m) <=> h \in Owed(m)') => Cardinality(Owed(m)') = Cardinality(Owed(m))
      BY <1>c, <3>1, CardMoves
    <3>3. \A g \in Holders(m)' \ {h} : handler'[g].pc \in After => hash'[m] = <<>>
      BY <1>o, <1>e, <2>n DEF CountOK, Holders
    <3>4. CASE /\ ~HoldsSkip(h) /\ (HoldsSkip(h))'
               /\ r.m \notin skipLock /\ skipLock' = skipLock \cup {r.m}
               /\ u.pc = "read" /\ u.m = r.m /\ r.pc = "lock"
      <4>1. r.m = m /\ h \in Holders(m)' /\ h \notin Owed(m)
        BY <1>2, <3>4 DEF Holders, Owed
      <4>2. Spare(m)' = 0
        BY <3>4, <4>1 DEF Spare
      <4>3. h \in Owed(m)' <=> hash[m] # <<>>
        BY <3>4, <4>1, <2>n DEF Owed
      <4>4. Spare(m) = IF hash[m] # <<>> THEN 1 ELSE 0
        BY <3>4, <4>1 DEF Spare
      <4>5. rows'[m].meets = rows[m].meets
        BY <2>h, <3>4
      <4>6. rows'[m].meets + Cardinality(Owed(m)') + Spare(m)' <= 1 + faults' + stalls'
        BY <4>1, <4>2, <4>3, <4>4, <4>5, <3>2, <1>b, <1>c, <1>t DEF CountOK
      <4> QED BY <4>6, <3>3, <3>4, <1>f DEF CountOK, After
    <3>5. CASE /\ r.pc = "unlock" /\ HoldsSkip(h) /\ ~(HoldsSkip(h))'
      <4>1. r.m = m /\ h \in Holders(m) /\ h \notin Holders(m)' /\ h \notin Owed(m)'
        BY <1>2, <3>5 DEF Holders, Owed
      <4>2. hash[m] # <<>> => h \in Owed(m)
        BY <4>1, <3>5 DEF Owed
      <4>3. hash[m] = <<>> => Spare(m)' = 0
        BY <2>n DEF Spare
      <4>5. rows'[m].meets = rows[m].meets
        BY <2>h, <3>5
      <4>6. rows'[m].meets + Cardinality(Owed(m)') + Spare(m)' <= 1 + faults' + stalls'
        BY <4>1, <4>2, <4>3, <4>5, <3>2, <1>b, <1>c, <1>t, <1>s DEF CountOK
      <4> QED BY <4>1, <4>6, <3>3, <1>f DEF CountOK
    <3>6. CASE /\ HoldsSkip(h) /\ (HoldsSkip(h))' /\ skipLock' = skipLock /\ u.m = r.m
               /\ \/ /\ r.pc = "read" /\ u.pc = "end" /\ hash[r.m] # <<>>
                  \/ /\ r.pc = "read" /\ u.pc = "unlock" /\ hash[r.m] = <<>>
                  \/ r.pc = "end" /\ u.pc = "history"
                  \/ r.pc = "history" /\ u.pc = "delete"
                  \/ r.pc = "delete" /\ u.pc = "unindex"
                  \/ r.pc \in After /\ u.pc \in After \cup {"unlock"}
      <4>1. r.m = m /\ h \in Holders(m) /\ h \in Holders(m)' /\ Holders(m)' = Holders(m)
        BY <1>2, <1>e, <3>6 DEF Holders
      <4>2. Spare(m)' = Spare(m)
        BY <4>1, <2>n, <3>6 DEF Spare
      <4>3. r.pc = "history" => u.pc = "delete" /\ h \in Owed(m) /\ h \notin Owed(m)'
        BY <4>1, <3>6 DEF Owed, After
      <4>4. r.pc # "history" => (h \in Owed(m) <=> h \in Owed(m)')
        <5>1. CASE r.pc \in {"read", "end"}
          BY <4>1, <3>6, <5>1, <2>n DEF Owed, After
        <5>2. CASE r.pc = "delete"
          BY <4>1, <3>6, <5>2 DEF Owed, After
        <5>3. CASE r.pc \in After
          BY <4>1, <3>6, <5>3, <2>n DEF Owed, After, CountOK
        <5> QED BY <3>6, <5>1, <5>2, <5>3
      <4>5. rows'[m].meets + Cardinality(Owed(m)') + Spare(m)' <= 1 + faults' + stalls'
        BY <4>2, <4>3, <4>4, <2>h, <3>2, <1>b, <1>c, <1>t, <1>s DEF CountOK
      <4>6. u.pc \in After => hash'[m] = <<>>
        BY <4>1, <3>6, <2>h, <2>n DEF CountOK, After
      <4> QED BY <4>5, <4>6, <3>3, <1>f DEF CountOK
    <3> QED BY <1>2, HandlerSkips, <3>4, <3>5, <3>6
  <2>d. CASE hash'[m] # hash[m]
    <3>1. r.pc = "delete" /\ hash'[m] = <<>> /\ rows'[m].meets = rows[m].meets
      BY <2>d, <2>h
    <3>2. u.pc = "unindex" /\ HoldsSkip(h) /\ (HoldsSkip(h))' /\ u.m = r.m /\ r.m = m
      BY <1>2, <3>1, HandlerSkips DEF After
    <3>3. Owed(m)' \in SUBSET Owed(m)
      BY <1>o, <3>1, <3>2 DEF Owed, Holders
    <3>4. Cardinality(Owed(m)') <= Cardinality(Owed(m)) /\ Cardinality(Owed(m)') \in Nat
      BY <1>c, <3>3, FS_Subset, FS_CardinalityType
    <3>5. Spare(m)' = 0
      BY <3>1 DEF Spare
    <3> QED BY <3>1, <3>4, <3>5, <1>f, <1>b, <1>c, <1>t, <1>s DEF CountOK
  <2> QED BY <2>n, <2>d
<1> QED BY <1>1, <1>2

LEMMA CountWorker ==
  ASSUME TypeOK, RowInv, KnownInv, NEW p \in Pod, WorkerStep(p), NEW m \in MatchId,
         CountOK(m)
  PROVE  CountOK(m)'
<1> DEFINE w == worker[p]
           v == worker'[p]
<1>t. /\ rows \in [MatchId -> [pair : MaybePair, ended : BOOLEAN, meets : Nat]]
      /\ hash \in [MatchId -> MaybePair] /\ faults \in Nat /\ stalls \in Nat
      /\ w.pc = "hset" => w.m \in MatchId
  BY ServiceTypes DEF TypeOK, DataOK, Writing
<1>b. faults' = faults /\ stalls' = stalls /\ skipLock' = skipLock /\ handler' = handler
  BY WorkerWrites, WorkerEffect DEF bounds
<1>h. Holders(m)' = Holders(m) /\ \A h \in Holders(m) : handler'[h].pc = handler[h].pc
  BY <1>b DEF Holders, HoldsSkip
<1>e. \/ /\ v.m \in MatchId /\ hash' = hash
         /\ rows' = [rows EXCEPT ![v.m].pair = Pair(p)]
      \/ /\ w.pc = "hset" /\ rows' = rows
         /\ hash' = [hash EXCEPT ![w.m] = Pair(p)]
      \/ rows' = rows /\ hash' = hash
  BY WorkerEffect
<1>r. rows'[m].meets = rows[m].meets /\ rows[m].meets \in Nat
  BY <1>e, <1>t
<1>1. CASE hash'[m] = hash[m]
  <2>1. Spare(m)' = Spare(m)
    BY <1>1, <1>b, <1>h DEF Spare
  <2> QED BY <1>1, <2>1, <1>b, <1>h, <1>r, <1>t, CountFrame
<1>2. CASE hash'[m] # hash[m]
  <2>1. w.pc = "hset" /\ w.m = m
    BY <1>2, <1>e, <1>t
  <2>2. \A h \in Handler : handler[h].m # m
    <3>1. m # None
      BY ConstantsAssumption
    <3> QED BY <2>1, <3>1 DEF KnownInv, Known
  <2>3. Holders(m)' = {} /\ Owed(m)' = {} /\ IsFiniteSet(Holders(m)')
    BY <1>h, <2>2, FS_EmptySet DEF Holders, Owed
  <2>4. rows[m].meets = 0
    BY <2>1 DEF KnownInv
  <2>5. Cardinality(Owed(m)') = 0 /\ Spare(m)' \in {0, 1}
    BY <2>3, FS_EmptySet DEF Spare
  <2> QED BY <1>b, <1>r, <1>t, <2>3, <2>4, <2>5 DEF CountOK
<1> QED BY <1>1, <1>2

(* A failure takes handlers off, or sends them to give their locks back.   *)
LEMMA CountThrows ==
  ASSUME TypeOK, NEW h \in Handler, HandlerThrows(h), NEW m \in MatchId, CountOK(m)
  PROVE  CountOK(m)'
<1> DEFINE r == handler[h]
           u == handler'[h]
<1>t. /\ rows \in [MatchId -> [pair : MaybePair, ended : BOOLEAN, meets : Nat]]
      /\ faults \in Nat /\ stalls \in Nat /\ HandlerOK(r)
  BY DEF TypeOK, DataOK
<1>b. /\ faults' = faults + 1 /\ stalls' = stalls
      /\ rows' = rows /\ hash' = hash /\ skipLock' = skipLock
  BY DEF HandlerThrows, Fault, redis
<1>h. \/ /\ HoldsSkip(h) /\ (HoldsSkip(h))' /\ u.m = r.m /\ u.pc = "unlock"
      \/ ~(HoldsSkip(h))'
  <2>1. CASE HoldsSkip(h) /\ ~At(h, "unlock")
    <3>1. HandlerTo(h, "unlock")
      BY <2>1 DEF HandlerThrows
    <3>2. u.m = r.m /\ u.pc = "unlock" /\ u.op = r.op
      BY <3>1, HandlerToMoves
    <3> QED BY <2>1, <3>2 DEF HoldsSkip, Skipping
  <2>2. CASE ~(HoldsSkip(h) /\ ~At(h, "unlock"))
    <3>1. HandlerTo(h, AfterSkip(h))
      BY <2>2 DEF HandlerThrows
    <3>2. CASE AfterSkip(h) = "idle"
      BY <3>1, <3>2, HandlerToMoves
    <3>3. CASE AfterSkip(h) = "disconnect"
      <4>1. u.pc = "disconnect"
        BY <3>1, <3>3, HandlerToMoves
      <4> QED BY <4>1 DEF HoldsSkip, Skipping, SkipPc
    <3> QED BY <3>2, <3>3 DEF AfterSkip
  <2> QED BY <2>1, <2>2
<1>o. \A g \in Handler \ {h} : handler'[g] = handler[g] /\ (HoldsSkip(g))' = HoldsSkip(g)
  <2>1. \E pc : HandlerTo(h, pc)
    BY DEF HandlerThrows
  <2> QED BY <2>1, HandlerToMoves
<1>c. /\ IsFiniteSet(Holders(m)) /\ IsFiniteSet(Owed(m)) /\ Cardinality(Owed(m)) \in Nat
      /\ rows[m].meets \in Nat /\ Spare(m) \in {0, 1} /\ Spare(m)' \in {0, 1}
  BY OwedCounts, <1>t DEF CountOK, Spare
<1>e. Holders(m) \ {h} = Holders(m)' \ {h} /\ Owed(m) \ {h} = Owed(m)' \ {h}
  BY <1>o, <1>b DEF Holders, Owed
<1>f. IsFiniteSet(Holders(m)')
  BY <1>c, <1>e, CardMoves
<1>g. /\ Cardinality(Owed(m)') \in Nat
      /\ h \in Owed(m)' /\ h \notin Owed(m) => Cardinality(Owed(m)') = Cardinality(Owed(m)) + 1
      /\ h \in Owed(m) /\ h \notin Owed(m)' => Cardinality(Owed(m)') = Cardinality(Owed(m)) - 1
      /\ (h \in Owed(m) <=> h \in Owed(m)') => Cardinality(Owed(m)') = Cardinality(Owed(m))
  BY <1>c, <1>e, CardMoves
<1>d. \A g \in Holders(m)' : handler'[g].pc \in After => hash'[m] = <<>>
  <2>1. \A g \in Holders(m)' \ {h} : handler'[g].pc \in After => hash'[m] = <<>>
    BY <1>o, <1>e, <1>b DEF CountOK, Holders
  <2>2. h \in Holders(m)' => u.pc \notin After
    BY <1>h DEF Holders, After
  <2> QED BY <2>1, <2>2
<1>1. CASE HoldsSkip(h) /\ (HoldsSkip(h))' /\ u.m = r.m /\ u.pc = "unlock"
  <2>1. Holders(m)' = Holders(m)
    BY <1>1, <1>e DEF Holders
  <2>2. Spare(m)' = Spare(m)
    BY <2>1, <1>b DEF Spare
  <2> QED BY <2>2, <1>b, <1>c, <1>d, <1>f, <1>g, <1>t DEF CountOK
<1>2. CASE ~(HoldsSkip(h))'
  <2>1. h \notin Owed(m)' /\ h \notin Holders(m)'
    BY <1>2 DEF Owed, Holders
  <2> QED BY <2>1, <1>b, <1>c, <1>d, <1>f, <1>g, <1>t DEF CountOK
<1> QED BY <1>h, <1>1, <1>2

LEMMA CountCrash ==
  ASSUME TypeOK, NEW p \in Pod, PodCrash(p), NEW m \in MatchId, CountOK(m)
  PROVE  CountOK(m)'
<1>t. /\ rows \in [MatchId -> [pair : MaybePair, ended : BOOLEAN, meets : Nat]]
      /\ faults \in Nat /\ stalls \in Nat
  BY DEF TypeOK, DataOK
<1>b. /\ faults' = faults + 1 /\ stalls' = stalls
      /\ rows' = rows /\ hash' = hash /\ skipLock' = skipLock
  BY DEF PodCrash, Fault, redis
<1>h. \A g \in Handler : handler'[g] = handler[g] \/ handler'[g] = IdleHandler
  BY DEF PodCrash
<1>1. \A g \in Holders(m)' : handler'[g] = handler[g] /\ g \in Holders(m)
  BY <1>h DEF Holders, HoldsSkip, Skipping, IdleHandler
<1>2. Holders(m)' \in SUBSET Holders(m) /\ Owed(m)' \in SUBSET Owed(m)
  BY <1>1, <1>b DEF Owed
<1>3. /\ IsFiniteSet(Owed(m)) /\ Cardinality(Owed(m)) \in Nat
      /\ rows[m].meets \in Nat /\ Spare(m) \in {0, 1} /\ Spare(m)' \in {0, 1}
  BY OwedCounts, <1>t DEF CountOK, Spare
<1>4. /\ IsFiniteSet(Holders(m)') /\ Cardinality(Owed(m)') \in Nat
      /\ Cardinality(Owed(m)') <= Cardinality(Owed(m))
  BY <1>2, <1>3, FS_Subset, FS_CardinalityType DEF CountOK
<1>5. \A g \in Holders(m)' : handler'[g].pc \in After => hash'[m] = <<>>
  BY <1>1, <1>b DEF CountOK
<1> QED BY <1>3, <1>4, <1>5, <1>b, <1>t DEF CountOK

LEMMA CountOther ==
  ASSUME TypeOK, Client \/ Environment \/ UNCHANGED vars, NEW m \in MatchId, CountOK(m)
  PROVE  CountOK(m)'
<1>t. /\ rows \in [MatchId -> [pair : MaybePair, ended : BOOLEAN, meets : Nat]]
      /\ faults \in Nat /\ stalls \in Nat /\ handler \in [Handler -> HandlerType]
  BY DEF TypeOK, DataOK
<1>m. rows[m].meets \in Nat
  BY <1>t
<1>f. ASSUME handler' = handler, rows' = rows, hash' = hash, Spare(m)' = Spare(m),
             faults' \in {faults, faults + 1}, stalls' \in {stalls, stalls + 1}
      PROVE  CountOK(m)'
  <2>1. Holders(m)' = Holders(m)
    BY <1>f DEF Holders, HoldsSkip
  <2>2. /\ faults' \in Nat /\ stalls' \in Nat /\ faults' + stalls' >= faults + stalls
    <3>1. faults' = faults \/ faults' = faults + 1
      BY <1>f
    <3>2. stalls' = stalls \/ stalls' = stalls + 1
      BY <1>f
    <3> QED BY <3>1, <3>2, <1>t
  <2>3. /\ \A h \in Holders(m) : handler'[h].pc = handler[h].pc
        /\ rows'[m].meets = rows[m].meets /\ hash'[m] = hash[m]
    BY <1>f
  <2> QED BY <1>f, <2>1, <2>2, <2>3, <1>m, <1>t, CountFrame
<1>1. CASE Client
  <2>1. PICK h \in Handler, op \in Op, s \in Session, k \in MatchId \cup {None},
             pc \in {"ban", "zrem", "lock", "read"} :
               /\ Start(h, op, s, k, pc)
               /\ pc \in {"ban", "read"} => op \in {"join", "block"}
    BY <1>1 DEF Client, QueueJoin, QueueLeave, SocketClose, MatchSkip, MatchBlock,
                Request, Op
  <2>2. UNCHANGED <<rows, hash, skipLock, faults, stalls>>
    BY <1>1 DEF Client, QueueJoin, QueueLeave, SocketClose, MatchSkip, MatchBlock,
                Request, redis, bounds
  <2>3. /\ handler'[h].pc = pc /\ handler'[h].op = op
        /\ \A g \in Handler \ {h} : handler'[g] = handler[g]
    <3>1. IdleHandler \in HandlerType
      BY IdleTypes
    <3> QED BY <1>t, <2>1, <3>1 DEF Start, HandlerType
  <2>4. ~HoldsSkip(h) /\ ~(HoldsSkip(h))'
    BY <2>1, <2>3 DEF Start, HoldsSkip, Skipping, SkipPc
  <2>5. Holders(m)' = Holders(m) /\ \A g \in Holders(m) : handler'[g].pc = handler[g].pc
    BY <2>3, <2>4 DEF Holders, HoldsSkip
  <2>6. Spare(m)' = Spare(m)
    BY <2>2, <2>5 DEF Spare
  <2> QED BY <2>2, <2>5, <2>6, <1>m, <1>t, CountFrame
<1>2. CASE Environment
  <2>1. CASE (\E s \in Session : Ban(s) \/ ExpirePairLock(s)) \/ \E p \in Pod : WorkerThrows(p)
    <3>1. /\ handler' = handler /\ rows' = rows /\ hash' = hash /\ skipLock' = skipLock
          /\ faults' \in {faults, faults + 1} /\ stalls' \in {stalls, stalls + 1}
      BY <2>1 DEF Ban, ExpirePairLock, WorkerThrows, Fault, Expire, redis, bounds
    <3>2. Spare(m)' = Spare(m)
      BY <3>1 DEF Spare, Holders, HoldsSkip
    <3> QED BY <3>1, <3>2, <1>f
  <2>2. ASSUME NEW k \in MatchId, ExpireSkipLock(k) PROVE CountOK(m)'
    <3>1. /\ handler' = handler /\ rows' = rows /\ hash' = hash /\ faults' = faults
          /\ skipLock' = skipLock \ {k} /\ stalls' \in {stalls, stalls + 1}
          /\ (\E h \in Handler : HoldsSkip(h) /\ handler[h].m = k) => stalls' = stalls + 1
      BY <2>2 DEF ExpireSkipLock, Expire
    <3>2. Holders(m)' = Holders(m) /\ Owed(m)' = Owed(m)
      BY <3>1 DEF Holders, HoldsSkip, Owed
    <3>3. CASE k = m /\ Holders(m) # {}
      <4>1. stalls' = stalls + 1
        BY <3>1, <3>3 DEF Holders
      <4>2. /\ Cardinality(Owed(m)) \in Nat /\ Spare(m) \in {0, 1} /\ Spare(m)' \in {0, 1}
        BY OwedCounts DEF CountOK, Spare
      <4>3. rows'[m].meets + Cardinality(Owed(m)') + Spare(m)' <= 1 + faults' + stalls'
        BY <3>1, <3>2, <4>1, <4>2, <1>m, <1>t DEF CountOK
      <4> QED BY <3>1, <3>2, <4>3 DEF CountOK
    <3>4. CASE ~(k = m /\ Holders(m) # {})
      <4>1. Spare(m)' = Spare(m)
        BY <3>1, <3>2, <3>4 DEF Spare
      <4> QED BY <3>1, <4>1, <1>f, <1>t
    <3> QED BY <3>3, <3>4
  <2>3. CASE \E p \in Pod : PodCrash(p)
    BY <2>3, CountCrash
  <2>4. CASE \E h \in Handler : HandlerThrows(h)
    BY <2>4, CountThrows
  <2> QED BY <1>2, <2>1, <2>2, <2>3, <2>4 DEF Environment
<1>3. CASE UNCHANGED vars
  <2>1. /\ handler' = handler /\ rows' = rows /\ hash' = hash /\ skipLock' = skipLock
        /\ faults' = faults /\ stalls' = stalls
    BY <1>3 DEF vars, redis, bounds
  <2>2. Spare(m)' = Spare(m)
    BY <2>1 DEF Spare, Holders, HoldsSkip
  <2> QED BY <2>1, <2>2, <1>f, <1>t
<1> QED BY <1>1, <1>2, <1>3

LEMMA CountStep ==
  TypeOK /\ RowInv /\ KnownInv /\ CountInv /\ [Next]_vars => CountInv'
<1> SUFFICES ASSUME TypeOK, RowInv, KnownInv, CountInv, [Next]_vars, NEW m \in MatchId
             PROVE  CountOK(m)'
  BY DEF CountInv
<1>1. CountOK(m)
  BY DEF CountInv
<1> QED BY <1>1, CountWorker, CountHandler, CountOther DEF Next

(* Every batch of history beyond the first is owed to a failure or to a    *)
(* lock that ran out under its holder, however many of either: see         *)
(* EndsBounded.                                                            *)
THEOREM EndsBoundedAlways == Spec => []EndsBounded
<1> DEFINE Inv == TypeOK /\ RowInv /\ KnownInv /\ CountInv
<1>1. Init => Inv
  BY TypeInit, RowInit, KnownInit, CountInit
<1>2. Inv /\ [Next]_vars => Inv'
  BY TypeStep, RowStep, KnownStep, CountStep
<1>3. Inv => EndsBounded
  <2> SUFFICES ASSUME Inv, NEW m \in MatchId
               PROVE  rows[m].meets <= 1 + faults + stalls
    BY DEF EndsBounded
  <2>1. /\ IsFiniteSet(Holders(m))
        /\ rows[m].meets + Cardinality(Owed(m)) + Spare(m) <= 1 + faults + stalls
    BY DEF CountInv, CountOK
  <2>2. Cardinality(Owed(m)) \in Nat /\ Spare(m) \in {0, 1} /\ rows[m].meets \in Nat
    BY <2>1, OwedCounts DEF Spare, TypeOK, DataOK
  <2>3. faults \in Nat /\ stalls \in Nat
    BY DEF TypeOK, DataOK
  <2> QED BY <2>1, <2>2, <2>3
<1> QED BY <1>1, <1>2, <1>3, PTL DEF Spec

(***************************************************************************)
(* Who is shown as in a call is.  While no command fails, nobody is banned *)
(* and no socket closes, a worker puts a session in a call only when the   *)
(* match is in Redis and nobody can have ended it, and who deletes the     *)
(* match resets both of its parties.                                       *)
(***************************************************************************)
Smooth == faults = 0 /\ banned = {} /\ open = Session

(* h will still take s out of the call.                                    *)
Resets(h, s) ==
  /\ handler[h].op = "skip"
  /\ \/ /\ handler[h].pc \in {"end", "history", "delete", "unindex", "freepeer"}
        /\ s \in PartyOf(handler[h].pair)
     \/ handler[h].pc \in {"tellpeer", "ban", "searching"} /\ s = handler[h].s

Calling(s) ==
  \/ \E m \in MatchId : hash[m] # <<>> /\ s \in PartyOf(hash[m])
  \/ \E h \in Handler : Resets(h, s)

CallInv ==
  Smooth =>
    /\ \A h \in Handler : handler[h].op # "close"
    /\ \A p \in Pod :
         worker[p].pc \in {"index", "call"} =>
           /\ hash[worker[p].m] = Pair(p)
           /\ \A s \in Session : worker[p].m \notin told[s]
           /\ \A h \in Handler : handler[h].m # worker[p].m
    /\ \A s \in Session : \A m \in told[s] : s \in PartyOf(rows[m].pair)
    /\ \A h \in Handler :
         handler[h].op = "skip" =>
           handler[h].m \in MatchId /\ handler[h].s \in PartyOf(rows[handler[h].m].pair)
    /\ \A s \in Session : state[s] = "IN_CALL" => Calling(s)

LEMMA CallInit == Init => CallInv
BY DEF Init, CallInv, IdleHandler, IdleWorker

(* Bans and closed sockets are not undone.                                 *)
LEMMA SmoothBefore ==
  ASSUME TypeOK, [Next]_vars, Smooth'
  PROVE  Smooth /\ ~\E h \in Handler, s \in Session : SocketClose(h, s)
<1>1. faults = 0
  BY Faultless DEF Smooth
<1>2. open \subseteq Session
  BY DEF TypeOK, DataOK
<1>3. ASSUME NEW p \in Pod, WorkerStep(p) PROVE UNCHANGED <<banned, open>>
  BY <1>3 DEF WorkerStep
<1>4. ASSUME NEW h \in Handler, HandlerStep(h) PROVE UNCHANGED <<banned, open>>
  BY <1>4 DEF HandlerStep
<1>5. ASSUME Client PROVE Smooth
  BY ZenonT(30), <1>1, <1>2, <1>5 DEF Client, QueueJoin, QueueLeave, SocketClose, MatchSkip,
                          MatchBlock, Request, Start, Smooth
<1>6. ASSUME Environment PROVE Smooth
  <2>1. banned \subseteq banned' /\ open' \subseteq open
    BY <1>6 DEF Environment, Ban, ExpirePairLock, ExpireSkipLock, WorkerThrows, PodCrash,
                HandlerThrows
  <2> QED BY <2>1, <1>1, <1>2 DEF Smooth
<1>7. ASSUME UNCHANGED vars PROVE Smooth
  BY <1>1, <1>7 DEF vars, Smooth
<1>8. ASSUME NEW h \in Handler, NEW s \in Session, SocketClose(h, s) PROVE FALSE
  BY <1>2, <1>8 DEF SocketClose, Start, Smooth
<1>9. Smooth
  BY <1>1, <1>3, <1>4, <1>5, <1>6, <1>7 DEF Next, Smooth
<1> QED BY <1>8, <1>9

(* No handler puts a session in a call; these two take one out.            *)
LEMMA HandlerStates ==
  ASSUME TypeOK, NEW h \in Handler, HandlerStep(h), NEW s \in Session, state'[s] = "IN_CALL"
  PROVE  /\ state[s] = "IN_CALL"
         /\ handler[h].pc = "freepeer" => s # Peer(h)
         /\ handler[h].pc = "searching" => s # handler[h].s
<1>t. state \in [Session -> SessionState]
  BY DEF TypeOK, DataOK
<1>1. CASE FreePeer(h)
  <2>1. handler[h].pc = "freepeer" /\ state' = [state EXCEPT ![Peer(h)] = "READY"]
    BY <1>1 DEF FreePeer, At
  <2>2. s # Peer(h)
    BY <2>1, <1>t
  <2> QED BY <2>1, <2>2, <1>t
<1>2. CASE SetSearching(h)
  <2>1. /\ handler[h].pc = "searching"
        /\ state' = [state EXCEPT ![handler[h].s] = "SEARCHING"]
    BY <1>2 DEF SetSearching, At
  <2>2. s # handler[h].s
    BY <2>1, <1>t
  <2> QED BY <2>1, <2>2, <1>t
<1>3. CASE SetReady(h) \/ Disconnect(h)
  <2>1. /\ handler[h].pc \notin {"freepeer", "searching"}
        /\ \/ state' = [state EXCEPT ![handler[h].s] = "READY"]
           \/ state' = [state EXCEPT ![handler[h].s] = "DISCONNECTED"]
    BY <1>3 DEF SetReady, Disconnect, At
  <2> QED BY <2>1, <1>t
<1>4. CASE \/ BanCheck(h) \/ Enqueue(h) \/ Dequeue(h) \/ FindMatch(h) \/ LockSkip(h)
           \/ ReadMatch(h) \/ EndRow(h) \/ WriteHistory(h) \/ DeleteMatch(h)
           \/ Unindex(h) \/ TellPeer(h) \/ UnlockSkip(h) \/ AddBlock(h)
  <2>1. state' = state /\ handler[h].pc \notin {"freepeer", "searching"}
    BY <1>4 DEF BanCheck, Enqueue, Dequeue, FindMatch, LockSkip, ReadMatch, EndRow,
         WriteHistory, DeleteMatch, Unindex, TellPeer, UnlockSkip, AddBlock, At
  <2> QED BY <2>1
<1> QED BY <1>1, <1>2, <1>3, <1>4 DEF HandlerStep

(* A skipper who is not banned goes on to be put in the queue.             *)
LEMMA SkipperRejoins ==
  ASSUME TypeOK, NEW h \in Handler, HandlerStep(h), handler[h].pc = "ban", banned = {}
  PROVE  /\ handler'[h].pc = "searching" /\ handler'[h].op = handler[h].op
         /\ handler'[h].s = handler[h].s
<1>1. BanCheck(h)
  BY DEF HandlerStep, At, BanCheck, SetSearching, Enqueue, Dequeue, SetReady, FindMatch,
         LockSkip, ReadMatch, EndRow, WriteHistory, DeleteMatch, Unindex, FreePeer,
         TellPeer, UnlockSkip, Disconnect, AddBlock
<1>2. HandlerTo(h, "searching")
  BY <1>1 DEF BanCheck
<1> QED BY <1>2, HandlerToMoves

LEMMA CallWorker ==
  ASSUME TypeOK, RowInv, KnownInv, Smooth, CallInv, NEW p \in Pod, WorkerStep(p)
  PROVE  CallInv'
<1> DEFINE w == worker[p]
           v == worker'[p]
<1>t. /\ rows \in [MatchId -> [pair : MaybePair, ended : BOOLEAN, meets : Nat]]
      /\ hash \in [MatchId -> MaybePair] /\ state \in [Session -> SessionState]
      /\ told \in [Session -> SUBSET MatchId]
      /\ \A q \in Pod : worker[q].pc \in Writing =>
           worker[q].m \in MatchId /\ Party(q) \in PartyOf(Pair(q)) /\ Party(q) \in Session
      /\ None \notin MatchId
  <2>1. \A q \in Pod : worker[q].pc \in Writing =>
          Party(q) \in PartyOf(Pair(q)) /\ Party(q) \in Session
    <3>1. \A q \in Pod : worker[q].n \in {1, 2}
      BY DEF TypeOK, WorkerType
    <3>2. \A q \in Pod : Party(q) = Pair(q)[1] \/ Party(q) = Pair(q)[2]
      BY <3>1 DEF Party, Pair
    <3>3. \A q \in Pod : DOMAIN Pair(q) = {1, 2}
      BY DEF Pair
    <3>4. \A q \in Pod : worker[q].pc \in Writing => Party(q) \in Session
      BY <3>2, ServiceTypes DEF Pair
    <3> QED BY <3>2, <3>3, <3>4 DEF PartyOf
  <2> QED BY <2>1, ServiceTypes, ConstantsAssumption DEF TypeOK, DataOK
<1>e. /\ \A q \in Pod \ {p} : worker'[q] = worker[q]
      /\ handler' = handler
      /\ v.pc \in Writing => v.batch = w.batch
  BY WorkerEffect
<1>1. \A h \in Handler : handler'[h].op # "close"
  BY <1>e DEF CallInv
<1>s. /\ \A m \in MatchId : rows[m].pair # <<>> => rows'[m].pair = rows[m].pair
      /\ \A m \in MatchId : hash[m] # <<>> => hash'[m] = hash[m]
      /\ w.pc = "hset" => hash'[w.m] = Pair(p)
  <2>1. CASE w.pc = "hset" /\ hash' = [hash EXCEPT ![w.m] = Pair(p)] /\ rows' = rows
    BY <2>1, <1>t DEF KnownInv, Writing
  <2>2. CASE /\ v.m \in MatchId /\ rows[v.m].pair = <<>> /\ w.pc # "hset"
             /\ rows' = [rows EXCEPT ![v.m].pair = Pair(p)] /\ hash' = hash
    BY <2>2, <1>t
  <2>3. CASE rows' = rows /\ hash' = hash /\ w.pc # "hset"
    BY <2>3
  <2> QED BY WorkerEffect, <2>1, <2>2, <2>3
<1>k. \A s \in Session : \A m \in told[s] : rows[m].pair # <<>>
  BY DEF KnownInv, Known
<1>2. ASSUME NEW q \in Pod, worker'[q].pc \in {"index", "call"}
      PROVE  /\ hash'[worker'[q].m] = (Pair(q))'
             /\ \A s \in Session : worker'[q].m \notin told'[s]
             /\ \A h \in Handler : handler'[h].m # worker'[q].m
  <2>1. /\ worker[q].pc \in {"hset", "index", "call"} /\ worker'[q].m = worker[q].m
        /\ (Pair(q))' = Pair(q)
    <3>1. CASE q # p
      BY <1>2, <1>e, <3>1 DEF Pair
    <3>2. CASE q = p
      <4>1. w.pc \in Writing /\ v.m = w.m /\ v.batch = w.batch
        BY <1>2, <1>e, <3>2, WorkerEffect DEF Writing
      <4>2. w.pc # "tell"
        BY <1>2, <3>2, WorkerEffect
      <4> QED BY <3>2, <4>1, <4>2 DEF Writing, Pair
    <3> QED BY <3>1, <3>2
  <2>2. worker[q].m \in MatchId
    BY <2>1, <1>t DEF Writing
  <2>3. hash'[worker[q].m] = Pair(q)
    <3>1. CASE worker[q].pc = "hset"
      BY <1>2, <1>e, <1>s, <3>1, <2>1
    <3>2. CASE worker[q].pc # "hset"
      <4>1. hash[worker[q].m] = Pair(q) /\ Pair(q) # <<>>
        BY <2>1, <3>2 DEF CallInv, Pair
      <4> QED BY <4>1, <1>s, <2>2
    <3> QED BY <3>1, <3>2
  <2>4. /\ \A s \in Session : worker[q].m \notin told[s]
        /\ \A h \in Handler : handler[h].m # worker[q].m
    <3>1. CASE worker[q].pc = "hset"
      <4>1. ~Known(worker[q].m)
        BY <3>1 DEF Known
      <4> QED BY <4>1, <2>2, <1>t DEF KnownInv
    <3>2. CASE worker[q].pc # "hset"
      BY <2>1, <3>2 DEF CallInv
    <3> QED BY <3>1, <3>2
  <2>5. \A s \in Session : worker[q].m \notin told'[s]
    <3>1. CASE told' = told
      BY <2>4, <3>1
    <3>2. CASE w.pc = "tell" /\ told' = [told EXCEPT ![Party(p)] = @ \cup {w.m}]
      <4>1. worker[q].m # w.m
        BY <2>1, <3>2 DEF KnownInv, Writing
      <4> QED BY <2>4, <3>2, <4>1, <1>t
    <3> QED BY WorkerEffect, <3>1, <3>2
  <2> QED BY <1>e, <2>1, <2>3, <2>4, <2>5
<1>3. ASSUME NEW s \in Session, NEW m \in told'[s] PROVE s \in PartyOf(rows'[m].pair)
  <2>1. CASE m \in told[s]
    <3>1. m \in MatchId
      BY <2>1, <1>t
    <3> QED BY <2>1, <3>1, <1>k, <1>s DEF CallInv
  <2>2. CASE w.pc = "tell" /\ m = w.m /\ s = Party(p)
    <3>1. rows[m].pair = Pair(p) /\ m \in MatchId /\ Pair(p) # <<>>
      BY <2>2, <1>t DEF RowInv, Writing, Pair
    <3> QED BY <2>2, <3>1, <1>s, <1>t DEF Writing
  <2>3. told' = told \/ (w.pc = "tell" /\ told' = [told EXCEPT ![Party(p)] = @ \cup {w.m}])
    BY WorkerEffect
  <2> QED BY <1>3, <2>1, <2>2, <2>3, <1>t
<1>4. ASSUME NEW h \in Handler, handler'[h].op = "skip"
      PROVE  handler'[h].m \in MatchId /\ handler'[h].s \in PartyOf(rows'[handler'[h].m].pair)
  <2>1. handler[h].m \in MatchId /\ handler[h].s \in PartyOf(rows[handler[h].m].pair)
    BY <1>4, <1>e DEF CallInv
  <2>2. rows[handler[h].m].pair # <<>>
    BY <2>1, <1>t DEF KnownInv, Known
  <2> QED BY <2>1, <2>2, <1>e, <1>s
<1>5. ASSUME NEW s \in Session, state'[s] = "IN_CALL" PROVE Calling(s)'
  <2>1. Calling(s)
    <3>1. CASE state[s] = "IN_CALL"
      BY <3>1 DEF CallInv
    <3>2. CASE w.pc = "call" /\ s = Party(p)
      <4>1. hash[w.m] = Pair(p) /\ w.m \in MatchId /\ s \in PartyOf(Pair(p)) /\ Pair(p) # <<>>
        BY <3>2, <1>t DEF CallInv, Writing, Pair
      <4> QED BY <4>1 DEF Calling
    <3>3. state' = state \/ (w.pc = "call" /\ state' = [state EXCEPT ![Party(p)] = "IN_CALL"])
      BY WorkerWrites
    <3> QED BY <1>5, <3>1, <3>2, <3>3, <1>t
  <2> QED BY <2>1, <1>e, <1>s DEF Calling, Resets
<1> QED BY <1>1, <1>2, <1>3, <1>4, <1>5 DEF CallInv

LEMMA CallHandler ==
  ASSUME TypeOK, RowInv, KnownInv, Smooth, CallInv, NEW h \in Handler, HandlerStep(h)
  PROVE  CallInv'
<1> DEFINE r == handler[h]
           u == handler'[h]
<1>t. /\ hash \in [MatchId -> MaybePair] /\ None \notin MatchId
      /\ handler \in [Handler -> HandlerType] /\ HandlerOK(r)
  BY ConstantsAssumption DEF TypeOK, DataOK
<1>e. /\ \A g \in Handler \ {h} : handler'[g] = handler[g]
      /\ worker' = worker /\ told' = told
  BY HandlerEffect
<1>n. u = IdleHandler \/ (u.op = r.op /\ u.s = r.s /\ u.m = r.m)
  <2>1. r.op # "close"
    BY DEF CallInv
  <2> QED BY <2>1, HandlerNames
<1>p. \A m \in MatchId : rows'[m].pair = rows[m].pair
  BY RowsKept
<1>d. r.pc = "delete" => r.m \in MatchId
  BY ServiceTypes DEF Ending
<1>1. \A g \in Handler : handler'[g].op # "close"
  BY <1>e, <1>n DEF CallInv, IdleHandler
<1>2. ASSUME NEW q \in Pod, worker'[q].pc \in {"index", "call"}
      PROVE  /\ hash'[worker'[q].m] = (Pair(q))'
             /\ \A s \in Session : worker'[q].m \notin told'[s]
             /\ \A g \in Handler : handler'[g].m # worker'[q].m
  <2>1. worker[q].pc \in {"index", "call"} /\ worker'[q] = worker[q] /\ (Pair(q))' = Pair(q)
    BY <1>2, <1>e DEF Pair
  <2>2. /\ hash[worker[q].m] = Pair(q) /\ \A s \in Session : worker[q].m \notin told[s]
        /\ \A g \in Handler : handler[g].m # worker[q].m
    BY <2>1 DEF CallInv
  <2>3. worker[q].m \in MatchId
    BY <2>1, ServiceTypes DEF Writing
  <2>4. hash'[worker[q].m] = Pair(q)
    <3>1. CASE r.pc = "delete"
      <4>1. hash' = [hash EXCEPT ![r.m] = <<>>] /\ r.m # worker[q].m
        BY <2>2, <3>1, HandlerEffect
      <4> QED BY <4>1, <2>2, <2>3, <1>t
    <3>2. CASE r.pc # "delete"
      BY <2>2, <3>2, HandlerEffect
    <3> QED BY <3>1, <3>2
  <2>5. u.m # worker[q].m
    BY <2>2, <2>3, <1>n, <1>t DEF IdleHandler
  <2> QED BY <2>1, <2>2, <2>4, <2>5, <1>e
<1>3. ASSUME NEW s \in Session, NEW m \in told'[s] PROVE s \in PartyOf(rows'[m].pair)
  <2>1. m \in MatchId
    BY <1>3, <1>e, ServiceTypes
  <2> QED BY <2>1, <1>e, <1>p DEF CallInv
<1>4. ASSUME NEW g \in Handler, handler'[g].op = "skip"
      PROVE  handler'[g].m \in MatchId /\ handler'[g].s \in PartyOf(rows'[handler'[g].m].pair)
  <2>1. /\ handler'[g].op = handler[g].op /\ handler'[g].s = handler[g].s
        /\ handler'[g].m = handler[g].m
    BY <1>4, <1>e, <1>n DEF IdleHandler
  <2> QED BY <1>4, <2>1, <1>p DEF CallInv
<1>5. ASSUME NEW s \in Session, state'[s] = "IN_CALL" PROVE Calling(s)'
  <2>1. /\ state[s] = "IN_CALL"
        /\ r.pc = "freepeer" => s # Peer(h)
        /\ r.pc = "searching" => s # r.s
    BY <1>5, HandlerStates
  <2>2. Calling(s)
    BY <2>1 DEF CallInv
  <2>3. ASSUME NEW m \in MatchId, hash[m] # <<>>, s \in PartyOf(hash[m]) PROVE Calling(s)'
    <3>1. CASE r.pc = "delete" /\ r.m = m
      <4>1. r.pair = hash[m] /\ r.op = "skip"
        <5>1. HoldsSkip(h) /\ r.op # "close"
          BY <3>1, ServiceTypes DEF Ending, CallInv
        <5> QED BY <2>3, <3>1, <5>1 DEF RowInv, Ending, HoldsSkip, Skipping
      <4>2. u.pair = r.pair /\ u.op = r.op /\ u.pc = "unindex"
        BY <3>1, EndingProceeds DEF Ending
      <4>3. (Resets(h, s))'
        BY <2>3, <4>1, <4>2 DEF Resets
      <4> QED BY <4>3 DEF Calling
    <3>2. CASE ~(r.pc = "delete" /\ r.m = m)
      <4>1. hash'[m] = hash[m]
        <5>1. CASE r.pc = "delete"
          BY <3>2, <5>1, <1>d, <1>t, HandlerEffect
        <5>2. CASE r.pc # "delete"
          BY <5>2, HandlerEffect
        <5> QED BY <5>1, <5>2
      <4> QED BY <2>3, <4>1 DEF Calling
    <3> QED BY <3>1, <3>2
  <2>4. ASSUME NEW g \in Handler \ {h}, Resets(g, s) PROVE Calling(s)'
    <3>1. (Resets(g, s))'
      BY <2>4, <1>e DEF Resets
    <3> QED BY <3>1 DEF Calling
  <2>5. ASSUME Resets(h, s) PROVE (Resets(h, s))'
    <3>1. CASE r.pc \in {"end", "history", "delete", "unindex"}
      BY <2>5, <3>1, EndingProceeds DEF Resets, Ending
    <3>2. CASE r.pc = "freepeer"
      <4>1. r.op = "skip" /\ s \in PartyOf(r.pair)
        BY <2>5, <3>2 DEF Resets
      <4>2. r.pair \in Session \X Session /\ r.pair = rows[r.m].pair
        BY <3>2, ServiceTypes DEF Ending, RowInv
      <4>3. r.s \in PartyOf(r.pair)
        BY <4>1, <4>2 DEF CallInv
      <4>4. s = r.s
        <5>1. PartyOf(r.pair) = {r.pair[1], r.pair[2]}
          BY <4>2 DEF PartyOf
        <5> QED BY <5>1, <4>1, <4>3, <2>1, <3>2 DEF Peer
      <4>5. u.op = r.op /\ u.s = r.s /\ u.pc = "tellpeer"
        BY <3>2, EndingProceeds DEF Ending
      <4> QED BY <4>1, <4>4, <4>5 DEF Resets
    <3>3. CASE r.pc = "tellpeer"
      BY <2>5, <3>3, EndingProceeds DEF Resets, Ending
    <3>4. CASE r.pc = "ban"
      BY <2>5, <3>4, SkipperRejoins DEF Resets, Smooth
    <3>5. CASE r.pc = "searching"
      BY <2>1, <2>5, <3>5 DEF Resets
    <3> QED BY <2>5, <3>1, <3>2, <3>3, <3>4, <3>5 DEF Resets
  <2> QED BY <2>2, <2>3, <2>4, <2>5 DEF Calling
<1> QED BY <1>1, <1>2, <1>3, <1>4, <1>5 DEF CallInv

(* Without a closed socket or a failure, a client only starts something.   *)
LEMMA CallOther ==
  ASSUME TypeOK, RowInv, KnownInv, Smooth, CallInv, Smooth',
         Client \/ Environment \/ UNCHANGED vars,
         ~\E h \in Handler, s \in Session : SocketClose(h, s)
  PROVE  CallInv'
<1>t. /\ handler \in [Handler -> HandlerType] /\ None \notin MatchId
      /\ told \in [Session -> SUBSET MatchId]
  BY ConstantsAssumption DEF TypeOK, DataOK
<1>e. UNCHANGED <<rows, hash, told, state, worker>>
  BY OtherEffect, OtherNames, OtherKeeps DEF Smooth
<1>k. \A h \in Handler : handler[h].pc # "idle" => handler'[h] = handler[h]
  BY OtherKeeps DEF Smooth
<1>1. \A h \in Handler : handler'[h].op # "close"
  <2>1. CASE Client
    <3>1. PICK h \in Handler, op \in Op \ {"close"}, s \in Session,
               m \in MatchId \cup {None}, pc \in {"ban", "zrem", "lock", "read"} :
                 Start(h, op, s, m, pc)
      BY <2>1 DEF Client, QueueJoin, QueueLeave, MatchSkip, MatchBlock, Request, Op
    <3>2. IdleHandler \in HandlerType
      BY IdleTypes
    <3>3. handler'[h].op = op /\ \A g \in Handler \ {h} : handler'[g] = handler[g]
      BY <3>1, <3>2, <1>t DEF Start, HandlerType
    <3> QED BY <3>1, <3>3 DEF CallInv
  <2>2. CASE Environment
    <3>1. ~Fault
      BY DEF Fault, Smooth
    <3>2. handler' = handler
      BY <2>2, <3>1 DEF Environment, Ban, ExpirePairLock, ExpireSkipLock, WorkerThrows,
                        PodCrash, HandlerThrows
    <3> QED BY <3>2 DEF CallInv
  <2>3. CASE UNCHANGED vars
    BY <2>3 DEF CallInv, vars
  <2> QED BY <2>1, <2>2, <2>3
<1>2. ASSUME NEW q \in Pod, worker'[q].pc \in {"index", "call"}
      PROVE  /\ hash'[worker'[q].m] = (Pair(q))'
             /\ \A s \in Session : worker'[q].m \notin told'[s]
             /\ \A g \in Handler : handler'[g].m # worker'[q].m
  <2>1. /\ hash[worker[q].m] = Pair(q) /\ (Pair(q))' = Pair(q)
        /\ \A s \in Session : worker[q].m \notin told[s]
        /\ \A g \in Handler : handler[g].m # worker[q].m
    BY <1>2, <1>e DEF CallInv, Pair
  <2>2. worker[q].m \in MatchId
    BY <1>2, <1>e, ServiceTypes DEF Writing
  <2>3. \A g \in Handler : handler'[g].m # worker[q].m
    BY <2>1, <2>2, <1>t, OtherNames
  <2> QED BY <2>1, <2>3, <1>e
<1>3. \A s \in Session : \A m \in told'[s] : s \in PartyOf(rows'[m].pair)
  BY <1>e DEF CallInv
<1>4. ASSUME NEW h \in Handler, handler'[h].op = "skip"
      PROVE  handler'[h].m \in MatchId /\ handler'[h].s \in PartyOf(rows'[handler'[h].m].pair)
  <2>1. CASE handler'[h] = handler[h]
    BY <1>4, <2>1, <1>e DEF CallInv
  <2>2. CASE /\ handler'[h].m = handler[h].m /\ handler'[h].op = handler[h].op
             /\ handler'[h].s = handler[h].s
    BY <1>4, <2>2, <1>e DEF CallInv
  <2>3. CASE handler'[h].s \in Session /\ handler'[h].m \in told[handler'[h].s]
    BY <2>3, <1>e, <1>t DEF CallInv
  <2> QED BY <1>4, <2>1, <2>2, <2>3, OtherNames
<1>5. ASSUME NEW s \in Session, state'[s] = "IN_CALL" PROVE Calling(s)'
  <2>1. Calling(s)
    BY <1>5, <1>e DEF CallInv
  <2>2. \A h \in Handler : Resets(h, s) => (Resets(h, s))'
    BY <1>k DEF Resets
  <2> QED BY <2>1, <2>2, <1>e DEF Calling
<1> QED BY <1>1, <1>2, <1>3, <1>4, <1>5 DEF CallInv

LEMMA CallStep ==
  TypeOK /\ RowInv /\ KnownInv /\ CallInv /\ [Next]_vars => CallInv'
<1> SUFFICES ASSUME TypeOK, RowInv, KnownInv, CallInv, [Next]_vars PROVE CallInv'
  OBVIOUS
<1>1. CASE Smooth'
  <2>1. Smooth /\ ~\E h \in Handler, s \in Session : SocketClose(h, s)
    BY <1>1, SmoothBefore
  <2> QED BY <1>1, <2>1, CallWorker, CallHandler, CallOther DEF Next
<1>2. CASE ~Smooth'
  BY <1>2 DEF CallInv
<1> QED BY <1>1, <1>2

(* A session shown as in a call is a party of a match that is in Redis or  *)
(* that a handler is ending, so it is not left so for ever: see            *)
(* InCallBacked.                                                           *)
THEOREM InCallBackedAlways == Spec => []InCallBacked
<1> DEFINE Inv == TypeOK /\ RowInv /\ KnownInv /\ CallInv
<1>1. Init => Inv
  BY TypeInit, RowInit, KnownInit, CallInit
<1>2. Inv /\ [Next]_vars => Inv'
  BY TypeStep, RowStep, KnownStep, CallStep
<1>3. Inv => InCallBacked
  <2> SUFFICES ASSUME Inv, Smooth, NEW s \in Session, state[s] = "IN_CALL"
               PROVE  \E m \in MatchId :
                        /\ rows[m].pair # <<>> /\ s \in {rows[m].pair[1], rows[m].pair[2]}
                        /\ \/ hash[m] # <<>>
                           \/ \E h \in Handler : handler[h].m = m /\ HoldsSkip(h)
    BY DEF InCallBacked, Smooth
  <2>t. rows \in [MatchId -> [pair : MaybePair, ended : BOOLEAN, meets : Nat]]
    BY ServiceTypes
  <2>p. ASSUME NEW m \in MatchId, s \in PartyOf(rows[m].pair)
        PROVE  rows[m].pair # <<>> /\ s \in {rows[m].pair[1], rows[m].pair[2]}
    <3>1. rows[m].pair \in Session \X Session \/ rows[m].pair = <<>>
      BY <2>t DEF MaybePair
    <3> QED BY <2>p, <3>1 DEF PartyOf
  <2>1. Calling(s)
    BY DEF CallInv
  <2>2. CASE \E m \in MatchId : hash[m] # <<>> /\ s \in PartyOf(hash[m])
    BY <2>2, <2>p DEF RowInv
  <2>3. CASE \E h \in Handler : Resets(h, s)
    <3>1. PICK h \in Handler : Resets(h, s)
      BY <2>3
    <3>2. HoldsSkip(h) /\ handler[h].op = "skip"
      BY <3>1 DEF Resets, HoldsSkip, Skipping, SkipPc
    <3>3. handler[h].m \in MatchId /\ handler[h].s \in PartyOf(rows[handler[h].m].pair)
      BY <3>2 DEF CallInv
    <3>4. s \in PartyOf(rows[handler[h].m].pair)
      BY <3>1, <3>3 DEF Resets, RowInv, Ending
    <3> QED BY <3>2, <3>3, <3>4, <2>p
  <2> QED BY <2>1, <2>2, <2>3 DEF Calling
<1> QED BY <1>1, <1>2, <1>3, PTL DEF Spec
=============================================================================
