---------------------------- MODULE MatchService ----------------------------
(***************************************************************************)
(* What matchmaking promises its clients, with no queue, lock, store or    *)
(* pod: a match is opened for two different sessions, match:found goes     *)
(* only to the two, the match ends once, and then at most one of the two   *)
(* is told that its peer left.  The other one is the one that left.        *)
(***************************************************************************)
EXTENDS Naturals, FiniteSets

CONSTANTS Session, MatchId

VARIABLES
  life,      \* how far a match is: none, open or over
  party,     \* the sessions of a match
  told,      \* matches a session was sent match:found for
  gone       \* matches a session was sent peer:disconnected for

svars == <<life, party, told, gone>>

ServiceInit ==
  /\ life = [m \in MatchId |-> "none"]
  /\ party = [m \in MatchId |-> {}]
  /\ told = [s \in Session |-> {}]
  /\ gone = [s \in Session |-> {}]

Open(m, s, t) ==
  /\ life[m] = "none" /\ s # t
  /\ life' = [life EXCEPT ![m] = "open"]
  /\ party' = [party EXCEPT ![m] = {s, t}]
  /\ UNCHANGED <<told, gone>>

(* A party may be told of a match that is over by then.                    *)
Tell(m, s) ==
  /\ life[m] # "none" /\ s \in party[m]
  /\ told' = [told EXCEPT ![s] = @ \cup {m}]
  /\ UNCHANGED <<life, party, gone>>

End(m) ==
  /\ life[m] = "open"
  /\ life' = [life EXCEPT ![m] = "over"]
  /\ UNCHANGED <<party, told, gone>>

Bereave(m, s) ==
  /\ life[m] = "over" /\ s \in party[m]
  /\ \A t \in Session : m \notin gone[t]
  /\ gone' = [gone EXCEPT ![s] = @ \cup {m}]
  /\ UNCHANGED <<life, party, told>>

ServiceNext ==
  \E m \in MatchId :
    \/ End(m)
    \/ \E s \in Session : Tell(m, s) \/ Bereave(m, s)
    \/ \E s, t \in Session : Open(m, s, t)

ServiceSpec == ServiceInit /\ [][ServiceNext]_svars
=============================================================================
