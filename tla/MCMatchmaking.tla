--------------------------- MODULE MCMatchmaking ---------------------------
(***************************************************************************)
(* Instances of Matchmaking for TLC.                                       *)
(***************************************************************************)
EXTENDS Matchmaking

CONSTANTS s1, s2, s3, m1, m2, m3, h1, h2, p1, p2

OnePod   == [s \in Session |-> p1]
TwoPods  == [s \in Session |-> IF s = s1 THEN p1 ELSE p2]
NoBlocks == [s \in Session |-> {}]

(* Ids and handler slots are interchangeable; so are the sessions when     *)
(* they share a pod.                                                       *)
Ids       == Permutations(MatchId) \cup Permutations(Handler)
IdsAndAll == Ids \cup Permutations(Session)
=============================================================================
