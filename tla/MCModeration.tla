---------------------------- MODULE MCModeration ----------------------------
(***************************************************************************)
(* Instances of Moderation for TLC.                                        *)
(***************************************************************************)
EXTENDS Moderation, TLC

CONSTANTS a, b, m1, m2, m3, r1, r2, r3, p1, p2

(* The same two meet again and again.                                      *)
Meets == [m \in MatchId |-> <<a, b>>]

Ids == Permutations(ReportId) \cup Permutations(MatchId)
=============================================================================
