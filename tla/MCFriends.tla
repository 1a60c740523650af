----------------------------- MODULE MCFriends -----------------------------
(***************************************************************************)
(* Instances of Friends for TLC.                                           *)
(***************************************************************************)
EXTENDS Friends, TLC

CONSTANTS a, b

OneMatch == [m \in MatchId |-> <<a, b>>]

(* Pods are interchangeable, and so are the places for requests.           *)
Places == Permutations(Pod) \cup Permutations(Handler)
=============================================================================
