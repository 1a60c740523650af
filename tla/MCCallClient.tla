---------------------------- MODULE MCCallClient ----------------------------
(***************************************************************************)
(* Instances of CallClient for TLC.                                        *)
(***************************************************************************)
EXTENDS CallClient

CONSTANTS c1, c2, c3, m1, m2, m3

Clients == Permutations(Client) \cup Permutations(MatchId)
=============================================================================
