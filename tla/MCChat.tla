------------------------------- MODULE MCChat -------------------------------
(***************************************************************************)
(* Instances of Chat for TLC.                                              *)
(***************************************************************************)
EXTENDS Chat, TLC

CONSTANTS a, b, c, m1, m2, x1

(* a meets b, then c, and is the other of the two the second time.         *)
Meets == m1 :> <<a, b>> @@ m2 :> <<c, a>>
=============================================================================
