---------------------------- MODULE MCPageSession ----------------------------
(***************************************************************************)
(* Instances of PageSession for TLC: the constants are numbers, which the  *)
(* configurations give.                                                    *)
(***************************************************************************)
EXTENDS PageSession
=============================================================================
