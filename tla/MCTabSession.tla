---------------------------- MODULE MCTabSession ----------------------------
(***************************************************************************)
(* Instances of TabSession for TLC.                                        *)
(***************************************************************************)
EXTENDS TabSession

CONSTANTS t1, t2, d1, p1, p2

OneDevice == [s \in Socket |-> d1]
TwoPods   == [s \in Socket |-> IF s = t1 THEN p1 ELSE p2]
=============================================================================
