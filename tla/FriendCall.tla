----------------------------- MODULE FriendCall -----------------------------
(***************************************************************************)
(* What a friend call promises the two who are in it, with no request, row *)
(* or message: it is placed once, rings on the page of the callee alone,   *)
(* and is accepted or declined for good only when it rings no more.  The   *)
(* callee shows it once picked up, the caller once it was accepted, and no *)
(* one a call that was declined.                                           *)
(***************************************************************************)
CONSTANTS Session, CallId, None

VARIABLES
  status,    \* how far a call is: none, ringing, active or declined
  parties,   \* the caller and the callee of a call
  rings,     \* the call a page rings for
  shows      \* the call a page shows

cvars == <<status, parties, rings, shows>>

Callee(k) == parties[k][2]

CallInit ==
  /\ status = [k \in CallId |-> "none"]
  /\ parties = [k \in CallId |-> <<>>]
  /\ rings = [s \in Session |-> None]
  /\ shows = [s \in Session |-> None]

Place(k, s, t) ==
  /\ status[k] = "none" /\ s # t
  /\ status' = [status EXCEPT ![k] = "ringing"]
  /\ parties' = [parties EXCEPT ![k] = <<s, t>>]
  /\ UNCHANGED <<rings, shows>>

(* A page rings for the last call it was told of.                          *)
Ring(k) ==
  /\ status[k] = "ringing" /\ \A s \in Session : rings[s] # k /\ shows[s] # k
  /\ rings' = [rings EXCEPT ![Callee(k)] = k]
  /\ UNCHANGED <<status, parties, shows>>

PickUp(k) ==
  /\ status[k] = "ringing" /\ rings[Callee(k)] = k /\ shows[Callee(k)] = None
  /\ rings' = [rings EXCEPT ![Callee(k)] = None]
  /\ shows' = [shows EXCEPT ![Callee(k)] = k]
  /\ UNCHANGED <<status, parties>>

Refuse(k) ==
  /\ status[k] = "ringing" /\ rings[Callee(k)] = k
  /\ rings' = [rings EXCEPT ![Callee(k)] = None]
  /\ UNCHANGED <<status, parties, shows>>

Accept(k) ==
  /\ status[k] = "ringing" /\ \A s \in Session : rings[s] # k
  /\ status' = [status EXCEPT ![k] = "active"]
  /\ UNCHANGED <<parties, rings, shows>>

Decline(k) ==
  /\ status[k] = "ringing" /\ \A s \in Session : rings[s] # k /\ shows[s] # k
  /\ status' = [status EXCEPT ![k] = "declined"]
  /\ UNCHANGED <<parties, rings, shows>>

Connect(k, s) ==
  /\ status[k] = "active" /\ s = parties[k][1]
  /\ rings' = [rings EXCEPT ![s] = None]
  /\ shows' = [shows EXCEPT ![s] = k]
  /\ UNCHANGED <<status, parties>>

(* A page may leave any call, and what rings with it.                      *)
Leave(s) ==
  /\ shows' = [shows EXCEPT ![s] = None]
  /\ rings' \in {rings, [rings EXCEPT ![s] = None]}
  /\ UNCHANGED <<status, parties>>

CallNext ==
  \/ \E s \in Session : Leave(s)
  \/ \E k \in CallId :
       \/ Ring(k) \/ PickUp(k) \/ Refuse(k) \/ Accept(k) \/ Decline(k)
       \/ \E s \in Session : Connect(k, s)
       \/ \E s, t \in Session : Place(k, s, t)

CallSpec == CallInit /\ [][CallNext]_cvars
=============================================================================
