--------------------------- MODULE TrustBoundary ---------------------------
(***************************************************************************)
(* What the capability gate promises, without the gate: the tiers of       *)
(* access form a gradient 1..Top whose floor is open from the start; above *)
(* the floor a human opens one tier per question asked, the lowest one     *)
(* still closed, and a call reaches only a tier that is open.              *)
(*                                                                         *)
(* It is the promise made in the head of uf/host/routing.py and in the     *)
(* comment of class GateSession; Gate is checked and proved to keep it.    *)
(***************************************************************************)
EXTENDS Integers

CONSTANT Top            \* number of tiers of the gradient

VARIABLES opened,       \* the tiers a call may reach
          asked,        \* a human is looking at an escalation question
          reached       \* the tiers some call has reached

vars == <<opened, asked, reached>>

Levels == 1..Top

Init ==
  /\ opened = {1}
  /\ asked = FALSE
  /\ reached = {}

Ask ==
  /\ ~asked
  /\ opened # Levels
  /\ asked' = TRUE
  /\ UNCHANGED <<opened, reached>>

\* The human turns the question down, or the question is lost.
Decline ==
  /\ asked
  /\ asked' = FALSE
  /\ UNCHANGED <<opened, reached>>

\* The human's yes opens exactly the lowest tier that was closed.
Open ==
  /\ asked
  /\ asked' = FALSE
  /\ \E l \in Levels \ opened :
       /\ \A m \in Levels : m < l => m \in opened
       /\ opened' = opened \cup {l}
  /\ UNCHANGED reached

\* No call is served while the human is deciding.
Reach ==
  /\ ~asked
  /\ \E l \in opened : reached' = reached \cup {l}
  /\ UNCHANGED <<opened, asked>>

Next == Ask \/ Decline \/ Open \/ Reach

Spec == Init /\ [][Next]_vars
=============================================================================
