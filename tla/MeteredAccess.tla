--------------------------- MODULE MeteredAccess ---------------------------
(***************************************************************************)
(* What the cockpit promises of live access to the devices, without the    *)
(* threads, the dialog and the bridge: each yes of the operator is good    *)
(* for one opening of the transport, and that opening, when it succeeds,   *)
(* for one window of commands; every command is one of a window's, and a   *)
(* window is never refilled while some of it is left.                      *)
(*                                                                         *)
(* It is the promise of coordinator.py:408-430 (the approver and the tool  *)
(* under it) and of GatedGrant in core/session.py.                         *)
(***************************************************************************)
EXTENDS Integers

CONSTANT Window         \* commands of one window

VARIABLES word,         \* the operator's yes under way: none, given, opening
          live,         \* the live tier is open
          window,       \* commands left in the window; -1 before the first one
          yeses, opens, sent

vars == <<word, live, window, yeses, opens, sent>>

Spent == window \in {-1, 0}

Init ==
  /\ word = "none"
  /\ live = FALSE
  /\ window = -1
  /\ yeses = 0 /\ opens = 0 /\ sent = 0

\* The operator says yes to the one request there is.
SayYes ==
  /\ word = "none"
  /\ word' = "given"
  /\ yeses' = yeses + 1
  /\ UNCHANGED <<live, window, opens, sent>>

\* The yes is used for one opening of the transport.
OpenTransport ==
  /\ word = "given"
  /\ word' = "opening"
  /\ opens' = opens + 1
  /\ UNCHANGED <<live, window, yeses, sent>>

\* It did not open: the yes is gone, and nothing was granted for it.
Refuse ==
  /\ word = "opening"
  /\ word' = "none"
  /\ UNCHANGED <<live, window, yeses, opens, sent>>

Grant ==
  /\ word = "opening"
  /\ word' = "none"
  /\ live' = TRUE
  /\ window' = IF Spent THEN Window ELSE window
  /\ UNCHANGED <<yeses, opens, sent>>

\* One command, while no yes is under way: the one caller waits for it.
Send ==
  /\ word = "none" /\ live
  /\ ~Spent
  /\ window' = window - 1
  /\ sent' = sent + 1
  /\ UNCHANGED <<word, live, yeses, opens>>

Next == SayYes \/ OpenTransport \/ Refuse \/ Grant \/ Send

Spec == Init /\ [][Next]_vars
============================================================================
