--------------------------- MODULE MCEscalation ---------------------------
(***************************************************************************)
(* One tab for TLC.  Three rounds of two calls let a request time out, be  *)
(* made again and granted, the window be spent, and one more request       *)
(* follow, with the tab closed at any point.                               *)
(***************************************************************************)
EXTENDS Escalation
===========================================================================
