----------------------------- MODULE MCBridge -----------------------------
(***************************************************************************)
(* The bridge for TLC: it is a finite system once the calls of             *)
(* ensure_open() are bounded; three of them are an open, a retry after a   *)
(* timeout and one more after the retry.                                   *)
(***************************************************************************)
EXTENDS Bridge
===========================================================================
