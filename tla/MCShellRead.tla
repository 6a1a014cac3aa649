---------------------------- MODULE MCShellRead ----------------------------
(***************************************************************************)
(* Three reads: one whose answer may be late, one it can disturb, and one  *)
(* more to see whether the disturbance goes on.                            *)
(***************************************************************************)
EXTENDS ShellRead
============================================================================
