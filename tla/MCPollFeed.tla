---------------------------- MODULE MCPollFeed ----------------------------
(***************************************************************************)
(* The poll loop runs for ever, so TLC counts its polls modulo three: the  *)
(* feeds in the queue, in the cache and on the page can all be different.  *)
(***************************************************************************)
EXTENDS PollFeed
===========================================================================
