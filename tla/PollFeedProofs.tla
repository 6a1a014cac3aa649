-------------------------- MODULE PollFeedProofs --------------------------
(***************************************************************************)
(* Proofs about the poll loop, for any numbering of the polls and any      *)
(* number of signals under way.  The two readers of a feed agree because   *)
(* the page shows nothing before it has loaded and keeps nothing back      *)
(* afterwards; a closed tab has one session at most because a worker that  *)
(* was told to stop begins no further bring-up.                            *)
(***************************************************************************)
EXTENDS PollFeed, TLAPS

\* A page that has not loaded shows nothing.
PageFits == ~loaded => painted = NoFeed

\* A closing tab has told its worker to stop, so that it begins no further poll:
\* only the bring-up it was in may still bring a session up.
LateFits ==
  /\ gui # "free" => stop
  /\ gui # "closed" => late = 0
  /\ gui = "closed" /\ late # 0 => worker # "bringup"

PollInv == TypeOK /\ PageFits /\ HudAndModelAgree /\ LateFits /\ OneLateSession

---------------------------------------------------------------------------

\* A feed that deliver() builds is a feed, and so is the empty one.
LEMMA FeedIsFeed ==
  ASSUME NEW p \in 1..PollIds, NEW s \in {"read", "unread"}
  PROVE  Feed(p, s) \in Feeds
BY DEF Feeds

LEMMA NoFeedIsFeed == NoFeed \in Feeds
BY DEF Feeds

\* The invariant is true before the first poll.
LEMMA InitPollInv == Init => PollInv
<1> SUFFICES ASSUME Init
             PROVE  PollInv
  OBVIOUS
<1>1. TypeOK
  <2>1. poll \in 1..PollIds
    BY PollIdsAssumption DEF Init
  <2>2. events \in Seq(Feeds \cup {Failure})
    BY DEF Init
  <2>3. late \in 0..2
    BY DEF Init
  <2> QED
    BY <2>1, <2>2, <2>3, NoFeedIsFeed DEF Init, TypeOK
<1> QED
  BY <1>1 DEF Init, PollInv, PageFits, HudAndModelAgree, LateFits, OneLateSession

\* What the worker's steps change of the types.
LEMMA WorkerTypes == TypeOK /\ WorkerStep => TypeOK'
<1> SUFFICES ASSUME TypeOK, WorkerStep
             PROVE  TypeOK'
  OBVIOUS
<1> USE DEF TypeOK, paneVars
<1>1. CASE PollBegins \/ WorkerEnds \/ DeliveryRaises
  BY <1>1 DEF PollBegins, WorkerEnds, DeliveryRaises
<1>2. CASE BringUpSucceeds \/ BringUpFails
  <2>1. ComesUp \/ UNCHANGED <<ssh, late>>
    BY <1>2 DEF BringUpSucceeds, BringUpFails
  <2>2. late' \in 0..2
    BY <2>1 DEF ComesUp
  <2>3. ssh' \in {"none", "alive", "dead"}
    BY <2>1 DEF ComesUp
  <2>4. /\ worker' \in {"batch", "failed"} /\ authed' \in BOOLEAN
        /\ UNCHANGED <<stop, poll, holder, events, paneVars, gui>>
    BY <1>2 DEF BringUpSucceeds, BringUpFails
  <2> QED
    BY <2>2, <2>3, <2>4
<1>3. CASE BatchReads
  <2>1. Feed(poll, IF ssh = "alive" THEN "read" ELSE "unread") \in Feeds
    BY FeedIsFeed
  <2> HIDE DEF Feed
  <2> QED
    BY <1>3, <2>1 DEF BatchReads
<1>4. CASE TickEmitted \/ FailureEmitted
  <2>1. PICK signal \in Feeds \cup {Failure} : events' = Append(events, signal)
    BY <1>4 DEF TickEmitted, FailureEmitted, Emits
  <2>2. events' \in Seq(Feeds \cup {Failure})
    BY <2>1
  <2>3. worker' = "sleep" /\ UNCHANGED <<stop, authed, ssh, poll, holder, paneVars, gui, late>>
    BY <1>4 DEF TickEmitted, FailureEmitted, Emits
  <2> QED
    BY <2>2, <2>3
<1>5. CASE SleepEnds
  <2>1. poll' \in 1..PollIds
    BY <1>5, PollIdsAssumption DEF SleepEnds
  <2> QED
    BY <1>5, <2>1 DEF SleepEnds
<1> QED
  BY <1>1, <1>2, <1>3, <1>4, <1>5 DEF WorkerStep

\* What arrives at the GUI thread is what was sent.
LEMMA ArrivalTypes ==
  ASSUME TypeOK, events # <<>>
  PROVE  /\ Head(events) \in Feeds \cup {Failure}
         /\ Tail(events) \in Seq(Feeds \cup {Failure})
BY DEF TypeOK

LEMMA GuiTypes ==
  TypeOK /\ (GuiStep \/ PageLoaded \/ CloseBegins \/ CloseReturns \/ LinkDies) => TypeOK'
<1> SUFFICES ASSUME TypeOK, GuiStep \/ PageLoaded \/ CloseBegins \/ CloseReturns \/ LinkDies
             PROVE  TypeOK'
  OBVIOUS
<1> USE DEF TypeOK, paneVars, workerVars
<1>1. CASE FeedArrives
  <2>1. Head(events) \in Feeds /\ events' \in Seq(Feeds \cup {Failure})
    BY <1>1, ArrivalTypes DEF FeedArrives
  <2>2. /\ cached' \in Feeds /\ pending' \in Feeds /\ painted' \in Feeds
        /\ loaded' \in BOOLEAN
    BY <1>1, <2>1 DEF FeedArrives, Applies
  <2>3. UNCHANGED <<workerVars, stop, ssh, gui, late>>
    BY <1>1 DEF FeedArrives
  <2> QED
    BY <2>1, <2>2, <2>3
<1>2. CASE FailureArrives
  <2>1. events' \in Seq(Feeds \cup {Failure})
    BY <1>2, ArrivalTypes DEF FailureArrives
  <2> QED
    BY <1>2, <2>1 DEF FailureArrives
<1>3. CASE PageLoaded
  BY <1>3, NoFeedIsFeed DEF PageLoaded
<1>4. CASE CloseBegins \/ CloseReturns \/ LinkDies
  BY <1>4 DEF CloseBegins, CloseReturns, LinkDies
<1> QED
  BY <1>1, <1>2, <1>3, <1>4 DEF GuiStep

\* Only the GUI thread moves the cache and the page, and in one event.
LEMMA PageStep ==
  PageFits /\ HudAndModelAgree /\ [Next]_vars => (PageFits /\ HudAndModelAgree)'
<1> SUFFICES ASSUME PageFits, HudAndModelAgree, [Next]_vars
             PROVE  (PageFits /\ HudAndModelAgree)'
  OBVIOUS
<1> USE DEF PageFits, HudAndModelAgree
<1>1. CASE UNCHANGED paneVars
  BY <1>1 DEF paneVars
<1>2. CASE FeedArrives
  BY <1>2 DEF FeedArrives, Applies
<1>3. CASE PageLoaded
  BY <1>3 DEF PageLoaded
<1>4. CASE WorkerStep
  BY <1>1, <1>4 DEF WorkerStep, PollBegins, WorkerEnds, BringUpSucceeds, BringUpFails,
                    BatchReads, DeliveryRaises, TickEmitted, FailureEmitted, Emits, SleepEnds
<1>5. CASE FailureArrives \/ CloseBegins \/ CloseReturns \/ LinkDies
  BY <1>1, <1>5 DEF FailureArrives, CloseBegins, CloseReturns, LinkDies
<1>6. CASE UNCHANGED vars
  BY <1>1, <1>6 DEF vars, paneVars
<1> QED
  BY <1>2, <1>3, <1>4, <1>5, <1>6 DEF Next, GuiStep

\* close() disconnects, and a worker told to stop begins no further bring-up.
LEMMA SessionStep ==
  TypeOK /\ LateFits /\ OneLateSession /\ [Next]_vars => (LateFits /\ OneLateSession)'
<1> SUFFICES ASSUME TypeOK, LateFits, OneLateSession, [Next]_vars
             PROVE  (LateFits /\ OneLateSession)'
  OBVIOUS
<1> USE DEF TypeOK, LateFits, OneLateSession, workerVars
<1>1. CASE PollBegins \/ WorkerEnds \/ SleepEnds
  BY <1>1 DEF PollBegins, WorkerEnds, SleepEnds
<1>2. CASE BringUpSucceeds \/ BringUpFails
  BY <1>2 DEF BringUpSucceeds, BringUpFails, ComesUp
<1>3. CASE BatchReads \/ DeliveryRaises \/ TickEmitted \/ FailureEmitted
  BY <1>3 DEF BatchReads, DeliveryRaises, TickEmitted, FailureEmitted, Emits
<1>4. CASE FeedArrives \/ FailureArrives \/ PageLoaded
  BY <1>4 DEF FeedArrives, FailureArrives, PageLoaded
<1>5. CASE CloseBegins \/ CloseReturns \/ LinkDies
  BY <1>5 DEF CloseBegins, CloseReturns, LinkDies
<1>6. CASE UNCHANGED vars
  BY <1>6 DEF vars
<1> QED
  BY <1>1, <1>2, <1>3, <1>4, <1>5, <1>6 DEF Next, WorkerStep, GuiStep

---------------------------------------------------------------------------

\* The invariant holds of every state of the loop.
THEOREM PollInvariant == Spec => []PollInv
<1>1. PollInv /\ [Next]_vars => PollInv'
  <2>1. TypeOK /\ UNCHANGED vars => TypeOK'
    BY DEF TypeOK, vars
  <2> QED
    BY <2>1, WorkerTypes, GuiTypes, PageStep, SessionStep DEF PollInv, Next
<1> QED
  BY <1>1, InitPollInv, PTL DEF Spec

\* The loop's state stays within its types.
THEOREM FeedTypeCorrect == Spec => []TypeOK
<1>1. PollInv => TypeOK
  BY DEF PollInv
<1> QED
  BY <1>1, PollInvariant, PTL

\* The HUD and the model's ambient context are always the same feed
\* (broker_polled's two receivers, and apply_feed before the page has loaded).
THEOREM HudIsWhatTheModelReads == Spec => []HudAndModelAgree
<1>1. PollInv => HudAndModelAgree
  BY DEF PollInv
<1> QED
  BY <1>1, PollInvariant, PTL

\* A closed tab has no SSH session but one, of the bring-up that was under way
\* when stop() gave the worker up (close()).
THEOREM ClosedTabHasOneSession == Spec => []OneLateSession
<1>1. PollInv => OneLateSession
  BY DEF PollInv
<1> QED
  BY <1>1, PollInvariant, PTL
===========================================================================
