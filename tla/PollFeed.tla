----------------------------- MODULE PollFeed -----------------------------
(***************************************************************************)
(* The Tier-1.5 loop of one tab: the poll worker (_PollWorker of           *)
(* src/uf/cockpit/coordinator.py) over the broker (class Broker of         *)
(* src/uf/core/session.py) and the shell (ShellTransport), and what the    *)
(* GUI thread does with its feeds: the cache the model's ambient context   *)
(* is read from (_cache_feed) and the HUD page (panes/telemetry.py).       *)
(*                                                                         *)
(* A feed is the number of its poll and whether its reads answered; what   *)
(* a read returns is the subject of ShellRead.  Qt delivers the worker's   *)
(* signals to the GUI thread in order, through `events'.                   *)
(***************************************************************************)
EXTENDS Integers, Sequences

CONSTANTS
  PollIds,     \* bound of the model: poll numbers are counted modulo this
  MaxEvents    \* bound of the model: signals waiting for the GUI thread

ASSUME PollIdsAssumption == PollIds \in Nat \ {0}
ASSUME EventsAssumption  == MaxEvents \in Nat \ {0}

VARIABLES
  worker,     \* where the poll worker stands
  stop,       \* its _stop
  authed,     \* Broker._authed
  ssh,        \* the SSH session of the tab: none, alive, dead
  poll,       \* number of the current poll
  holder,     \* the feed deliver() built last
  events,     \* signals queued for the GUI thread
  cached,     \* SessionCoordinator._last_feed
  loaded,     \* TelemetryPane._loaded
  pending,    \* TelemetryPane._pending
  painted,    \* the feed the page shows
  gui,        \* the closing of the tab
  late        \* sessions that came up in a closed tab, counted to two (history)

workerVars == <<worker, authed, poll, holder>>
paneVars   == <<cached, loaded, pending, painted>>
vars == <<worker, stop, authed, ssh, poll, holder, events, cached, loaded,
          pending, painted, gui, late>>

NoFeed == [poll |-> 0, state |-> "none"]
Feed(p, s) == [poll |-> p, state |-> s]
Feeds == {NoFeed} \cup {Feed(p, s) : p \in 1..PollIds, s \in {"read", "unread"}}
Failure == [poll |-> 0, state |-> "failed"]

Init ==
  /\ worker = "loop" /\ stop = FALSE
  /\ authed = FALSE /\ ssh = "none"
  /\ poll = 1
  /\ holder = NoFeed
  /\ events = <<>>
  /\ cached = NoFeed /\ pending = NoFeed /\ painted = NoFeed
  /\ loaded = FALSE
  /\ gui = "free"
  /\ late = 0


PollBegins ==
  /\ worker = "loop"
  /\ ~stop
  /\ worker' = IF authed THEN "batch" ELSE "bringup"
  /\ UNCHANGED <<stop, authed, ssh, poll, holder, events, paneVars, gui, late>>

WorkerEnds ==
  /\ worker = "loop"
  /\ stop
  /\ worker' = "ended"
  /\ UNCHANGED <<stop, authed, ssh, poll, holder, events, paneVars, gui, late>>

\* A new session is the tab's, closed or not.
ComesUp ==
  /\ ssh' = "alive"
  /\ late' = IF gui = "closed" /\ late < 2 THEN late + 1 ELSE late

\* connect (with its second attempt on a fresh client), prompt, pagination.
\* A disconnect by another thread meanwhile does not keep it from succeeding.
BringUpSucceeds ==
  /\ worker = "bringup"
  /\ ComesUp
  /\ authed' = TRUE
  /\ worker' = "batch"
  /\ UNCHANGED <<stop, poll, holder, events, paneVars, gui>>

\* Refused, or connected and failed later: the next poll starts over.
BringUpFails ==
  /\ worker = "bringup"
  /\ ComesUp \/ UNCHANGED <<ssh, late>>
  /\ worker' = "failed"
  /\ UNCHANGED <<stop, authed, poll, holder, events, paneVars, gui>>

BatchRaises ==
  /\ worker = "batch"
  /\ IF ssh = "alive"
     THEN holder' = Feed(poll, "read") /\ worker' = "emit"
     ELSE holder' = holder /\ worker' = "failed"
  /\ UNCHANGED <<stop, authed, ssh, poll, events, paneVars, gui, late>>

\* Every read of a session that is gone comes back as an error of its own, so
\* the batch succeeds and its feed says UNREAD.
BatchReads ==
  /\ worker = "batch"
  /\ holder' = Feed(poll, IF ssh = "alive" THEN "read" ELSE "unread")
  /\ worker' = "emit"
  /\ UNCHANGED <<stop, authed, ssh, poll, events, paneVars, gui, late>>

\* What a device answered may be of a shape that deliver() raises at; the feed
\* before stays.  (An error in place of an answer is read without harm.)
DeliveryRaises ==
  /\ worker = "batch"
  /\ ssh = "alive"
  /\ worker' = "failed"
  /\ UNCHANGED <<stop, authed, ssh, poll, holder, events, paneVars, gui, late>>

\* ticked carries a copy of the feed just built, failed carries none.
Emits(state, signal) ==
  /\ worker = state
  /\ Len(events) < MaxEvents
  /\ events' = Append(events, signal)
  /\ worker' = "sleep"
  /\ UNCHANGED <<stop, authed, ssh, poll, holder, paneVars, gui, late>>

TickEmitted == Emits("emit", holder)
FailureEmitted == Emits("failed", Failure)

\* The wait of poll_ms, cut short by _stop.
SleepEnds ==
  /\ worker = "sleep"
  /\ worker' = "loop"
  /\ poll' = (poll % PollIds) + 1
  /\ UNCHANGED <<stop, authed, ssh, holder, events, paneVars, gui, late>>

(***************************************************************************)
(* The GUI thread: the feed's two readers, and the page.                   *)
(***************************************************************************)
\* The GUI thread is not inside close().
GuiTurns == gui \in {"free", "closed"}

AppliesFirst(feed) ==
  IF loaded
  THEN painted' = feed /\ UNCHANGED <<loaded, pending>>
  ELSE /\ pending' = IF pending = NoFeed THEN feed ELSE pending
       /\ UNCHANGED <<loaded, painted>>

\* apply_feed: painted at once, or kept until the page has loaded.
Applies(feed) ==
  IF loaded
  THEN painted' = feed /\ UNCHANGED <<loaded, pending>>
  ELSE pending' = feed /\ UNCHANGED <<loaded, painted>>

\* broker_polled: the cache and the pane, in one event of the GUI thread.
FeedArrives ==
  /\ GuiTurns
  /\ events # <<>> /\ Head(events) # Failure
  /\ events' = Tail(events)
  /\ cached' = Head(events)
  /\ Applies(Head(events))
  /\ UNCHANGED <<workerVars, stop, ssh, gui, late>>

\* broker_error is shown; the last feed stays.
FailureArrives ==
  /\ GuiTurns
  /\ events # <<>> /\ Head(events) = Failure
  /\ events' = Tail(events)
  /\ UNCHANGED <<workerVars, stop, ssh, paneVars, gui, late>>

\* _on_loaded: what is pending is painted; a load that failed changes nothing.
PageLoaded ==
  /\ GuiTurns
  /\ ~loaded
  /\ loaded' = TRUE
  /\ pending' = NoFeed
  /\ painted' = IF pending # NoFeed THEN pending ELSE painted
  /\ UNCHANGED <<workerVars, stop, ssh, events, cached, gui, late>>

(***************************************************************************)
(* close(), on the GUI thread, and the link to the device.                 *)
(***************************************************************************)
CloseBegins ==
  /\ gui = "free"
  /\ stop' = TRUE
  /\ gui' = "stopping"
  /\ UNCHANGED <<workerVars, ssh, events, paneVars, late>>

CloseForgets ==
  /\ gui = "stopping"
  /\ gui' = "closed"
  /\ UNCHANGED <<workerVars, stop, ssh, events, paneVars, late>>

\* wait(4000) ends with the worker or without it; then the broker disconnects.
CloseReturns ==
  /\ gui = "stopping"
  /\ ssh' = "none"
  /\ gui' = "closed"
  /\ UNCHANGED <<workerVars, stop, events, paneVars, late>>

LinkDies ==
  /\ ssh = "alive"
  /\ ssh' = "dead"
  /\ UNCHANGED <<workerVars, stop, events, paneVars, gui, late>>

WorkerStep ==
  \/ PollBegins \/ WorkerEnds \/ BringUpSucceeds \/ BringUpFails
  \/ BatchReads \/ DeliveryRaises \/ TickEmitted \/ FailureEmitted \/ SleepEnds

GuiStep == FeedArrives \/ FailureArrives

Next ==
  \/ WorkerStep \/ GuiStep \/ PageLoaded
  \/ CloseBegins \/ CloseReturns \/ LinkDies

\* Both threads run and the waits are bounded; the page need not load, the
\* operator need not close the tab and the link need not die.
Fairness == WF_vars(WorkerStep) /\ WF_vars(GuiStep) /\ WF_vars(CloseReturns)

Spec == Init /\ [][Next]_vars /\ Fairness

(***************************************************************************)
(* Properties.                                                             *)
(***************************************************************************)
TypeOK ==
  /\ worker \in {"loop", "bringup", "batch", "emit", "failed", "sleep", "ended"}
  /\ stop \in BOOLEAN /\ authed \in BOOLEAN
  /\ loaded \in BOOLEAN
  /\ late \in 0..2
  /\ ssh \in {"none", "alive", "dead"}
  /\ poll \in 1..PollIds
  /\ holder \in Feeds /\ cached \in Feeds /\ pending \in Feeds /\ painted \in Feeds
  /\ events \in Seq(Feeds \cup {Failure})
  /\ gui \in {"free", "stopping", "closed"}

\* The HUD and the model's ambient context are the same poll: what the page
\* shows, or will show first when it has loaded, is what is cached ("so the HUD
\* and the AI cannot disagree about health", coordinator.py:200).
HudAndModelAgree == (IF loaded THEN painted ELSE pending) = cached

\* A session that died does not go on looking healthy: unless the tab closes,
\* the cache the model reads and the page shows comes to hold a feed that says
\* UNREAD, or never held one (_read_one turns a failed read into a value).
DeadTurnsUnread ==
  ssh = "dead" ~> (cached.state # "read" \/ gui # "free")

\* Closing a tab disconnects whatever session there is, and a worker that stop()
\* gave up after its four seconds brings up one more at most: a session of a
\* closed tab is that one, which nobody disconnects (stop() before
\* broker.close()).
OneLateSession == gui = "closed" => late <= 1 /\ (ssh = "none" <=> late = 0)

===========================================================================
