------------------------------ MODULE Bridge ------------------------------
(***************************************************************************)
(* One tab's client of the mcpssh server: class McpsshBridge of            *)
(* src/uf/cockpit/bridge.py.  Three threads meet in it:                    *)
(*   - the pool thread on which the gate runs calls ensure_open() from the *)
(*     approver and call_tool() from the Tier-2 tool, one at a time;       *)
(*   - loop C, started by the first ensure_open(), opens the MCP session   *)
(*     and holds it until it is told to close or the transport dies;       *)
(*   - the GUI thread calls close() once, at tab close.  (A second call    *)
(*     returns at once, `_closing' being set: it is not a step.)           *)
(*                                                                         *)
(* What loop C has published follows from where it stands: `_loop' from    *)
(* "looping" on (it is never reset), `_close_evt' from "opening" on, and   *)
(* the loop is closed when it is "dead".                                   *)
(***************************************************************************)
EXTENDS Integers

CONSTANT MaxOpens      \* bound of the model: the calls of ensure_open()

ASSUME OpensAssumption == MaxOpens \in Nat

VARIABLES
  thread,    \* loop C: not created, or where _run/_hold stands
  starts,    \* threads started (history)
  closeSet,  \* _close_evt is set
  ready,     \* _session_ready
  err,       \* _err is not None
  session,   \* _session is not None
  published, \* _session was set once (history)
  opener,    \* where ensure_open() stands, or how its last call ended
  opens,     \* calls of ensure_open() (bounded)
  caller,    \* where call_tool() stands, or how its last call ended
  closer     \* where close() stands, or how it ended

loopVars == <<thread, ready, err, session, published>>
vars == <<thread, starts, closeSet, ready, err, session, published, opener, opens,
          caller, closer>>

ThreadStates == {"none", "created", "started", "looping", "opening", "held",
                 "exiting", "failing", "ended", "dead"}
OpenerStates == {"idle", "start", "waiting", "opened", "raised"}
CallerStates == {"idle", "fetched", "pending", "result", "error"}
CloserStates == {"idle", "signal", "join", "joining", "returned", "raised"}

Closing      == closer # "idle"
OpenerInside == opener \in {"start", "waiting"}
CallerInside == caller \in {"fetched", "pending"}
PoolFree     == ~OpenerInside /\ ~CallerInside

\* call_soon_threadsafe and run_coroutine_threadsafe raise on a closed loop.
LoopClosed == thread = "dead"
\* The loop and its event can be seen by close().
Signalable == thread \in {"opening", "held", "exiting", "failing", "ended", "dead"}

Init ==
  /\ thread = "none" /\ starts = 0
  /\ closeSet = FALSE
  /\ ready = FALSE /\ err = FALSE /\ session = FALSE /\ published = FALSE
  /\ opener = "idle" /\ opens = 0
  /\ caller = "idle"
  /\ closer = "idle"

(***************************************************************************)
(* ensure_open(), on the pool thread.                                      *)
(***************************************************************************)
BeginOpen ==
  /\ PoolFree
  /\ opens < MaxOpens
  /\ opens' = opens + 1
  /\ UNCHANGED <<starts, closeSet, ready, err, session, published, caller, closer>>

\* What a settled outcome gives the caller: the session, or the error.
Settle == opener' = IF err THEN "raised" ELSE "opened"

OpenSettled == BeginOpen /\ ready /\ Settle /\ thread' = thread

OpenRestarts == BeginOpen /\ ~ready /\ thread' = "created" /\ opener' = "start"

\* The first call creates the thread object and assigns it to _thread ...
OpenCreates ==
  /\ BeginOpen /\ ~ready
  /\ thread = "none" /\ thread' = "created"
  /\ opener' = "start"

\* ... and starts it.
OpenStarts ==
  /\ opener = "start" /\ opener' = "waiting"
  /\ thread' = "started" /\ starts' = starts + 1
  /\ UNCHANGED <<closeSet, ready, err, session, published, opens, caller, closer>>

\* After a timeout the thread is still there: a retry waits for it again.
OpenAwaits ==
  /\ BeginOpen /\ ~ready
  /\ thread # "none" /\ thread' = thread
  /\ opener' = "waiting"

\* The outcome is there, or connect_timeout passes and nobody tells the thread.
WaitEnds ==
  /\ opener = "waiting"
  /\ IF ready THEN Settle ELSE opener' = "raised"
  /\ UNCHANGED <<loopVars, starts, closeSet, opens, caller, closer>>

EnsureOpen == OpenSettled \/ OpenCreates \/ OpenAwaits

(***************************************************************************)
(* call_tool(), on the pool thread.                                        *)
(***************************************************************************)
CallerGoes(to) ==
  /\ caller' = to
  /\ UNCHANGED <<loopVars, starts, closeSet, opener, opens, closer>>

\* The loop and the session are read once, before they are used.
CallTool == PoolFree /\ CallerGoes(IF session THEN "fetched" ELSE "error")

\* The call is handed to the loop, or the closed loop raises, which is caught.
CallSchedules ==
  caller = "fetched" /\ CallerGoes(IF LoopClosed THEN "error" ELSE "pending")

\* The server answers, or the request fails, while the loop turns.
CallAnswered ==
  /\ caller = "pending"
  /\ thread \in {"held", "exiting", "failing"}
  /\ \E a \in {"result", "error"} : CallerGoes(a)

CallNeverTimesOut == caller = "pending" /\ thread = "held" /\ CallerGoes("error")

\* fut.result(timeout) gives up; a loop that ended leaves only this way out.
CallTimesOut == caller = "pending" /\ CallerGoes("error")

(***************************************************************************)
(* close(), on the GUI thread.                                             *)
(***************************************************************************)
CloserGoes(from, to) ==
  /\ closer = from /\ closer' = to
  /\ UNCHANGED <<loopVars, starts, opener, opens, caller>>

CloseBegins == CloserGoes("idle", "signal") /\ UNCHANGED closeSet

\* A loop that is not published yet is not signalled; a closed one raises.
CloseSignals ==
  /\ CloserGoes("signal", IF LoopClosed THEN "raised" ELSE "join")
  /\ closeSet' = (closeSet \/ (Signalable /\ ~LoopClosed))

\* join() returns without a thread, and raises on one that was not started.
CloseJoins ==
  /\ CloserGoes("join", CASE thread = "none"    -> "returned"
                           [] thread = "created" -> "raised"
                           [] OTHER              -> "joining")
  /\ UNCHANGED closeSet

\* The join ends with the thread or after its six seconds.
CloseReturns == CloserGoes("joining", "returned") /\ UNCHANGED closeSet

Close == CloseSignals \/ CloseJoins \/ CloseReturns

(***************************************************************************)
(* Loop C: _run() and _hold().                                             *)
(***************************************************************************)
LoopGoes(from, to) ==
  /\ thread = from /\ thread' = to
  /\ UNCHANGED <<starts, opener, opens, caller, closer>>

Publishes(from, to) ==
  LoopGoes(from, to) /\ UNCHANGED <<closeSet, ready, err, session, published>>

LoopPublished     == Publishes("started", "looping")
CloseEvtPublished == Publishes("looping", "opening")

HoldOpensFreshEvt ==
  /\ LoopGoes("opening", "held")
  /\ session' = TRUE /\ published' = TRUE /\ ready' = TRUE
  /\ closeSet' = FALSE /\ err' = err

\* The session is initialized and published; a close signalled meanwhile waits.
HoldOpens ==
  /\ LoopGoes("opening", "held")
  /\ session' = TRUE /\ published' = TRUE /\ ready' = TRUE
  /\ UNCHANGED <<closeSet, err>>

\* Connect, initialize or list_tools fails.
HoldFails ==
  /\ LoopGoes("opening", "ended")
  /\ err' = TRUE /\ ready' = TRUE
  /\ UNCHANGED <<closeSet, session, published>>

\* The hold ends: the event is set, and the contexts are left, ...
HoldEnds == closeSet /\ Publishes("held", "exiting")

\* ... or the transport dies under it and its contexts unwind the same way.
HoldBreaks == Publishes("held", "failing")

HoldUnwindsQuietly ==
  /\ \E s \in {"exiting", "failing"} : LoopGoes(s, "ended")
  /\ session' = FALSE
  /\ UNCHANGED <<closeSet, ready, err, published>>

\* Only the end of the contexts takes the session back; an exception that left
\* them, also one of their own exit, is recorded first.
HoldUnwinds ==
  /\ \E s \in {"exiting", "failing"} : LoopGoes(s, "ended")
  /\ \/ err' = TRUE
     \/ thread = "exiting" /\ err' = err
  /\ session' = FALSE
  /\ UNCHANGED <<closeSet, ready, published>>

LoopCloses == Publishes("ended", "dead")

\* What loop C does by itself; a connection attempt ends one way or the other.
LoopSteps ==
  \/ LoopPublished \/ CloseEvtPublished \/ HoldOpens \/ HoldFails
  \/ HoldEnds \/ HoldUnwinds \/ LoopCloses

Next ==
  \/ EnsureOpen \/ OpenStarts \/ WaitEnds
  \/ CallTool \/ CallSchedules \/ CallAnswered \/ CallTimesOut
  \/ CloseBegins \/ Close
  \/ LoopSteps \/ HoldBreaks

\* The threads that are inside a call go on, every wait has its timeout, and
\* loop C runs.  Nobody need open, call or close, and no transport need die.
Fairness ==
  /\ WF_vars(OpenStarts) /\ WF_vars(WaitEnds)
  /\ WF_vars(CallSchedules) /\ WF_vars(CallTimesOut)
  /\ WF_vars(Close)
  /\ WF_vars(LoopSteps)

Spec == Init /\ [][Next]_vars /\ Fairness

(***************************************************************************)
(* Properties.                                                             *)
(***************************************************************************)
TypeOK ==
  /\ thread \in ThreadStates
  /\ starts \in Nat
  /\ closeSet \in BOOLEAN
  /\ ready \in BOOLEAN
  /\ err \in BOOLEAN
  /\ session \in BOOLEAN
  /\ published \in BOOLEAN
  /\ opener \in OpenerStates
  /\ opens \in 0..MaxOpens
  /\ caller \in CallerStates
  /\ closer \in CloserStates

\* How far the threads have come; a new call of ensure_open() or call_tool()
\* begins at the front again.
ThreadPlace ==
  CASE thread = "none" -> 0 [] thread = "created" -> 1 [] thread = "started" -> 2
    [] thread = "looping" -> 3 [] thread = "opening" -> 4 [] thread = "held" -> 5
    [] thread \in {"exiting", "failing"} -> 6 [] thread = "ended" -> 7 [] OTHER -> 8
OpenerPlace == CASE opener = "start" -> 0 [] opener = "waiting" -> 1 [] OTHER -> 2
CallerPlace == CASE caller = "fetched" -> 0 [] caller = "pending" -> 1 [] OTHER -> 2
CloserPlace ==
  CASE closer = "idle" -> 0 [] closer = "signal" -> 1 [] closer = "join" -> 2
    [] closer = "joining" -> 3 [] OTHER -> 4
Far == ThreadPlace + OpenerPlace + CallerPlace + CloserPlace

\* However often an open times out and is tried again, one session is ever
\* opened for the tab: a retry joins the attempt that is still under way
\* (ensure_open's test of _thread).
OneSessionEver == starts <= 1

\* ensure_open() lets a grant through only with the session published, unless
\* the tab is closing: a failed open, or a transport that died since, raises
\* ("so _approve can DENY on a dead transport rather than grant against
\* nothing", bridge.py:117).
OpenMeansSession ==
  [][ opener # "opened" /\ opener' = "opened" => session' \/ Closing ]_vars

\* Every call of ensure_open() and call_tool(), and close(), comes back: also
\* when loop C ends between the reading of the session and its use, or with a
\* call pending that no thread will ever answer.
EveryCallReturns ==
  /\ OpenerInside ~> ~OpenerInside
  /\ CallerInside ~> ~CallerInside
  /\ Closing ~> (closer \in {"returned", "raised"})

\* Once the loop has been told to close, whatever it was doing (connecting
\* included), the session is given up and loop C ends.
SignalTearsDown == closeSet ~> (thread = "dead" /\ ~session)

\* Telling loop C to close does not fail, whatever became of it: close() is
\* "Safe to call more than once and safe if never opened" (bridge.py:157).
\* (The join of a thread object not started yet raises too; it is left apart.)
CloseIsSafe == [][ closer = "signal" => closer' # "raised" ]_vars
===========================================================================
