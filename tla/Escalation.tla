---------------------------- MODULE Escalation ----------------------------
(***************************************************************************)
(* One tab's investigation and its escalation to live access: the model    *)
(* worker (cockpit/panes/investigation.py), the approval dialog on the GUI *)
(* thread, the coordinator's approver and Tier-2 tool                      *)
(* (cockpit/coordinator.py), the live window (GatedGrant of                *)
(* core/session.py), and the closing of the tab (cockpit/app.py), composed *)
(* with the bridge to mcpssh (module Bridge).                              *)
(*                                                                         *)
(* The gate enters through its promise, module TrustBoundary, which Gate   *)
(* is proved to implement: tier 1 is the Netlapse floor, tier 2 the live   *)
(* tool, and the calls the gate refuses leave the boundary as it is.       *)
(*                                                                         *)
(* One call of the model at a time is inside the gate, on a pool thread:   *)
(* `step' says where.  The worker awaits it; the GUI thread does not.      *)
(***************************************************************************)
EXTENDS Integers, Sequences

CONSTANTS
  Window,       \* commands one live window admits (6 in the cockpit)
  MaxRounds,    \* rounds of one turn (max_tool_iters, 8 in the cockpit)
  PerReply,     \* bound of the model: tool calls of one reply
  MaxPrompts    \* bound of the model: prompts the operator submits

ASSUME WindowAssumption == Window \in Nat \ {0}
ASSUME RoundsAssumption == MaxRounds \in Nat \ {0}
ASSUME EscalationBounds == {PerReply, MaxPrompts} \subseteq Nat

VARIABLES
  opened, asked, reached,                                  \* TrustBoundary
  thread, starts, closeSet, ready, err, session,           \* Bridge
  published, opener, opens, caller, closer,
  worker,      \* where the worker stands
  queue,       \* its queue: prompts and the closing sentinel
  stop,        \* its _stop
  rounds,      \* rounds begun in this turn
  todo,        \* tool calls of the last reply not dispatched yet
  step,        \* where the call inside the gate stands
  dialog,      \* the approval dialog: none, queued for the GUI thread, shown
  answer,      \* _approval_holder and its event: none, yes, no
  window,      \* commands left in the live window
  gui,         \* the closing of the tab, on the GUI thread
  unasked,     \* the windows at which a request was denied unasked (history)
  prompts, yeses, sent    \* prompts submitted, dialogs approved, commands sent

gateVars   == <<opened, asked, reached>>
bridgeVars == <<thread, starts, closeSet, ready, err, session, published, opener,
                opens, caller, closer>>
turnVars   == <<worker, queue, rounds, todo>>
humanVars  == <<dialog, answer, yeses, prompts>>
tabVars    == <<stop, gui>>
liveVars   == <<window, sent, unasked>>
vars == <<gateVars, bridgeVars, turnVars, humanVars, tabVars, liveVars, step>>

Boundary == INSTANCE TrustBoundary WITH Top <- 2
B == INSTANCE Bridge WITH MaxOpens <- MaxPrompts * MaxRounds * PerReply

Floor == 1
Live  == 2
NoWindow == -1          \* no grant was ever made

\* DeviceSessions.gated is None: never granted, or spent, which frees the slot.
Ungated == window \in {NoWindow, 0}

Prompt   == "prompt"
Sentinel == "none"      \* the None that stop() queues

Init ==
  /\ Boundary!Init
  /\ B!Init
  /\ worker = "idle" /\ queue = <<>> /\ stop = FALSE
  /\ rounds = 0 /\ todo = 0
  /\ step = "none"
  /\ dialog = "none" /\ answer = "none"
  /\ window = NoWindow
  /\ gui = "free"
  /\ unasked = {}
  /\ prompts = 0 /\ yeses = 0 /\ sent = 0

(***************************************************************************)
(* The worker: _drain() and _turn().                                       *)
(***************************************************************************)
\* The input is disabled while a turn is in flight.
Submit ==
  /\ gui = "free" /\ dialog # "shown"
  /\ worker = "idle" /\ queue = <<>>
  /\ prompts < MaxPrompts
  /\ prompts' = prompts + 1
  /\ queue' = Append(queue, Prompt)
  /\ UNCHANGED <<gateVars, bridgeVars, worker, rounds, todo, step, dialog,
                 answer, yeses, tabVars, liveVars>>

\* get() takes what comes first: a prompt queued before the sentinel is served.
TakePrompt ==
  /\ worker = "idle"
  /\ queue # <<>> /\ Head(queue) = Prompt
  /\ queue' = Tail(queue)
  /\ worker' = "chat"
  /\ rounds' = 1
  /\ UNCHANGED <<gateVars, bridgeVars, todo, step, humanVars, tabVars, liveVars>>

TakeSentinel ==
  /\ worker = "idle"
  /\ queue # <<>> /\ Head(queue) = Sentinel
  /\ queue' = Tail(queue)
  /\ worker' = "ended"
  /\ UNCHANGED <<gateVars, bridgeVars, rounds, todo, step, humanVars, tabVars,
                 liveVars>>

\* _stop is looked at between turns only.
TurnOver ==
  /\ worker' = IF stop THEN "ended" ELSE "idle"
  /\ rounds' = 0
  /\ todo' = 0

\* The model answers in text, or the chat fails.
ReplyEndsTurn ==
  /\ worker = "chat"
  /\ TurnOver
  /\ UNCHANGED <<gateVars, bridgeVars, queue, step, humanVars, tabVars, liveVars>>

ReplyCalls ==
  /\ worker = "chat"
  /\ worker' = "calls"
  /\ todo' \in 1..PerReply
  /\ UNCHANGED <<gateVars, bridgeVars, queue, rounds, step, humanVars, tabVars,
                 liveVars>>

\* The worker awaits each call, so a reply is done when its last one came back.
ReplyServed == worker = "calls" /\ todo = 0 /\ step = "none"

NextRoundUncounted ==
  /\ ReplyServed
  /\ worker' = "chat"
  /\ UNCHANGED <<gateVars, bridgeVars, queue, rounds, todo, step, humanVars,
                 tabVars, liveVars>>

\* All calls of a reply are dispatched: the next round, or the cap.
NextRound ==
  /\ ReplyServed
  /\ IF rounds < MaxRounds
     THEN worker' = "chat" /\ rounds' = rounds + 1 /\ todo' = todo
     ELSE TurnOver
  /\ UNCHANGED <<gateVars, bridgeVars, queue, step, humanVars, tabVars, liveVars>>

(***************************************************************************)
(* step(): one call of the model, through the gate.                        *)
(***************************************************************************)
\* The worker has a call to dispatch and none in the gate.
Dispatching == worker = "calls" /\ todo > 0 /\ step = "none"

Dispatch == Dispatching /\ todo' = todo - 1 /\ UNCHANGED <<worker, queue, rounds>>

\* A bad shape of the call raises before or inside the gate: the turn is over.
DispatchRaises ==
  /\ Dispatching
  /\ TurnOver
  /\ UNCHANGED <<gateVars, bridgeVars, queue, step, humanVars, tabVars, liveVars>>

\* Over the cap, unknown, or of a tier withheld.
CallRefused ==
  /\ Dispatch
  /\ UNCHANGED <<gateVars, bridgeVars, step, humanVars, tabVars, liveVars>>

\* A tool of the Netlapse floor (its fetch is not interleaved with the rest).
CallFloor ==
  /\ Dispatch
  /\ Boundary!Reach /\ reached' = reached \cup {Floor}
  /\ UNCHANGED <<bridgeVars, step, humanVars, tabVars, liveVars>>

\* send_show_command without a window, or with its budget spent.
CallLiveClosed ==
  /\ Dispatch
  /\ Boundary!Reach /\ reached' = reached \cup {Live} /\ Live \in opened
  /\ Ungated
  /\ UNCHANGED <<bridgeVars, step, humanVars, tabVars, liveVars>>

CallLiveUnmetered ==
  /\ Dispatch
  /\ Boundary!Reach /\ reached' = reached \cup {Live} /\ Live \in opened
  /\ ~Ungated
  /\ sent' = sent + 1
  /\ B!CallTool
  /\ step' = "live"
  /\ UNCHANGED <<humanVars, tabVars, window, unasked>>

\* send_show_command within the window: the budget is spent first, then the
\* command is handed to the bridge.
CallLive ==
  /\ Dispatch
  /\ Boundary!Reach /\ reached' = reached \cup {Live} /\ Live \in opened
  /\ ~Ungated
  /\ window' = window - 1
  /\ sent' = sent + 1
  /\ B!CallTool
  /\ step' = "live"
  /\ UNCHANGED <<humanVars, tabVars, unasked>>

LiveReturns ==
  /\ step = "live"
  /\ ~B!CallerInside
  /\ step' = "none"
  /\ UNCHANGED <<gateVars, bridgeVars, turnVars, humanVars, tabVars, liveVars>>

(***************************************************************************)
(* request_escalation: the gate, _approve() and the dialog.                *)
(***************************************************************************)
\* With every tier granted the gate denies without asking anybody.
RequestAtTop ==
  /\ Dispatch
  /\ opened = Boundary!Levels
  /\ unasked' = unasked \cup {window}
  /\ UNCHANGED <<gateVars, bridgeVars, step, humanVars, tabVars, window, sent>>

RequestStale ==
  /\ Dispatch
  /\ Boundary!Ask
  /\ dialog' = "queued"
  /\ step' = "approver"
  /\ UNCHANGED <<bridgeVars, answer, yeses, prompts, tabVars, liveVars>>

\* request_approval clears its event and holder, then queues the dialog.
Request ==
  /\ Dispatch
  /\ Boundary!Ask
  /\ dialog' = "queued"
  /\ answer' = "none"
  /\ step' = "approver"
  /\ UNCHANGED <<bridgeVars, yeses, prompts, tabVars, liveVars>>

\* The GUI thread is not inside _on_close.
GuiTurns == gui \in {"free", "closed", "aborted"}

\* The pane outlives its tab, so the dialog is shown for a closed one as well.
ShowDialog ==
  /\ dialog = "queued"
  /\ GuiTurns
  /\ dialog' = "shown"
  /\ UNCHANGED <<gateVars, bridgeVars, turnVars, step, answer, yeses, prompts,
                 tabVars, liveVars>>

AnswerDialog ==
  /\ dialog = "shown"
  /\ dialog' = "none"
  /\ \/ answer' = "yes" /\ yeses' = yeses + 1
     \/ answer' = "no"  /\ yeses' = yeses
  /\ UNCHANGED <<gateVars, bridgeVars, turnVars, step, prompts, tabVars, liveVars>>

ApproveDenied ==
  /\ step = "approver"
  /\ answer = "no"
  /\ Boundary!Decline
  /\ step' = "none"
  /\ UNCHANGED <<bridgeVars, turnVars, humanVars, tabVars, liveVars>>

ApproveOpens ==
  /\ step = "approver"
  /\ answer = "yes"
  /\ B!EnsureOpen
  /\ step' = "opening"
  /\ UNCHANGED <<gateVars, turnVars, humanVars, tabVars, liveVars>>

OpenDeniedGrants ==
  /\ step = "opening"
  /\ opener = "raised"
  /\ window' = Window
  /\ Boundary!Open
  /\ step' = "none"
  /\ UNCHANGED <<bridgeVars, turnVars, humanVars, tabVars, sent, unasked>>

\* A bridge that does not open denies the escalation.
OpenDenied ==
  /\ step = "opening"
  /\ opener = "raised"
  /\ Boundary!Decline
  /\ step' = "none"
  /\ UNCHANGED <<bridgeVars, turnVars, humanVars, tabVars, liveVars>>

OpenGrantsUnmetered ==
  /\ step = "opening"
  /\ opener = "opened"
  /\ Boundary!Open
  /\ step' = "none"
  /\ UNCHANGED <<bridgeVars, turnVars, humanVars, tabVars, liveVars>>

\* The window is granted if there is none, and then the tier.
OpenGrants ==
  /\ step = "opening"
  /\ opener = "opened"
  /\ window' = IF Ungated THEN Window ELSE window
  /\ Boundary!Open
  /\ step' = "none"
  /\ UNCHANGED <<bridgeVars, turnVars, humanVars, tabVars, sent, unasked>>

(***************************************************************************)
(* Closing the tab: _on_close(), shutdown() and stop(), then the           *)
(* coordinator's close(), on the GUI thread.                               *)
(***************************************************************************)
\* The dialog is modal: the tab cannot be closed under it.
CloseTab ==
  /\ gui = "free" /\ dialog # "shown"
  /\ stop' = TRUE
  /\ queue' = Append(queue, Sentinel)
  /\ gui' = "stopping"
  /\ UNCHANGED <<gateVars, bridgeVars, worker, rounds, todo, step, humanVars,
                 liveVars>>

StopJoins ==
  /\ gui = "stopping"
  /\ worker = "ended"
  /\ gui' = "bridge"
  /\ B!CloseBegins
  /\ UNCHANGED <<gateVars, turnVars, step, humanVars, stop, liveVars>>

\* wait(6000) ends with the worker or without it; then bridge.close().
StopReturns ==
  /\ gui = "stopping"
  /\ gui' = "bridge"
  /\ B!CloseBegins
  /\ UNCHANGED <<gateVars, turnVars, step, humanVars, stop, liveVars>>

\* The tab is removed; an exception of close() leaves _on_close before that.
TabRemoved ==
  /\ gui = "bridge"
  /\ closer \in {"returned", "raised"}
  /\ gui' = IF closer = "returned" THEN "closed" ELSE "aborted"
  /\ UNCHANGED <<gateVars, bridgeVars, turnVars, step, humanVars, stop, liveVars>>

(***************************************************************************)
(* The bridge's own steps.                                                 *)
(***************************************************************************)
Rest == UNCHANGED <<gateVars, turnVars, step, humanVars, tabVars, liveVars>>

PoolOpenStep == (B!OpenStarts \/ B!WaitEnds) /\ Rest
PoolCallStep == (B!CallSchedules \/ B!CallAnswered \/ B!CallTimesOut) /\ Rest
LoopStep     == B!LoopSteps /\ Rest
TransportDies == B!HoldBreaks /\ Rest
CloseStep    == B!Close /\ Rest

WorkerStep ==
  \/ TakePrompt \/ TakeSentinel \/ ReplyEndsTurn \/ ReplyCalls \/ NextRound
  \/ DispatchRaises \/ CallRefused \/ CallFloor \/ CallLiveClosed \/ CallLive
  \/ RequestAtTop \/ Request

PoolStep ==
  \/ LiveReturns \/ ApproveDenied \/ ApproveOpens \/ OpenDenied \/ OpenGrants
  \/ PoolOpenStep \/ PoolCallStep

CloseTabStep == StopReturns \/ CloseStep \/ TabRemoved

Next ==
  \/ Submit \/ AnswerDialog \/ CloseTab
  \/ WorkerStep \/ PoolStep \/ ShowDialog \/ CloseTabStep
  \/ LoopStep \/ TransportDies

\* The threads run.  The operator need not submit, answer or close anything.
Fairness ==
  /\ WF_vars(WorkerStep) /\ WF_vars(PoolStep)
  /\ WF_vars(ShowDialog) /\ WF_vars(CloseTabStep)
  /\ WF_vars(LoopStep)

Spec == Init /\ [][Next]_vars /\ Fairness

(***************************************************************************)
(* Properties.                                                             *)
(***************************************************************************)
TypeOK ==
  /\ B!TypeOK
  /\ opened \subseteq Boundary!Levels /\ reached \subseteq Boundary!Levels
  /\ asked \in BOOLEAN /\ stop \in BOOLEAN
  /\ worker \in {"idle", "chat", "calls", "ended"}
  /\ queue \in Seq({Prompt, Sentinel})
  /\ rounds \in 0..MaxRounds
  /\ todo \in 0..PerReply
  /\ step \in {"none", "live", "approver", "opening"}
  /\ dialog \in {"none", "queued", "shown"}
  /\ answer \in {"none", "yes", "no"}
  /\ window \in NoWindow..Window /\ unasked \subseteq NoWindow..Window
  /\ gui \in {"free", "stopping", "bridge", "closed", "aborted"}
  /\ prompts \in Nat /\ yeses \in Nat /\ sent \in Nat

\* The commands that cross to mcpssh never exceed one window's worth for each
\* yes of the operator, whatever the timeouts, retries, failures of the bridge
\* and further requests (the meter in build_tier2_mcpssh and GatedGrant).
BudgetPerYes == sent <= Window * yeses

\* Every opening of the transport is owed to a yes of its own: no request is
\* answered by what the operator said to an earlier one, also when that yes came
\* to nothing because the bridge did not open (request_approval's clear).
OpenPerYes == opens <= yeses

\* The gate and the session model agree on live access: once the gate lets Tier
\* 2 calls through, a window meters them.
GrantIsMetered == Live \in opened => window # NoWindow

\* Tier 2 opens only over a session that was published: never after an open that
\* timed out or failed, nor after any retry of one.  And the session is still
\* there but for a transport that died, or a tab that closed, in the moment
\* between ("A dead transport DENIES the escalation rather than granting against
\* nothing", coordinator.py:425).
GrantNotAgainstNothing ==
  [][ (Live \in opened' /\ Live \notin opened) =>
        published /\ (session \/ err \/ B!Closing) ]_vars

\* Closing a tab always comes to an end on the GUI thread, also when the worker
\* cannot end because its call waits for the dialog only that thread can show.
ClosingEnds == gui = "stopping" ~> gui \in {"closed", "aborted"}

\* A turn ends, however the model, the bridge and the transport behave, unless
\* the operator leaves a dialog unanswered on the screen.
TurnEnds == worker \in {"chat", "calls"} ~>
              (worker \in {"idle", "ended"} \/ dialog = "shown")

\* How far a reply of the model is: three places for each of its calls.  What
\* happens meanwhile: the dialog, the closing of the tab, the bridge's threads.
InTurn == worker \in {"chat", "calls"}
Served ==
  IF worker = "chat" THEN 0
  ELSE 3 * (PerReply - todo)
         + (CASE step = "none" -> 3 [] step = "opening" -> 2 [] OTHER -> 1)
DialogPlace == CASE dialog = "queued" -> 0 [] dialog = "shown" -> 1 [] OTHER -> 2
GuiPlace == CASE gui = "free" -> 0 [] gui = "stopping" -> 1 [] gui = "bridge" -> 2 [] OTHER -> 3
Meanwhile == DialogPlace + GuiPlace + B!Far

\* A turn never goes back: it is in a later round, further in its reply, or one
\* of those it waits for is further on.  With the rounds capped it can take only
\* so many steps, however calls are refused, time out, fail and are tried again.
TurnAdvances ==
  [][ InTurn /\ InTurn' =>
        \/ rounds' > rounds
        \/ rounds' = rounds /\ Served' > Served
        \/ rounds' = rounds /\ Served' = Served /\ Meanwhile' > Meanwhile ]_vars

\* What the operator's yes is doing: said and not used, or at the transport.
Word == IF step = "opening" THEN "opening"
        ELSE IF step = "approver" /\ answer = "yes" THEN "given" ELSE "none"
Access == INSTANCE MeteredAccess WITH word <- Word, live <- (Live \in opened)

\* Live access keeps its promise, module MeteredAccess, step for step, under
\* whatever the worker, the pool thread, the dialog and loop C do in between.
KeepsMeter == Access!Spec

\* A model told that its window is spent can ask again: its request is put to
\* the operator ("when the grant's budget is spent the tool below returns 'grant
\* closed', which the model reads and can re-request (re-prompting you)",
\* coordinator.py:417).
SpentWindowCanBeRequested == 0 \notin unasked

\* The bridge is tab-lived: no session thread is started for a tab that is
\* closed ("the coordinator opens it from a single escalation approval and tears
\* it down at tab close", bridge.py:93).
NoSessionForClosedTab == [][ gui = "closed" => starts' = starts ]_vars
===========================================================================
