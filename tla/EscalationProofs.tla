------------------------- MODULE EscalationProofs -------------------------
(***************************************************************************)
(* Proofs about one tab, for any window, number of rounds, calls and       *)
(* prompts.  The bridge in it is Bridge: every step of the tab is a step   *)
(* of the bridge or leaves it alone, so what BridgeProofs proves holds     *)
(* here.  On top of it the argument counts: the yes the operator gave is   *)
(* followed from the dialog to the opening of the transport and to the     *)
(* commands of the window, and is spent once in each.                      *)
(***************************************************************************)
EXTENDS Escalation, TLAPS

BP == INSTANCE BridgeProofs WITH MaxOpens <- MaxPrompts * MaxRounds * PerReply

\* The dialog belongs to a call that waits for it and has no answer yet; the
\* transport is opened on a yes.
DialogFits ==
  /\ dialog # "none" => step = "approver" /\ answer = "none"
  /\ step = "opening" => answer = "yes"

\* What a yes that is under way is still good for: one opening, one window.
Pending == step = "approver" /\ answer = "yes"
Underway == Pending \/ step = "opening"

OpensFit == opens + (IF Pending THEN 1 ELSE 0) <= yeses

\* Commands sent, commands the window still admits, and the window that the yes
\* under way may grant, are paid for by the yeses.
Left == IF window = NoWindow THEN 0 ELSE window
BudgetFits == sent + Left + (IF Underway THEN Window ELSE 0) <= Window * yeses

EscalationInv ==
  /\ TypeOK
  /\ BP!BridgeInv
  /\ DialogFits
  /\ GrantIsMetered
  /\ OpensFit
  /\ BudgetFits

---------------------------------------------------------------------------

\* The bound of the bridge within a tab is a number.
LEMMA OpensBound == MaxPrompts * MaxRounds * PerReply \in Nat
BY RoundsAssumption, EscalationBounds

\* The calls, the close and loop C are the bridge's own.
LEMMA BridgeCallSteps ==
  /\ B!EnsureOpen => BP!Next
  /\ B!OpenStarts \/ B!WaitEnds => BP!Next
  /\ B!CallTool \/ B!CallSchedules \/ B!CallAnswered \/ B!CallTimesOut => BP!Next
  /\ B!CloseBegins \/ B!Close => BP!Next
<1> USE DEF B!PoolFree, BP!PoolFree, B!OpenerInside, BP!OpenerInside,
            B!CallerInside, BP!CallerInside, B!loopVars, BP!loopVars
<1>1. B!EnsureOpen => BP!EnsureOpen
  BY DEF B!EnsureOpen, BP!EnsureOpen, B!OpenSettled, BP!OpenSettled, B!OpenCreates,
         BP!OpenCreates, B!OpenAwaits, BP!OpenAwaits, B!BeginOpen, BP!BeginOpen,
         B!Settle, BP!Settle
<1>2. /\ B!OpenStarts => BP!OpenStarts
      /\ B!WaitEnds => BP!WaitEnds
  BY DEF B!OpenStarts, BP!OpenStarts, B!WaitEnds, BP!WaitEnds, B!Settle, BP!Settle
<1>3. /\ B!CallTool => BP!CallTool
      /\ B!CallSchedules => BP!CallSchedules
      /\ B!CallAnswered => BP!CallAnswered
      /\ B!CallTimesOut => BP!CallTimesOut
  BY DEF B!CallTool, BP!CallTool, B!CallSchedules, BP!CallSchedules, B!CallAnswered,
         BP!CallAnswered, B!CallTimesOut, BP!CallTimesOut, B!CallerGoes, BP!CallerGoes,
         B!LoopClosed, BP!LoopClosed
<1>4. /\ B!CloseBegins => BP!CloseBegins
      /\ B!Close => BP!Close
  BY DEF B!CloseBegins, BP!CloseBegins, B!Close, BP!Close, B!CloseSignals, BP!CloseSignals,
         B!CloseJoins, BP!CloseJoins, B!CloseReturns, BP!CloseReturns, B!CloserGoes,
         BP!CloserGoes, B!LoopClosed, BP!LoopClosed, B!Signalable, BP!Signalable
<1> QED
  BY <1>1, <1>2, <1>3, <1>4 DEF BP!Next

LEMMA BridgeLoopSteps == B!LoopSteps \/ B!HoldBreaks => BP!Next
<1> USE DEF B!LoopGoes, BP!LoopGoes, B!Publishes, BP!Publishes
<1>1. B!LoopSteps => BP!LoopSteps
  BY DEF B!LoopSteps, BP!LoopSteps, B!LoopPublished, BP!LoopPublished,
         B!CloseEvtPublished, BP!CloseEvtPublished, B!HoldOpens, BP!HoldOpens,
         B!HoldFails, BP!HoldFails, B!HoldEnds, BP!HoldEnds, B!HoldUnwinds,
         BP!HoldUnwinds, B!LoopCloses, BP!LoopCloses
<1>2. B!HoldBreaks => BP!HoldBreaks
  BY DEF B!HoldBreaks, BP!HoldBreaks
<1> QED
  BY <1>1, <1>2 DEF BP!Next

\* The steps of the tab that do not touch the bridge.
StandAlone ==
  \/ Submit \/ AnswerDialog \/ CloseTab
  \/ TakePrompt \/ TakeSentinel \/ ReplyEndsTurn \/ ReplyCalls \/ NextRound
  \/ DispatchRaises \/ CallRefused \/ CallFloor \/ CallLiveClosed
  \/ RequestAtTop \/ Request
  \/ LiveReturns \/ ApproveDenied \/ OpenDenied \/ OpenGrants
  \/ ShowDialog \/ TabRemoved

LEMMA StandAloneLeavesBridge == StandAlone => UNCHANGED bridgeVars
BY DEF StandAlone, Submit, AnswerDialog, CloseTab, TakePrompt, TakeSentinel,
       ReplyEndsTurn, ReplyCalls, NextRound, DispatchRaises, CallRefused, CallFloor,
       CallLiveClosed, RequestAtTop, Request, LiveReturns, ApproveDenied, OpenDenied,
       OpenGrants, ShowDialog, TabRemoved

\* Whatever the tab does, its bridge does a step of a bridge, or none.
LEMMA TabMovesBridge == [Next]_vars => [BP!Next]_(BP!vars)
<1> SUFFICES ASSUME [Next]_vars
             PROVE  [BP!Next]_(BP!vars)
  OBVIOUS
<1>1. CASE StandAlone
  BY <1>1, StandAloneLeavesBridge DEF bridgeVars, BP!vars
<1>2. CASE CallLive \/ ApproveOpens \/ StopReturns
  BY <1>2, BridgeCallSteps DEF CallLive, ApproveOpens, StopReturns
<1>3. CASE PoolOpenStep \/ PoolCallStep \/ CloseStep
  BY <1>3, BridgeCallSteps DEF PoolOpenStep, PoolCallStep, CloseStep
<1>4. CASE LoopStep \/ TransportDies
  BY <1>4, BridgeLoopSteps DEF LoopStep, TransportDies
<1>5. CASE UNCHANGED vars
  BY <1>5 DEF vars, bridgeVars, BP!vars
<1> QED
  BY <1>1, <1>2, <1>3, <1>4, <1>5
  DEF Next, StandAlone, WorkerStep, PoolStep, CloseTabStep

\* The invariant of the bridge is kept within the tab.
LEMMA TabKeepsBridgeInv == BP!BridgeInv /\ [Next]_vars => BP!BridgeInv'
BY TabMovesBridge, OpensBound, BP!NextBridgeInv

\* The two instances of the bridge type its state alike.
LEMMA BridgeTypes == BP!TypeOK <=> B!TypeOK
BY DEF BP!TypeOK, B!TypeOK, BP!ThreadStates, B!ThreadStates, BP!OpenerStates,
       B!OpenerStates, BP!CallerStates, B!CallerStates, BP!CloserStates, B!CloserStates

---------------------------------------------------------------------------

\* The invariant is true of a tab just opened.
LEMMA InitEscalationInv == Init => EscalationInv
<1> SUFFICES ASSUME Init
             PROVE  EscalationInv
  OBVIOUS
<1>1. BP!BridgeInv
  <2>1. BP!Init
    BY DEF Init, B!Init, BP!Init
  <2> QED
    BY <2>1, OpensBound, BP!InitBridgeInv
<1>2. TypeOK
  <2>1. B!TypeOK
    BY <1>1, BridgeTypes DEF BP!BridgeInv
  <2>2. opened \subseteq Boundary!Levels /\ reached \subseteq Boundary!Levels /\ asked \in BOOLEAN
    <3>1. opened = {1} /\ reached = {} /\ asked = FALSE
      BY DEF Init, Boundary!Init
    <3>2. 1 \in Boundary!Levels
      BY DEF Boundary!Levels
    <3> QED
      BY <3>1, <3>2
  <2>3. /\ rounds \in 0..MaxRounds /\ todo \in 0..PerReply
        /\ window \in NoWindow..Window /\ unasked \subseteq NoWindow..Window
    <3>1. MaxRounds \in Nat /\ PerReply \in Nat /\ Window \in Nat
      BY RoundsAssumption, EscalationBounds, WindowAssumption
    <3>2. 0 \in 0..MaxRounds /\ 0 \in 0..PerReply /\ NoWindow \in NoWindow..Window
      BY <3>1 DEF NoWindow
    <3> QED
      BY <3>2 DEF Init
  <2>4. queue \in Seq({Prompt, Sentinel})
    BY DEF Init
  <2>5. prompts \in Nat /\ yeses \in Nat /\ sent \in Nat
    BY DEF Init
  <2> QED
    BY <2>1, <2>2, <2>3, <2>4, <2>5 DEF Init, TypeOK
<1>3. DialogFits /\ GrantIsMetered /\ OpensFit
  BY DEF Init, B!Init, Boundary!Init, DialogFits, GrantIsMetered, OpensFit, Pending, Live
<1>4. BudgetFits
  BY WindowAssumption DEF Init, BudgetFits, Underway, Pending, Left, NoWindow
<1> QED
  BY <1>1, <1>2, <1>3, <1>4 DEF EscalationInv

---------------------------------------------------------------------------
(***************************************************************************)
(* Types.                                                                  *)
(***************************************************************************)
\* The gate's promise keeps its types.
LEMMA BoundaryTypes ==
  ASSUME TypeOK,
         \/ UNCHANGED gateVars
         \/ Boundary!Reach \/ Boundary!Ask \/ Boundary!Decline \/ Boundary!Open
  PROVE  /\ opened' \subseteq Boundary!Levels /\ reached' \subseteq Boundary!Levels
         /\ asked' \in BOOLEAN
BY DEF TypeOK, gateVars, Boundary!Levels, Boundary!Reach, Boundary!Ask, Boundary!Decline,
       Boundary!Open

\* Each step of the tab leaves the boundary alone or is one of its steps.
LEMMA StepBoundary ==
  [Next]_vars => \/ UNCHANGED gateVars
                 \/ Boundary!Reach \/ Boundary!Ask \/ Boundary!Decline \/ Boundary!Open
<1> SUFFICES ASSUME [Next]_vars
             PROVE  \/ UNCHANGED gateVars
                    \/ Boundary!Reach \/ Boundary!Ask \/ Boundary!Decline \/ Boundary!Open
  OBVIOUS
<1>1. CASE Submit \/ AnswerDialog \/ CloseTab \/ ShowDialog \/ TabRemoved \/ StopReturns
  BY <1>1 DEF Submit, AnswerDialog, CloseTab, ShowDialog, TabRemoved, StopReturns
<1>2. CASE \/ TakePrompt \/ TakeSentinel \/ ReplyEndsTurn \/ ReplyCalls \/ NextRound
           \/ DispatchRaises \/ CallRefused \/ RequestAtTop
  BY <1>2 DEF TakePrompt, TakeSentinel, ReplyEndsTurn, ReplyCalls, NextRound,
              DispatchRaises, CallRefused, RequestAtTop
<1>3. CASE CallFloor \/ CallLiveClosed \/ CallLive \/ Request
  BY <1>3 DEF CallFloor, CallLiveClosed, CallLive, Request
<1>4. CASE LiveReturns \/ ApproveDenied \/ ApproveOpens \/ OpenDenied \/ OpenGrants
  BY <1>4 DEF LiveReturns, ApproveDenied, ApproveOpens, OpenDenied, OpenGrants
<1>5. CASE PoolOpenStep \/ PoolCallStep \/ CloseStep \/ LoopStep \/ TransportDies
  BY <1>5 DEF PoolOpenStep, PoolCallStep, CloseStep, LoopStep, TransportDies, Rest
<1>6. CASE UNCHANGED vars
  BY <1>6 DEF vars
<1> QED
  BY <1>1, <1>2, <1>3, <1>4, <1>5, <1>6 DEF Next, WorkerStep, PoolStep, CloseTabStep

\* The turn: the worker, its queue, the round and the calls left of a reply.
LEMMA TurnTypes ==
  TypeOK /\ [Next]_vars =>
    /\ worker' \in {"idle", "chat", "calls", "ended"}
    /\ queue' \in Seq({Prompt, Sentinel})
    /\ rounds' \in 0..MaxRounds
    /\ todo' \in 0..PerReply
<1> SUFFICES ASSUME TypeOK, [Next]_vars
             PROVE  /\ worker' \in {"idle", "chat", "calls", "ended"}
                    /\ queue' \in Seq({Prompt, Sentinel})
                    /\ rounds' \in 0..MaxRounds
                    /\ todo' \in 0..PerReply
  OBVIOUS
<1> USE RoundsAssumption, EscalationBounds DEF TypeOK
<1>1. CASE Submit \/ CloseTab
  <2>1. queue' \in Seq({Prompt, Sentinel})
    <3>1. \A x \in {Prompt, Sentinel} : Append(queue, x) \in Seq({Prompt, Sentinel})
      OBVIOUS
    <3> QED
      BY <1>1, <3>1 DEF Submit, CloseTab
  <2>2. UNCHANGED <<worker, rounds, todo>>
    BY <1>1 DEF Submit, CloseTab
  <2> QED
    BY <2>1, <2>2
<1>2. CASE TakePrompt \/ TakeSentinel
  <2>1. queue' \in Seq({Prompt, Sentinel})
    BY <1>2 DEF TakePrompt, TakeSentinel
  <2>2. worker' \in {"idle", "chat", "calls", "ended"} /\ todo' = todo
    BY <1>2 DEF TakePrompt, TakeSentinel
  <2>3. rounds' \in 0..MaxRounds
    BY <1>2 DEF TakePrompt, TakeSentinel
  <2> QED
    BY <2>1, <2>2, <2>3
<1>3. CASE ReplyEndsTurn \/ ReplyCalls \/ DispatchRaises
  BY <1>3 DEF ReplyEndsTurn, ReplyCalls, DispatchRaises, TurnOver
<1>4. CASE NextRound
  <2>1. CASE rounds < MaxRounds
    BY <1>4, <2>1 DEF NextRound
  <2>2. CASE ~(rounds < MaxRounds)
    BY <1>4, <2>2 DEF NextRound, TurnOver
  <2> QED
    BY <2>1, <2>2
<1>5. CASE \/ CallRefused \/ CallFloor \/ CallLiveClosed \/ CallLive \/ RequestAtTop \/ Request
  <2>1. Dispatch
    BY <1>5 DEF CallRefused, CallFloor, CallLiveClosed, CallLive, RequestAtTop, Request
  <2> QED
    BY <2>1 DEF Dispatch, Dispatching
<1>6. CASE UNCHANGED turnVars
  BY <1>6 DEF turnVars
<1>7. CASE LiveReturns \/ ApproveDenied \/ ApproveOpens \/ OpenDenied \/ OpenGrants
  BY <1>6, <1>7 DEF LiveReturns, ApproveDenied, ApproveOpens, OpenDenied, OpenGrants
<1>8. CASE ShowDialog \/ AnswerDialog \/ TabRemoved \/ StopReturns
  BY <1>6, <1>8 DEF ShowDialog, AnswerDialog, TabRemoved, StopReturns
<1>9. CASE PoolOpenStep \/ PoolCallStep \/ CloseStep \/ LoopStep \/ TransportDies
  BY <1>6, <1>9 DEF PoolOpenStep, PoolCallStep, CloseStep, LoopStep, TransportDies, Rest
<1>10. CASE UNCHANGED vars
  BY <1>6, <1>10 DEF vars
<1> QED
  BY <1>1, <1>2, <1>3, <1>4, <1>5, <1>7, <1>8, <1>9, <1>10
  DEF Next, WorkerStep, PoolStep, CloseTabStep

\* What the operator, the window and the closing of the tab keep.
HumanTypes ==
  /\ step \in {"none", "live", "approver", "opening"}
  /\ dialog \in {"none", "queued", "shown"}
  /\ answer \in {"none", "yes", "no"}
  /\ prompts \in Nat /\ yeses \in Nat /\ sent \in Nat
LiveTypes == window \in NoWindow..Window /\ unasked \subseteq NoWindow..Window
TabTypes ==
  stop \in BOOLEAN /\ gui \in {"free", "stopping", "bridge", "closed", "aborted"}

LEMMA OtherTypes == TypeOK /\ [Next]_vars => (HumanTypes /\ LiveTypes /\ TabTypes)'
<1> SUFFICES ASSUME TypeOK, [Next]_vars
             PROVE  (HumanTypes /\ LiveTypes /\ TabTypes)'
  OBVIOUS
<1>a. HumanTypes /\ LiveTypes /\ TabTypes
  BY DEF TypeOK, HumanTypes, LiveTypes, TabTypes
<1>b. Window \in Nat \ {0}
  BY WindowAssumption
<1>1. CASE Submit
  BY <1>a, <1>1 DEF Submit, tabVars, liveVars, HumanTypes, LiveTypes, TabTypes
<1>2. CASE CloseTab \/ TabRemoved \/ StopReturns
  <2>1. UNCHANGED <<step, humanVars, liveVars>>
    BY <1>2 DEF CloseTab, TabRemoved, StopReturns
  <2>2. TabTypes'
    BY <1>a, <1>2 DEF CloseTab, TabRemoved, StopReturns, TabTypes
  <2> QED
    BY <1>a, <2>1, <2>2 DEF humanVars, liveVars, HumanTypes, LiveTypes
<1>3. CASE UNCHANGED <<step, humanVars, tabVars, liveVars>>
  BY <1>a, <1>3 DEF humanVars, liveVars, tabVars, HumanTypes, LiveTypes, TabTypes
<1>4. CASE \/ TakePrompt \/ TakeSentinel \/ ReplyEndsTurn \/ ReplyCalls \/ NextRound
           \/ DispatchRaises \/ CallRefused \/ CallFloor \/ CallLiveClosed
  BY <1>3, <1>4 DEF TakePrompt, TakeSentinel, ReplyEndsTurn, ReplyCalls, NextRound,
                    DispatchRaises, CallRefused, CallFloor, CallLiveClosed
<1>5. CASE CallLive
  <2>1. window \in 1..Window
    BY <1>a, <1>b, <1>5 DEF CallLive, Ungated, LiveTypes, NoWindow
  <2>2. window' \in NoWindow..Window /\ sent' \in Nat
    BY <1>a, <1>b, <1>5, <2>1 DEF CallLive, HumanTypes, NoWindow
  <2>3. step' = "live" /\ UNCHANGED <<humanVars, tabVars, unasked>>
    BY <1>5 DEF CallLive
  <2> QED
    BY <1>a, <2>2, <2>3 DEF humanVars, tabVars, HumanTypes, LiveTypes, TabTypes
<1>6. CASE RequestAtTop
  BY <1>a, <1>6 DEF RequestAtTop, humanVars, tabVars, HumanTypes, LiveTypes, TabTypes
<1>7. CASE Request \/ ShowDialog
  BY <1>a, <1>7 DEF Request, ShowDialog, tabVars, liveVars, HumanTypes, LiveTypes, TabTypes
<1>8. CASE AnswerDialog
  BY <1>a, <1>8 DEF AnswerDialog, tabVars, liveVars, HumanTypes, LiveTypes, TabTypes
<1>9. CASE LiveReturns \/ ApproveDenied \/ ApproveOpens \/ OpenDenied
  <2>1. step' \in {"none", "opening"} /\ UNCHANGED <<humanVars, tabVars, liveVars>>
    BY <1>9 DEF LiveReturns, ApproveDenied, ApproveOpens, OpenDenied
  <2> QED
    BY <1>a, <2>1 DEF humanVars, tabVars, liveVars, HumanTypes, LiveTypes, TabTypes
<1>10. CASE OpenGrants
  <2>1. window' \in NoWindow..Window
    BY <1>a, <1>b, <1>10 DEF OpenGrants, LiveTypes, NoWindow
  <2>2. step' = "none" /\ UNCHANGED <<humanVars, tabVars, sent, unasked>>
    BY <1>10 DEF OpenGrants
  <2> QED
    BY <1>a, <2>1, <2>2 DEF humanVars, tabVars, HumanTypes, LiveTypes, TabTypes
<1>11. CASE PoolOpenStep \/ PoolCallStep \/ CloseStep \/ LoopStep \/ TransportDies
  BY <1>3, <1>11 DEF PoolOpenStep, PoolCallStep, CloseStep, LoopStep, TransportDies, Rest
<1>12. CASE UNCHANGED vars
  BY <1>3, <1>12 DEF vars
<1> QED
  BY <1>1, <1>2, <1>4, <1>5, <1>6, <1>7, <1>8, <1>9, <1>10, <1>11, <1>12
  DEF Next, WorkerStep, PoolStep, CloseTabStep

LEMMA NextTypes == TypeOK /\ BP!BridgeInv /\ [Next]_vars => TypeOK'
<1> SUFFICES ASSUME TypeOK, BP!BridgeInv, [Next]_vars
             PROVE  TypeOK'
  OBVIOUS
<1>1. B!TypeOK'
  BY TabKeepsBridgeInv, BridgeTypes DEF BP!BridgeInv, BP!TypeOK, B!TypeOK, BP!ThreadStates,
     B!ThreadStates, BP!OpenerStates, B!OpenerStates, BP!CallerStates, B!CallerStates,
     BP!CloserStates, B!CloserStates
<1> QED
  BY <1>1, BoundaryTypes, StepBoundary, TurnTypes, OtherTypes
  DEF TypeOK, HumanTypes, LiveTypes, TabTypes, Boundary!Levels

---------------------------------------------------------------------------
(***************************************************************************)
(* The yes, followed.                                                      *)
(***************************************************************************)
\* What the counting is about.
counted == <<step, dialog, answer, yeses, window, sent, opens, opened>>

Uncounted ==
  \/ Submit \/ CloseTab \/ TabRemoved \/ StopReturns
  \/ TakePrompt \/ TakeSentinel \/ ReplyEndsTurn \/ ReplyCalls \/ NextRound
  \/ DispatchRaises \/ CallRefused \/ CallFloor \/ CallLiveClosed \/ RequestAtTop
  \/ PoolOpenStep \/ PoolCallStep \/ CloseStep \/ LoopStep \/ TransportDies

LEMMA UncountedSteps == Uncounted => UNCHANGED counted
<1> SUFFICES ASSUME Uncounted
             PROVE  UNCHANGED counted
  OBVIOUS
<1> USE DEF counted, gateVars, humanVars, tabVars, liveVars, bridgeVars
<1>1. CASE Submit \/ CloseTab \/ TabRemoved
  BY <1>1 DEF Submit, CloseTab, TabRemoved
<1>2. CASE StopReturns
  BY <1>2 DEF StopReturns, B!CloseBegins, B!CloserGoes
<1>3. CASE TakePrompt \/ TakeSentinel \/ ReplyEndsTurn \/ ReplyCalls \/ NextRound
  BY <1>3 DEF TakePrompt, TakeSentinel, ReplyEndsTurn, ReplyCalls, NextRound
<1>4. CASE DispatchRaises \/ CallRefused \/ RequestAtTop
  BY <1>4 DEF DispatchRaises, CallRefused, RequestAtTop
<1>5. CASE CallFloor \/ CallLiveClosed
  BY <1>5 DEF CallFloor, CallLiveClosed, Boundary!Reach
<1>6. CASE PoolOpenStep
  BY <1>6 DEF PoolOpenStep, Rest, B!OpenStarts, B!WaitEnds
<1>7. CASE PoolCallStep
  BY <1>7 DEF PoolCallStep, Rest, B!CallSchedules, B!CallAnswered, B!CallTimesOut,
              B!CallerGoes
<1>8. CASE CloseStep
  BY <1>8 DEF CloseStep, Rest, B!Close, B!CloseSignals, B!CloseJoins, B!CloseReturns,
              B!CloserGoes
<1>9. CASE LoopStep \/ TransportDies
  BY <1>9 DEF LoopStep, TransportDies, Rest, B!LoopSteps, B!LoopPublished,
              B!CloseEvtPublished, B!HoldOpens, B!HoldFails, B!HoldEnds, B!HoldBreaks,
              B!HoldUnwinds, B!LoopCloses, B!Publishes, B!LoopGoes
<1> QED
  BY <1>1, <1>2, <1>3, <1>4, <1>5, <1>6, <1>7, <1>8, <1>9 DEF Uncounted

\* The steps that do count, by what they do to it.
LEMMA CountedSteps ==
  [Next]_vars =>
    \/ UNCHANGED counted
    \/ CallLive \/ LiveReturns \/ Request \/ ShowDialog \/ AnswerDialog
    \/ ApproveDenied \/ ApproveOpens \/ OpenDenied \/ OpenGrants
<1>1. UNCHANGED vars => UNCHANGED counted
  BY DEF vars, counted, gateVars, humanVars, liveVars, bridgeVars
<1> QED
  BY <1>1, UncountedSteps DEF Next, WorkerStep, PoolStep, CloseTabStep, Uncounted

\* What each counted step does, and nothing else: the facts the lemmas use.
LEMMA CallLiveDoes ==
  CallLive => /\ step = "none" /\ step' = "live"
              /\ window \notin {NoWindow, 0} /\ window' = window - 1 /\ sent' = sent + 1
              /\ UNCHANGED <<dialog, answer, yeses, opens, opened>>
BY DEF CallLive, Dispatch, Dispatching, Ungated, humanVars, B!CallTool, B!CallerGoes,
       Boundary!Reach

LEMMA RequestDoes ==
  Request => /\ step = "none" /\ step' = "approver"
             /\ dialog' = "queued" /\ answer' = "none"
             /\ UNCHANGED <<yeses, window, sent, opens, opened>>
BY DEF Request, Dispatch, Dispatching, liveVars, bridgeVars, Boundary!Ask

LEMMA AnswerDoes ==
  AnswerDialog =>
    /\ dialog = "shown" /\ dialog' = "none"
    /\ \/ answer' = "yes" /\ yeses' = yeses + 1
       \/ answer' = "no" /\ yeses' = yeses
    /\ UNCHANGED <<step, window, sent, opens, opened>>
BY DEF AnswerDialog, liveVars, bridgeVars, gateVars

LEMMA ShowDoes ==
  ShowDialog => /\ dialog = "queued" /\ dialog' = "shown"
                /\ UNCHANGED <<step, answer, yeses, window, sent, opens, opened>>
BY DEF ShowDialog, liveVars, bridgeVars, gateVars

LEMMA EndDoes ==
  /\ LiveReturns => step = "live"
  /\ ApproveDenied => step = "approver" /\ answer = "no"
  /\ OpenDenied => step = "opening"
  /\ LiveReturns \/ ApproveDenied \/ OpenDenied =>
       step' = "none" /\ UNCHANGED <<dialog, answer, yeses, window, sent, opens, opened>>
BY DEF LiveReturns, ApproveDenied, OpenDenied, humanVars, liveVars, bridgeVars, gateVars,
       Boundary!Decline

LEMMA OpensDoes ==
  ApproveOpens => /\ step = "approver" /\ answer = "yes" /\ step' = "opening"
                  /\ opens' = opens + 1
                  /\ UNCHANGED <<dialog, answer, yeses, window, sent, opened>>
BY DEF ApproveOpens, humanVars, liveVars, gateVars, B!EnsureOpen, B!OpenSettled,
       B!OpenCreates, B!OpenAwaits, B!BeginOpen

LEMMA GrantsDoes ==
  OpenGrants => /\ step = "opening" /\ step' = "none" /\ opener = "opened"
                /\ window' = IF Ungated THEN Window ELSE window
                /\ UNCHANGED <<dialog, answer, yeses, sent, opens>>
                /\ UNCHANGED bridgeVars
BY DEF OpenGrants, humanVars, bridgeVars

\* A dialog on its way or on the screen is never overtaken by another call.
LEMMA DialogStep == TypeOK /\ DialogFits /\ [Next]_vars => DialogFits'
<1> SUFFICES ASSUME TypeOK, DialogFits, [Next]_vars
             PROVE  DialogFits'
  OBVIOUS
<1> USE DEF DialogFits
<1>1. CASE UNCHANGED counted
  BY <1>1 DEF counted
<1>2. CASE CallLive
  BY <1>2, CallLiveDoes
<1>3. CASE Request \/ ShowDialog \/ AnswerDialog
  BY <1>3, RequestDoes, ShowDoes, AnswerDoes
<1>4. CASE LiveReturns \/ ApproveDenied \/ OpenDenied
  BY <1>4, EndDoes
<1>5. CASE ApproveOpens \/ OpenGrants
  BY <1>5, OpensDoes, GrantsDoes
<1> QED
  BY <1>1, <1>2, <1>3, <1>4, <1>5, CountedSteps

\* The gate opens the live tier only where a window is.
LEMMA MeteredStep == TypeOK /\ GrantIsMetered /\ [Next]_vars => GrantIsMetered'
<1> SUFFICES ASSUME TypeOK, GrantIsMetered, [Next]_vars
             PROVE  GrantIsMetered'
  OBVIOUS
<1> USE DEF GrantIsMetered
<1>a. window \in NoWindow..Window /\ Window \in Nat \ {0}
  BY WindowAssumption DEF TypeOK
<1>1. CASE UNCHANGED counted
  BY <1>1 DEF counted
<1>2. CASE CallLive
  BY <1>a, <1>2, CallLiveDoes DEF NoWindow
<1>3. CASE Request \/ ShowDialog \/ AnswerDialog
  BY <1>3, RequestDoes, ShowDoes, AnswerDoes
<1>4. CASE LiveReturns \/ ApproveDenied \/ OpenDenied \/ ApproveOpens
  BY <1>4, EndDoes, OpensDoes
<1>5. CASE OpenGrants
  BY <1>a, <1>5, GrantsDoes DEF Ungated, NoWindow
<1> QED
  BY <1>1, <1>2, <1>3, <1>4, <1>5, CountedSteps

\* Each yes opens the transport once at most.
LEMMA OpensStep ==
  TypeOK /\ DialogFits /\ OpensFit /\ [Next]_vars => OpensFit'
<1> SUFFICES ASSUME TypeOK, DialogFits, OpensFit, [Next]_vars
             PROVE  OpensFit'
  OBVIOUS
<1> USE DEF OpensFit, Pending
<1>a. opens \in Int /\ yeses \in Nat
  BY DEF TypeOK, B!TypeOK
<1>1. CASE UNCHANGED counted
  BY <1>1 DEF counted
<1>2. CASE CallLive
  BY <1>2, CallLiveDoes
<1>3. CASE Request \/ ShowDialog
  BY <1>3, RequestDoes, ShowDoes
<1>4. CASE AnswerDialog
  BY <1>a, <1>4, AnswerDoes DEF DialogFits
<1>5. CASE LiveReturns \/ ApproveDenied \/ OpenDenied
  BY <1>5, EndDoes
<1>6. CASE ApproveOpens
  BY <1>a, <1>6, OpensDoes
<1>7. CASE OpenGrants
  BY <1>7, GrantsDoes
<1> QED
  BY <1>1, <1>2, <1>3, <1>4, <1>5, <1>6, <1>7, CountedSteps

\* Each yes pays for one window at most, and each command for itself.
LEMMA BudgetStep ==
  TypeOK /\ DialogFits /\ BudgetFits /\ [Next]_vars => BudgetFits'
<1> SUFFICES ASSUME TypeOK, DialogFits, BudgetFits, [Next]_vars
             PROVE  BudgetFits'
  OBVIOUS
<1> DEFINE paid == Window * yeses
<1>a. /\ window \in NoWindow..Window /\ Window \in Nat \ {0}
      /\ sent \in Nat /\ yeses \in Nat /\ paid \in Nat
  BY WindowAssumption DEF TypeOK
<1>b. /\ yeses' = yeses => paid' = paid
      /\ yeses' = yeses + 1 => paid' = paid + Window
  BY <1>a
<1>c. sent + Left + (IF Underway THEN Window ELSE 0) <= paid
  BY DEF BudgetFits
<1>d. SUFFICES sent' + Left' + (IF Underway' THEN Window ELSE 0) <= paid'
  BY DEF BudgetFits
<1> HIDE DEF paid
<1> USE DEF Underway, Pending, Left
<1>1. CASE UNCHANGED counted
  BY <1>1, <1>b, <1>c DEF counted
<1>2. CASE CallLive
  BY <1>a, <1>b, <1>c, <1>2, CallLiveDoes DEF NoWindow
<1>3. CASE Request \/ ShowDialog
  BY <1>b, <1>c, <1>3, RequestDoes, ShowDoes
<1>4. CASE AnswerDialog
  <2>1. step = "approver" /\ answer = "none" /\ Left' = Left /\ sent' = sent
    BY <1>4, AnswerDoes DEF DialogFits
  <2>2. ~Underway
    BY <2>1
  <2>3. Left \in Nat
    BY <1>a DEF NoWindow
  <2>4. sent + Left <= paid
    BY <1>a, <1>c, <2>2, <2>3
  <2> HIDE DEF Left
  <2>5. CASE answer' = "yes" /\ yeses' = yeses + 1
    BY <1>a, <1>b, <2>1, <2>3, <2>4, <2>5
  <2>6. CASE answer' = "no" /\ yeses' = yeses
    BY <1>a, <1>b, <1>4, AnswerDoes, <2>1, <2>3, <2>4, <2>6
  <2> QED
    BY <1>4, <2>5, <2>6, AnswerDoes
<1>5. CASE LiveReturns \/ ApproveDenied \/ OpenDenied
  BY <1>a, <1>b, <1>c, <1>5, EndDoes DEF NoWindow
<1>6. CASE ApproveOpens
  BY <1>a, <1>b, <1>c, <1>6, OpensDoes
<1>7. CASE OpenGrants
  BY <1>a, <1>b, <1>c, <1>7, GrantsDoes DEF Ungated, NoWindow
<1> QED
  BY <1>1, <1>2, <1>3, <1>4, <1>5, <1>6, <1>7, CountedSteps

---------------------------------------------------------------------------

\* The invariant holds of every state of the tab.
THEOREM EscalationInvariant == Spec => []EscalationInv
<1>1. EscalationInv /\ [Next]_vars => EscalationInv'
  BY NextTypes, TabKeepsBridgeInv, DialogStep, MeteredStep, OpensStep, BudgetStep
  DEF EscalationInv
<1> QED
  BY <1>1, InitEscalationInv, PTL DEF Spec

\* The tab's state stays within its types.
THEOREM TabTypeCorrect == Spec => []TypeOK
<1>1. EscalationInv => TypeOK
  BY DEF EscalationInv
<1> QED
  BY <1>1, EscalationInvariant, PTL

\* Whatever the timeouts, failures and repeated requests, the commands that
\* cross to mcpssh are paid for, a window for each yes (GatedGrant's meter under
\* the one in request_escalation).
THEOREM CommandsArePaidFor == Spec => []BudgetPerYes
<1>1. EscalationInv => BudgetPerYes
  <2> SUFFICES ASSUME EscalationInv
               PROVE  BudgetPerYes
    OBVIOUS
  <2>1. /\ window \in NoWindow..Window /\ Window \in Nat /\ sent \in Nat
        /\ yeses \in Nat /\ Window * yeses \in Nat
    BY WindowAssumption DEF EscalationInv, TypeOK
  <2>2. Left \in Nat /\ (IF Underway THEN Window ELSE 0) \in Nat
    BY <2>1 DEF Left, NoWindow
  <2> QED
    BY <2>1, <2>2 DEF EscalationInv, BudgetFits, BudgetPerYes
<1> QED
  BY <1>1, EscalationInvariant, PTL

\* The transport is opened at most once for each yes: no request lives off the
\* answer to another (request_approval's clear).
THEOREM OpensArePaidFor == Spec => []OpenPerYes
<1>1. EscalationInv => OpenPerYes
  BY DEF EscalationInv, OpensFit, OpenPerYes, TypeOK, B!TypeOK
<1> QED
  BY <1>1, EscalationInvariant, PTL

\* The gate's open tier always has a window under it (_approve's order).
THEOREM LiveTierIsMetered == Spec => []GrantIsMetered
<1>1. EscalationInv => GrantIsMetered
  BY DEF EscalationInv
<1> QED
  BY <1>1, EscalationInvariant, PTL

\* Tier 2 opens only over a session that was published: an error of the bridge,
\* a failed or a timed-out open, denies (_approve's ensure_open).
THEOREM NothingGrantedOnNothing == Spec => GrantNotAgainstNothing
<1>1. EscalationInv /\ [Next]_vars =>
        ((Live \in opened' /\ Live \notin opened) =>
            published /\ (session \/ err \/ B!Closing))
  <2> SUFFICES ASSUME EscalationInv, [Next]_vars, Live \in opened', Live \notin opened
               PROVE  published /\ (session \/ err \/ B!Closing)
    OBVIOUS
  <2>1. OpenGrants
    BY CountedSteps, CallLiveDoes, RequestDoes, ShowDoes, AnswerDoes, EndDoes, OpensDoes
    DEF counted
  <2>2. opener = "opened"
    BY <2>1, GrantsDoes
  <2> QED
    BY <2>2 DEF EscalationInv, BP!BridgeInv, BP!OutcomeFits, BP!EndFits, BP!Closing,
                B!Closing
<1> QED
  BY <1>1, EscalationInvariant, PTL DEF Spec, GrantNotAgainstNothing

---------------------------------------------------------------------------
(***************************************************************************)
(* The tab implements its parts and its promise, step by step.             *)
(***************************************************************************)
\* The yes under way is the abstract one's: it is given on an answer, used at
\* the opening, and gone with the call.
LEMMA AccessStep == TypeOK /\ DialogFits /\ GrantIsMetered /\ Floor \in opened /\ [Next]_vars
                      => [Access!Next]_(Access!vars)
<1> SUFFICES ASSUME TypeOK, DialogFits, GrantIsMetered, Floor \in opened, [Next]_vars
             PROVE  [Access!Next]_(Access!vars)
  OBVIOUS
<1> USE DEF Word, Access!vars
<1>1. CASE UNCHANGED counted
  BY <1>1 DEF counted
<1>2. CASE CallLive
  <2>1. Live \in opened
    BY <1>2 DEF CallLive
  <2> QED
    BY <1>2, <2>1, CallLiveDoes DEF Access!Next, Access!Send, Access!Spent, NoWindow
<1>3. CASE Request \/ ShowDialog
  BY <1>3, RequestDoes, ShowDoes DEF DialogFits
<1>4. CASE AnswerDialog
  BY <1>4, AnswerDoes DEF DialogFits, Access!Next, Access!SayYes
<1>5. CASE LiveReturns \/ ApproveDenied
  BY <1>5, EndDoes
<1>6. CASE OpenDenied
  BY <1>6, EndDoes DEF Access!Next, Access!Refuse
<1>7. CASE ApproveOpens
  BY <1>7, OpensDoes DEF Access!Next, Access!OpenTransport
<1>8. CASE OpenGrants
  <2>1. Live \in opened'
    BY <1>8 DEF OpenGrants, Boundary!Open, Boundary!Levels, Live, Floor
  <2>2. Access!Spent <=> Ungated
    BY DEF Access!Spent, Ungated, NoWindow
  <2> QED
    BY <1>8, <2>1, <2>2, GrantsDoes DEF Access!Next, Access!Grant
<1> QED
  BY <1>1, <1>2, <1>3, <1>4, <1>5, <1>6, <1>7, <1>8, CountedSteps

\* The floor is open from the start, and nothing that is open is closed.
LEMMA FloorStaysOpen == Spec => [](Floor \in opened)
<1>1. Init => Floor \in opened
  BY DEF Init, Boundary!Init, Floor
<1>2. Floor \in opened /\ [Next]_vars => (Floor \in opened)'
  BY StepBoundary DEF gateVars, Boundary!Reach, Boundary!Ask, Boundary!Decline, Boundary!Open
<1> QED
  BY <1>1, <1>2, PTL DEF Spec

\* Live access is metered as promised: a yes is used once, a window belongs to
\* one yes, every command to a window (_approve, GatedGrant.request).
THEOREM TabKeepsMeter == Spec => KeepsMeter
<1>1. Init => Access!Init
  BY DEF Init, B!Init, Boundary!Init, Access!Init, Word, NoWindow, Live
<1>2. EscalationInv /\ Floor \in opened /\ [Next]_vars => [Access!Next]_(Access!vars)
  BY AccessStep DEF EscalationInv
<1> QED
  BY <1>1, <1>2, EscalationInvariant, FloorStaysOpen, PTL DEF Spec, KeepsMeter, Access!Spec

\* Composing the parts breaks none of them: the tab's access is what the gate
\* promises of it, and its bridge is the bridge, whose one thread of loop C and
\* whose one session are the tab's.
THEOREM TabIsOfItsParts ==
  Spec => Boundary!Spec /\ BP!Init /\ [][BP!Next]_(BP!vars) /\ []BP!OneSessionEver
<1>1. Init => Boundary!Init /\ BP!Init
  BY DEF Init, B!Init, BP!Init
<1>2. [Next]_vars => [Boundary!Next]_(Boundary!vars)
  BY StepBoundary DEF Boundary!Next, Boundary!vars, gateVars
<1>3. EscalationInv => BP!OneSessionEver
  BY DEF EscalationInv, BP!BridgeInv, BP!StartsFit, BP!OneSessionEver
<1> QED
  BY <1>1, <1>2, <1>3, TabMovesBridge, EscalationInvariant, PTL DEF Spec, Boundary!Spec

---------------------------------------------------------------------------
(***************************************************************************)
(* A turn goes forward.                                                    *)
(***************************************************************************)
\* A call inside the gate is awaited by the worker.
Awaited == step # "none" => worker = "calls"

LEMMA CallsAreAwaited == Spec => []Awaited
<1>1. Init => Awaited
  BY DEF Init, Awaited
<1>2. Awaited /\ [Next]_vars => Awaited'
  <2> SUFFICES ASSUME Awaited, [Next]_vars
               PROVE  Awaited'
    OBVIOUS
  <2> USE DEF Awaited, turnVars
  <2>1. CASE Submit \/ CloseTab \/ AnswerDialog \/ ShowDialog \/ TabRemoved \/ StopReturns
    BY <2>1 DEF Submit, CloseTab, AnswerDialog, ShowDialog, TabRemoved, StopReturns
  <2>2. CASE TakePrompt \/ TakeSentinel \/ ReplyEndsTurn \/ ReplyCalls \/ NextRound
    BY <2>2 DEF TakePrompt, TakeSentinel, ReplyEndsTurn, ReplyCalls, NextRound, ReplyServed,
                TurnOver
  <2>3. CASE \/ DispatchRaises \/ CallRefused \/ CallFloor \/ CallLiveClosed \/ CallLive
             \/ RequestAtTop \/ Request
    BY <2>3 DEF DispatchRaises, CallRefused, CallFloor, CallLiveClosed, CallLive,
                RequestAtTop, Request, Dispatch, Dispatching
  <2>4. CASE LiveReturns \/ ApproveDenied \/ ApproveOpens \/ OpenDenied \/ OpenGrants
    BY <2>4 DEF LiveReturns, ApproveDenied, ApproveOpens, OpenDenied, OpenGrants
  <2>5. CASE PoolOpenStep \/ PoolCallStep \/ CloseStep \/ LoopStep \/ TransportDies
    BY <2>5 DEF PoolOpenStep, PoolCallStep, CloseStep, LoopStep, TransportDies, Rest
  <2>6. CASE UNCHANGED vars
    BY <2>6 DEF vars
  <2> QED
    BY <2>1, <2>2, <2>3, <2>4, <2>5, <2>6 DEF Next, WorkerStep, PoolStep, CloseTabStep
<1> QED
  BY <1>1, <1>2, PTL DEF Spec

\* A sum of which one part grows, or several, and none shrinks.
LEMMA SumGrows ==
  ASSUME NEW a \in Int, NEW b \in Int, NEW c \in Int, NEW d \in Int,
         NEW e \in Int, NEW f \in Int, NEW g \in Int, NEW h \in Int,
         e >= a, f >= b, g >= c, h >= d, e > a \/ f > b \/ g > c \/ h > d
  PROVE  e + f + g + h > a + b + c + d
OBVIOUS

LEMMA ShortSumGrows ==
  ASSUME NEW a \in Int, NEW b \in Int, NEW c \in Int,
         NEW e \in Int, NEW f \in Int, NEW g \in Int,
         e >= a, f >= b, g >= c, e > a \/ f > b \/ g > c
  PROVE  e + f + g > a + b + c
OBVIOUS

\* Inside their calls, and loop C by itself, the bridge's threads go on.
LEMMA BridgeGoesOn ==
  ASSUME B!TypeOK, BP!StartsFit,
         \/ B!OpenStarts \/ B!WaitEnds
         \/ B!CallSchedules \/ B!CallAnswered \/ B!CallTimesOut
         \/ B!CloseBegins \/ B!Close \/ B!LoopSteps \/ B!HoldBreaks
  PROVE  B!Far' > B!Far
<1>0. /\ B!ThreadPlace \in Int /\ B!OpenerPlace \in Int
      /\ B!CallerPlace \in Int /\ B!CloserPlace \in Int
  BY DEF B!ThreadPlace, B!OpenerPlace, B!CallerPlace, B!CloserPlace
<1>00. /\ B!ThreadPlace' \in Int /\ B!OpenerPlace' \in Int
       /\ B!CallerPlace' \in Int /\ B!CloserPlace' \in Int
  BY DEF B!ThreadPlace, B!OpenerPlace, B!CallerPlace, B!CloserPlace
<1>1. CASE B!OpenStarts
  <2>1. /\ B!ThreadPlace' = 2 /\ B!OpenerPlace' = 1 /\ B!OpenerPlace = 0
        /\ B!CallerPlace' = B!CallerPlace /\ B!CloserPlace' = B!CloserPlace
    BY <1>1 DEF B!OpenStarts, B!ThreadPlace, B!OpenerPlace, B!CallerPlace, B!CloserPlace
  <2>2. B!ThreadPlace = 1
    BY <1>1 DEF B!OpenStarts, BP!StartsFit, B!ThreadPlace
  <2> QED BY <1>0, <2>1, <2>2 DEF B!Far
<1>2. CASE B!WaitEnds
  <2>1. /\ B!OpenerPlace = 1 /\ B!OpenerPlace' = 2 /\ B!ThreadPlace' = B!ThreadPlace
        /\ B!CallerPlace' = B!CallerPlace /\ B!CloserPlace' = B!CloserPlace
    BY <1>2 DEF B!WaitEnds, B!Settle, B!loopVars, B!ThreadPlace, B!OpenerPlace, B!CallerPlace,
                B!CloserPlace
  <2> QED BY <1>0, <2>1 DEF B!Far
<1>3. CASE B!CallSchedules \/ B!CallAnswered \/ B!CallTimesOut
  <2>1. /\ B!CallerPlace' > B!CallerPlace /\ B!OpenerPlace' = B!OpenerPlace
        /\ B!ThreadPlace' = B!ThreadPlace /\ B!CloserPlace' = B!CloserPlace
    BY <1>3 DEF B!CallSchedules, B!CallAnswered, B!CallTimesOut, B!CallerGoes, B!loopVars,
                B!ThreadPlace, B!OpenerPlace, B!CallerPlace, B!CloserPlace
  <2>2. /\ B!ThreadPlace' >= B!ThreadPlace /\ B!OpenerPlace' >= B!OpenerPlace
        /\ B!CallerPlace' >= B!CallerPlace /\ B!CloserPlace' >= B!CloserPlace
    BY <1>0, <1>00, <2>1
  <2> QED BY <1>0, <1>00, <2>1, <2>2, SumGrows, Zenon DEF B!Far
<1>4. CASE B!CloseBegins \/ B!Close
  <2>1. /\ B!CloserPlace' > B!CloserPlace /\ B!OpenerPlace' = B!OpenerPlace
        /\ B!ThreadPlace' = B!ThreadPlace /\ B!CallerPlace' = B!CallerPlace
    BY <1>4 DEF B!CloseBegins, B!Close, B!CloseSignals, B!CloseJoins, B!CloseReturns,
                B!CloserGoes, B!loopVars,
                B!ThreadPlace, B!OpenerPlace, B!CallerPlace, B!CloserPlace
  <2>2. /\ B!ThreadPlace' >= B!ThreadPlace /\ B!OpenerPlace' >= B!OpenerPlace
        /\ B!CallerPlace' >= B!CallerPlace /\ B!CloserPlace' >= B!CloserPlace
    BY <1>0, <1>00, <2>1
  <2> QED BY <1>0, <1>00, <2>1, <2>2, SumGrows, Zenon DEF B!Far
<1>5. CASE B!LoopSteps \/ B!HoldBreaks
  <2>1. /\ B!ThreadPlace' > B!ThreadPlace /\ B!OpenerPlace' = B!OpenerPlace
        /\ B!CloserPlace' = B!CloserPlace /\ B!CallerPlace' = B!CallerPlace
    BY <1>5 DEF B!LoopSteps, B!LoopPublished, B!CloseEvtPublished, B!HoldOpens, B!HoldFails,
                B!HoldEnds, B!HoldBreaks, B!HoldUnwinds, B!LoopCloses, B!Publishes, B!LoopGoes,
                B!ThreadPlace, B!OpenerPlace, B!CallerPlace, B!CloserPlace
  <2>2. /\ B!ThreadPlace' >= B!ThreadPlace /\ B!OpenerPlace' >= B!OpenerPlace
        /\ B!CallerPlace' >= B!CallerPlace /\ B!CloserPlace' >= B!CloserPlace
    BY <1>0, <1>00, <2>1
  <2> QED BY <1>0, <1>00, <2>1, <2>2, SumGrows, Zenon DEF B!Far
<1> QED
  BY <1>1, <1>2, <1>3, <1>4, <1>5

\* A step of the turn itself: a later round, or further in the reply.
TurnGoes == rounds' > rounds \/ (rounds' = rounds /\ Served' > Served)

\* What the worker and the pool thread do to the turn.
LEMMA TurnGoesOn ==
  ASSUME TypeOK, TypeOK', Awaited, InTurn, InTurn',
         \/ WorkerStep
         \/ LiveReturns \/ ApproveDenied \/ ApproveOpens \/ OpenDenied \/ OpenGrants
  PROVE  TurnGoes
<1> USE DEF InTurn, Served, TurnGoes
<1>a. /\ PerReply \in Nat /\ todo \in 0..PerReply /\ todo' \in 0..PerReply
      /\ rounds \in Nat
  BY RoundsAssumption, EscalationBounds DEF TypeOK
<1>1. CASE TakePrompt \/ TakeSentinel \/ ReplyEndsTurn \/ DispatchRaises
  BY <1>1 DEF TakePrompt, TakeSentinel, ReplyEndsTurn, DispatchRaises, TurnOver
<1>2. CASE ReplyCalls
  BY <1>a, <1>2 DEF ReplyCalls
<1>3. CASE NextRound
  BY <1>a, <1>3 DEF NextRound, TurnOver
<1>4. CASE CallRefused \/ CallFloor \/ CallLiveClosed \/ CallLive \/ RequestAtTop \/ Request
  <2>1. /\ worker = "calls" /\ worker' = "calls" /\ rounds' = rounds
        /\ todo > 0 /\ todo' = todo - 1 /\ step = "none"
    BY <1>4 DEF CallRefused, CallFloor, CallLiveClosed, CallLive, RequestAtTop, Request,
                Dispatch, Dispatching
  <2>2. Served = 3 * (PerReply - todo) + 3
    BY <2>1
  <2>3. Served' >= 3 * (PerReply - todo') + 1
    BY <1>a, <2>1
  <2> QED
    BY <1>a, <2>1, <2>2, <2>3
<1>5. CASE LiveReturns \/ ApproveDenied \/ ApproveOpens \/ OpenDenied \/ OpenGrants
  <2>1. /\ worker = "calls" /\ UNCHANGED turnVars
        /\ \/ step \in {"live", "approver", "opening"} /\ step' = "none"
           \/ step = "approver" /\ step' = "opening"
    BY <1>5 DEF LiveReturns, ApproveDenied, ApproveOpens, OpenDenied, OpenGrants, Awaited
  <2> QED
    BY <1>a, <2>1 DEF turnVars
<1> QED
  BY <1>1, <1>2, <1>3, <1>4, <1>5 DEF WorkerStep

\* However the gate, the bridge and the operator answer, a turn takes at most so
\* many steps: the argument behind TurnEnds (_turn's cap of its rounds).
THEOREM TurnsGoForward == Spec => TurnAdvances
<1> DEFINE Moves == \/ TurnGoes
                    \/ rounds' = rounds /\ Served' = Served /\ Meanwhile' > Meanwhile
<1>1. TypeOK /\ TypeOK' /\ BP!StartsFit /\ Awaited /\ [Next]_vars
        => [InTurn /\ InTurn' => Moves]_vars
  <2> SUFFICES ASSUME TypeOK, TypeOK', BP!StartsFit, Awaited, Next, InTurn, InTurn'
               PROVE  Moves
    OBVIOUS
  <2>a. B!TypeOK
    BY DEF TypeOK
  <2>b. /\ B!Far \in Int /\ DialogPlace \in Int /\ GuiPlace \in Int
        /\ B!Far' \in Int /\ DialogPlace' \in Int /\ GuiPlace' \in Int
    BY DEF B!Far, B!ThreadPlace, B!OpenerPlace, B!CallerPlace, B!CloserPlace, DialogPlace,
           GuiPlace
  <2>1. CASE \/ WorkerStep \/ LiveReturns \/ ApproveDenied \/ ApproveOpens \/ OpenDenied
             \/ OpenGrants
    BY <2>1, TurnGoesOn
  <2>2. ASSUME UNCHANGED <<worker, rounds, todo, step>>,
               DialogPlace' >= DialogPlace, GuiPlace' >= GuiPlace, B!Far' >= B!Far,
               DialogPlace' > DialogPlace \/ GuiPlace' > GuiPlace \/ B!Far' > B!Far
        PROVE  Moves
    <3>1. Meanwhile' > Meanwhile
      BY <2>2, <2>b, ShortSumGrows, Zenon DEF Meanwhile
    <3> QED
      BY <2>2, <3>1 DEF Served
  <2>3. UNCHANGED bridgeVars => B!Far' >= B!Far
    <3>1. UNCHANGED bridgeVars => B!Far' = B!Far
      BY DEF bridgeVars, B!Far, B!ThreadPlace, B!OpenerPlace, B!CallerPlace, B!CloserPlace
    <3> QED
      BY <3>1, <2>b
  <2>4. UNCHANGED <<dialog, gui>> => DialogPlace' >= DialogPlace /\ GuiPlace' >= GuiPlace
    BY DEF DialogPlace, GuiPlace
  <2>5. CASE Submit
    BY <2>5 DEF Submit, InTurn
  <2>6. CASE ShowDialog \/ AnswerDialog
    <3>1. /\ UNCHANGED <<worker, rounds, todo, step, gui>> /\ UNCHANGED bridgeVars
          /\ \/ dialog = "queued" /\ dialog' = "shown"
             \/ dialog = "shown" /\ dialog' = "none"
      BY <2>6 DEF ShowDialog, AnswerDialog, turnVars, tabVars
    <3>2. DialogPlace' > DialogPlace /\ DialogPlace' >= DialogPlace /\ GuiPlace' >= GuiPlace
      BY <3>1 DEF DialogPlace, GuiPlace
    <3> QED
      BY <2>2, <2>3, <3>1, <3>2
  <2>7. CASE CloseTab \/ TabRemoved
    <3>1. /\ UNCHANGED <<worker, rounds, todo, step, dialog>> /\ UNCHANGED bridgeVars
          /\ \/ gui = "free" /\ gui' = "stopping"
             \/ gui = "bridge" /\ gui' \in {"closed", "aborted"}
      BY <2>7 DEF CloseTab, TabRemoved, turnVars, humanVars
    <3>2. GuiPlace' > GuiPlace /\ GuiPlace' >= GuiPlace /\ DialogPlace' >= DialogPlace
      BY <3>1 DEF DialogPlace, GuiPlace
    <3> QED
      BY <2>2, <2>3, <3>1, <3>2
  <2>8. ASSUME B!Far' > B!Far PROVE B!Far' >= B!Far
    BY <2>8, <2>b
  <2>9. CASE StopReturns
    <3>1. /\ UNCHANGED <<turnVars, step, dialog>> /\ gui = "stopping" /\ gui' = "bridge"
          /\ B!CloseBegins
      BY <2>9 DEF StopReturns, humanVars
    <3>2. B!Far' > B!Far
      BY <2>a, <3>1, BridgeGoesOn
    <3>3. DialogPlace' >= DialogPlace /\ GuiPlace' >= GuiPlace
      BY <3>1 DEF DialogPlace, GuiPlace
    <3> QED
      BY <2>2, <2>8, <3>1, <3>2, <3>3 DEF turnVars
  <2>10. CASE PoolOpenStep \/ PoolCallStep \/ CloseStep \/ LoopStep \/ TransportDies
    <3>1. UNCHANGED <<turnVars, step, dialog, gui>>
      BY <2>10 DEF PoolOpenStep, PoolCallStep, CloseStep, LoopStep, TransportDies, Rest,
                   humanVars, tabVars
    <3>2. B!Far' > B!Far
      BY <2>10, <2>a, BridgeGoesOn
      DEF PoolOpenStep, PoolCallStep, CloseStep, LoopStep, TransportDies
    <3> QED
      BY <2>2, <2>4, <2>8, <3>1, <3>2 DEF turnVars
  <2> QED
    BY <2>1, <2>5, <2>6, <2>7, <2>9, <2>10 DEF Next, PoolStep, CloseTabStep
<1>2. EscalationInv => TypeOK /\ BP!StartsFit
  BY DEF EscalationInv, BP!BridgeInv
<1> QED
  BY <1>1, <1>2, EscalationInvariant, CallsAreAwaited, PTL DEF Spec, TurnAdvances, TurnGoes
===========================================================================
