--------------------------- MODULE BridgeProofs ---------------------------
(***************************************************************************)
(* Proofs about the bridge, for any number of calls of ensure_open().      *)
(*                                                                         *)
(* The argument is that everything the three threads share is a function   *)
(* of where loop C stands, or nearly: a thread is counted from its start,  *)
(* the outcome is there from the hold on, the session only during it, and  *)
(* a loop that ended without an error was told to end by close().          *)
(***************************************************************************)
EXTENDS Bridge, TLAPS

\* A second thread is never made: one that exists is seen by ensure_open(), and
\* one that is made but not started belongs to the call that is starting it.
StartsFit ==
  /\ starts = IF thread \in {"none", "created"} THEN 0 ELSE 1
  /\ (thread = "created") <=> (opener = "start")

\* What loop C has told the others, by where it stands; an open that was
\* reported has seen the outcome, and no failure passes for one.
OutcomeFits ==
  /\ session <=> thread \in {"held", "exiting", "failing"}
  /\ ready <=> thread \in {"held", "exiting", "failing", "ended", "dead"}
  /\ err => thread \in {"ended", "dead"}
  /\ session => published
  /\ ready => published \/ err
  /\ opener = "opened" => ready /\ published

\* Loop C ends without an error only when the event is set, and only close()
\* sets it.
EndFits ==
  /\ thread = "exiting" => closeSet
  /\ thread \in {"ended", "dead"} => err \/ closeSet
  /\ closeSet => Closing

BridgeInv == TypeOK /\ StartsFit /\ OutcomeFits /\ EndFits

\* The states of the threads, and what the parts of the invariant are made of.
USE DEF ThreadStates, OpenerStates, CallerStates, CloserStates, Closing,
        OpenerInside, CallerInside, PoolFree

\* The invariant is true before the tab has done anything.
LEMMA InitBridgeInv == Init => BridgeInv
<1> SUFFICES ASSUME Init
             PROVE  BridgeInv
  OBVIOUS
<1>1. starts \in Nat /\ opens \in 0..MaxOpens
  BY OpensAssumption DEF Init
<1>2. TypeOK
  BY <1>1 DEF Init, TypeOK
<1>3. StartsFit /\ OutcomeFits /\ EndFits
  BY DEF Init, StartsFit, OutcomeFits, EndFits
<1> QED
  BY <1>2, <1>3 DEF BridgeInv

\* Types are kept by every step.
LEMMA NextTypeOK == TypeOK /\ [Next]_vars => TypeOK'
<1> SUFFICES ASSUME TypeOK, [Next]_vars
             PROVE  TypeOK'
  OBVIOUS
<1> USE OpensAssumption DEF TypeOK, loopVars
<1>1. CASE EnsureOpen
  BY <1>1 DEF EnsureOpen, OpenSettled, OpenCreates, OpenAwaits, BeginOpen, Settle
<1>2. CASE OpenStarts \/ WaitEnds
  BY <1>2 DEF OpenStarts, WaitEnds, Settle
<1>3. CASE CallTool \/ CallSchedules \/ CallAnswered \/ CallTimesOut
  BY <1>3 DEF CallTool, CallSchedules, CallAnswered, CallTimesOut, CallerGoes
<1>4. CASE CloseBegins \/ Close
  <2>1. closeSet' \in BOOLEAN
    BY <1>4 DEF CloseBegins, Close, CloseSignals, CloseJoins, CloseReturns
  <2>2. closer' \in CloserStates
    BY <1>4 DEF CloseBegins, Close, CloseSignals, CloseJoins, CloseReturns, CloserGoes
  <2>3. UNCHANGED <<loopVars, starts, opener, opens, caller>>
    BY <1>4 DEF CloseBegins, Close, CloseSignals, CloseJoins, CloseReturns, CloserGoes
  <2> QED
    BY <2>1, <2>2, <2>3
<1>5. CASE LoopSteps
  <2> USE DEF LoopGoes, Publishes
  <2>1. CASE LoopPublished \/ CloseEvtPublished \/ HoldEnds \/ LoopCloses
    BY <2>1 DEF LoopPublished, CloseEvtPublished, HoldEnds, LoopCloses
  <2>2. CASE HoldOpens
    <3>1. thread' = "held" /\ session' = TRUE /\ published' = TRUE /\ ready' = TRUE
      BY <2>2 DEF HoldOpens
    <3>2. UNCHANGED <<starts, closeSet, err, opener, opens, caller, closer>>
      BY <2>2 DEF HoldOpens
    <3> QED BY <3>1, <3>2
  <2>3. CASE HoldFails
    <3>1. thread' = "ended" /\ err' = TRUE /\ ready' = TRUE
      BY <2>3 DEF HoldFails
    <3>2. UNCHANGED <<starts, closeSet, session, published, opener, opens, caller, closer>>
      BY <2>3 DEF HoldFails
    <3> QED BY <3>1, <3>2
  <2>4. CASE HoldUnwinds
    <3>1. /\ thread' = "ended" /\ session' = FALSE /\ err' \in BOOLEAN
          /\ UNCHANGED <<starts, closeSet, ready, published, opener, opens, caller, closer>>
      BY <2>4 DEF HoldUnwinds
    <3> QED BY <3>1
  <2> QED
    BY <1>5, <2>1, <2>2, <2>3, <2>4 DEF LoopSteps
<1>6. CASE HoldBreaks
  BY <1>6 DEF HoldBreaks, Publishes, LoopGoes
<1>7. CASE UNCHANGED vars
  BY <1>7 DEF vars
<1> QED
  BY <1>1, <1>2, <1>3, <1>4, <1>5, <1>6, <1>7 DEF Next

\* The steps of ensure_open() touch nothing loop C has told; the one that makes
\* a thread finds none.
LEMMA OpenKeepsInv ==
  BridgeInv /\ (EnsureOpen \/ OpenStarts \/ WaitEnds) => (StartsFit /\ OutcomeFits /\ EndFits)'
<1> SUFFICES ASSUME BridgeInv, EnsureOpen \/ OpenStarts \/ WaitEnds
             PROVE  (StartsFit /\ OutcomeFits /\ EndFits)'
  OBVIOUS
<1> USE DEF BridgeInv, TypeOK, StartsFit, OutcomeFits, EndFits
<1>1. CASE OpenSettled
  BY <1>1 DEF OpenSettled, BeginOpen, Settle
<1>2. CASE OpenCreates
  BY <1>2 DEF OpenCreates, BeginOpen
<1>3. CASE OpenAwaits
  BY <1>3 DEF OpenAwaits, BeginOpen
<1>4. CASE OpenStarts
  BY <1>4 DEF OpenStarts
<1>5. CASE WaitEnds
  BY <1>5 DEF WaitEnds, Settle, loopVars
<1> QED
  BY <1>1, <1>2, <1>3, <1>4, <1>5 DEF EnsureOpen

\* Loop C's own steps keep what the others may rely on.
LEMMA LoopKeepsInv ==
  BridgeInv /\ (LoopSteps \/ HoldBreaks) => (StartsFit /\ OutcomeFits /\ EndFits)'
<1> SUFFICES ASSUME BridgeInv, LoopSteps \/ HoldBreaks
             PROVE  (StartsFit /\ OutcomeFits /\ EndFits)'
  OBVIOUS
<1> USE DEF BridgeInv, TypeOK, StartsFit, OutcomeFits, EndFits, LoopGoes, Publishes
<1>1. CASE LoopPublished \/ CloseEvtPublished
  BY <1>1 DEF LoopPublished, CloseEvtPublished
<1>2. CASE HoldOpens \/ HoldFails
  BY <1>2 DEF HoldOpens, HoldFails
<1>3. CASE HoldEnds \/ HoldBreaks
  BY <1>3 DEF HoldEnds, HoldBreaks
<1>4. CASE HoldUnwinds
  BY <1>4 DEF HoldUnwinds
<1>5. CASE LoopCloses
  BY <1>5 DEF LoopCloses
<1> QED
  BY <1>1, <1>2, <1>3, <1>4, <1>5 DEF LoopSteps

\* Calls read, and close() does no more than set the event.
LEMMA CallAndCloseKeepInv ==
  /\ BridgeInv
  /\ CallTool \/ CallSchedules \/ CallAnswered \/ CallTimesOut \/ CloseBegins \/ Close
  => (StartsFit /\ OutcomeFits /\ EndFits)'
<1> SUFFICES ASSUME BridgeInv,
                    CallTool \/ CallSchedules \/ CallAnswered \/ CallTimesOut
                      \/ CloseBegins \/ Close
             PROVE  (StartsFit /\ OutcomeFits /\ EndFits)'
  OBVIOUS
<1> USE DEF BridgeInv, TypeOK, StartsFit, OutcomeFits, EndFits, loopVars
<1>1. CASE CallTool \/ CallSchedules \/ CallAnswered \/ CallTimesOut
  BY <1>1 DEF CallTool, CallSchedules, CallAnswered, CallTimesOut, CallerGoes
<1>2. CASE CloseBegins
  BY <1>2 DEF CloseBegins, CloserGoes
<1>3. CASE CloseSignals
  BY <1>3 DEF CloseSignals, CloserGoes, Signalable, LoopClosed
<1>4. CASE CloseJoins \/ CloseReturns
  BY <1>4 DEF CloseJoins, CloseReturns, CloserGoes
<1> QED
  BY <1>1, <1>2, <1>3, <1>4 DEF Close

\* Every step keeps the invariant.
LEMMA NextBridgeInv == BridgeInv /\ [Next]_vars => BridgeInv'
<1> SUFFICES ASSUME BridgeInv, [Next]_vars
             PROVE  BridgeInv'
  OBVIOUS
<1>1. TypeOK'
  BY NextTypeOK DEF BridgeInv
<1>2. CASE UNCHANGED vars
  BY <1>1, <1>2 DEF vars, BridgeInv, StartsFit, OutcomeFits, EndFits
<1> QED
  BY <1>1, <1>2, OpenKeepsInv, LoopKeepsInv, CallAndCloseKeepInv DEF Next, BridgeInv

\* The invariant holds of every state the bridge reaches.
THEOREM BridgeInvariant == Spec => []BridgeInv
BY InitBridgeInv, NextBridgeInv, PTL DEF Spec

\* The bridge's state stays within its types.
THEOREM BridgeTypeCorrect == Spec => []TypeOK
<1>1. BridgeInv => TypeOK
  BY DEF BridgeInv
<1> QED
  BY <1>1, BridgeInvariant, PTL

\* However many opens time out and are tried again, at most one session thread
\* is ever started (ensure_open's test of _thread).
THEOREM OneSession == Spec => []OneSessionEver
<1>1. BridgeInv => OneSessionEver
  BY DEF BridgeInv, StartsFit, OneSessionEver
<1> QED
  BY <1>1, BridgeInvariant, PTL

\* ensure_open() reports an open only with the session there, or with the tab
\* closing: an error recorded by _hold always raises.
THEOREM OpenIsReal == Spec => OpenMeansSession
<1>1. BridgeInv /\ [Next]_vars =>
        (opener # "opened" /\ opener' = "opened" => session' \/ Closing)
  <2> SUFFICES ASSUME BridgeInv, [Next]_vars, opener # "opened", opener' = "opened"
               PROVE  session' \/ Closing
    OBVIOUS
  <2> USE DEF BridgeInv, TypeOK, OutcomeFits, EndFits
  <2>1. CASE OpenSettled
    BY <2>1 DEF OpenSettled, BeginOpen, Settle
  <2>2. CASE WaitEnds
    BY <2>2 DEF WaitEnds, Settle, loopVars
  <2>3. CASE OpenCreates \/ OpenAwaits \/ OpenStarts
    BY <2>3 DEF OpenCreates, OpenAwaits, OpenStarts
  <2>4. CASE CallTool \/ CallSchedules \/ CallAnswered \/ CallTimesOut
    BY <2>4 DEF CallTool, CallSchedules, CallAnswered, CallTimesOut, CallerGoes
  <2>5. CASE CloseBegins \/ Close
    BY <2>5 DEF CloseBegins, Close, CloseSignals, CloseJoins, CloseReturns, CloserGoes
  <2>6. CASE LoopSteps \/ HoldBreaks
    BY <2>6 DEF LoopSteps, HoldBreaks, LoopPublished, CloseEvtPublished, HoldOpens,
                HoldFails, HoldEnds, HoldUnwinds, LoopCloses, Publishes, LoopGoes
  <2>7. CASE UNCHANGED vars
    BY <2>7 DEF vars
  <2> QED
    BY <2>1, <2>2, <2>3, <2>4, <2>5, <2>6, <2>7 DEF Next, EnsureOpen
<1> QED
  BY <1>1, BridgeInvariant, PTL DEF Spec, OpenMeansSession
===========================================================================
