------------------------------- MODULE Gate -------------------------------
(***************************************************************************)
(* The capability gate of one investigation: class GateSession of          *)
(* src/uf/host/routing.py.  Every tool call of the model goes through      *)
(* invoke(); a tier above the floor is withheld until the injected         *)
(* approver (a human) grants it; a cap bounds the calls; one audit trail   *)
(* records everything.                                                     *)
(*                                                                         *)
(* The gate compares tier levels only for order and equality, so a level   *)
(* is modelled by its rank 1..Top among the distinct levels of the sorted  *)
(* tier list.  invoke() runs on one thread at a time (the host awaits each *)
(* call), but it blocks in two places, the approver and the tool, so those *)
(* two are steps of their own and `call' says where the call stands.       *)
(***************************************************************************)
EXTENDS Integers, Sequences, FiniteSets

CONSTANTS
  Top,         \* number of tiers of the gradient
  Tools,       \* names of the tools of all tiers
  TierOf,      \* the tier that owns a tool
  Unknown,     \* a name no tier owns
  Door,        \* REQUEST_ESCALATION, the reserved name
  Cap,         \* the iteration cap of the investigation (12 in the cockpit)
  MaxCalls     \* bound of the model: the calls one investigation makes

ASSUME TopAssumption  == Top \in Nat \ {0}
ASSUME ToolAssumption == TierOf \in [Tools -> 1..Top]
ASSUME NameAssumption == Unknown \notin Tools /\ Door \notin Tools /\ Door # Unknown
ASSUME CapAssumption  == Cap \in Nat
ASSUME BoundAssumption == MaxCalls \in Nat

Levels == 1..Top
Floor  == 1
NoTier == 0
Names  == Tools \cup {Unknown, Door}

VARIABLES
  approver,    \* is a human attached (approver is not None)
  granted,     \* _granted: the levels the model may reach
  iters,       \* _iters, which is also the number of the call (_cor)
  audit,       \* _audit: the trail; an event's seq is its index
  closed,      \* _closed
  call         \* where invoke() stands: its phase and the tier it is about

vars == <<approver, granted, iters, audit, closed, call>>

Idle       == [phase |-> "idle", tier |-> NoTier]
Asking(l)  == [phase |-> "asking", tier |-> l]
Running(l) == [phase |-> "running", tier |-> l]

Kinds == {"advertise", "cap_exceeded", "refusal", "invoke", "result", "error",
          "escalation_request", "escalation_denied", "escalation_grant", "final"}

Event(kind, tier, cid) == [kind |-> kind, tier |-> tier, cid |-> cid]
Events == [kind : Kinds, tier : 0..Top, cid : Nat]

(***************************************************************************)
(* Queries.                                                                *)
(***************************************************************************)
NextTierHighest ==
  LET withheld == Levels \ granted
  IN  IF withheld = {} THEN NoTier
      ELSE CHOOSE l \in withheld : \A m \in withheld : l >= m

\* _next_tier: the lowest tier not granted, or none.
NextTier ==
  LET withheld == Levels \ granted
  IN  IF withheld = {} THEN NoTier
      ELSE CHOOSE l \in withheld : \A m \in withheld : l <= m

CanInvokeIndexed(t) == t \in Tools

\* can_invoke, for the tools of a tier (the door always opens).
CanInvoke(t) == t \in Tools /\ TierOf[t] \in granted

\* visible_tool_names: what the model is shown this turn.
Visible == {t \in Tools : TierOf[t] \in granted} \cup {Door}

CapReachedLate == iters > Cap

\* The call about to be counted exceeds the cap.
CapReached == iters + 1 > Cap

(***************************************************************************)
(* Opening the session: __init__.                                          *)
(***************************************************************************)
Init ==
  /\ approver \in BOOLEAN
  /\ granted = {Floor}
  /\ iters = 0
  /\ audit = <<Event("advertise", Floor, 0)>>
  /\ closed = FALSE
  /\ call = Idle

(***************************************************************************)
(* invoke(): the cap, the door, the index and the granted set are          *)
(* consulted in this order, and the tool runs only past all of them.       *)
(***************************************************************************)
Log(kind, tier) == audit' = Append(audit, Event(kind, tier, iters'))

LogBoth(kind1, tier1, kind2, tier2) ==
  audit' = Append(Append(audit, Event(kind1, tier1, iters')),
                  Event(kind2, tier2, iters'))

BeginCall ==
  /\ call = Idle
  /\ iters < MaxCalls
  /\ iters' = iters + 1

InvokeOverCap ==
  /\ BeginCall
  /\ CapReached
  /\ Log("cap_exceeded", NoTier)
  /\ UNCHANGED <<approver, granted, closed, call>>

InvokeUnknown(t) ==
  /\ BeginCall
  /\ ~CapReached
  /\ t \notin Tools \cup {Door}
  /\ Log("refusal", NoTier)
  /\ UNCHANGED <<approver, granted, closed, call>>

InvokeWithheld(t) ==
  /\ BeginCall
  /\ ~CapReached
  /\ t \in Tools
  /\ ~CanInvoke(t)
  /\ Log("refusal", TierOf[t])
  /\ UNCHANGED <<approver, granted, closed, call>>

InvokeGranted(t) ==
  /\ BeginCall
  /\ ~CapReached
  /\ CanInvoke(t)
  /\ Log("invoke", TierOf[t])
  /\ call' = Running(TierOf[t])
  /\ UNCHANGED <<approver, granted, closed>>

ToolReturns ==
  /\ call.phase = "running"
  /\ audit' = Append(audit, Event("result", call.tier, iters))
  /\ call' = Idle
  /\ UNCHANGED <<approver, granted, iters, closed>>

ToolRaisesUnlogged ==
  /\ call.phase = "running"
  /\ call' = Idle
  /\ UNCHANGED <<approver, granted, iters, audit, closed>>

\* A raising tool is an error of its own, not a refusal.
ToolRaises ==
  /\ call.phase = "running"
  /\ audit' = Append(audit, Event("error", call.tier, iters))
  /\ call' = Idle
  /\ UNCHANGED <<approver, granted, iters, closed>>

(***************************************************************************)
(* _escalate(): request, then the approver, then the grant.                *)
(***************************************************************************)
BeginEscalation ==
  /\ BeginCall
  /\ ~CapReached

EscalateAtTop ==
  /\ BeginEscalation
  /\ NextTier = NoTier
  /\ LogBoth("escalation_request", NoTier, "escalation_denied", NoTier)
  /\ UNCHANGED <<approver, granted, closed, call>>

EscalateUnattendedOpen ==
  /\ BeginEscalation
  /\ NextTier # NoTier
  /\ ~approver
  /\ granted' = granted \cup {NextTier}
  /\ LogBoth("escalation_request", NoTier, "escalation_grant", NextTier)
  /\ UNCHANGED <<approver, closed, call>>

\* Fail-closed: with no approver nobody can say yes.
EscalateUnattended ==
  /\ BeginEscalation
  /\ NextTier # NoTier
  /\ ~approver
  /\ LogBoth("escalation_request", NoTier, "escalation_denied", NextTier)
  /\ UNCHANGED <<approver, granted, closed, call>>

EscalateToHumanUnlogged ==
  /\ BeginEscalation
  /\ NextTier # NoTier
  /\ approver
  /\ call' = Asking(NextTier)
  /\ UNCHANGED <<approver, granted, audit, closed>>

\* The tier asked for is fixed before the approver blocks.
EscalateToHuman ==
  /\ BeginEscalation
  /\ NextTier # NoTier
  /\ approver
  /\ Log("escalation_request", NoTier)
  /\ call' = Asking(NextTier)
  /\ UNCHANGED <<approver, granted, closed>>

Escalate == EscalateAtTop \/ EscalateUnattended \/ EscalateToHuman

ApproverDenies ==
  /\ call.phase = "asking"
  /\ audit' = Append(audit, Event("escalation_denied", call.tier, iters))
  /\ call' = Idle
  /\ UNCHANGED <<approver, granted, iters, closed>>

ApproverGrantsUnlogged ==
  /\ call.phase = "asking"
  /\ granted' = granted \cup {call.tier}
  /\ call' = Idle
  /\ UNCHANGED <<approver, iters, audit, closed>>

ApproverGrants ==
  /\ call.phase = "asking"
  /\ granted' = granted \cup {call.tier}
  /\ audit' = Append(audit, Event("escalation_grant", call.tier, iters))
  /\ call' = Idle
  /\ UNCHANGED <<approver, iters, closed>>

\* Nothing catches an exception of the approver: it leaves invoke().
ApproverRaises ==
  /\ call.phase = "asking"
  /\ call' = Idle
  /\ UNCHANGED <<approver, granted, iters, audit, closed>>

(***************************************************************************)
(* finish(): called at most once by a host.                                *)
(***************************************************************************)
Finish ==
  /\ call = Idle
  /\ ~closed
  /\ closed' = TRUE
  /\ audit' = Append(audit, Event("final", NoTier, 0))
  /\ UNCHANGED <<approver, granted, iters, call>>

Invoke(t) ==
  \/ InvokeOverCap
  \/ InvokeUnknown(t)
  \/ InvokeWithheld(t)
  \/ InvokeGranted(t)
  \/ t = Door /\ Escalate

Next ==
  \/ \E t \in Names : Invoke(t)
  \/ ToolReturns
  \/ ToolRaises
  \/ ApproverDenies
  \/ ApproverGrants
  \/ ApproverRaises
  \/ Finish

Spec == Init /\ [][Next]_vars

(***************************************************************************)
(* Properties.                                                             *)
(***************************************************************************)
TypeOK ==
  /\ approver \in BOOLEAN
  /\ granted \in SUBSET Levels
  /\ iters \in Nat
  /\ audit \in Seq(Events)
  /\ closed \in BOOLEAN
  /\ call \in [phase : {"idle", "asking", "running"}, tier : 0..Top]

EventsOf(kinds) == {i \in DOMAIN audit : audit[i].kind \in kinds}

\* The granted tiers are always an unbroken stretch of the gradient from the
\* floor: however the calls, denials and failures of the approver fall, no tier
\* is opened over the head of a lower one (_next_tier, _granted).
GradientClimbed ==
  \A l \in granted : \A m \in Levels : m < l => m \in granted

\* The trail alone tells what the model may reach: the tiers above the floor
\* are exactly those a grant event names ("the escalation decision and the trail
\* are the same artifact", _escalate).
TrailAccountsForAccess ==
  granted = {Floor} \cup {audit[i].tier : i \in EventsOf({"escalation_grant"})}

\* A tool of a tier above the floor is dispatched only after the grant of that
\* tier stands in the trail: the invoke event has an earlier grant (invoke's
\* "the tier's callable runs ONLY past this line").
DispatchEarned ==
  \A i \in EventsOf({"invoke"}) :
    \/ audit[i].tier = Floor
    \/ \E j \in EventsOf({"escalation_grant"}) :
         j < i /\ audit[j].tier = audit[i].tier

\* A grant answers a question: the request with the grant's correlation id
\* stands before it in the trail, and no other grant has that id, so one
\* question buys at most one tier.
GrantAnswersRequest ==
  \A i \in EventsOf({"escalation_grant"}) :
    /\ \E j \in EventsOf({"escalation_request"}) :
         j < i /\ audit[j].cid = audit[i].cid
    /\ \A j \in EventsOf({"escalation_grant"}) :
         audit[j].cid = audit[i].cid => j = i

\* The cap is a backstop for the whole investigation: every tool run and every
\* question put to the human belongs to one of the first Cap calls, one per call.
RunawayBackstop ==
  \A i \in EventsOf({"invoke", "escalation_request"}) :
    /\ audit[i].cid <= Cap
    /\ \A j \in EventsOf({"invoke", "escalation_request"}) :
         audit[j].cid = audit[i].cid => j = i

\* A dispatched tool is never left open in the trail: unless it is still
\* running, its invoke event is followed by exactly one result or error of the
\* same correlation id (the two ends of invoke's try).
DispatchAnswered ==
  \A i \in EventsOf({"invoke"}) :
    \/ call.phase = "running" /\ audit[i].cid = iters
    \/ \E j \in EventsOf({"result", "error"}) :
         /\ j > i /\ audit[j].cid = audit[i].cid
         /\ \A k \in EventsOf({"result", "error"}) :
              audit[k].cid = audit[i].cid => k = j

\* The gate keeps the promise of TrustBoundary: what its trail says was
\* dispatched is what the boundary says was reached, and only a human's answer
\* moves the boundary, one tier at a time.
Dispatched == {audit[i].tier : i \in EventsOf({"invoke"})}

Boundary ==
  INSTANCE TrustBoundary WITH
    opened <- granted, asked <- (call.phase = "asking"), reached <- Dispatched

KeepsBoundary == Boundary!Spec
=============================================================================
