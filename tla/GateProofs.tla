---------------------------- MODULE GateProofs ----------------------------
(***************************************************************************)
(* Proofs about the gate, for any gradient, tool set, cap and number of    *)
(* calls.  The argument is one inductive invariant, GateInv: the granted   *)
(* tiers are 1..n; an unfinished call is the last event of the trail and   *)
(* the only one with its number; and the trail properties themselves.      *)
(***************************************************************************)
EXTENDS Gate, TLAPS

\* The granted tiers as a stretch 1..n.  GradientClimbed follows from it, and
\* unlike GradientClimbed it names the tier _next_tier will pick.
Climbed == \E n \in Levels : granted = 1..n

\* What a blocked call knows: the human is asked for the lowest closed tier, a
\* running tool belongs to a granted one, an idle gate is about no tier.
CallFits ==
  /\ call.phase = "idle" => call = Idle
  /\ call.phase = "asking" => /\ call.tier \in Levels \ granted
                              /\ granted = 1..(call.tier - 1)
  /\ call.phase = "running" => call.tier \in granted

\* Call numbers in the trail never run ahead of the counter, and a blocked call
\* has written the last event and no other.
CidsFit ==
  /\ audit # <<>>
  /\ \A i \in DOMAIN audit : audit[i].cid <= iters
  /\ call.phase # "idle" =>
       /\ \A i \in DOMAIN audit : i # Len(audit) => audit[i].cid < iters
       /\ audit[Len(audit)].cid = iters
       /\ iters > 0 /\ iters <= Cap
  /\ call.phase = "running" => audit[Len(audit)] = Event("invoke", call.tier, iters)
  /\ call.phase = "asking" => audit[Len(audit)] = Event("escalation_request", NoTier, iters)

GateInv ==
  /\ TypeOK
  /\ Climbed
  /\ CallFits
  /\ CidsFit
  /\ TrailAccountsForAccess
  /\ DispatchEarned
  /\ GrantAnswersRequest
  /\ RunawayBackstop
  /\ DispatchAnswered

---------------------------------------------------------------------------

\* _next_tier names no tier only when all are granted, and otherwise the tier
\* just above the granted stretch.
LEMMA NextTierIsLowest ==
  ASSUME Climbed
  PROVE  /\ NextTier = NoTier => granted = Levels
         /\ NextTier # NoTier => /\ NextTier \in Levels \ granted
                                 /\ granted = 1..(NextTier - 1)
<1>1. PICK n \in Levels : granted = 1..n
  BY DEF Climbed
<1>2. CASE n = Top
  <2>1. Levels \ granted = {}
    BY <1>1, <1>2 DEF Levels
  <2> QED
    BY <1>1, <1>2, <2>1 DEF NextTier, NoTier, Levels
<1>3. CASE n # Top
  <2>1. n + 1 \in Levels \ granted
    BY <1>1, <1>3, TopAssumption DEF Levels
  <2>2. \A m \in Levels \ granted : n + 1 <= m
    BY <1>1, TopAssumption DEF Levels
  <2>3. NextTier = CHOOSE l \in Levels \ granted : \A m \in Levels \ granted : l <= m
    BY <2>1 DEF NextTier
  <2>4. /\ NextTier \in Levels \ granted
        /\ \A m \in Levels \ granted : NextTier <= m
    BY <2>1, <2>2, <2>3
  <2>5. NextTier = n + 1
    BY <1>1, <2>1, <2>2, <2>4, TopAssumption DEF Levels
  <2> QED
    BY <1>1, <2>4, <2>5, TopAssumption DEF Levels, NoTier
<1> QED
  BY <1>2, <1>3

\* Appending an event keeps the events before it where they were.
LEMMA AppendEvent ==
  ASSUME NEW trail \in Seq(Events), NEW e \in Events
  PROVE  /\ Append(trail, e) \in Seq(Events)
         /\ Append(trail, e) # <<>>
         /\ Len(trail) \in Nat
         /\ Len(Append(trail, e)) = Len(trail) + 1
         /\ DOMAIN trail = 1..Len(trail)
         /\ DOMAIN Append(trail, e) = 1..(Len(trail) + 1)
         /\ \A i \in 1..Len(trail) : Append(trail, e)[i] = trail[i]
         /\ Append(trail, e)[Len(trail) + 1] = e
OBVIOUS

\* The trail's events are typed, and so are their positions.
LEMMA TrailTyped ==
  ASSUME TypeOK
  PROVE  /\ Len(audit) \in Nat
         /\ DOMAIN audit = 1..Len(audit)
         /\ \A i \in DOMAIN audit : audit[i] \in Events /\ audit[i].cid \in Nat
<1>1. audit \in Seq(Events)
  BY DEF TypeOK
<1>2. Len(audit) \in Nat /\ DOMAIN audit = 1..Len(audit)
  BY <1>1
<1>3. \A i \in DOMAIN audit : audit[i] \in Events
  BY <1>1, <1>2
<1> QED
  BY <1>2, <1>3 DEF Events

\* What an appended event does to the trail and to the events of some kinds.
Appended(e) ==
  /\ audit' \in Seq(Events) /\ audit' # <<>>
  /\ Len(audit) \in Nat /\ Len(audit') = Len(audit) + 1
  /\ DOMAIN audit = 1..Len(audit) /\ DOMAIN audit' = 1..(Len(audit) + 1)
  /\ \A i \in 1..Len(audit) : audit'[i] = audit[i]
  /\ audit'[Len(audit) + 1] = e

LEMMA AppendIsAppended ==
  ASSUME TypeOK, NEW e \in Events, audit' = Append(audit, e)
  PROVE  Appended(e)
BY AppendEvent DEF TypeOK, Appended

LEMMA EventsOfAppended ==
  ASSUME NEW e, Appended(e), NEW kinds
  PROVE  /\ EventsOf(kinds) \subseteq 1..Len(audit)
         /\ e.kind \in kinds => EventsOf(kinds)' = EventsOf(kinds) \cup {Len(audit) + 1}
         /\ e.kind \notin kinds => EventsOf(kinds)' = EventsOf(kinds)
BY DEF EventsOf, Appended

LEMMA InitInv == Init => GateInv
<1> SUFFICES ASSUME Init PROVE GateInv
  OBVIOUS
<1>1. TypeOK
  <2>1. Event("advertise", Floor, 0) \in Events
    BY TopAssumption DEF Floor, Event, Events, Kinds
  <2>2. <<Event("advertise", Floor, 0)>> \in Seq(Events)
    BY <2>1
  <2>3. granted \in SUBSET Levels /\ iters \in Nat
    BY TopAssumption DEF Init, Levels, Floor
  <2>4. call \in [phase : {"idle", "asking", "running"}, tier : 0..Top]
    BY TopAssumption DEF Init, Idle, NoTier
  <2> QED
    BY <2>2, <2>3, <2>4 DEF Init, TypeOK
<1>2. Climbed
  BY TopAssumption DEF Init, Climbed, Levels, Floor
<1>3. CallFits
  BY DEF Init, CallFits, Idle
<1>4. /\ Len(audit) = 1 /\ DOMAIN audit = {1}
      /\ audit[1] = Event("advertise", Floor, 0)
  BY DEF Init
<1>5. CidsFit
  BY <1>4 DEF Init, CidsFit, Idle, Event
<1>6. \A kinds : "advertise" \notin kinds => EventsOf(kinds) = {}
  BY <1>4 DEF EventsOf, Event
<1>7. /\ EventsOf({"escalation_grant"}) = {} /\ EventsOf({"invoke"}) = {}
      /\ EventsOf({"invoke", "escalation_request"}) = {}
  BY <1>6
<1> QED
  BY <1>1, <1>2, <1>3, <1>5, <1>7
     DEF GateInv, Init, TrailAccountsForAccess, DispatchEarned, GrantAnswersRequest,
         RunawayBackstop, DispatchAnswered

\* The call numbers stay bounded by the counter when a new call writes its
\* first event, and the older numbers are then smaller than the counter.
LEMMA NewCallCids ==
  ASSUME GateInv, BeginCall, NEW e \in Events, e.cid = iters', Appended(e)
  PROVE  /\ iters \in Nat /\ iters' = iters + 1
         /\ \A i \in 1..Len(audit) : audit'[i].cid < iters'
         /\ \A i \in DOMAIN audit' : audit'[i].cid <= iters'
<1>1. iters \in Nat /\ iters' = iters + 1
  BY DEF GateInv, TypeOK, BeginCall
<1>2. \A i \in 1..Len(audit) : audit[i].cid <= iters /\ audit[i].cid \in Nat
  BY TrailTyped DEF GateInv, CidsFit
<1>3. \A i \in 1..Len(audit) : audit'[i].cid < iters'
  BY <1>1, <1>2 DEF Appended
<1>4. \A i \in 1..(Len(audit) + 1) : i \in 1..Len(audit) \/ i = Len(audit) + 1
  BY DEF Appended
<1>5. \A i \in DOMAIN audit' : audit'[i].cid <= iters'
  BY <1>1, <1>2, <1>4 DEF Appended
<1> QED
  BY <1>1, <1>3, <1>5

\* A call that ends at once with an event no trail property looks at: the
\* refusals and the cap.
LEMMA RefusalInv ==
  ASSUME GateInv, NEW k \in {"cap_exceeded", "refusal"}, NEW l \in 0..Top,
         BeginCall, Log(k, l), UNCHANGED <<approver, granted, closed, call>>
  PROVE  GateInv'
<1> DEFINE e == Event(k, l, iters')
<1>1. e \in Events /\ e.kind = k /\ e.cid = iters' /\ audit' = Append(audit, e)
  BY DEF GateInv, TypeOK, BeginCall, Log, Event, Events, Kinds
<1> HIDE DEF e
<1>2. Appended(e)
  BY <1>1, AppendIsAppended DEF GateInv
<1>3. \A kinds \in SUBSET {"invoke", "result", "error", "escalation_request", "escalation_grant"} :
        EventsOf(kinds) \subseteq 1..Len(audit) /\ EventsOf(kinds)' = EventsOf(kinds)
  BY <1>1, <1>2, EventsOfAppended
<1>4. TypeOK' /\ Climbed' /\ CallFits'
  BY <1>2 DEF Appended, GateInv, TypeOK, Climbed, CallFits, BeginCall, Idle
<1>5. CidsFit'
  BY <1>1, <1>2, NewCallCids DEF Appended, CidsFit, BeginCall, Idle
<1>6. TrailAccountsForAccess'
  BY <1>2, <1>3 DEF Appended, GateInv, TrailAccountsForAccess
<1>7. DispatchEarned'
  BY <1>2, <1>3 DEF Appended, GateInv, DispatchEarned
<1>8. GrantAnswersRequest'
  BY <1>2, <1>3 DEF Appended, GateInv, GrantAnswersRequest
<1>9. RunawayBackstop'
  BY <1>2, <1>3 DEF Appended, GateInv, RunawayBackstop
<1>10. DispatchAnswered'
  BY <1>2, <1>3 DEF Appended, GateInv, DispatchAnswered, BeginCall, Idle
<1> QED
  BY <1>4, <1>5, <1>6, <1>7, <1>8, <1>9, <1>10 DEF GateInv

\* A tool is dispatched: its tier is granted, so the trail already holds the
\* grant (TrailAccountsForAccess), and the new invoke event is still open.
LEMMA InvokeGrantedInv ==
  ASSUME GateInv, NEW t \in Names, InvokeGranted(t)
  PROVE  GateInv'
<1> DEFINE e == Event("invoke", TierOf[t], iters')
<1>1. /\ BeginCall /\ iters' <= Cap /\ iters' > 0 /\ iters' \in Nat
      /\ TierOf[t] \in granted /\ granted \subseteq Levels
      /\ call' = Running(TierOf[t])
      /\ UNCHANGED <<approver, granted, closed>>
  BY CapAssumption DEF InvokeGranted, BeginCall, CapReached, CanInvoke, GateInv, TypeOK
<1>2. /\ e \in Events /\ e.kind = "invoke" /\ e.cid = iters' /\ e.tier = TierOf[t]
      /\ audit' = Append(audit, e)
  <2>1. TierOf[t] \in 0..Top
    <3>1. TierOf[t] \in Levels
      BY <1>1
    <3>2. \A l \in Levels : l \in 0..Top
      BY TopAssumption DEF Levels
    <3> QED
      BY <3>1, <3>2
  <2>2. e \in Events
    BY <1>1, <2>1 DEF Event, Events, Kinds
  <2>3. audit' = Append(audit, e)
    BY DEF InvokeGranted, Log
  <2> QED
    BY <2>2, <2>3 DEF Event
<1>3. e = Event("invoke", call'.tier, iters')
  BY <1>1 DEF Running
<1> HIDE DEF e
<1>4. Appended(e)
  BY <1>2, AppendIsAppended DEF GateInv
<1>5. /\ \A kinds \in SUBSET {"result", "error", "escalation_request", "escalation_grant"} :
           EventsOf(kinds) \subseteq 1..Len(audit) /\ EventsOf(kinds)' = EventsOf(kinds)
      /\ \A kinds \in {{"invoke"}, {"invoke", "escalation_request"}} :
           /\ EventsOf(kinds) \subseteq 1..Len(audit)
           /\ EventsOf(kinds)' = EventsOf(kinds) \cup {Len(audit) + 1}
  BY <1>2, <1>4, EventsOfAppended
<1>6. TypeOK'
  BY <1>1, <1>4 DEF Appended, GateInv, TypeOK, Running, Levels
<1>7. Climbed' /\ CallFits'
  BY <1>1 DEF GateInv, Climbed, CallFits, Running
<1>8. CidsFit'
  BY <1>1, <1>2, <1>3, <1>4, NewCallCids DEF Appended, CidsFit, Running
<1>9. TrailAccountsForAccess'
  BY <1>1, <1>4, <1>5 DEF Appended, GateInv, TrailAccountsForAccess
<1>10. DispatchEarned'
  <2>1. TierOf[t] = Floor \/ \E j \in EventsOf({"escalation_grant"}) : audit[j].tier = TierOf[t]
    BY <1>1 DEF GateInv, TrailAccountsForAccess
  <2> QED
    BY <1>2, <1>4, <1>5, <2>1 DEF Appended, GateInv, DispatchEarned
<1>11. GrantAnswersRequest'
  BY <1>4, <1>5 DEF Appended, GateInv, GrantAnswersRequest
<1>12. RunawayBackstop'
  <2>1. \A i \in 1..Len(audit) : audit'[i].cid < iters'
    BY <1>1, <1>2, <1>4, NewCallCids
  <2>2. audit'[Len(audit) + 1].cid = iters'
    BY <1>2, <1>4 DEF Appended
  <2>3. \A i \in EventsOf({"invoke", "escalation_request"}) :
          i \in 1..Len(audit) /\ audit'[i] = audit[i]
    BY <1>4, <1>5 DEF Appended
  <2> QED
    BY <1>1, <1>5, <2>1, <2>2, <2>3 DEF GateInv, RunawayBackstop
<1>13. DispatchAnswered'
  <2>1. call.phase = "idle" /\ call'.phase = "running"
    BY <1>1 DEF BeginCall, Idle, Running
  <2>2. audit'[Len(audit) + 1].cid = iters'
    BY <1>2, <1>4 DEF Appended
  <2>3. \A i \in EventsOf({"invoke"}) \cup EventsOf({"result", "error"}) :
          i \in 1..Len(audit) /\ audit'[i] = audit[i]
    BY <1>4, <1>5 DEF Appended
  <2> QED
    BY <1>5, <2>1, <2>2, <2>3 DEF GateInv, DispatchAnswered
<1> QED
  BY <1>6, <1>7, <1>8, <1>9, <1>10, <1>11, <1>12, <1>13 DEF GateInv

\* The running tool ends: its invoke event is the last of the trail, so the new
\* event is the one answer to it.
LEMMA ToolEndsInv ==
  ASSUME GateInv, ToolReturns \/ ToolRaises
  PROVE  GateInv'
<1>1. PICK k \in {"result", "error"} : audit' = Append(audit, Event(k, call.tier, iters))
  BY DEF ToolReturns, ToolRaises
<1> DEFINE e == Event(k, call.tier, iters)
<1>2. /\ call.phase = "running" /\ call' = Idle
      /\ UNCHANGED <<approver, granted, iters, closed>>
  BY DEF ToolReturns, ToolRaises
<1>3. /\ e \in Events /\ e.kind = k /\ e.cid = iters /\ audit' = Append(audit, e)
  BY <1>1 DEF Event, Events, Kinds, GateInv, TypeOK
<1> HIDE DEF e
<1>4. Appended(e)
  BY <1>3, AppendIsAppended DEF GateInv
<1>5. /\ \A kinds \in SUBSET {"invoke", "escalation_request", "escalation_grant"} :
           EventsOf(kinds) \subseteq 1..Len(audit) /\ EventsOf(kinds)' = EventsOf(kinds)
      /\ EventsOf({"result", "error"}) \subseteq 1..Len(audit)
      /\ EventsOf({"result", "error"})' = EventsOf({"result", "error"}) \cup {Len(audit) + 1}
  BY <1>3, <1>4, EventsOfAppended
<1>6. TypeOK'
  BY <1>2, <1>4, TopAssumption DEF Appended, GateInv, TypeOK, Idle, NoTier
<1>7. Climbed' /\ CallFits'
  BY <1>2 DEF GateInv, Climbed, CallFits, Idle
<1>8. CidsFit'
  <2>1. \A i \in 1..(Len(audit) + 1) : i \in 1..Len(audit) \/ i = Len(audit) + 1
    BY <1>4 DEF Appended
  <2>2. iters \in Nat /\ iters' = iters /\ call'.phase = "idle"
    BY <1>2 DEF GateInv, TypeOK, Idle
  <2>3. \A i \in 1..Len(audit) : audit'[i].cid <= iters
    BY <1>4 DEF Appended, GateInv, CidsFit
  <2>4. audit'[Len(audit) + 1].cid <= iters
    BY <1>3, <1>4, <2>2 DEF Appended
  <2>5. \A i \in DOMAIN audit' : audit'[i].cid <= iters'
    BY <1>4, <2>1, <2>2, <2>3, <2>4 DEF Appended
  <2> QED
    BY <1>4, <2>2, <2>5 DEF Appended, CidsFit
<1>9. TrailAccountsForAccess'
  BY <1>2, <1>4, <1>5 DEF Appended, GateInv, TrailAccountsForAccess
<1>10. DispatchEarned'
  BY <1>4, <1>5 DEF Appended, GateInv, DispatchEarned
<1>11. GrantAnswersRequest'
  BY <1>4, <1>5 DEF Appended, GateInv, GrantAnswersRequest
<1>12. RunawayBackstop'
  BY <1>4, <1>5 DEF Appended, GateInv, RunawayBackstop
<1>13. DispatchAnswered'
  <2>1. audit'[Len(audit) + 1].cid = iters
    BY <1>3, <1>4 DEF Appended
  <2>2. \A i \in EventsOf({"invoke"}) \cup EventsOf({"result", "error"}) :
          i \in 1..Len(audit) /\ audit'[i] = audit[i]
    BY <1>4, <1>5 DEF Appended
  <2>3. \A i \in EventsOf({"result", "error"}) : audit[i].cid # iters
    <3>1. audit[Len(audit)].kind = "invoke"
      BY <1>2 DEF GateInv, CidsFit, Event
    <3>2. \A i \in EventsOf({"result", "error"}) : i \in DOMAIN audit /\ i # Len(audit)
      BY <3>1 DEF EventsOf
    <3>3. \A i \in DOMAIN audit : audit[i].cid \in Nat
      BY TrailTyped DEF GateInv
    <3>4. iters \in Nat
      BY DEF GateInv, TypeOK
    <3>5. \A i \in DOMAIN audit : i # Len(audit) => audit[i].cid < iters
      BY <1>2 DEF GateInv, CidsFit
    <3> QED
      BY <3>2, <3>3, <3>4, <3>5
  <2>4. ASSUME NEW i \in EventsOf({"invoke"}), audit[i].cid = iters
        PROVE  \E j \in EventsOf({"result", "error"})' :
                 /\ j > i /\ audit'[j].cid = audit'[i].cid
                 /\ \A m \in EventsOf({"result", "error"})' :
                      audit'[m].cid = audit'[i].cid => m = j
    <3>1. Len(audit) + 1 \in EventsOf({"result", "error"})' /\ Len(audit) + 1 > i
      BY <1>4, <1>5, <2>2 DEF Appended
    <3> QED
      BY <1>5, <2>1, <2>2, <2>3, <2>4, <3>1
  <2>5. ASSUME NEW i \in EventsOf({"invoke"}), audit[i].cid # iters
        PROVE  \E j \in EventsOf({"result", "error"})' :
                 /\ j > i /\ audit'[j].cid = audit'[i].cid
                 /\ \A m \in EventsOf({"result", "error"})' :
                      audit'[m].cid = audit'[i].cid => m = j
    BY <1>5, <2>1, <2>2, <2>5 DEF GateInv, DispatchAnswered
  <2> QED
    BY <1>5, <2>2, <2>4, <2>5 DEF DispatchAnswered
<1> QED
  BY <1>6, <1>7, <1>8, <1>9, <1>10, <1>11, <1>12, <1>13 DEF GateInv

\* A call that ends at once with a request and its denial: nothing to grant, or
\* nobody to ask.
LEMMA EscalationRefusedInv ==
  ASSUME GateInv, EscalateAtTop \/ EscalateUnattended
  PROVE  GateInv'
<1>1. /\ BeginCall /\ call.phase = "idle" /\ iters' = iters + 1
      /\ iters \in Nat /\ iters' <= Cap
      /\ UNCHANGED <<approver, granted, closed, call>>
  BY CapAssumption
     DEF EscalateAtTop, EscalateUnattended, BeginEscalation, BeginCall, CapReached, Idle,
         GateInv, TypeOK
<1>2. PICK l \in 0..Top : LogBoth("escalation_request", NoTier, "escalation_denied", l)
  <2>1. NoTier \in 0..Top
    BY TopAssumption DEF NoTier
  <2>2. NextTier # NoTier => NextTier \in 0..Top
    <3>1. NextTier # NoTier => NextTier \in Levels
      BY NextTierIsLowest DEF GateInv
    <3>2. \A l \in Levels : l \in 0..Top
      BY TopAssumption DEF Levels
    <3> QED
      BY <3>1, <3>2
  <2> QED
    BY <2>1, <2>2 DEF EscalateAtTop, EscalateUnattended
<1> DEFINE e1 == Event("escalation_request", NoTier, iters')
           e2 == Event("escalation_denied", l, iters')
           n == Len(audit)
<1>3. /\ e1 \in Events /\ e1.kind = "escalation_request" /\ e1.cid = iters'
      /\ e2 \in Events /\ e2.kind = "escalation_denied" /\ e2.cid = iters'
  BY <1>1, TopAssumption DEF Event, Events, Kinds, NoTier
<1>4. audit' = Append(Append(audit, e1), e2)
  BY <1>2 DEF LogBoth
<1> HIDE DEF e1, e2
<1>5. /\ audit' \in Seq(Events) /\ audit' # <<>>
      /\ n \in Nat /\ DOMAIN audit = 1..n /\ DOMAIN audit' = 1..(n + 2)
      /\ \A i \in 1..n : audit'[i] = audit[i]
      /\ audit'[n + 1] = e1 /\ audit'[n + 2] = e2
  <2>1. audit \in Seq(Events)
    BY DEF GateInv, TypeOK
  <2> DEFINE mid == Append(audit, e1)
  <2>2. /\ mid \in Seq(Events) /\ Len(mid) = n + 1 /\ n \in Nat /\ DOMAIN audit = 1..n
        /\ \A i \in 1..n : mid[i] = audit[i]
        /\ mid[n + 1] = e1
    BY <1>3, <2>1, AppendEvent
  <2>3. /\ audit' = Append(mid, e2)
    BY <1>4
  <2> HIDE DEF mid
  <2>4. /\ audit' \in Seq(Events) /\ audit' # <<>>
        /\ DOMAIN audit' = 1..(Len(mid) + 1)
        /\ \A i \in 1..Len(mid) : audit'[i] = mid[i]
        /\ audit'[Len(mid) + 1] = e2
    BY <1>3, <2>2, <2>3, AppendEvent
  <2>5. (n + 1) + 1 = n + 2
    BY <2>2
  <2>6. \A i \in 1..n : i \in 1..(n + 1)
    BY <2>2
  <2>7. n + 1 \in 1..(n + 1)
    BY <2>2
  <2> QED
    BY <2>2, <2>4, <2>5, <2>6, <2>7
<1> HIDE DEF n
<1>6. /\ \A kinds \in SUBSET {"invoke", "result", "error", "escalation_grant"} :
           EventsOf(kinds) \subseteq 1..n /\ EventsOf(kinds)' = EventsOf(kinds)
      /\ \A kinds \in {{"escalation_request"}, {"invoke", "escalation_request"}} :
           /\ EventsOf(kinds) \subseteq 1..n
           /\ EventsOf(kinds)' = EventsOf(kinds) \cup {n + 1}
  <2>1. \A i \in 1..(n + 2) : i \in 1..n \/ i = n + 1 \/ i = n + 2
    BY <1>5
  <2>2. n + 1 \in 1..(n + 2) /\ n + 2 \in 1..(n + 2) /\ \A i \in 1..n : i \in 1..(n + 2)
    BY <1>5
  <2> QED
    BY <1>3, <1>5, <2>1, <2>2 DEF EventsOf
<1>7. TypeOK' /\ Climbed' /\ CallFits'
  BY <1>1, <1>5 DEF GateInv, TypeOK, Climbed, CallFits
<1>8. \A i \in 1..n : audit'[i].cid < iters'
  <2>1. \A i \in 1..n : audit[i].cid <= iters /\ audit[i].cid \in Nat
    BY <1>5, TrailTyped DEF GateInv, CidsFit
  <2> QED
    BY <1>1, <1>5, <2>1
<1>9. CidsFit'
  <2>1. \A i \in 1..(n + 2) : i \in 1..n \/ i = n + 1 \/ i = n + 2
    BY <1>5
  <2>2. \A i \in 1..n : audit[i].cid <= iters /\ audit[i].cid \in Nat
    BY <1>5, TrailTyped DEF GateInv, CidsFit
  <2>3. \A i \in 1..n : audit'[i].cid <= iters'
    BY <1>1, <1>5, <2>2
  <2>4. \A i \in DOMAIN audit' : audit'[i].cid <= iters'
    BY <1>1, <1>3, <1>5, <2>1, <2>3
  <2> QED
    BY <1>1, <1>5, <2>4 DEF CidsFit
<1>10. TrailAccountsForAccess'
  BY <1>1, <1>5, <1>6 DEF GateInv, TrailAccountsForAccess
<1>11. DispatchEarned'
  BY <1>5, <1>6 DEF GateInv, DispatchEarned
<1>12. GrantAnswersRequest'
  BY <1>5, <1>6 DEF GateInv, GrantAnswersRequest
<1>13. RunawayBackstop'
  <2>1. \A i \in EventsOf({"invoke", "escalation_request"}) :
          i \in 1..n /\ audit'[i] = audit[i] /\ audit'[i].cid # iters'
    <3>1. \A i \in 1..n : audit'[i].cid \in Nat
      BY <1>5, TrailTyped DEF GateInv
    <3> QED
      BY <1>1, <1>5, <1>6, <1>8, <3>1
  <2> QED
    BY <1>1, <1>3, <1>5, <1>6, <2>1 DEF GateInv, RunawayBackstop
<1>14. DispatchAnswered'
  BY <1>1, <1>5, <1>6 DEF GateInv, DispatchAnswered
<1> QED
  BY <1>7, <1>9, <1>10, <1>11, <1>12, <1>13, <1>14 DEF GateInv

\* The human is asked: the request is the open end of the trail, and the tier
\* asked for is the lowest closed one.
LEMMA EscalateToHumanInv ==
  ASSUME GateInv, EscalateToHuman
  PROVE  GateInv'
<1> DEFINE e == Event("escalation_request", NoTier, iters')
<1>1. /\ BeginCall /\ call.phase = "idle" /\ iters' <= Cap /\ iters' > 0 /\ iters' \in Nat
      /\ NextTier # NoTier /\ call' = Asking(NextTier)
      /\ audit' = Append(audit, e)
      /\ UNCHANGED <<approver, granted, closed>>
  BY CapAssumption
     DEF EscalateToHuman, BeginEscalation, BeginCall, CapReached, GateInv, TypeOK, Log, Idle
<1>2. e \in Events /\ e.kind = "escalation_request" /\ e.cid = iters'
  BY <1>1, TopAssumption DEF Event, Events, Kinds, NoTier
<1>3. call'.phase = "asking" /\ call'.tier = NextTier /\ e = Event("escalation_request", NoTier, iters')
  BY <1>1 DEF Asking
<1> HIDE DEF e
<1>4. Appended(e)
  BY <1>1, <1>2, AppendIsAppended DEF GateInv
<1>5. /\ \A kinds \in SUBSET {"invoke", "result", "error", "escalation_grant"} :
           EventsOf(kinds) \subseteq 1..Len(audit) /\ EventsOf(kinds)' = EventsOf(kinds)
      /\ \A kinds \in {{"escalation_request"}, {"invoke", "escalation_request"}} :
           /\ EventsOf(kinds) \subseteq 1..Len(audit)
           /\ EventsOf(kinds)' = EventsOf(kinds) \cup {Len(audit) + 1}
  BY <1>2, <1>4, EventsOfAppended
<1>6. NextTier \in Levels \ granted /\ granted = 1..(NextTier - 1)
  BY <1>1, NextTierIsLowest DEF GateInv
<1>7. TypeOK'
  <2>1. NextTier \in 0..Top
    BY <1>6, TopAssumption DEF Levels
  <2> QED
    BY <1>1, <1>4, <2>1 DEF Appended, GateInv, TypeOK, Asking
<1>8. Climbed' /\ CallFits'
  BY <1>1, <1>3, <1>6 DEF GateInv, Climbed, CallFits, Levels
<1>9. CidsFit'
  BY <1>1, <1>2, <1>3, <1>4, NewCallCids DEF Appended, CidsFit
<1>10. TrailAccountsForAccess'
  BY <1>1, <1>4, <1>5 DEF Appended, GateInv, TrailAccountsForAccess
<1>11. DispatchEarned'
  BY <1>4, <1>5 DEF Appended, GateInv, DispatchEarned
<1>12. GrantAnswersRequest'
  BY <1>4, <1>5 DEF Appended, GateInv, GrantAnswersRequest
<1>13. RunawayBackstop'
  <2>1. \A i \in 1..Len(audit) : audit'[i].cid < iters'
    BY <1>1, <1>2, <1>4, NewCallCids
  <2>2. audit'[Len(audit) + 1].cid = iters'
    BY <1>2, <1>4 DEF Appended
  <2>3. \A i \in EventsOf({"invoke", "escalation_request"}) :
          i \in 1..Len(audit) /\ audit'[i] = audit[i]
    BY <1>4, <1>5 DEF Appended
  <2> QED
    BY <1>1, <1>5, <2>1, <2>2, <2>3 DEF GateInv, RunawayBackstop
<1>14. DispatchAnswered'
  BY <1>1, <1>3, <1>4, <1>5 DEF Appended, GateInv, DispatchAnswered
<1> QED
  BY <1>7, <1>8, <1>9, <1>10, <1>11, <1>12, <1>13, <1>14 DEF GateInv

\* The approver's exception leaves the request open in the trail; nothing the
\* invariant says depends on its being answered.
LEMMA ApproverRaisesInv ==
  ASSUME GateInv, ApproverRaises
  PROVE  GateInv'
<1>1. /\ call.phase = "asking" /\ call' = Idle
      /\ UNCHANGED <<approver, granted, iters, audit, closed>>
  BY DEF ApproverRaises
<1>2. \A kinds : EventsOf(kinds)' = EventsOf(kinds)
  BY <1>1 DEF EventsOf
<1>3. TypeOK'
  BY <1>1, TopAssumption DEF GateInv, TypeOK, Idle, NoTier
<1>4. Climbed' /\ CallFits' /\ CidsFit'
  BY <1>1 DEF GateInv, Climbed, CallFits, CidsFit, Idle
<1>5. TrailAccountsForAccess' /\ DispatchEarned' /\ GrantAnswersRequest' /\ RunawayBackstop'
  BY <1>1, <1>2
     DEF GateInv, TrailAccountsForAccess, DispatchEarned, GrantAnswersRequest, RunawayBackstop
<1>6. DispatchAnswered'
  BY <1>1, <1>2 DEF GateInv, DispatchAnswered
<1> QED
  BY <1>3, <1>4, <1>5, <1>6 DEF GateInv

\* The human answers: a no changes only the trail, a yes also opens the tier the
\* question was about, the one just above the granted stretch.
LEMMA ApproverAnswersInv ==
  ASSUME GateInv, ApproverDenies \/ ApproverGrants
  PROVE  GateInv'
<1>1. PICK k \in {"escalation_denied", "escalation_grant"} :
        /\ audit' = Append(audit, Event(k, call.tier, iters))
        /\ k = "escalation_denied" => granted' = granted
        /\ k = "escalation_grant" => granted' = granted \cup {call.tier}
  BY DEF ApproverDenies, ApproverGrants
<1> DEFINE e == Event(k, call.tier, iters)
<1>2. /\ call.phase = "asking" /\ call' = Idle
      /\ UNCHANGED <<approver, iters, closed>>
  BY DEF ApproverDenies, ApproverGrants
<1>3. /\ e \in Events /\ e.kind = k /\ e.cid = iters /\ e.tier = call.tier
      /\ audit' = Append(audit, e)
  BY <1>1 DEF Event, Events, Kinds, GateInv, TypeOK
<1> HIDE DEF e
<1>4. Appended(e)
  BY <1>3, AppendIsAppended DEF GateInv
<1>5. /\ \A kinds \in SUBSET {"invoke", "result", "error", "escalation_request"} :
           EventsOf(kinds) \subseteq 1..Len(audit) /\ EventsOf(kinds)' = EventsOf(kinds)
      /\ EventsOf({"escalation_grant"}) \subseteq 1..Len(audit)
      /\ EventsOf({"escalation_grant"})' =
            IF k = "escalation_grant" THEN EventsOf({"escalation_grant"}) \cup {Len(audit) + 1}
                                      ELSE EventsOf({"escalation_grant"})
  BY <1>3, <1>4, EventsOfAppended
<1>6. call.tier \in Levels \ granted /\ granted = 1..(call.tier - 1)
  BY <1>2 DEF GateInv, CallFits
<1>7. TypeOK'
  <2>1. granted' \in SUBSET Levels
    BY <1>1, <1>6 DEF GateInv, TypeOK
  <2>2. call' \in [phase : {"idle", "asking", "running"}, tier : 0..Top]
    BY <1>2, TopAssumption DEF Idle, NoTier
  <2> QED
    BY <1>2, <1>4, <2>1, <2>2 DEF Appended, GateInv, TypeOK
<1>8. Climbed'
  <2>1. granted \cup {call.tier} = 1..call.tier
    BY <1>6, TopAssumption DEF Levels
  <2> QED
    BY <1>1, <1>6, <2>1 DEF GateInv, Climbed
<1>9. CallFits'
  BY <1>2 DEF CallFits, Idle
<1>10. CidsFit'
  <2>1. \A i \in 1..(Len(audit) + 1) : i \in 1..Len(audit) \/ i = Len(audit) + 1
    BY <1>4 DEF Appended
  <2>2. iters \in Nat /\ iters' = iters /\ call'.phase = "idle"
    BY <1>2 DEF GateInv, TypeOK, Idle
  <2>3. \A i \in 1..Len(audit) : audit'[i].cid <= iters
    BY <1>4 DEF Appended, GateInv, CidsFit
  <2>4. audit'[Len(audit) + 1].cid <= iters
    BY <1>3, <1>4, <2>2 DEF Appended
  <2>5. \A i \in DOMAIN audit' : audit'[i].cid <= iters'
    BY <1>4, <2>1, <2>2, <2>3, <2>4 DEF Appended
  <2> QED
    BY <1>4, <2>2, <2>5 DEF Appended, CidsFit
<1>11. TrailAccountsForAccess'
  BY <1>1, <1>3, <1>4, <1>5 DEF Appended, GateInv, TrailAccountsForAccess
<1>12. DispatchEarned'
  BY <1>4, <1>5 DEF Appended, GateInv, DispatchEarned
<1>13. GrantAnswersRequest'
  <2>1. /\ Len(audit) \in EventsOf({"escalation_request"})
        /\ audit[Len(audit)].cid = iters /\ audit[Len(audit)].kind = "escalation_request"
    BY <1>2, <1>4 DEF GateInv, CidsFit, Event, Appended, EventsOf
  <2>2. \A i \in EventsOf({"escalation_grant"}) : i \in DOMAIN audit /\ i # Len(audit)
    BY <2>1 DEF EventsOf
  <2>3. \A i \in EventsOf({"escalation_grant"}) : audit[i].cid # iters
    <3>1. \A i \in DOMAIN audit : audit[i].cid \in Nat
      BY TrailTyped DEF GateInv
    <3>2. \A i \in DOMAIN audit : i # Len(audit) => audit[i].cid < iters
      BY <1>2 DEF GateInv, CidsFit
    <3> QED
      BY <2>2, <3>1, <3>2 DEF GateInv, TypeOK
  <2>4. audit'[Len(audit) + 1].cid = iters /\ audit'[Len(audit)] = audit[Len(audit)]
    BY <1>3, <1>4, <2>1 DEF Appended, EventsOf
  <2>5. \A i \in EventsOf({"escalation_grant"}) \cup EventsOf({"escalation_request"}) :
          i \in 1..Len(audit) /\ audit'[i] = audit[i]
    BY <1>4, <1>5 DEF Appended
  <2>6. Len(audit) < Len(audit) + 1
    BY <1>4 DEF Appended
  <2> QED
    BY <1>5, <2>1, <2>3, <2>4, <2>5, <2>6 DEF GateInv, GrantAnswersRequest
<1>14. RunawayBackstop'
  BY <1>4, <1>5 DEF Appended, GateInv, RunawayBackstop
<1>15. DispatchAnswered'
  BY <1>2, <1>4, <1>5 DEF Appended, GateInv, DispatchAnswered, Idle
<1> QED
  BY <1>7, <1>8, <1>9, <1>10, <1>11, <1>12, <1>13, <1>14, <1>15 DEF GateInv

LEMMA FinishInv ==
  ASSUME GateInv, Finish
  PROVE  GateInv'
<1> DEFINE e == Event("final", NoTier, 0)
<1>1. /\ e \in Events /\ e.kind = "final" /\ e.cid = 0 /\ audit' = Append(audit, e)
      /\ call.phase = "idle" /\ closed' \in BOOLEAN
      /\ UNCHANGED <<approver, granted, iters, call>>
  BY TopAssumption DEF Finish, Event, Events, Kinds, NoTier, Idle
<1> HIDE DEF e
<1>2. Appended(e)
  BY <1>1, AppendIsAppended DEF GateInv
<1>3. \A kinds \in SUBSET {"invoke", "result", "error", "escalation_request", "escalation_grant"} :
        EventsOf(kinds) \subseteq 1..Len(audit) /\ EventsOf(kinds)' = EventsOf(kinds)
  BY <1>1, <1>2, EventsOfAppended
<1>4. TypeOK' /\ Climbed' /\ CallFits'
  BY <1>1, <1>2 DEF Appended, GateInv, TypeOK, Climbed, CallFits
<1>5. CidsFit'
  <2>1. \A i \in 1..(Len(audit) + 1) : i \in 1..Len(audit) \/ i = Len(audit) + 1
    BY <1>2 DEF Appended
  <2>2. \A i \in 1..Len(audit) : audit'[i].cid <= iters
    BY <1>2 DEF Appended, GateInv, CidsFit
  <2>3. \A i \in DOMAIN audit' : audit'[i].cid <= iters'
    BY <1>1, <1>2, <2>1, <2>2 DEF Appended, GateInv, TypeOK
  <2> QED
    BY <1>1, <1>2, <2>3 DEF Appended, CidsFit
<1>6. TrailAccountsForAccess' /\ DispatchEarned'
  BY <1>1, <1>2, <1>3 DEF Appended, GateInv, TrailAccountsForAccess, DispatchEarned
<1>7. GrantAnswersRequest' /\ RunawayBackstop'
  BY <1>2, <1>3 DEF Appended, GateInv, GrantAnswersRequest, RunawayBackstop
<1>8. DispatchAnswered'
  BY <1>1, <1>2, <1>3 DEF Appended, GateInv, DispatchAnswered
<1> QED
  BY <1>4, <1>5, <1>6, <1>7, <1>8 DEF GateInv

\* Every step keeps the invariant: one lemma per kind of action.
LEMMA StepInv == GateInv /\ [Next]_vars => GateInv'
<1> SUFFICES ASSUME GateInv, [Next]_vars PROVE GateInv'
  OBVIOUS
<1>1. ASSUME NEW t \in Names, Invoke(t) PROVE GateInv'
  <2>1. CASE InvokeOverCap
    <3>1. NoTier \in 0..Top
      BY TopAssumption DEF NoTier
    <3> QED
      BY <2>1, <3>1, RefusalInv DEF InvokeOverCap
  <2>2. CASE InvokeUnknown(t)
    <3>1. NoTier \in 0..Top
      BY TopAssumption DEF NoTier
    <3> QED
      BY <2>2, <3>1, RefusalInv DEF InvokeUnknown
  <2>3. CASE InvokeWithheld(t)
    <3>1. TierOf[t] \in 0..Top
      BY <2>3, ToolAssumption, TopAssumption DEF InvokeWithheld
    <3> QED
      BY <2>3, <3>1, RefusalInv DEF InvokeWithheld
  <2>4. CASE InvokeGranted(t)
    BY <2>4, InvokeGrantedInv
  <2>5. CASE t = Door /\ Escalate
    BY <2>5, EscalationRefusedInv, EscalateToHumanInv DEF Escalate
  <2> QED
    BY <1>1, <2>1, <2>2, <2>3, <2>4, <2>5 DEF Invoke
<1>2. CASE ToolReturns \/ ToolRaises
  BY <1>2, ToolEndsInv
<1>3. CASE ApproverDenies \/ ApproverGrants
  BY <1>3, ApproverAnswersInv
<1>4. CASE ApproverRaises
  BY <1>4, ApproverRaisesInv
<1>5. CASE Finish
  BY <1>5, FinishInv
<1>6. CASE UNCHANGED vars
  <2>1. \A kinds : EventsOf(kinds)' = EventsOf(kinds)
    BY <1>6 DEF vars, EventsOf
  <2>2. TypeOK' /\ Climbed' /\ CallFits' /\ CidsFit'
    BY <1>6 DEF GateInv, vars, TypeOK, Climbed, CallFits, CidsFit
  <2>3. /\ TrailAccountsForAccess' /\ DispatchEarned' /\ GrantAnswersRequest'
        /\ RunawayBackstop' /\ DispatchAnswered'
    BY <1>6, <2>1
       DEF GateInv, vars, TrailAccountsForAccess, DispatchEarned, GrantAnswersRequest,
           RunawayBackstop, DispatchAnswered
  <2> QED
    BY <2>2, <2>3 DEF GateInv
<1> QED
  BY <1>1, <1>2, <1>3, <1>4, <1>5, <1>6 DEF Next

---------------------------------------------------------------------------

\* The inductive invariant holds in every reachable state of the gate.
THEOREM GateInvariant == Spec => []GateInv
BY InitInv, StepInv, PTL DEF Spec

\* The state of the gate keeps its types, for any gradient and any tool set.
THEOREM TypeCorrect == Spec => []TypeOK
<1>1. GateInv => TypeOK
  BY DEF GateInv
<1> QED
  BY <1>1, GateInvariant, PTL

\* No tier is opened over the head of a lower one.
THEOREM GradientIsClimbed == Spec => []GradientClimbed
<1>1. GateInv => GradientClimbed
  BY DEF GateInv, Climbed, GradientClimbed, Levels
<1> QED
  BY <1>1, GateInvariant, PTL

\* The trail alone tells what the model may reach.
THEOREM AccessIsInTheTrail == Spec => []TrailAccountsForAccess
<1>1. GateInv => TrailAccountsForAccess
  BY DEF GateInv
<1> QED
  BY <1>1, GateInvariant, PTL

\* A withheld tool never runs: a dispatch above the floor has its tier's grant
\* before it in the trail, and the grant has its question before it.
THEOREM NoUnearnedDispatch == Spec => [](DispatchEarned /\ GrantAnswersRequest)
<1>1. GateInv => DispatchEarned /\ GrantAnswersRequest
  BY DEF GateInv
<1> QED
  BY <1>1, GateInvariant, PTL

\* What a tier is granted on is a question of this session: the approver that
\* raised, or said no, leaves no request behind that a later grant could answer.
THEOREM GrantsAnswerRequests == Spec => []GrantAnswersRequest
<1>1. DispatchEarned /\ GrantAnswersRequest => GrantAnswersRequest
  OBVIOUS
<1> QED
  BY <1>1, NoUnearnedDispatch, PTL

\* At most Cap calls ever run a tool or bother the human.
THEOREM CapIsABackstop == Spec => []RunawayBackstop
<1>1. GateInv => RunawayBackstop
  BY DEF GateInv
<1> QED
  BY <1>1, GateInvariant, PTL

\* Every dispatch that is over has exactly one outcome in the trail.
THEOREM EveryDispatchIsAnswered == Spec => []DispatchAnswered
<1>1. GateInv => DispatchAnswered
  BY DEF GateInv
<1> QED
  BY <1>1, GateInvariant, PTL

---------------------------------------------------------------------------

\* Under the mapping of module Gate the initial state is the boundary's.
LEMMA InitMaps == Init => Boundary!Init
<1> SUFFICES ASSUME Init PROVE Boundary!Init
  OBVIOUS
<1>1. DOMAIN audit = {1} /\ audit[1].kind = "advertise"
  BY DEF Init, Event
<1>2. Dispatched = {}
  BY <1>1 DEF Dispatched, EventsOf
<1> QED
  BY <1>2 DEF Init, Boundary!Init, Floor, Idle

\* A step that appends no invoke event leaves what was dispatched alone.
LEMMA DispatchedKept ==
  ASSUME GateInv, NEW e \in Events, Appended(e), e.kind # "invoke"
  PROVE  Dispatched' = Dispatched
BY EventsOfAppended DEF Dispatched, Appended

LEMMA StepMaps == GateInv /\ GateInv' /\ [Next]_vars => [Boundary!Next]_(Boundary!vars)
<1> SUFFICES ASSUME GateInv, GateInv', [Next]_vars
             PROVE  [Boundary!Next]_(Boundary!vars)
  OBVIOUS
<1>a. iters \in Nat /\ audit \in Seq(Events) /\ TypeOK
  BY DEF GateInv, TypeOK
<1>1. ASSUME NEW k \in Kinds \ {"invoke"}, NEW l \in 0..Top, NEW c \in Nat,
             audit' = Append(audit, Event(k, l, c))
      PROVE  Dispatched' = Dispatched
  <2>1. Event(k, l, c) \in Events /\ Event(k, l, c).kind # "invoke"
    BY DEF Event, Events
  <2> QED
    BY <1>1, <2>1, <1>a, AppendIsAppended, DispatchedKept
<1>b. NoTier \in 0..Top
  BY TopAssumption DEF NoTier
<1>2. ASSUME NEW t \in Names, Invoke(t)
      PROVE  [Boundary!Next]_(Boundary!vars)
  <2>a. BeginCall => iters' \in Nat /\ call.phase = "idle"
    BY <1>a DEF BeginCall, Idle
  <2>1. CASE InvokeOverCap \/ InvokeUnknown(t) \/ InvokeWithheld(t)
    <3>1. PICK k \in {"cap_exceeded", "refusal"}, l \in 0..Top : Log(k, l)
      <4>1. InvokeWithheld(t) => TierOf[t] \in 0..Top
        BY ToolAssumption, TopAssumption DEF InvokeWithheld
      <4> QED
        BY <2>1, <4>1, <1>b DEF InvokeOverCap, InvokeUnknown, InvokeWithheld
    <3>2. /\ iters' \in Nat /\ k \in Kinds \ {"invoke"}
          /\ UNCHANGED <<granted, call>>
      BY <2>1, <2>a DEF InvokeOverCap, InvokeUnknown, InvokeWithheld, Kinds
    <3>3. Dispatched' = Dispatched
      BY <1>1, <3>1, <3>2 DEF Log
    <3> QED
      BY <3>2, <3>3 DEF Boundary!vars
  <2>2. CASE InvokeGranted(t)
    <3> DEFINE e == Event("invoke", TierOf[t], iters')
    <3>1. /\ call.phase = "idle" /\ call'.phase = "running" /\ iters' \in Nat
          /\ t \in Tools /\ TierOf[t] \in granted /\ granted' = granted
          /\ audit' = Append(audit, e)
      BY <2>2, <2>a DEF InvokeGranted, CanInvoke, Running, Log
    <3>2. e \in Events /\ e.kind = "invoke" /\ e.tier = TierOf[t]
      <4>1. TierOf[t] \in 0..Top
        BY <3>1, ToolAssumption, TopAssumption
      <4> QED
        BY <3>1, <4>1 DEF Event, Events, Kinds
    <3> HIDE DEF e
    <3>3. Appended(e)
      BY <3>1, <3>2, <1>a, AppendIsAppended
    <3>4. /\ EventsOf({"invoke"}) \subseteq 1..Len(audit)
          /\ EventsOf({"invoke"})' = EventsOf({"invoke"}) \cup {Len(audit) + 1}
      BY <3>2, <3>3, EventsOfAppended
    <3>5. Dispatched' = Dispatched \cup {TierOf[t]}
      BY <3>2, <3>3, <3>4 DEF Dispatched, Appended
    <3> QED
      BY <3>1, <3>5 DEF Boundary!Next, Boundary!Reach
  <2>3. CASE EscalateAtTop \/ EscalateUnattended
    <3>1. UNCHANGED <<granted, call>> /\ BeginCall
      BY <2>3 DEF EscalateAtTop, EscalateUnattended, BeginEscalation
    <3>2. PICK l \in 0..Top : LogBoth("escalation_request", NoTier, "escalation_denied", l)
      <4>1. NextTier # NoTier => NextTier \in 0..Top
        <5>1. NextTier # NoTier => NextTier \in Levels
          BY NextTierIsLowest DEF GateInv
        <5>2. \A m \in Levels : m \in 0..Top
          BY TopAssumption DEF Levels
        <5> QED
          BY <5>1, <5>2
      <4> QED
        BY <2>3, <4>1, <1>b DEF EscalateAtTop, EscalateUnattended
    <3> DEFINE e1 == Event("escalation_request", NoTier, iters')
               e2 == Event("escalation_denied", l, iters')
               mid == Append(audit, e1)
               n == Len(audit)
    <3>3. /\ e1 \in Events /\ e1.kind # "invoke" /\ e2 \in Events /\ e2.kind # "invoke"
      BY <3>1, <2>a, <1>b DEF Event, Events, Kinds
    <3>4. audit' = Append(mid, e2)
      BY <3>2 DEF LogBoth
    <3> HIDE DEF e1, e2
    <3>5. /\ mid \in Seq(Events) /\ Len(mid) = n + 1 /\ n \in Nat /\ DOMAIN audit = 1..n
          /\ \A i \in 1..n : mid[i] = audit[i]
          /\ mid[n + 1] = e1
      BY <1>a, <3>3, AppendEvent
    <3> HIDE DEF mid
    <3>6. /\ DOMAIN audit' = 1..(Len(mid) + 1)
          /\ \A i \in 1..Len(mid) : audit'[i] = mid[i]
          /\ audit'[Len(mid) + 1] = e2
      BY <3>3, <3>4, <3>5, AppendEvent
    <3> HIDE DEF n
    <3>7. \A i \in DOMAIN audit' : i \in 1..n \/ i = n + 1 \/ i = Len(mid) + 1
      BY <3>5, <3>6
    <3>8. /\ n + 1 \in 1..Len(mid)
          /\ \A i \in 1..n : i \in 1..Len(mid) /\ i \in 1..(Len(mid) + 1)
      BY <3>5
    <3>9. /\ \A i \in 1..n : i \in DOMAIN audit' /\ audit'[i] = audit[i]
          /\ audit'[n + 1] = e1
      BY <3>5, <3>6, <3>8
    <3>10. EventsOf({"invoke"})' = EventsOf({"invoke"})
      BY <3>3, <3>5, <3>6, <3>7, <3>9 DEF EventsOf
    <3>11. EventsOf({"invoke"}) \subseteq 1..n
      BY <3>5 DEF EventsOf
    <3>12. Dispatched' = Dispatched
      BY <3>9, <3>10, <3>11 DEF Dispatched
    <3> QED
      BY <3>1, <3>12 DEF Boundary!vars
  <2>4. CASE EscalateToHuman
    <3>1. /\ call.phase = "idle" /\ call'.phase = "asking" /\ iters' \in Nat
          /\ granted' = granted /\ NextTier # NoTier
          /\ Log("escalation_request", NoTier)
      BY <2>4, <2>a DEF EscalateToHuman, BeginEscalation, Asking
    <3>2. Dispatched' = Dispatched
      BY <1>1, <1>b, <3>1 DEF Log, Kinds
    <3>3. NextTier \in Levels \ granted
      BY <3>1, NextTierIsLowest DEF GateInv
    <3> QED
      BY <3>1, <3>2, <3>3 DEF Boundary!Next, Boundary!Ask, Boundary!Levels, Levels
  <2> QED
    BY <1>2, <2>1, <2>2, <2>3, <2>4 DEF Invoke, Escalate
<1>3. CASE ToolReturns \/ ToolRaises
  <2>1. /\ call.phase = "running" /\ call'.phase = "idle" /\ granted' = granted
        /\ call.tier \in 0..Top
    BY <1>3, <1>a DEF ToolReturns, ToolRaises, Idle, TypeOK
  <2>2. Dispatched' = Dispatched
    BY <1>1, <1>3, <1>a, <2>1 DEF ToolReturns, ToolRaises, Kinds
  <2> QED
    BY <2>1, <2>2 DEF Boundary!vars
<1>4. CASE ApproverDenies \/ ApproverRaises
  <2>1. /\ call.phase = "asking" /\ call'.phase = "idle" /\ granted' = granted
        /\ call.tier \in 0..Top
    BY <1>4, <1>a DEF ApproverDenies, ApproverRaises, Idle, TypeOK
  <2>2. CASE ApproverDenies
    <3>1. Dispatched' = Dispatched
      BY <1>1, <1>a, <2>1, <2>2 DEF ApproverDenies, Kinds
    <3> QED
      BY <2>1, <3>1 DEF Boundary!Next, Boundary!Decline
  <2>3. CASE ApproverRaises
    <3>1. Dispatched' = Dispatched
      BY <2>3 DEF ApproverRaises, Dispatched, EventsOf
    <3> QED
      BY <2>1, <3>1 DEF Boundary!Next, Boundary!Decline
  <2> QED
    BY <1>4, <2>2, <2>3
<1>5. CASE ApproverGrants
  <2>1. /\ call.phase = "asking" /\ call'.phase = "idle"
        /\ granted' = granted \cup {call.tier} /\ call.tier \in 0..Top
    BY <1>5, <1>a DEF ApproverGrants, Idle, TypeOK
  <2>2. call.tier \in Levels \ granted /\ granted = 1..(call.tier - 1)
    BY <2>1 DEF GateInv, CallFits
  <2>3. \A m \in Levels : m < call.tier => m \in granted
    BY <2>2, TopAssumption DEF Levels
  <2>4. Dispatched' = Dispatched
    BY <1>1, <1>5, <1>a, <2>1 DEF ApproverGrants, Kinds
  <2> QED
    BY <2>1, <2>2, <2>3, <2>4 DEF Boundary!Next, Boundary!Open, Boundary!Levels, Levels
<1>6. CASE Finish
  <2>1. UNCHANGED <<granted, call>>
    BY <1>6 DEF Finish
  <2>2. Dispatched' = Dispatched
    BY <1>1, <1>6, <1>b DEF Finish, Kinds
  <2> QED
    BY <2>1, <2>2 DEF Boundary!vars
<1>7. CASE UNCHANGED vars
  BY <1>7 DEF vars, Boundary!vars, Dispatched, EventsOf
<1> QED
  BY <1>2, <1>3, <1>4, <1>5, <1>6, <1>7 DEF Next

\* The gate implements the trust boundary: whatever the calls, only a human's
\* answer moves the boundary, and only what the boundary opened is reached.
THEOREM GateKeepsBoundary == Spec => KeepsBoundary
<1>1. Init => Boundary!Init
  BY InitMaps
<1>2. GateInv /\ GateInv' /\ [Next]_vars => [Boundary!Next]_(Boundary!vars)
  BY StepMaps
<1> QED
  BY <1>1, <1>2, GateInvariant, PTL DEF Spec, KeepsBoundary, Boundary!Spec
===========================================================================
