---------------------------- MODULE BrokerProofs ----------------------------
(* Serving in the order of attachment, for any number of consumers and polls; *)
(* and the law, the contracts and the composites' verdicts, for every reply   *)
(* of every key of either vendor.                                             *)
EXTENDS Broker, SequenceTheorems, FiniteSetTheorems, TLAPS

\* While a poll is under way, those before the current consumer have its slice,
\* or they raised; nobody has a later one.
ServeInv ==
    /\ polls \in Nat /\ consumers \in Seq(Consumers)
    /\ serving \in Nat /\ serving <= Len(consumers)
    /\ sink \in [Consumers -> Nat]
    /\ \A c \in Consumers : sink[c] <= polls
    /\ \A c \in Consumers : c \notin Attached => sink[c] = 0
    /\ serving # 0 => \A i \in DOMAIN consumers : i < serving => sink[consumers[i]] = polls
    /\ \A i, j \in DOMAIN consumers : i # j => consumers[i] # consumers[j]
    /\ ServedInOrder

\* Nobody is attached and no poll was made.
LEMMA InitServe == Init => ServeInv
  BY DEF Init, ServeInv, ServedInOrder, Attached

\* Who is attached is so at one place.
LEMMA AttachServe ==
  ASSUME ServeInv, NEW c \in Consumers, Attach(c) PROVE ServeInv'
<1>1. /\ consumers' = Append(consumers, c) /\ c \notin Attached
      /\ UNCHANGED <<polls, serving, sink>> /\ serving = 0
  BY DEF Attach
<1>2. /\ consumers' \in Seq(Consumers)
      /\ Len(consumers') = Len(consumers) + 1
      /\ \A i \in DOMAIN consumers : consumers'[i] = consumers[i]
      /\ consumers'[Len(consumers) + 1] = c
      /\ DOMAIN consumers' = 1..Len(consumers) + 1 /\ DOMAIN consumers = 1..Len(consumers)
      /\ Len(consumers) \in Nat
  BY <1>1 DEF ServeInv
<1>3. sink[c] = 0
  BY <1>1 DEF ServeInv
<1>4. Attached \subseteq Attached'
  BY <1>2 DEF Attached
<1>5. \A i \in DOMAIN consumers : consumers[i] # c
  BY <1>1 DEF Attached
<1>6. ServedInOrder'
  <2> SUFFICES ASSUME NEW i \in DOMAIN consumers', NEW j \in DOMAIN consumers', i < j
               PROVE  sink[consumers'[i]] >= sink[consumers'[j]]
    BY <1>1 DEF ServedInOrder
  <2>1. i \in DOMAIN consumers /\ consumers[i] \in Consumers
    BY <1>2 DEF ServeInv
  <2>2. CASE j \in DOMAIN consumers
    BY <1>2, <2>1, <2>2 DEF ServeInv, ServedInOrder
  <2>3. CASE j = Len(consumers) + 1
    BY <1>2, <1>3, <2>1, <2>3 DEF ServeInv
  <2> QED BY <1>2, <2>2, <2>3
<1>7. \A i, j \in DOMAIN consumers' : i # j => consumers'[i] # consumers'[j]
  <2> SUFFICES ASSUME NEW i \in DOMAIN consumers', NEW j \in DOMAIN consumers', i # j
               PROVE  consumers'[i] # consumers'[j]
    OBVIOUS
  <2>1. CASE i \in DOMAIN consumers /\ j \in DOMAIN consumers
    BY <1>2, <2>1 DEF ServeInv
  <2>2. CASE i = Len(consumers) + 1 /\ j \in DOMAIN consumers
    BY <1>2, <1>5, <2>2
  <2>3. CASE j = Len(consumers) + 1 /\ i \in DOMAIN consumers
    BY <1>2, <1>5, <2>3
  <2>4. /\ i \in DOMAIN consumers \/ i = Len(consumers) + 1
        /\ j \in DOMAIN consumers \/ j = Len(consumers) + 1
    BY <1>2
  <2> QED BY <2>1, <2>2, <2>3, <2>4
<1>8. \A d \in Consumers : d \notin Attached' => sink'[d] = 0
  BY <1>1, <1>4 DEF ServeInv
<1> QED BY <1>1, <1>2, <1>6, <1>7, <1>8 DEF ServeInv

\* Who leaves takes the place of its own only: those behind it move up.
LEMMA DetachServe ==
  ASSUME ServeInv, NEW c \in Consumers, Detach(c) PROVE ServeInv'
<1>1. PICK p \in DOMAIN consumers :
          /\ consumers[p] = c
          /\ consumers' = SubSeq(consumers, 1, p - 1) \o SubSeq(consumers, p + 1, Len(consumers))
  BY DEF Detach
<1>2. UNCHANGED <<polls, serving>> /\ serving = 0 /\ sink' = [sink EXCEPT ![c] = 0]
  BY DEF Detach
<1> DEFINE Was(i) == IF i < p THEN i ELSE i + 1
<1>3. consumers \in Seq(Consumers) /\ DOMAIN consumers = 1..Len(consumers) /\ Len(consumers) \in Nat
  BY DEF ServeInv
<1> DEFINE front == SubSeq(consumers, 1, p - 1)
           back == SubSeq(consumers, p + 1, Len(consumers))
<1>4. /\ front \in Seq(Consumers) /\ Len(front) = p - 1
      /\ \A i \in 1..(p - 1) : front[i] = consumers[i]
  BY <1>3
<1>5. /\ back \in Seq(Consumers) /\ Len(back) = Len(consumers) - p
      /\ \A i \in 1..(Len(consumers) - p) : back[i] = consumers[i + p]
  BY <1>3
<1>6. /\ consumers' \in Seq(Consumers)
      /\ Len(consumers') = Len(consumers) - 1
      /\ DOMAIN consumers' = 1..(Len(consumers) - 1)
      /\ \A i \in DOMAIN consumers' : consumers'[i] = consumers[Was(i)]
  <2>1. consumers' = front \o back
    BY <1>1
  <2> HIDE DEF front, back
  <2>2. /\ consumers' \in Seq(Consumers)
        /\ Len(consumers') = Len(front) + Len(back)
        /\ \A i \in 1..(Len(front) + Len(back)) :
               consumers'[i] = IF i <= Len(front) THEN front[i] ELSE back[i - Len(front)]
    BY <1>4, <1>5, <2>1, ConcatProperties
  <2>3. DOMAIN consumers' = 1..(Len(consumers) - 1) /\ Len(consumers') = Len(consumers) - 1
    BY <1>3, <1>4, <1>5, <2>2
  <2>4. ASSUME NEW i \in DOMAIN consumers' PROVE consumers'[i] = consumers[Was(i)]
    <3>1. CASE i < p
      BY <1>3, <1>4, <1>5, <2>2, <2>3, <3>1
    <3>2. CASE i >= p
      <4> DEFINE k == i - Len(front)
      <4>1. k \in 1..(Len(consumers) - p) /\ k + p = i + 1
        BY <1>3, <1>4, <2>3, <3>2
      <4>2. consumers'[i] = back[k]
        <5>1. i \in 1..(Len(front) + Len(back)) /\ ~(i <= Len(front))
          BY <1>3, <1>4, <1>5, <2>3, <3>2
        <5> QED BY <2>2, <5>1
      <4> HIDE DEF k
      <4>3. back[k] = consumers[k + p]
        BY <1>5, <4>1
      <4>4. Was(i) = k + p
        BY <1>3, <2>3, <3>2, <4>1
      <4> HIDE DEF Was
      <4> QED BY <4>2, <4>3, <4>4
    <3> QED BY <1>3, <2>3, <3>1, <3>2
  <2> QED BY <2>2, <2>3, <2>4
<1>7. \A i \in DOMAIN consumers' : /\ Was(i) \in DOMAIN consumers /\ Was(i) # p
                                   /\ consumers[Was(i)] \in Consumers /\ consumers[Was(i)] # c
  <2>1. \A i \in DOMAIN consumers' : Was(i) \in DOMAIN consumers /\ Was(i) # p
    BY <1>3, <1>6
  <2>2. \A j \in DOMAIN consumers : consumers[j] \in Consumers
    BY <1>3
  <2>3. \A j \in DOMAIN consumers : j # p => consumers[j] # c
    BY <1>1 DEF ServeInv
  <2> HIDE DEF Was
  <2> QED BY <2>1, <2>2, <2>3
<1>8. \A i, j \in DOMAIN consumers' : i < j => Was(i) < Was(j)
  BY <1>3, <1>6
<1>9. \A i, j \in DOMAIN consumers' : i # j => Was(i) # Was(j)
  BY <1>3, <1>6
<1> HIDE DEF Was
<1>10. ServedInOrder'
  <2> SUFFICES ASSUME NEW i \in DOMAIN consumers', NEW j \in DOMAIN consumers', i < j
               PROVE  sink'[consumers'[i]] >= sink'[consumers'[j]]
    BY DEF ServedInOrder
  <2>1. sink[consumers[Was(i)]] >= sink[consumers[Was(j)]]
    BY <1>7, <1>8 DEF ServeInv, ServedInOrder
  <2> QED BY <1>2, <1>6, <1>7, <2>1 DEF ServeInv
<1>11. \A i, j \in DOMAIN consumers' : i # j => consumers'[i] # consumers'[j]
  BY <1>6, <1>7, <1>9 DEF ServeInv
<1>12. \A d \in Consumers : d \notin Attached' => sink'[d] = 0
  <2> SUFFICES ASSUME NEW d \in Consumers, d \notin Attached', d # c PROVE sink[d] = 0
    BY <1>2 DEF ServeInv
  <2>1. d \notin Attached
    <3> SUFFICES ASSUME NEW k \in DOMAIN consumers, consumers[k] = d PROVE FALSE
      BY DEF Attached
    <3>1. k # p
      BY <1>1
    <3> DEFINE now == IF k < p THEN k ELSE k - 1
    <3>2. now \in DOMAIN consumers' /\ Was(now) = k
      BY <1>3, <1>6, <3>1 DEF Was
    <3> HIDE DEF now
    <3>3. consumers'[now] = d
      BY <1>6, <3>2
    <3> QED BY <3>2, <3>3 DEF Attached
  <2> QED BY <2>1 DEF ServeInv
<1>13. sink' \in [Consumers -> Nat] /\ \A d \in Consumers : sink'[d] <= polls
  BY <1>2 DEF ServeInv
<1> QED BY <1>2, <1>3, <1>6, <1>10, <1>11, <1>12, <1>13 DEF ServeInv

\* A poll that begins has a number that nobody has a slice of.
LEMMA BeginServe == ASSUME ServeInv, PollBegins PROVE ServeInv'
<1>1. /\ UNCHANGED <<consumers, sink>> /\ serving' = 1 /\ polls' = polls + 1
      /\ Union # {}
  BY DEF PollBegins
<1>2. Len(consumers) \in Nat /\ Len(consumers) # 0 /\ DOMAIN consumers = 1..Len(consumers)
  <2>1. DOMAIN consumers # {}
    BY <1>1 DEF Union, Attached
  <2> QED BY <2>1 DEF ServeInv
<1> QED BY <1>1, <1>2 DEF ServeInv, ServedInOrder, Attached

\* The current consumer gets the slice of this poll, as those before it did.
LEMMA DeliverServe == ASSUME ServeInv, Delivers PROVE ServeInv'
<1>1. /\ UNCHANGED <<consumers, polls>> /\ serving # 0
      /\ sink' = [sink EXCEPT ![Current] = polls]
      /\ serving' = IF serving = Len(consumers) THEN 0 ELSE serving + 1
  BY DEF Delivers
<1>2. serving \in DOMAIN consumers /\ DOMAIN consumers = 1..Len(consumers) /\ Len(consumers) \in Nat
  BY <1>1 DEF ServeInv
<1>3. Current \in Consumers /\ Current \in Attached /\ Current = consumers[serving]
  BY <1>2 DEF Current, ServeInv, Attached
<1>4. \A i \in DOMAIN consumers : /\ consumers[i] \in Consumers
                                  /\ i # serving => consumers[i] # Current
  BY <1>2, <1>3 DEF ServeInv
<1>5. \A i \in DOMAIN consumers :
          sink'[consumers[i]] = IF i = serving THEN polls ELSE sink[consumers[i]]
  BY <1>1, <1>3, <1>4 DEF ServeInv
<1>6. \A i \in DOMAIN consumers : i <= serving => sink'[consumers[i]] = polls
  <2> SUFFICES ASSUME NEW i \in DOMAIN consumers, i <= serving PROVE sink'[consumers[i]] = polls
    OBVIOUS
  <2>1. CASE i = serving
    BY <1>5, <2>1
  <2>2. CASE i < serving
    BY <1>1, <1>5, <2>2 DEF ServeInv
  <2> QED BY <1>2, <2>1, <2>2
<1>7. ServedInOrder'
  <2> SUFFICES ASSUME NEW i \in DOMAIN consumers, NEW j \in DOMAIN consumers, i < j
               PROVE  sink'[consumers[i]] >= sink'[consumers[j]]
    BY <1>1 DEF ServedInOrder
  <2>1. sink[consumers[j]] \in Nat /\ sink[consumers[j]] <= polls /\ polls \in Nat
    BY <1>4 DEF ServeInv
  <2>2. CASE i <= serving
    BY <1>5, <1>6, <2>1, <2>2
  <2>3. CASE i > serving
    <3>1. sink[consumers[i]] >= sink[consumers[j]]
      BY DEF ServeInv, ServedInOrder
    <3> QED BY <1>2, <1>5, <2>3, <3>1
  <2> QED BY <1>2, <2>2, <2>3
<1>8. sink' \in [Consumers -> Nat] /\ \A c \in Consumers : sink'[c] <= polls
  <2>1. sink' \in [Consumers -> Nat]
    BY <1>1 DEF ServeInv
  <2>2. ASSUME NEW c \in Consumers PROVE sink'[c] <= polls
    BY <1>1 DEF ServeInv
  <2> QED BY <2>1, <2>2
<1>9. \A c \in Consumers : c \notin Attached => sink'[c] = 0
  BY <1>1, <1>3 DEF ServeInv
<1>10. Attached' = Attached
  BY <1>1 DEF Attached
<1>11. serving' \in Nat /\ serving' <= Len(consumers)
  BY <1>1, <1>2
<1>12. serving' # 0 => \A i \in DOMAIN consumers : i < serving' => sink'[consumers[i]] = polls
  BY <1>1, <1>2, <1>6
<1> QED BY <1>1, <1>7, <1>8, <1>9, <1>10, <1>11, <1>12 DEF ServeInv

\* The invariant holds along every run of the session.
LEMMA ServeInvariant == Spec => []ServeInv
<1>1. ServeInv /\ [Next]_vars => ServeInv'
  <2> SUFFICES ASSUME ServeInv, [Next]_vars PROVE ServeInv'
    OBVIOUS
  <2>1. CASE PollsNothing
    BY <2>1 DEF PollsNothing, ServeInv, ServedInOrder, Attached
  <2>2. CASE DeliveryFails
    BY <2>2 DEF DeliveryFails, ServeInv, ServedInOrder, Attached
  <2>3. CASE UNCHANGED vars
    BY <2>3 DEF vars, ServeInv, ServedInOrder, Attached
  <2> QED BY <2>1, <2>2, <2>3, AttachServe, DetachServe, BeginServe, DeliverServe DEF Next
<1> QED BY InitServe, <1>1, PTL DEF Spec

\* A consumer never has an older slice than one that attached after it, however
\* many polls have been cut short by whichever consumer's exception.
THEOREM EveryoneServedInOrder == Spec => []ServedInOrder
<1>1. ServeInv => ServedInOrder
  BY DEF ServeInv
<1> QED BY ServeInvariant, <1>1, PTL

\* A poll stays at a place of the list, and nobody has a slice that was not polled.
THEOREM SessionTypes == Spec => []TypeOK
<1> DEFINE Told == authed \in BOOLEAN
<1>1. Init => Told
  BY DEF Init
<1>2. Told /\ [Next]_vars => Told'
  BY DEF Next, vars, Attach, Detach, PollsNothing, PollBegins, Delivers, DeliveryFails
<1>3. ServeInv /\ Told => TypeOK
  <2> SUFFICES ASSUME ServeInv, Told PROVE TypeOK
    OBVIOUS
  <2>1. Len(consumers) \in Nat
    BY DEF ServeInv
  <2>2. sink \in [Consumers -> 0..polls]
    <3>1. \A c \in Consumers : sink[c] \in 0..polls
      BY DEF ServeInv
    <3>2. sink \in [Consumers -> Nat]
      BY DEF ServeInv
    <3> QED BY <3>1, <3>2
  <2>3. serving \in 0..Len(consumers)
    BY <2>1 DEF ServeInv
  <2>4. polls \in Nat /\ consumers \in Seq(Consumers)
    BY DEF ServeInv
  <2> QED BY <2>2, <2>3, <2>4, Zenon DEF TypeOK
<1> HIDE DEF Told
<1> QED BY ServeInvariant, <1>1, <1>2, <1>3, PTL DEF Spec

-----------------------------------------------------------------------------
\* The law, for every reply: nothing below assumes anything of a reply, not
\* even that it is one.  A vendor's module has the operators of Law and Json
\* for its own, so each is first tied to the ones that the properties use.

\* What a discriminator may end in: a state of the law, or an exception; and
\* only a PRESENT reading has frames.
Shaped(r) ==
    /\ r.state \in States \cup {"RAISED"}
    /\ r.state # "PRESENT" => r.frames = <<>>

\* A set of tokens in which the empty word, the message of an error without
\* one, is not a token of absence.
Words(tokens) == "" \notin tokens

\* What the law asks of the reading r of a reply v.
Lawful(r, v) ==
    /\ Shaped(r)
    /\ IsFailed(v) => r.state = "UNREAD"
    /\ r.state = "ABSENT" => SaysNone(v)

\* A reading that a gate has yet to let through.
Answers(r, key) ==
    /\ Shaped(r)
    /\ r.state # "ABSENT"
    /\ r.state = "PRESENT" => conforms(key, r.payload)

\* The reads on a reply are the same ones in the EOS module.
LEMMA EosReads ==
  ASSUME NEW v, NEW k
  PROVE  /\ A!Has(v, k) <=> Has(v, k)
         /\ A!Get(v, k) = Get(v, k)
         /\ A!IsDict(v) <=> IsDict(v)
         /\ A!Truthy(v) <=> Truthy(v)
         /\ A!Text(v) = Text(v)
  BY DEF A!Has, A!Get, A!IsDict, A!Null, A!Truthy, A!Text, A!IsList, A!IsStr, A!IsNum, A!IsNull,
         A!Bool, Has, Get, IsDict, Null, Truthy, Text, IsList, IsStr, IsNum, IsNull, Bool

\* The four ways a discriminator ends, and the exception.
LEMMA EosEnds ==
  ASSUME NEW v
  PROVE  /\ A!ReadFailed(v) = [state |-> "UNREAD", payload |-> v, frames |-> <<>>]
         /\ A!Judged("yes", v) = [state |-> "PRESENT", payload |-> v, frames |-> <<>>]
         /\ A!Judged("no", v) = [state |-> "ABSENT", payload |-> v, frames |-> <<>>]
         /\ A!Judged("unproven", v) = [state |-> "UNREAD", payload |-> v, frames |-> <<>>]
         /\ A!Raised.state = "RAISED" /\ A!Raised.frames = <<>>
  BY DEF A!ReadFailed, A!Judged, A!Reading, A!Classify, A!Raised

\* A framed answer is PRESENT.
LEMMA EosFramed ==
  ASSUME NEW v, NEW x
  PROVE  A!Framed(v, x) = [state |-> "PRESENT", payload |-> v, frames |-> <<x>>]
  BY DEF A!Framed, A!Reading, A!Classify

\* A failed read stops at the gate, and "no" is said only of "inactive".
LEMMA EosGate ==
  ASSUME NEW v
  PROVE  /\ A!ReadOk(v) <=> ~IsFailed(v)
         /\ A!ErrorsVerdict(v) \in {"none", "no", "unproven"}
         /\ A!ErrorsVerdict(v) = "no" => SaysNone(v)
  BY EosReads DEF A!ReadOk, IsFailed, A!ErrorsVerdict, Items, A!IsList, IsList, A!Range, Range,
                  A!Str, Str, SaysNone

\* An empty map on the way to the neighbors or the peers is evidence.
LEMMA EosEmptyMap ==
  ASSUME NEW v
  PROVE  /\ A!EmptyMap(A!Get(v, "vrfs")) => SaysNone(v)
         /\ A!EmptyMap(A!Get(A!Get(A!Get(v, "vrfs"), "default"), "instList")) => SaysNone(v)
         /\ A!EmptyMap(A!Get(A!Get(A!Get(v, "vrfs"), "default"), "peers")) => SaysNone(v)
<1>1. ASSUME NEW w \in VrfMaps(v), A!EmptyMap(w) PROVE SaysNone(v)
  BY <1>1, EosReads DEF SaysNone, A!EmptyMap
<1> QED BY <1>1, EosReads DEF VrfMaps

\* The word "disabled" under either spelling is evidence, a reload is not.
LEMMA EosDisabled ==
  ASSUME NEW v
  PROVE  LET word == A!MlagGet(v, "state", "mlagState")
         IN A!IsStr(word) /\ word.str \in A!SaysDisabled \ A!SaysReload => SaysNone(v)
<1> DEFINE word == A!MlagGet(v, "state", "mlagState")
<1>1. word \in {Get(v, "state"), Get(v, "mlagState")}
  BY EosReads DEF A!MlagGet
<1> HIDE DEF word
<1>2. A!IsStr(word) /\ word.str \in A!SaysDisabled \ A!SaysReload => SaysNone(v)
  BY <1>1 DEF SaysNone, A!IsStr, Text, IsStr, A!SaysDisabled, A!SaysReload
<1> QED BY <1>2 DEF word

\* What each of them asks before it answers.
LEMMA EosDiscriminators ==
  ASSUME NEW v
  PROVE  /\ Lawful(A!arista_ospf(v), v)
         /\ Lawful(A!arista_bgp(v), v)
         /\ Lawful(A!arista_mlag(v), v)
         /\ Lawful(A!arista_lldp(v), v)
         /\ Lawful(A!arista_interfaces(v), v) /\ A!arista_interfaces(v).state # "ABSENT"
         /\ Lawful(A!arista_version(v), v) /\ A!arista_version(v).state # "ABSENT"
         /\ Lawful(A!arista_routes(v), v) /\ A!arista_routes(v).state # "ABSENT"
         /\ Lawful(A!arista_transceivers(v), v) /\ A!arista_transceivers(v).state # "ABSENT"
         /\ Lawful(A!arista_proc(v), v) /\ A!arista_proc(v).state # "ABSENT"
         /\ Lawful(A!arista_environment(v), v) /\ A!arista_environment(v).state # "ABSENT"
         /\ \A sub \in {"power", "temperature", "cooling"} :
                IsFailed(Get(v, sub)) => A!arista_environment(v).state = "UNREAD"
<1> USE EosEnds, EosFramed, EosGate DEF A!Screened, A!Gated, A!Determined, Lawful, Shaped, States
<1>1. Lawful(A!arista_ospf(v), v)
  <2> DEFINE vrfs == A!Get(v, "vrfs")
             default == A!Get(vrfs, "default")
             insts == A!Get(default, "instList")
             neighbors == A!FlattenSeq([i \in DOMAIN A!Keys(insts) |->
                              A!Items(A!Get(insts.dict[A!Keys(insts)[i]], "ospfNeighborEntries"))])
             records == A!EosOspfToContract(neighbors)
             frame == A!Frame(A!Count(records, A!NotFull), 0)
  <2>1. A!arista_ospf(v) =
            A!Screened(v, IF (A!Has(vrfs, "default") /\ ~A!IsDict(default)) \/ A!OddEntries(insts) THEN A!Raised
                          ELSE A!Determined(A!FullMap(insts), A!EmptyMap(vrfs) \/ A!EmptyMap(insts), v,
                                            A!Framed(records, frame)))
    BY DEF A!arista_ospf
  <2>2. A!EmptyMap(vrfs) \/ A!EmptyMap(insts) => SaysNone(v)
    BY EosEmptyMap
  <2> HIDE DEF vrfs, default, insts, records, frame
  <2> QED BY <2>1, <2>2
<1>2. Lawful(A!arista_bgp(v), v)
  BY EosEmptyMap DEF A!arista_bgp, A!Count
<1>3. Lawful(A!arista_mlag(v), v)
  BY EosDisabled DEF A!arista_mlag
<1>4. Lawful(A!arista_lldp(v), v)
  BY DEF A!arista_lldp
<1>5. Lawful(A!arista_interfaces(v), v) /\ A!arista_interfaces(v).state # "ABSENT"
  BY DEF A!arista_interfaces, A!Count
<1>6. Lawful(A!arista_version(v), v) /\ A!arista_version(v).state # "ABSENT"
  BY DEF A!arista_version
<1>7. Lawful(A!arista_routes(v), v) /\ A!arista_routes(v).state # "ABSENT"
  BY DEF A!arista_routes
<1>8. Lawful(A!arista_transceivers(v), v) /\ A!arista_transceivers(v).state # "ABSENT"
  BY DEF A!arista_transceivers
<1>9. Lawful(A!arista_proc(v), v) /\ A!arista_proc(v).state # "ABSENT"
  BY DEF A!arista_proc
<1>10. Lawful(A!arista_environment(v), v) /\ A!arista_environment(v).state # "ABSENT"
  BY EosReads DEF A!arista_environment
<1>11. \A sub \in {"power", "temperature", "cooling"} :
           IsFailed(Get(v, sub)) => A!arista_environment(v).state = "UNREAD"
  BY EosReads DEF A!arista_environment, A!SubStructured, A!EnvSubs
<1> HIDE DEF Lawful
<1> QED BY ONLY <1>1, <1>2, <1>3, <1>4, <1>5, <1>6, <1>7, <1>8, <1>9, <1>10, <1>11

\* Every EOS discriminator keeps the law; only four of them ever say ABSENT,
\* and the environment's verdict needs its three reads.
LEMMA EosKeepsLaw ==
  ASSUME NEW key \in capabilities("arista"), NEW v
  PROVE  /\ Lawful(EOS(key, v), v)
         /\ EOS(key, v).state = "ABSENT" => key \in Protocols \cup {"mlag"}
         /\ key = "environment" =>
                \A sub \in {"power", "temperature", "cooling"} :
                    IsFailed(Get(v, sub)) => EOS(key, v).state = "UNREAD"
<1>1. CASE key \in Protocols \cup {"mlag"}
  BY <1>1, EosDiscriminators DEF EOS, Protocols
<1>2. CASE key = "environment"
  BY <1>2, EosDiscriminators DEF EOS
<1>3. CASE key \notin Protocols \cup {"mlag", "environment"}
  BY <1>3, EosDiscriminators DEF EOS, capabilities, Protocols
<1> QED BY <1>1, <1>2, <1>3

-----------------------------------------------------------------------------
\* The same of the Junos module, whose payloads are the translators' own.

\* The reads on a reply are the same ones in the Junos module.
LEMMA JunosReads ==
  ASSUME NEW v, NEW k
  PROVE  /\ J!Has(v, k) <=> Has(v, k)
         /\ J!Get(v, k) = Get(v, k)
         /\ J!IsDict(v) <=> IsDict(v)
  BY DEF J!Has, J!Get, J!IsDict, J!Null, Has, Get, IsDict, Null

\* The ways a Junos discriminator ends, and the exception.
LEMMA JunosEnds ==
  ASSUME NEW v
  PROVE  /\ J!ReadFailed(v) = [state |-> "UNREAD", payload |-> v, frames |-> <<>>]
         /\ J!Judged("yes", v) = [state |-> "PRESENT", payload |-> v, frames |-> <<>>]
         /\ J!Judged("no", v) = [state |-> "ABSENT", payload |-> v, frames |-> <<>>]
         /\ J!Judged("unproven", v) = [state |-> "UNREAD", payload |-> v, frames |-> <<>>]
         /\ J!Raised.state = "RAISED" /\ J!Raised.frames = <<>>
  BY DEF J!ReadFailed, J!Judged, J!Reading, J!Classify, J!Raised

\* A framed answer is PRESENT.
LEMMA JunosFramed ==
  ASSUME NEW v, NEW x
  PROVE  J!Framed(v, x) = [state |-> "PRESENT", payload |-> v, frames |-> <<x>>]
  BY DEF J!Framed, J!Reading, J!Classify

\* A failed read stops at the gate.
LEMMA JunosGate ==
  ASSUME NEW v, NEW r
  PROVE  J!ReadGate(v, r) = IF IsFailed(v) THEN [state |-> "UNREAD", payload |-> v, frames |-> <<>>]
                            ELSE r
  BY JunosReads, JunosEnds DEF J!ReadGate, IsFailed

\* An error that says nothing has the empty message: "no" needs one that does.
LEMMA JunosError ==
  ASSUME NEW v, NEW tokens, Words(tokens)
  PROVE  /\ J!ErrorVerdict(v, tokens) \in {"none", "no", "unproven"}
         /\ J!ErrorVerdict(v, tokens) = "no" => SaysNone(v) /\ tokens # {}
<1> DEFINE err == J!OrElse(J!Get(v, "rpc-error"), J!OrElse(J!Get(v, "xnm:error"), J!Get(v, "error")))
           inner == J!First(err)
           message == IF J!IsDict(inner) THEN J!JVal(J!Get(inner, "message")) ELSE J!JVal(err)
<1>1. \E k \in {"rpc-error", "xnm:error", "error"} : err = Get(v, k)
  BY JunosReads DEF J!OrElse
<1>2. J!ErrorVerdict(v, tokens) = IF J!IsNull(err) THEN "none"
                                  ELSE IF message \in tokens THEN "no" ELSE "unproven"
  BY DEF J!ErrorVerdict
<1>3. ASSUME ~Truthy(err) PROVE message = ""
  <2> HIDE DEF err
  <2>1. IsList(err) => err.list = <<>>
    BY <1>3 DEF Truthy
  <2>2. inner = err
    BY <2>1 DEF J!First, J!IsList, IsList
  <2>3. J!Get(err, "message") = Null
    BY <1>3 DEF Truthy, J!Get, J!Has, J!IsDict, IsDict, J!Null, Null
  <2>4. J!JVal(Null) = ""
    BY DEF J!JVal, J!Leaf, J!Text, Null, J!IsList, J!IsStr, J!Str
  <2>5. ~IsDict(err) => J!JVal(err) = ""
    BY <1>3, <2>1 DEF J!JVal, J!Leaf, J!Text, J!IsList, J!IsStr, J!Str, Truthy, IsStr, IsList
  <2> QED BY <2>2, <2>3, <2>4, <2>5 DEF J!IsDict, IsDict
<1> HIDE DEF err, inner, message
<1>4. message \in tokens => SaysNone(v)
  BY <1>1, <1>3 DEF SaysNone, Words
<1>5. message \in tokens => tokens # {}
  OBVIOUS
<1> QED BY <1>2, <1>4, <1>5

\* The empty message is no token of absence of any capability.
LEMMA JunosTokens == Words({}) /\ Words(J!NotRunning) /\ Words(J!NoOspf) /\ Words(J!NoLldp)
  BY DEF J!NotRunning, J!NoOspf, J!NoLldp, Words

\* Behind the gate and the errors' verdict, an answer is lawful.
LEMMA JunosScreen ==
  ASSUME NEW v, NEW tokens, Words(tokens), NEW key, NEW r, Answers(r, key)
  PROVE  LET s == J!Screened(v, tokens, r)
         IN /\ Lawful(s, v)
            /\ s.state = "PRESENT" => conforms(key, s.payload) /\ s = r
            /\ s.state = "ABSENT" => tokens # {}
<1> DEFINE s == J!Screened(v, tokens, r)
           said == J!ErrorVerdict(v, tokens)
<1>1. s = IF IsFailed(v) THEN [state |-> "UNREAD", payload |-> v, frames |-> <<>>]
          ELSE IF said = "none" THEN r ELSE J!Judged(said, v)
  BY JunosGate DEF J!Screened
<1>2. said \in {"none", "no", "unproven"} /\ (said = "no" => SaysNone(v) /\ tokens # {})
  BY JunosError
<1> DEFINE Done == /\ Lawful(s, v)
                   /\ s.state = "PRESENT" => conforms(key, s.payload) /\ s = r
                   /\ s.state = "ABSENT" => tokens # {}
<1> HIDE DEF s, said
<1>3. IsFailed(v) => Done
  BY <1>1 DEF Lawful, Shaped, States
<1>4. ~IsFailed(v) /\ said = "none" => Done
  BY <1>1 DEF Lawful, Shaped, States, Answers
<1>5. ~IsFailed(v) /\ said = "no" => Done
  BY <1>1, <1>2, JunosEnds DEF Lawful, Shaped, States
<1>6. ~IsFailed(v) /\ said = "unproven" => Done
  BY <1>1, JunosEnds DEF Lawful, Shaped, States
<1>7. Done
  BY <1>2, <1>3, <1>4, <1>5, <1>6
<1> QED BY <1>7 DEF s

\* What a discriminator answers with: a payload that conforms, or nothing.
LEMMA JunosAnswers ==
  ASSUME NEW key, NEW v
  PROVE  /\ conforms(key, v) => Answers(J!Judged("yes", v), key)
         /\ Answers(J!Judged("unproven", v), key)
         /\ Answers(J!ReadFailed(v), key)
         /\ Answers(J!Raised, key)
  BY JunosEnds DEF Answers, Shaped, States

\* So is a framed one.
LEMMA JunosAnswersFramed ==
  ASSUME NEW key, NEW payload, NEW x, conforms(key, payload)
  PROVE  Answers(J!Framed(payload, x), key)
  BY JunosFramed DEF Answers, Shaped, States

-----------------------------------------------------------------------------
\* The contracts, met by the Junos translators whatever a reply leaves out.

\* A record under construction keeps its own fields, and gains the others'.
LEMMA JunosMerged ==
  ASSUME NEW f, NEW g
  PROVE  /\ DOMAIN J!With(f, g) = DOMAIN f \cup DOMAIN g
         /\ \A x \in DOMAIN f : J!With(f, g)[x] = f[x]
         /\ \A x \in DOMAIN g : x \notin DOMAIN f => J!With(f, g)[x] = g[x]
  BY DEF J!With

\* The three flat contracts: whatever follows the required fields, they are set.
LEMMA FlatContracts ==
  ASSUME NEW key \in Protocols, NEW rows
  PROVE  conforms(key, J!ToContract(key, rows))
<1> DEFINE ds == J!Dicts(rows)
<1>1. ASSUME NEW own, NEW rest, NEW f \in DOMAIN own PROVE Has(J!Dict(J!With(own, rest)), f)
  BY DEF Has, IsDict, J!Dict, J!With
<1>2. ASSUME NEW row, NEW f \in Required["bgp"] PROVE Has(J!JunosBgpPeer(row), f)
  <2> DEFINE own == [peerAddress |-> J!Str(J!JVal(J!Get(row, "peer-address"))),
                     peerState |-> J!Str(J!JVal(J!Get(row, "peer-state")))]
  <2>1. PICK rest : J!JunosBgpPeer(row) = J!Dict(J!With(own, rest))
    BY DEF J!JunosBgpPeer
  <2>2. f \in DOMAIN own
    BY DEF Required
  <2> HIDE DEF own
  <2> QED BY <1>1, <2>1, <2>2
<1>3. ASSUME NEW row, NEW f \in Required["ospf"] PROVE Has(J!JunosOspfNeighbor(row), f)
  <2> DEFINE own == [routerId |-> J!Str(J!JVal(J!Get(row, "neighbor-id"))),
                     adjacencyState |-> J!Str(J!JVal(J!Get(row, "ospf-neighbor-state"))),
                     interfaceName |-> J!Str(J!JVal(J!Get(row, "interface-name")))]
  <2>1. PICK rest : J!JunosOspfNeighbor(row) = J!Dict(J!With(own, rest))
    BY DEF J!JunosOspfNeighbor
  <2>2. f \in DOMAIN own
    BY DEF Required
  <2> HIDE DEF own
  <2> QED BY <1>1, <2>1, <2>2
<1>4. ASSUME NEW row, NEW f \in Required["lldp"] PROVE Has(J!JunosLldpNeighbor(row), f)
  <2>1. PICK port, device, remote, rest :
            J!JunosLldpNeighbor(row) =
                J!Dict(J!With([port |-> port, neighborDevice |-> device, neighborPort |-> remote], rest))
    BY DEF J!JunosLldpNeighbor
  <2>2. f \in DOMAIN [port |-> port, neighborDevice |-> device, neighborPort |-> remote]
    BY DEF Required
  <2> QED BY <1>1, <2>1, <2>2
<1>5. CASE key = "bgp"
  <2>1. J!ToContract(key, rows) = J!List([i \in DOMAIN ds |-> J!JunosBgpPeer(ds[i])])
    BY <1>5 DEF J!ToContract
  <2> QED BY <1>2, <1>5, <2>1 DEF conforms, Required, Records, IsList, J!List
<1>6. CASE key = "ospf"
  <2>1. J!ToContract(key, rows) = J!List([i \in DOMAIN ds |-> J!JunosOspfNeighbor(ds[i])])
    BY <1>6 DEF J!ToContract
  <2> QED BY <1>3, <1>6, <2>1 DEF conforms, Required, Records, IsList, J!List
<1>7. CASE key = "lldp"
  <2>1. J!ToContract(key, rows) = J!List([i \in DOMAIN ds |-> J!JunosLldpNeighbor(ds[i])])
    BY <1>7 DEF J!ToContract
  <2> QED BY <1>4, <1>7, <2>1 DEF conforms, Required, Records, IsList, J!List
<1> QED BY <1>5, <1>6, <1>7 DEF Protocols

\* The flat discriminators: the gate, the errors, the translation.
LEMMA JunosProtocols ==
  ASSUME NEW key \in Protocols, NEW v
  PROVE  /\ Lawful(Junos(key, v), v)
         /\ Junos(key, v).state = "PRESENT" => conforms(key, Junos(key, v).payload)
<1> DEFINE rows == CASE key = "bgp" -> J!JList(J!Get(J!Container(v, "bgp-information"), "bgp-peer"))
                     [] key = "ospf" -> J!JList(J!Get(J!Container(v, "ospf-neighbor-information"), "ospf-neighbor"))
                     [] key = "lldp" -> J!JList(J!Get(J!Container(v, "lldp-neighbors-information"), "lldp-neighbor-information"))
           tokens == CASE key = "bgp" -> J!NotRunning
                       [] key = "ospf" -> J!NoOspf
                       [] key = "lldp" -> J!NoLldp
           records == J!ToContract(key, rows)
<1>1. \E r, x : /\ Junos(key, v) = J!Screened(v, tokens, r)
               /\ r \in {J!Judged("unproven", v), J!Framed(records, x), J!Judged("yes", records)}
  <2>1. CASE key = "bgp"
    <3> DEFINE down(r) == J!Text(J!Get(r, "peerState")) # "established"
               frame == J!Frame(J!Count(records, down), 0)
               reading == J!OrUnproven(rows # <<>>, v, J!Framed(records, frame))
    <3>1. Junos(key, v) = J!Screened(v, tokens, reading)
      BY <2>1 DEF Junos, J!juniper_bgp
    <3>2. reading \in {J!Judged("unproven", v), J!Framed(records, frame)}
      BY DEF J!OrUnproven, J!Count
    <3> HIDE DEF reading, records, frame, tokens
    <3> QED BY <3>1, <3>2
  <2>2. CASE key = "ospf"
    <3> DEFINE down(r) == J!Text(J!Get(r, "adjacencyState")) # "full"
               frame == J!Frame(J!Count(records, down), 0)
               reading == J!OrUnproven(rows # <<>>, v, J!Framed(records, frame))
    <3>1. Junos(key, v) = J!Screened(v, tokens, reading)
      BY <2>2 DEF Junos, J!juniper_ospf
    <3>2. reading \in {J!Judged("unproven", v), J!Framed(records, frame)}
      BY DEF J!OrUnproven, J!Count
    <3> HIDE DEF reading, records, frame, tokens
    <3> QED BY <3>1, <3>2
  <2>3. CASE key = "lldp"
    <3> DEFINE reading == J!OrUnproven(rows # <<>>, v, J!Judged("yes", records))
    <3>1. Junos(key, v) = J!Screened(v, tokens, reading)
      BY <2>3 DEF Junos, J!juniper_lldp
    <3>2. reading \in {J!Judged("unproven", v), J!Judged("yes", records)}
      BY DEF J!OrUnproven
    <3> HIDE DEF reading, records, tokens
    <3> QED BY <3>1, <3>2
  <2> QED BY <2>1, <2>2, <2>3 DEF Protocols
<1>2. Words(tokens)
  BY JunosTokens DEF Protocols
<1>3. conforms(key, records)
  BY FlatContracts
<1> HIDE DEF tokens, records
<1>4. PICK r, x : /\ Junos(key, v) = J!Screened(v, tokens, r)
                  /\ r \in {J!Judged("unproven", v), J!Framed(records, x), J!Judged("yes", records)}
  BY <1>1
<1>5. Answers(r, key)
  BY <1>3, <1>4, JunosAnswers, JunosAnswersFramed
<1> QED BY <1>2, <1>4, <1>5, JunosScreen

\* No contract binds the records of these.
LEMMA NoContract ==
  ASSUME NEW key \in {"version", "interfaces", "optics", "proc"}, NEW payload
  PROVE  conforms(key, payload)
  BY DEF conforms, Required

\* A read inside a composite fails as a reply does.
LEMMA JunosSub ==
  ASSUME NEW v, NEW sub
  PROVE  J!SubFailed(v, sub) <=> IsFailed(Get(v, sub))
  BY JunosReads DEF J!SubFailed, IsFailed

\* Optics and compute: one read, and no token is a token of absence.
LEMMA JunosOpticsProc ==
  ASSUME NEW key \in {"optics", "proc"}, NEW v
  PROVE  Lawful(Junos(key, v), v) /\ Junos(key, v).state # "ABSENT"
<1>1. ASSUME NEW r, Answers(r, key), Junos(key, v) = J!Screened(v, {}, r)
      PROVE  Lawful(Junos(key, v), v) /\ Junos(key, v).state # "ABSENT"
  BY <1>1, JunosTokens, JunosScreen
<1>2. CASE key = "optics"
  <2> DEFINE entries == J!JList(J!Get(J!Container(v, "interface-information"), "physical-interface"))
             pifs == J!Named(entries)
             odd == \E i \in DOMAIN entries : ~J!IsDict(J!First(entries[i]))
             modules == J!List([i \in DOMAIN pifs |-> J!OpticsModule(pifs[i])])
             payload == J!Dict([modules |-> modules])
             frame == J!Frame(J!Count(modules, J!Flagged), 0)
             reading == IF odd THEN J!Raised
                        ELSE J!OrUnproven(pifs # <<>>, v, J!Framed(payload, frame))
  <2>1. Junos(key, v) = J!Screened(v, {}, reading)
    BY <1>2 DEF Junos, J!juniper_optics
  <2>2. reading \in {J!Raised, J!Judged("unproven", v), J!Framed(payload, frame)}
    <3> HIDE DEF odd
    <3> QED BY DEF J!OrUnproven, J!Count
  <2> HIDE DEF reading, payload, frame
  <2>3. Answers(reading, key)
    BY <2>2, NoContract, JunosAnswers, JunosAnswersFramed
  <2> QED BY <1>1, <2>1, <2>3
<1>3. CASE key = "proc"
  <2> DEFINE res == J!Firsts(J!JList(J!Get(J!Container(v, "route-engine-information"), "route-engine")))
             engines == J!List([i \in DOMAIN res |-> J!Dict(J!Engine(res[i]))])
             idle == J!JNum(J!Get(J!Master(res), "cpu-idle"))
             partial == J!Dict(J!Field("engines", engines))
             payload == J!Dict([cpuInfo |-> J!Dict(J!Field("%Cpu(s)", J!Dict(J!Field("idle", idle)))),
                                processes |-> J!NoKeys, engines |-> engines])
             frame == J!CpuFrame(100 - idle.num)
             reading == IF res = <<>> THEN J!Judged("unproven", v)
                        ELSE IF J!IsNull(idle) THEN J!Judged("unproven", partial)
                        ELSE J!Framed(payload, frame)
  <2>1. Junos(key, v) = J!Screened(v, {}, reading)
    BY <1>3 DEF Junos, J!juniper_proc
  <2>2. reading \in {J!Judged("unproven", v), J!Judged("unproven", partial), J!Framed(payload, frame)}
    OBVIOUS
  <2> HIDE DEF reading, payload, frame, partial
  <2>3. Answers(reading, key)
    BY <2>2, NoContract, JunosAnswers, JunosAnswersFramed
  <2> QED BY <1>1, <2>1, <2>3
<1> QED BY <1>2, <1>3

\* An answer behind the plain gate, which knows no absence.
LEMMA JunosPlainGate ==
  ASSUME NEW v, NEW key, NEW r, Answers(r, key)
  PROVE  LET g == J!ReadGate(v, r)
         IN /\ Lawful(g, v)
            /\ g.state # "ABSENT"
            /\ g.state = "PRESENT" => conforms(key, g.payload)
            /\ ~IsFailed(v) => g = r
<1>1. CASE IsFailed(v)
  BY <1>1, JunosGate DEF Lawful, Shaped, States
<1>2. CASE ~IsFailed(v)
  BY <1>2, JunosGate DEF Lawful, Answers
<1> QED BY <1>1, <1>2

\* The reading of a version when its two gates are passed.
LEMMA JunosVersion ==
  ASSUME NEW v
  PROVE  LET r == Junos("version", v)
         IN /\ Lawful(r, v) /\ r.state # "ABSENT"
            /\ IsFailed(Get(v, "software")) => r.state = "UNREAD"
            /\ r.frames = <<>>
<1>1. PICK payload, r :
          /\ Junos("version", v) = J!ReadGate(v, r)
          /\ r \in {J!ReadFailed(v), J!Judged("unproven", v), J!Raised, J!Judged("yes", payload)}
          /\ IsFailed(Get(v, "software")) => r = J!ReadFailed(v)
  <2> DEFINE info == J!SoftwareInfo(J!Get(v, "software"))
             identity == J!With(J!Text2("modelName", J!Get(info, "product-model")),
                                J!Text2("version", J!Get(info, "junos-version")))
             fields == J!With(identity, J!With(J!Text2("hostName", J!Get(info, "host-name")),
                 J!With(IF J!SubFailed(v, "hardware") THEN <<>> ELSE J!HardwareFields(J!Get(v, "hardware")),
                        IF J!SubFailed(v, "re") THEN <<>> ELSE J!EngineFields(J!Get(v, "re")))))
             r == IF J!SubFailed(v, "software") THEN J!ReadFailed(v)
                  ELSE IF DOMAIN identity = {} THEN J!Judged("unproven", v)
                  ELSE IF {"memTotal", "memFree"} \subseteq DOMAIN fields /\ fields["memTotal"] = J!Num(0)
                  THEN J!Raised
                  ELSE J!Judged("yes", J!Dict(fields))
  <2>1. Junos("version", v) = J!ReadGate(v, r)
    BY DEF Junos, J!juniper_version
  <2> HIDE DEF info, identity, fields
  <2>2. r \in {J!ReadFailed(v), J!Judged("unproven", v), J!Raised, J!Judged("yes", J!Dict(fields))}
    OBVIOUS
  <2>3. IsFailed(Get(v, "software")) => r = J!ReadFailed(v)
    BY JunosSub
  <2> HIDE DEF r
  <2> QED BY <2>1, <2>2, <2>3
<1>2. Answers(r, "version") /\ r.frames = <<>>
  BY <1>1, NoContract, JunosAnswers, JunosEnds
<1>3. J!ReadFailed(v).state = "UNREAD"
  BY JunosEnds
<1>4. J!ReadGate(v, r).frames = <<>>
  BY <1>2, JunosGate
<1> QED BY <1>1, <1>2, <1>3, <1>4, JunosPlainGate, JunosGate DEF Lawful

\* Interfaces: terse enumerates, alone or beside the descriptions.
LEMMA JunosInterfaces ==
  ASSUME NEW v
  PROVE  LET r == Junos("interfaces", v)
         IN /\ Lawful(r, v) /\ r.state # "ABSENT"
            /\ /\ CompositeOf(v, {"terse", "descriptions"})
               /\ IsFailed(Get(v, "terse"))
               => r.state = "UNREAD"
<1> DEFINE w == IF J!Has(v, "terse") \/ J!Has(v, "descriptions") THEN v ELSE J!Dict([terse |-> v])
           r == J!InterfacesOf(w)
<1>1. Junos("interfaces", v) = J!ReadGate(v, r)
  BY DEF Junos, J!juniper_interfaces
<1>2. \E payload, x : r \in {J!ReadFailed(w), J!Judged("unproven", w), J!Framed(payload, x)}
  BY DEF J!InterfacesOf
<1>3. CompositeOf(v, {"terse", "descriptions"}) => w = v
  BY JunosReads DEF CompositeOf
<1>4. IsFailed(Get(w, "terse")) => r = J!ReadFailed(w)
  <2> HIDE DEF w
  <2>1. IsFailed(Get(w, "terse")) => J!SubFailed(w, "terse")
    BY JunosSub
  <2> QED BY <2>1 DEF J!InterfacesOf
<1> HIDE DEF w, r
<1>5. Answers(r, "interfaces")
  BY <1>2, NoContract, JunosAnswers, JunosAnswersFramed
<1>6. J!ReadFailed(w).state = "UNREAD"
  BY JunosEnds
<1> QED BY <1>1, <1>3, <1>4, <1>5, <1>6, JunosPlainGate DEF Lawful

\* A list of records that have the fields of an environment's.
EnvRecords(recs) ==
    /\ IsList(recs) /\ ~IsDict(recs)
    /\ \A k \in DOMAIN recs.list : \A f \in {"name", "status", "fault"} : Has(recs.list[k], f)
EnvGroupsMet(groups) ==
    /\ groups = [g \in DOMAIN groups |-> groups[g]]
    /\ Groups \subseteq DOMAIN groups
    /\ \A g \in Groups : EnvRecords(groups[g])

\* Groups of such records meet the environment's contract.
LEMMA EnvContract ==
  ASSUME NEW groups, EnvGroupsMet(groups)
  PROVE  conforms("environment", J!Dict(groups))
  BY DEF EnvGroupsMet, EnvRecords, conforms, Required, Records, Groups, Get, Has, IsDict, J!Dict

\* The anchor's groups meet the contract, whatever items it listed.
LEMMA EnvGroupsConform == ASSUME NEW raw PROVE EnvGroupsMet(J!EnvToGroups(raw))
<1> DEFINE items == J!Named(raw)
           temp(i) == ~J!IsNull(J!JAttr(J!Get(items[i], "temperature"), "celsius"))
           group(i) == J!EnvGroup(J!StickyClass(items, i), J!JVal(J!Get(items[i], "name")), temp(i))
           is(g) == J!SelectSeq([i \in DOMAIN items |-> i], LAMBDA i : group(i) = g)
           recs(g) == J!List([k \in DOMAIN is(g) |-> J!EnvRecord(items[is(g)[k]])])
           own == [sensors |-> recs("sensors"), fans |-> recs("fans"), power |-> recs("power")]
           rest == IF recs("other") = J!List(<<>>) THEN <<>> ELSE J!Field("other", recs("other"))
<1>1. J!EnvToGroups(raw) = J!With(own, rest)
  BY DEF J!EnvToGroups
<1>2. ASSUME NEW item, NEW f \in {"name", "status", "fault"} PROVE Has(J!EnvRecord(item), f)
  <2> DEFINE word == J!JVal(J!Get(item, "status"))
             mine == [name |-> J!Str(J!JVal(J!Get(item, "name"))), status |-> J!Str(word),
                      fault |-> J!Bool(word \in J!EnvFault)]
             more == J!With(IF word \in J!EnvVacant THEN J!Field("vacant", J!Bool(TRUE)) ELSE <<>>,
                            J!Optional("tempC", J!JAttr(J!Get(item, "temperature"), "celsius")))
  <2>1. J!EnvRecord(item) = J!Dict(J!With(mine, more))
    BY DEF J!EnvRecord
  <2>2. f \in DOMAIN mine
    OBVIOUS
  <2> HIDE DEF mine, more
  <2> QED BY <2>1, <2>2 DEF Has, IsDict, J!Dict, J!With
<1>3. ASSUME NEW g PROVE EnvRecords(recs(g))
  <2> HIDE DEF is, items
  <2> QED BY <1>2 DEF EnvRecords, IsList, IsDict, J!List
<1> HIDE DEF recs
<1>4. /\ DOMAIN own = Groups
      /\ \A g \in Groups : EnvRecords(own[g])
  BY <1>3 DEF Groups
<1> HIDE DEF own, rest
<1> QED BY <1>1, <1>4 DEF EnvGroupsMet, J!With

\* Enrichment adds fields to records and changes no group but by that.
LEMMA EnrichedConform ==
  ASSUME NEW groups, EnvGroupsMet(groups), NEW v
  PROVE  EnvGroupsMet(J!Enriched(groups, v))
<1>1. ASSUME NEW recs, EnvRecords(recs), NEW items, NEW sub
      PROVE  EnvRecords(J!List(J!Joined(recs.list, items, sub)))
  <2> DEFINE joined == J!Joined(recs.list, items, sub)
  <2>1. /\ DOMAIN joined = DOMAIN recs.list
        /\ \A k \in DOMAIN recs.list :
              \/ joined[k] = recs.list[k]
              \/ \E told : joined[k] = J!Dict(J!With(told, recs.list[k].dict))
    BY DEF J!Joined
  <2>2. ASSUME NEW told, NEW rec, NEW f, Has(rec, f) PROVE Has(J!Dict(J!With(told, rec.dict)), f)
    BY <2>2 DEF J!Dict, J!With, Has, IsDict
  <2> HIDE DEF joined
  <2>3. ASSUME NEW k \in DOMAIN joined, NEW f \in {"name", "status", "fault"} PROVE Has(joined[k], f)
    BY <1>1, <2>1, <2>2 DEF EnvRecords
  <2> QED BY <2>3 DEF EnvRecords, IsList, IsDict, J!List, joined
<1> DEFINE fan == J!List(J!Joined(groups["fans"].list, J!Enrichment(v, "fan", "fan-information",
                            "fan-information-percent-rpm-item"), "fan"))
           hot == J!List(J!Joined(groups["sensors"].list, J!Enrichment(v, "thresholds",
                            "temperature-threshold-information", "temperature-threshold"), "thresholds"))
           psu == J!List(J!Joined(groups["power"].list, J!Enrichment(v, "power",
                            "power-usage-information", "power-usage-item"), "power"))
<1>2. J!Enriched(groups, v) = [groups EXCEPT !["fans"] = fan, !["sensors"] = hot, !["power"] = psu]
  BY DEF J!Enriched, EnvGroupsMet, Groups
<1>3. EnvRecords(fan) /\ EnvRecords(hot) /\ EnvRecords(psu)
  BY <1>1 DEF EnvGroupsMet, Groups
<1> HIDE DEF fan, hot, psu
<1> QED BY <1>2, <1>3 DEF EnvGroupsMet, Groups

\* The anchor's reading, before and after the enriching reads.
LEMMA EnvAnchorReading ==
  ASSUME NEW w
  PROVE  LET a == J!EnvAnchor(w)
         IN /\ Lawful(a, w) /\ a.state \in {"PRESENT", "UNREAD"}
            /\ a.state = "PRESENT" => \E groups : a.payload = J!Dict(groups) /\ EnvGroupsMet(groups)
            /\ Answers(a, "environment")
<1> DEFINE items == J!JList(J!Get(J!Container(w, "environment-information"), "environment-item"))
           groups == J!EnvToGroups(items)
           faults(g) == J!Count(J!Get(J!Dict(groups), g), J!Flagged)
           frame == J!Frame(faults("sensors") + faults("fans") + faults("power") + faults("other"), 0)
           reading == J!OrUnproven(items # <<>>, w, J!Framed(J!Dict(groups), frame))
           a == J!EnvAnchor(w)
<1>1. a = J!Screened(w, {}, reading)
  BY DEF J!EnvAnchor, J!EnvFramed
<1>2. reading \in {J!Judged("unproven", w), J!Framed(J!Dict(groups), frame)}
  BY DEF J!OrUnproven, J!Count
<1>3. EnvGroupsMet(groups)
  BY EnvGroupsConform
<1> HIDE DEF reading, groups, frame, items
<1>4. Answers(reading, "environment")
  BY <1>2, <1>3, EnvContract, JunosAnswers, JunosAnswersFramed
<1>5. reading.state = "PRESENT" => reading.payload = J!Dict(groups)
  BY <1>2, JunosEnds, JunosFramed
<1>6. /\ Lawful(a, w) /\ a.state # "ABSENT"
      /\ a.state = "PRESENT" => conforms("environment", a.payload) /\ a = reading
  BY <1>1, <1>4, JunosTokens, JunosScreen
<1>7. a.state # "RAISED"
  <2>1. reading.state # "RAISED"
    BY <1>2, JunosEnds, JunosFramed
  <2>2. J!ErrorVerdict(w, {}) \in {"none", "no", "unproven"}
    BY JunosTokens, JunosError
  <2>3. a = IF IsFailed(w) THEN J!ReadFailed(w)
            ELSE IF J!ErrorVerdict(w, {}) = "none" THEN reading ELSE J!Judged(J!ErrorVerdict(w, {}), w)
    BY <1>1, JunosGate, JunosEnds DEF J!Screened
  <2> HIDE DEF a
  <2> QED BY <2>1, <2>2, <2>3, JunosEnds
<1> HIDE DEF a
<1>8. /\ a.state \in {"PRESENT", "UNREAD"} /\ Answers(a, "environment")
  BY <1>6, <1>7 DEF Lawful, Shaped, States, Answers
<1>9. a.state = "PRESENT" => \E gs : a.payload = J!Dict(gs) /\ EnvGroupsMet(gs)
  BY <1>3, <1>5, <1>6
<1> QED BY <1>6, <1>8, <1>9 DEF a

\* Composing keeps the anchor's verdict and frame, and the contract.
LEMMA EnvComposedReading ==
  ASSUME NEW w, NEW v
  PROVE  LET a == J!EnvAnchor(w)
             c == J!EnvComposed(a, v)
         IN c.state = a.state /\ c.frames = a.frames /\ Answers(c, "environment")
<1> DEFINE a == J!EnvAnchor(w)
           c == J!EnvComposed(a, v)
<1>1. /\ a.state \in {"PRESENT", "UNREAD"} /\ Answers(a, "environment")
      /\ a.state = "PRESENT" => \E groups : a.payload = J!Dict(groups) /\ EnvGroupsMet(groups)
  BY EnvAnchorReading
<1>2. a.state # "PRESENT" => c = a
  BY DEF J!EnvComposed
<1>3. a.state = "PRESENT" =>
          c = [state |-> "PRESENT", payload |-> J!Dict(J!Enriched(a.payload.dict, v)), frames |-> a.frames]
  BY DEF J!EnvComposed, J!Reading
<1>4. ASSUME a.state = "PRESENT" PROVE EnvGroupsMet(a.payload.dict)
  <2>1. PICK groups : a.payload = J!Dict(groups) /\ EnvGroupsMet(groups)
    BY <1>1, <1>4
  <2> HIDE DEF a
  <2> QED BY <2>1 DEF J!Dict
<1>5. a.state = "PRESENT" => conforms("environment", J!Dict(J!Enriched(a.payload.dict, v)))
  BY <1>4, EnrichedConform, EnvContract
<1> HIDE DEF a, c
<1>6. c.state = a.state /\ c.frames = a.frames /\ Answers(c, "environment")
  BY <1>1, <1>2, <1>3, <1>5 DEF Answers, Shaped, States
<1> QED BY <1>6 DEF a, c

\* Environment: the anchor alone decides, inside a composite or as the reply.
LEMMA JunosEnvironment ==
  ASSUME NEW v
  PROVE  LET r == Junos("environment", v)
         IN /\ Lawful(r, v) /\ r.state # "ABSENT"
            /\ r.state = "PRESENT" => conforms("environment", r.payload)
            /\ /\ CompositeOf(v, {"environment", "fan", "power", "thresholds"})
               /\ IsFailed(Get(v, "environment"))
               => r.state = "UNREAD"
<1> DEFINE composite == CompositeOf(v, {"environment", "fan", "power", "thresholds"})
           lost == IsFailed(Get(v, "environment"))
           r == IF ~composite THEN J!EnvAnchor(v)
                ELSE IF lost THEN J!ReadFailed(v)
                ELSE J!EnvComposed(J!EnvAnchor(J!Get(v, "environment")), v)
<1>1. Junos("environment", v) = J!ReadGate(v, r)
  BY JunosReads, JunosSub DEF Junos, J!juniper_environment, J!EnvReads, CompositeOf
<1>2. Answers(r, "environment")
  BY EnvAnchorReading, EnvComposedReading, JunosAnswers
<1>3. composite /\ lost => r.state = "UNREAD"
  BY JunosEnds
<1> HIDE DEF r, composite, lost
<1>4. composite /\ lost => Junos("environment", v).state = "UNREAD"
  BY <1>1, <1>3, JunosGate
<1>5. /\ Lawful(Junos("environment", v), v) /\ Junos("environment", v).state # "ABSENT"
      /\ Junos("environment", v).state = "PRESENT" => conforms("environment", Junos("environment", v).payload)
  BY <1>1, <1>2, JunosPlainGate
<1> QED BY <1>4, <1>5 DEF composite, lost

\* Every Junos discriminator keeps the law and its contract.
LEMMA JunosKeepsLaw ==
  ASSUME NEW key \in capabilities("juniper"), NEW v
  PROVE  LET r == Junos(key, v)
         IN /\ Lawful(r, v)
            /\ r.state = "PRESENT" => conforms(key, r.payload)
            /\ r.state = "ABSENT" => key \in Protocols
<1>1. CASE key \in Protocols
  BY <1>1, JunosProtocols
<1>2. CASE key \in {"optics", "proc"}
  BY <1>2, JunosOpticsProc, NoContract
<1>3. CASE key = "version"
  BY <1>3, JunosVersion, NoContract
<1>4. CASE key = "interfaces"
  BY <1>4, JunosInterfaces, NoContract
<1>5. CASE key = "environment"
  BY <1>5, JunosEnvironment
<1> QED BY <1>1, <1>2, <1>3, <1>4, <1>5 DEF capabilities

-----------------------------------------------------------------------------
\* Enrichment decides nothing, for every composite and every set of losses.

\* What losing reads leaves: the same keys, and the other reads.
LEMMA LosingKeeps ==
  ASSUME NEW v, IsDict(v), NEW subs, NEW k
  PROVE  /\ Has(Losing(v, subs), k) <=> Has(v, k)
         /\ k \notin subs => Get(Losing(v, subs), k) = Get(v, k)
         /\ k \in subs => IsFailed(Get(Losing(v, subs), k))
  BY DEF Losing, Has, Get, IsDict, Dict, IsFailed, Field, Null

\* A composite that lost a read is still a composite.
LEMMA LosingGate ==
  ASSUME NEW v, IsDict(v), NEW subs, "_error" \notin subs
  PROVE  IsFailed(Losing(v, subs)) <=> IsFailed(v)
<1>1. IsDict(Losing(v, subs))
  BY DEF Losing, IsDict, Dict
<1> QED BY <1>1, LosingKeeps DEF IsFailed

\* Two readings with one verdict and one frame.
SameVerdict(r, s) == r.state = s.state /\ r.frames = s.frames

\* Behind one gate, one verdict.
LEMMA GateKeepsVerdict ==
  ASSUME NEW v, NEW w, IsFailed(v) <=> IsFailed(w), NEW r, NEW s, SameVerdict(r, s)
  PROVE  SameVerdict(J!ReadGate(v, r), J!ReadGate(w, s))
<1>1. CASE IsFailed(v)
  BY <1>1, JunosGate DEF SameVerdict
<1>2. CASE ~IsFailed(v)
  BY <1>2, JunosGate
<1> QED BY <1>1, <1>2

\* What is kept of the reply is no part of the verdict.
LEMMA UnprovenKeepsVerdict ==
  ASSUME NEW v, NEW w
  PROVE  /\ SameVerdict(J!Judged("unproven", v), J!Judged("unproven", w))
         /\ SameVerdict(J!Judged("no", v), J!Judged("no", w))
         /\ SameVerdict(J!ReadFailed(v), J!ReadFailed(w))
<1>1. \A x : /\ J!Judged("unproven", x) = [state |-> "UNREAD", payload |-> x, frames |-> <<>>]
             /\ J!Judged("no", x) = [state |-> "ABSENT", payload |-> x, frames |-> <<>>]
             /\ J!ReadFailed(x) = [state |-> "UNREAD", payload |-> x, frames |-> <<>>]
  BY JunosEnds
<1> QED BY <1>1 DEF SameVerdict

\* The errors' verdict reads three keys of the reply, none of them a read's.
LEMMA LosingError ==
  ASSUME NEW v, IsDict(v), NEW subs \in SUBSET {"fan", "power", "thresholds", "hardware", "re", "descriptions"},
         NEW tokens
  PROVE  J!ErrorVerdict(Losing(v, subs), tokens) = J!ErrorVerdict(v, tokens)
<1>1. \A k \in {"rpc-error", "xnm:error", "error"} : J!Get(Losing(v, subs), k) = J!Get(v, k)
  BY LosingKeeps, JunosReads
<1> QED BY <1>1 DEF J!ErrorVerdict

\* The environment's verdict is its anchor's, and so is its frame.
LEMMA EnvironmentNotDecided ==
  ASSUME NEW v, IsDict(v), NEW subs \in SUBSET {"fan", "power", "thresholds"}
  PROVE  SameVerdict(Junos("environment", Losing(v, subs)), Junos("environment", v))
<1> DEFINE w == Losing(v, subs)
           composite(x) == CompositeOf(x, {"environment", "fan", "power", "thresholds"})
           r(x) == IF ~composite(x) THEN J!EnvAnchor(x)
                   ELSE IF IsFailed(Get(x, "environment")) THEN J!ReadFailed(x)
                   ELSE J!EnvComposed(J!EnvAnchor(J!Get(x, "environment")), x)
<1>1. \A x : Junos("environment", x) = J!ReadGate(x, r(x))
  BY JunosReads, JunosSub DEF Junos, J!juniper_environment, J!EnvReads, CompositeOf
<1>2. IsFailed(w) <=> IsFailed(v)
  BY LosingGate
<1>3. composite(w) <=> composite(v)
  BY LosingKeeps DEF CompositeOf
<1>4. Get(w, "environment") = Get(v, "environment")
  BY LosingKeeps
<1>5. SameVerdict(J!EnvAnchor(w), J!EnvAnchor(v))
  <2> DEFINE items(x) == J!JList(J!Get(J!Container(x, "environment-information"), "environment-item"))
             answer(x) == IF items(x) # <<>> THEN J!EnvFramed(J!EnvToGroups(items(x)))
                          ELSE J!Judged("unproven", x)
             said(x) == J!ErrorVerdict(x, {})
             heard(x) == IF said(x) = "none" THEN answer(x) ELSE J!Judged(said(x), x)
  <2>1. \A x : J!EnvAnchor(x) = J!ReadGate(x, heard(x))
    BY DEF J!EnvAnchor, J!Screened, J!OrUnproven
  <2>2. items(w) = items(v)
    BY LosingKeeps, JunosReads DEF J!Container
  <2>3. SameVerdict(answer(w), answer(v))
    BY <2>2, UnprovenKeepsVerdict DEF SameVerdict
  <2>4. said(w) = said(v) /\ said(v) \in {"none", "no", "unproven"}
    BY LosingError, JunosError, JunosTokens
  <2> HIDE DEF answer, said
  <2>5. SameVerdict(heard(w), heard(v))
    BY <2>3, <2>4, UnprovenKeepsVerdict
  <2> HIDE DEF heard
  <2> QED BY <2>1, <2>5, <1>2, GateKeepsVerdict
<1>6. SameVerdict(J!EnvComposed(J!EnvAnchor(J!Get(w, "environment")), w),
                  J!EnvComposed(J!EnvAnchor(J!Get(v, "environment")), v))
  BY <1>4, JunosReads, EnvComposedReading DEF SameVerdict
<1>7. SameVerdict(r(w), r(v))
  <2> HIDE DEF composite, w
  <2> QED BY <1>3, <1>4, <1>5, <1>6, UnprovenKeepsVerdict
<1> HIDE DEF r
<1> QED BY <1>1, <1>2, <1>7, GateKeepsVerdict

\* Interfaces are enumerated by terse: the descriptions add to the payload only.
LEMMA InterfacesNotDecided ==
  ASSUME NEW v, IsDict(v), NEW subs \in SUBSET {"descriptions"}
  PROVE  SameVerdict(Junos("interfaces", Losing(v, subs)), Junos("interfaces", v))
<1> DEFINE w == Losing(v, subs)
           composite(x) == J!Has(x, "terse") \/ J!Has(x, "descriptions")
           whole(x) == IF composite(x) THEN x ELSE J!Dict([terse |-> x])
           terse(x) == J!Get(whole(x), "terse")
           frame == J!Frame(0, 0)
<1>1. \A x : Junos("interfaces", x) = J!ReadGate(x, J!InterfacesOf(whole(x)))
  BY DEF Junos, J!juniper_interfaces
<1>2. IsFailed(w) <=> IsFailed(v)
  BY LosingGate
<1>3. composite(w) <=> composite(v)
  BY LosingKeeps, JunosReads
<1>4. ASSUME NEW x, NEW y, IsFailed(J!Get(x, "terse")) <=> IsFailed(J!Get(y, "terse")),
             J!ErrorVerdict(J!Get(x, "terse"), {}) = J!ErrorVerdict(J!Get(y, "terse"), {}),
             J!TerseRecords(J!Get(x, "terse")) = J!TerseRecords(J!Get(y, "terse"))
      PROVE  SameVerdict(J!InterfacesOf(x), J!InterfacesOf(y))
  <2> DEFINE stops(z) == \/ J!ErrorVerdict(J!Get(z, "terse"), {}) # "none"
                         \/ DOMAIN J!TerseRecords(J!Get(z, "terse")) = {}
  <2>1. \A z : \E payload : J!InterfacesOf(z) = IF IsFailed(J!Get(z, "terse")) THEN J!ReadFailed(z)
                                   ELSE IF stops(z) THEN J!Judged("unproven", z)
                                   ELSE J!Framed(payload, frame)
    BY JunosReads, JunosSub DEF J!InterfacesOf
  <2>2. stops(x) <=> stops(y)
    BY <1>4
  <2> HIDE DEF stops, frame
  <2>3. \A p, q : SameVerdict(J!Framed(p, frame), J!Framed(q, frame))
    BY JunosFramed DEF SameVerdict
  <2> QED BY <2>1, <2>2, <2>3, <1>4, UnprovenKeepsVerdict
<1>5. CASE composite(v)
  <2>1. whole(w) = w /\ whole(v) = v /\ J!Get(w, "terse") = J!Get(v, "terse")
    BY <1>3, <1>5, LosingKeeps, JunosReads
  <2> HIDE DEF whole, w
  <2>2. SameVerdict(J!InterfacesOf(whole(w)), J!InterfacesOf(whole(v)))
    BY <1>4, <2>1
  <2> QED BY <1>1, <1>2, <2>2, GateKeepsVerdict DEF w
<1>6. CASE ~composite(v)
  <2>1. whole(w) = J!Dict([terse |-> w]) /\ whole(v) = J!Dict([terse |-> v])
    BY <1>3, <1>6
  <2>2. J!Get(whole(w), "terse") = w /\ J!Get(whole(v), "terse") = v
    BY <2>1 DEF J!Get, J!Has, J!IsDict, J!Dict
  <2>3. J!ErrorVerdict(w, {}) = J!ErrorVerdict(v, {})
    BY LosingError
  <2>4. J!Get(w, "interface-information") = J!Get(v, "interface-information")
    BY LosingKeeps, JunosReads
  <2>5. J!TerseRecords(w) = J!TerseRecords(v)
    BY <2>4 DEF J!TerseRecords, J!Pifs, J!Container
  <2> HIDE DEF whole, w
  <2>6. SameVerdict(J!InterfacesOf(whole(w)), J!InterfacesOf(whole(v)))
    BY <1>2, <1>4, <2>2, <2>3, <2>5
  <2> QED BY <1>1, <1>2, <2>6, GateKeepsVerdict DEF w
<1> QED BY <1>5, <1>6

\* A text sets at most the field that it names.
LEMMA TextField ==
  ASSUME NEW k, NEW node, NEW f, f # k
  PROVE  f \notin DOMAIN J!Text2(k, node)
<1>1. f \notin DOMAIN <<>>
  OBVIOUS
<1>2. CASE J!JVal(node) = ""
  BY <1>1, <1>2 DEF J!Text2
<1>3. CASE J!JVal(node) # ""
  BY <1>1, <1>3 DEF J!Text2, J!Field
<1> QED BY <1>2, <1>3

\* A field that the first of two records has not is the second's.
LEMMA FieldBehind ==
  ASSUME NEW g, NEW h, NEW f, f \notin DOMAIN g
  PROVE  /\ f \in DOMAIN J!With(g, h) <=> f \in DOMAIN h
         /\ f \in DOMAIN h => J!With(g, h)[f] = h[f]
  BY DEF J!With

\* A version's memory is the engine's alone: no other read can spell it.
LEMMA VersionNotDecided ==
  ASSUME NEW v, IsDict(v), NEW subs \in SUBSET {"hardware", "re"},
         Junos("version", v).state # "RAISED"
  PROVE  SameVerdict(Junos("version", Losing(v, subs)), Junos("version", v))
<1> DEFINE w == Losing(v, subs)
           info(x) == J!SoftwareInfo(J!Get(x, "software"))
           identity(x) == J!With(J!Text2("modelName", J!Get(info(x), "product-model")),
                                 J!Text2("version", J!Get(info(x), "junos-version")))
           host(x) == J!Text2("hostName", J!Get(info(x), "host-name"))
           chassis(x) == IF J!SubFailed(x, "hardware") THEN <<>> ELSE J!HardwareFields(J!Get(x, "hardware"))
           engine(x) == IF J!SubFailed(x, "re") THEN <<>> ELSE J!EngineFields(J!Get(x, "re"))
           fields(x) == J!With(identity(x), J!With(host(x), J!With(chassis(x), engine(x))))
           divides(x) == {"memTotal", "memFree"} \subseteq DOMAIN fields(x)
                             /\ fields(x)["memTotal"] = J!Num(0)
           r(x) == IF J!SubFailed(x, "software") THEN J!ReadFailed(x)
                   ELSE IF DOMAIN identity(x) = {} THEN J!Judged("unproven", x)
                   ELSE IF divides(x) THEN J!Raised
                   ELSE J!Judged("yes", J!Dict(fields(x)))
<1>1. \A x : Junos("version", x) = J!ReadGate(x, r(x))
  BY DEF Junos, J!juniper_version
<1>2. IsFailed(w) <=> IsFailed(v)
  BY LosingGate
<1>3. Get(w, "software") = Get(v, "software")
  BY LosingKeeps
<1>4. (J!SubFailed(w, "software") <=> J!SubFailed(v, "software")) /\ identity(w) = identity(v)
  BY <1>3, JunosSub, JunosReads
<1>5. ASSUME NEW x, NEW f \in {"memTotal", "memFree"}
      PROVE  /\ f \in DOMAIN fields(x) <=> f \in DOMAIN engine(x)
             /\ f \in DOMAIN engine(x) => fields(x)[f] = engine(x)[f]
  <2> DEFINE text(k, node) == J!Text2(k, node)
             model == text("modelName", J!Get(info(x), "product-model"))
             release == text("version", J!Get(info(x), "junos-version"))
  <2>1. f \notin DOMAIN identity(x)
    <3>1. f \notin DOMAIN model /\ f \notin DOMAIN release
      BY TextField
    <3>2. identity(x) = J!With(model, release)
      OBVIOUS
    <3> HIDE DEF model, release, identity
    <3> QED BY <3>1, <3>2, FieldBehind
  <2>2. f \notin DOMAIN host(x)
    BY TextField
  <2>3. f \notin DOMAIN chassis(x)
    <3>1. CASE J!SubFailed(x, "hardware")
      BY <3>1
    <3>2. CASE ~J!SubFailed(x, "hardware")
      <4> DEFINE box == J!Container(J!Container(J!Get(x, "hardware"), "chassis-inventory"), "chassis")
                 serial == text("serialNumber", J!Get(box, "serial-number"))
                 name == text("modelName", J!Get(box, "description"))
      <4>1. f \notin DOMAIN serial /\ f \notin DOMAIN name
        BY TextField
      <4>2. chassis(x) = J!With(serial, name)
        BY <3>2 DEF J!HardwareFields
      <4> HIDE DEF serial, name, chassis
      <4> QED BY <4>1, <4>2, FieldBehind
    <3> QED BY <3>1, <3>2
  <2> DEFINE inner == J!With(chassis(x), engine(x))
             outer == J!With(host(x), inner)
  <2>4. fields(x) = J!With(identity(x), outer)
    OBVIOUS
  <2> HIDE DEF identity, host, chassis, engine, fields
  <2>5. /\ f \in DOMAIN inner <=> f \in DOMAIN engine(x)
        /\ f \in DOMAIN engine(x) => inner[f] = engine(x)[f]
    BY <2>3, FieldBehind
  <2> HIDE DEF inner
  <2>6. /\ f \in DOMAIN outer <=> f \in DOMAIN inner
        /\ f \in DOMAIN inner => outer[f] = inner[f]
    BY <2>2, FieldBehind
  <2> HIDE DEF outer
  <2> QED BY <2>1, <2>4, <2>5, <2>6, FieldBehind
<1>6. engine(w) = <<>> \/ engine(w) = engine(v)
  <2>1. CASE "re" \in subs
    BY <2>1, LosingKeeps, JunosSub
  <2>2. CASE "re" \notin subs
    <3>1. Get(w, "re") = Get(v, "re")
      BY <2>2, LosingKeeps
    <3> QED BY <3>1, JunosSub, JunosReads
  <2> QED BY <2>1, <2>2
<1>7. divides(w) => divides(v)
  <2> HIDE DEF fields, engine, w
  <2>1. engine(w) = <<>> => "memTotal" \notin DOMAIN engine(w)
    OBVIOUS
  <2> QED BY <1>5, <1>6, <2>1
<1>8. IsFailed(v) \/ J!SubFailed(v, "software") \/ DOMAIN identity(v) = {} \/ ~divides(v)
  <2> HIDE DEF divides, identity
  <2> QED BY <1>1, JunosGate, JunosEnds
<1>9. ~IsFailed(v) => SameVerdict(r(w), r(v))
  <2> HIDE DEF divides, identity, fields, w
  <2>1. \A p, q : SameVerdict(J!Judged("yes", p), J!Judged("yes", q))
    BY JunosEnds DEF SameVerdict
  <2> QED BY <1>4, <1>7, <1>8, <2>1, UnprovenKeepsVerdict
<1> HIDE DEF r, w
<1>10. CASE IsFailed(v)
  BY <1>1, <1>2, <1>10, JunosGate DEF SameVerdict, w
<1>11. CASE ~IsFailed(v)
  BY <1>1, <1>2, <1>9, <1>11, GateKeepsVerdict DEF w
<1> QED BY <1>10, <1>11

-----------------------------------------------------------------------------
\* The feed: what of these readings the cockpit holds, and of which reply.

\* Whatever the feed holds was made of some reply, and did not raise; and while
\* an attached cockpit has the slice of the last poll, of that poll's reply.
FeedInv ==
    /\ polls = 0 => DOMAIN feed = {} /\ serving = 0
    /\ \A key \in DOMAIN feed :
           \E v : /\ feed[key] = EntryOf(determine(vendor, key, v))
                  /\ determine(vendor, key, v).state # "RAISED"
    /\ polls # 0 /\ (\E c \in Attached : Kind[c] = "cockpit" /\ sink[c] = polls) =>
           \A key \in DOMAIN feed :
               /\ feed[key] = EntryOf(determine(vendor, key, batch[key]))
               /\ determine(vendor, key, batch[key]).state # "RAISED"

\* Served afresh, the cockpit holds what the batch under way was read as.
LEMMA DeliverFeed == ASSUME ServeInv, FeedInv, Delivers PROVE FeedInv'
<1>1. /\ UNCHANGED <<vendor, consumers, polls, batch>> /\ serving # 0 /\ ~DeliverRaises(Current)
      /\ sink' = [sink EXCEPT ![Current] = polls]
      /\ feed' = IF Kind[Current] = "cockpit" THEN FeedOf(determine_all(vendor, Slice(Current)))
                 ELSE feed
  BY DEF Delivers
<1>2. Attached' = Attached
  BY <1>1 DEF Attached
<1>3. polls # 0
  BY <1>1 DEF FeedInv
<1>4. CASE Kind[Current] = "cockpit"
  <2>1. \A key \in Wants(Current) : determine(vendor, key, batch[key]).state # "RAISED"
    BY <1>1, <1>4 DEF DeliverRaises
  <2>2. /\ DOMAIN feed' = Wants(Current)
        /\ \A key \in Wants(Current) : feed'[key] = EntryOf(determine(vendor, key, batch[key]))
    BY <1>1, <1>4 DEF FeedOf, determine_all, Slice, EntryOf
  <2> QED BY <1>1, <1>3, <2>1, <2>2 DEF FeedInv
<1>5. CASE Kind[Current] # "cockpit"
  <2>1. ASSUME NEW c \in Attached, Kind[c] = "cockpit", sink'[c] = polls PROVE sink[c] = polls
    <3>1. c \in Consumers /\ c # Current
      BY <1>5, <2>1 DEF ServeInv, Attached
    <3> QED BY <1>1, <2>1, <3>1 DEF ServeInv
  <2>2. feed' = feed
    BY <1>1, <1>5
  <2> QED BY <1>1, <1>2, <1>3, <2>1, <2>2 DEF FeedInv
<1> QED BY <1>4, <1>5

\* The others leave the feed alone, and make nobody's slice the last one.
LEMMA FeedInvariant == Spec => [](ServeInv /\ FeedInv)
<1>1. Init => FeedInv
  BY DEF Init, FeedInv, Nothing, Attached
<1>2. ServeInv /\ ServeInv' /\ FeedInv /\ [Next]_vars => FeedInv'
  <2> SUFFICES ASSUME ServeInv, ServeInv', FeedInv, [Next]_vars PROVE FeedInv'
    OBVIOUS
  <2>1. ASSUME NEW c \in Consumers, Attach(c) PROVE FeedInv'
    <3>1. /\ consumers' = Append(consumers, c) /\ UNCHANGED <<vendor, polls, batch, serving, sink, feed>>
          /\ c \notin Attached
      BY <2>1 DEF Attach
    <3>2. Attached' \subseteq Attached \cup {c} /\ sink[c] = 0
      BY <3>1 DEF ServeInv, Attached
    <3> QED BY <3>1, <3>2 DEF FeedInv
  <2>2. ASSUME NEW c \in Consumers, Detach(c) PROVE FeedInv'
    <3>1. /\ UNCHANGED <<vendor, polls, batch, serving, feed>>
          /\ sink' = [sink EXCEPT ![c] = 0] /\ sink \in [Consumers -> Nat]
      BY <2>2 DEF Detach, ServeInv
    <3>2. Attached' \subseteq Consumers
      BY DEF ServeInv, Attached
    <3>3. \A d \in Consumers : d \notin Attached => sink[d] = 0
      BY DEF ServeInv
    <3>4. \A d \in Attached' : sink'[d] = polls' /\ polls # 0 => sink[d] = polls /\ d \in Attached
      BY <3>1, <3>2, <3>3
    <3> QED BY <3>1, <3>4 DEF FeedInv
  <2>3. CASE PollsNothing
    BY <2>3 DEF PollsNothing, FeedInv, Attached
  <2>4. CASE PollBegins
    <3>1. /\ UNCHANGED <<vendor, consumers, sink, feed>> /\ polls' = polls + 1 /\ polls \in Nat
      BY <2>4 DEF PollBegins, ServeInv
    <3>2. Attached' = Attached
      BY <3>1 DEF Attached
    <3>3. \A c \in Attached : sink[c] <= polls /\ sink[c] \in Nat
      BY DEF ServeInv, Attached
    <3>4. polls' # 0 /\ \A c \in Attached' : sink'[c] # polls'
      BY <3>1, <3>2, <3>3
    <3> QED BY <3>1, <3>4 DEF FeedInv
  <2>5. CASE DeliveryFails
    BY <2>5 DEF DeliveryFails, FeedInv, Attached
  <2>6. CASE UNCHANGED vars
    BY <2>6 DEF vars, FeedInv, Attached
  <2> QED BY <2>1, <2>2, <2>3, <2>4, <2>5, <2>6, DeliverFeed DEF Next
<1> QED BY ServeInvariant, <1>1, <1>2, PTL DEF Spec

-----------------------------------------------------------------------------
\* The registry, and what the cockpit holds of a batch.

\* What holds of the reading r of a reply v of whichever vendor.
Judicious(key, v, r) ==
    /\ Lawful(r, v)
    /\ vendor # "arista" /\ r.state = "PRESENT" => conforms(key, r.payload)
    /\ r.state = "ABSENT" => key \in Protocols \cup {"mlag"}
    /\ \A sub \in Anchors(key, v) : IsFailed(Get(v, sub)) => r.state = "UNREAD"

\* A reading keeps the law and, on Junos, its contract; a key without a
\* discriminator is unread.
LEMMA EveryReadingLawful == ASSUME NEW key, NEW v PROVE Judicious(key, v, determine(vendor, key, v))
<1>1. CASE key \notin capabilities(vendor)
  <2>1. determine(vendor, key, v) = [state |-> "UNREAD", payload |-> v, frames |-> <<>>]
    BY <1>1 DEF determine, Reading
  <2>2. Judicious(key, v, [state |-> "UNREAD", payload |-> v, frames |-> <<>>])
    BY DEF Judicious, Lawful, Shaped, States
  <2> QED BY <2>1, <2>2
<1>2. CASE key \in capabilities(vendor) /\ vendor = "arista"
  <2>1. determine(vendor, key, v) = EOS(key, v) /\ key \in capabilities("arista")
    BY <1>2 DEF determine
  <2>2. Lawful(EOS(key, v), v) /\ (EOS(key, v).state = "ABSENT" => key \in Protocols \cup {"mlag"})
    BY <2>1, EosKeepsLaw
  <2>3. \A sub \in Anchors(key, v) : IsFailed(Get(v, sub)) => EOS(key, v).state = "UNREAD"
    <3>1. CASE key = "environment"
      BY <1>2, <2>1, <3>1, EosKeepsLaw DEF Anchors
    <3>2. CASE key # "environment"
      BY <1>2, <3>2 DEF Anchors
    <3> QED BY <3>1, <3>2
  <2>4. Judicious(key, v, EOS(key, v))
    BY <1>2, <2>2, <2>3 DEF Judicious
  <2> QED BY <2>1, <2>4
<1>3. CASE key \in capabilities(vendor) /\ vendor # "arista"
  <2>1. determine(vendor, key, v) = Junos(key, v) /\ key \in capabilities("juniper")
    BY <1>3 DEF determine, capabilities
  <2>2. /\ Lawful(Junos(key, v), v)
        /\ Junos(key, v).state = "PRESENT" => conforms(key, Junos(key, v).payload)
        /\ Junos(key, v).state = "ABSENT" => key \in Protocols
    BY <2>1, JunosKeepsLaw
  <2>3. \A sub \in Anchors(key, v) : IsFailed(Get(v, sub)) => Junos(key, v).state = "UNREAD"
    <3>1. CASE key = "version"
      BY <1>3, <3>1, JunosVersion DEF Anchors
    <3>2. CASE key = "interfaces"
      BY <1>3, <3>2, JunosInterfaces DEF Anchors
    <3>3. CASE key = "environment"
      BY <1>3, <3>3, JunosEnvironment DEF Anchors
    <3>4. CASE key \notin {"version", "interfaces", "environment"}
      BY <1>3, <3>4 DEF Anchors
    <3> QED BY <3>1, <3>2, <3>3, <3>4
  <2>4. Judicious(key, v, Junos(key, v))
    BY <2>2, <2>3 DEF Judicious
  <2> QED BY <2>1, <2>4
<1> QED BY <1>1, <1>2, <1>3

\* What is fresh is of the batch, and did not raise.
LEMMA FreshEntry ==
  ASSUME FeedInv, NEW key \in Fresh
  PROVE  /\ key \in DOMAIN feed
         /\ feed[key] = EntryOf(determine(vendor, key, batch[key]))
         /\ determine(vendor, key, batch[key]).state # "RAISED"
<1>1. key \in DOMAIN feed /\ \E c \in Attached : Kind[c] = "cockpit" /\ sink[c] = polls
  BY DEF Fresh
<1>2. polls # 0
  BY <1>1 DEF FeedInv
<1> QED BY <1>1, <1>2 DEF FeedInv

\* An entry keeps the verdict and the frames of its reading.
LEMMA EntryVerdict ==
  ASSUME NEW key, NEW v
  PROVE  LET r == determine(vendor, key, v)
         IN /\ SameVerdict(EntryOf(r), r)
            /\ EntryOf(r).payload = IF r.state = "PRESENT" THEN r.payload ELSE Null
  BY DEF EntryOf, SameVerdict

\* The law, for every reply that there is: a read that failed, or whose anchor
\* did, is UNREAD, and absence is never concluded without something in the
\* reply that says so (law.py:118, reading.py:8-19).
THEOREM LawHolds == Spec => []VerdictIsEvidenced
<1>1. FeedInv => VerdictIsEvidenced
  <2> SUFFICES ASSUME FeedInv, NEW key \in Fresh
               PROVE  /\ AnchorFailed(key, batch[key]) => feed[key].state = "UNREAD"
                      /\ feed[key].state = "ABSENT" =>
                             SaysNone(batch[key]) /\ key \in Protocols \cup {"mlag"}
    BY DEF VerdictIsEvidenced
  <2> DEFINE v == batch[key]
             r == determine(vendor, key, v)
  <2>1. feed[key].state = r.state
    BY FreshEntry, EntryVerdict DEF SameVerdict
  <2>2. Judicious(key, v, r)
    BY EveryReadingLawful
  <2> HIDE DEF r, v
  <2>3. AnchorFailed(key, v) => r.state = "UNREAD"
    BY <2>2 DEF Judicious, Lawful, AnchorFailed
  <2>4. r.state = "ABSENT" => SaysNone(v) /\ key \in Protocols \cup {"mlag"}
    BY <2>2 DEF Judicious, Lawful
  <2> QED BY <2>1, <2>3, <2>4 DEF v
<1> QED BY FeedInvariant, <1>1, PTL

\* What the cockpit holds is a state of the law, and nothing but a PRESENT
\* reading carries frames or a payload.
FeedLawful ==
    \A key \in DOMAIN feed :
        /\ feed[key].state \in States
        /\ feed[key].state # "PRESENT" => feed[key].frames = <<>> /\ feed[key].payload = Null

\* The contracts, whatever a tolerated read of a composite left out: of Junos
\* every present payload meets its own, and of either vendor nothing that is
\* not present has a frame or a payload (contract.py, session.py).
THEOREM ContractsMet == Spec => [](FeedLawful /\ (vendor # "arista" => PresentConforms))
<1>1. FeedInv => FeedLawful /\ (vendor # "arista" => PresentConforms)
  <2> SUFFICES ASSUME FeedInv, NEW key \in DOMAIN feed
               PROVE  /\ feed[key].state \in States
                      /\ feed[key].state # "PRESENT" =>
                             feed[key].frames = <<>> /\ feed[key].payload = Null
                      /\ vendor # "arista" /\ feed[key].state = "PRESENT" =>
                             conforms(key, feed[key].payload)
    BY DEF FeedLawful, PresentConforms
  <2>1. PICK v : /\ feed[key] = EntryOf(determine(vendor, key, v))
                 /\ determine(vendor, key, v).state # "RAISED"
    BY DEF FeedInv
  <2> DEFINE r == determine(vendor, key, v)
  <2>2. Judicious(key, v, r)
    BY EveryReadingLawful
  <2>3. /\ feed[key].state = r.state /\ feed[key].frames = r.frames
        /\ feed[key].payload = IF r.state = "PRESENT" THEN r.payload ELSE Null
    BY <2>1, EntryVerdict DEF SameVerdict
  <2>4. r.state # "RAISED"
    BY <2>1
  <2> HIDE DEF r
  <2>5. r.state \in States /\ (r.state # "PRESENT" => r.frames = <<>>)
    BY <2>2, <2>4 DEF Judicious, Lawful, Shaped
  <2>6. vendor # "arista" /\ r.state = "PRESENT" => conforms(key, r.payload)
    BY <2>2 DEF Judicious
  <2> QED BY <2>3, <2>5, <2>6
<1> QED BY FeedInvariant, <1>1, PTL

-----------------------------------------------------------------------------
\* What was polled are replies, of keys that the vendor is polled for.
BatchInv ==
    /\ vendor \in DOMAIN Odd
    /\ \A c \in Attached : Wants(c) \subseteq VENDOR_MANIFESTS[vendor]
    /\ \A key \in DOMAIN batch : IsReply(batch[key])

\* A poll reads what was attached for, and gets a reply for each.
LEMMA BeginBatch == ASSUME ServeInv, BatchInv, PollBegins PROVE BatchInv'
<1>1. /\ UNCHANGED <<vendor, consumers>> /\ polls < Len(Odd[vendor])
      /\ \E key \in Union : \E reply \in {Usual[vendor][key]} \cup Odd[vendor][polls + 1][key] :
             batch' = [[k \in Union |-> Usual[vendor][k]] EXCEPT ![key] = reply]
  BY DEF PollBegins
<1>2. Attached' = Attached /\ \A c : Wants(c)' = Wants(c)
  BY <1>1 DEF Attached, Wants
<1>3. Union \subseteq (UNION {Manifest[vendor][c] : c \in Consumers}) \cap VENDOR_MANIFESTS[vendor]
  <2>1. Attached \subseteq Consumers
    BY DEF ServeInv, Attached
  <2> QED BY <2>1 DEF Union, Wants, BatchInv
<1>4. polls + 1 \in 1..Len(Odd[vendor]) /\ vendor \in DOMAIN Odd
  BY <1>1, RepliesAssumption DEF ServeInv, BatchInv
<1>5. \A key \in Union : /\ IsReply(Usual[vendor][key])
                         /\ \A reply \in Odd[vendor][polls + 1][key] : IsReply(reply)
  BY <1>3, <1>4, RepliesAssumption
<1>6. \A key \in DOMAIN batch' : IsReply(batch'[key])
  BY <1>1, <1>5
<1> QED BY <1>1, <1>2, <1>6 DEF BatchInv

\* Who leaves brings nobody in.
LEMMA DetachAttached == ASSUME ServeInv, NEW c \in Consumers, Detach(c) PROVE Attached' \subseteq Attached
<1>1. PICK p \in DOMAIN consumers :
          consumers' = SubSeq(consumers, 1, p - 1) \o SubSeq(consumers, p + 1, Len(consumers))
  BY DEF Detach
<1>2. consumers \in Seq(Consumers) /\ DOMAIN consumers = 1..Len(consumers) /\ Len(consumers) \in Nat
  BY DEF ServeInv
<1> DEFINE front == SubSeq(consumers, 1, p - 1)
           back == SubSeq(consumers, p + 1, Len(consumers))
<1>3. /\ front \in Seq(Consumers) /\ Len(front) = p - 1
      /\ \A i \in 1..(p - 1) : front[i] \in Attached
  BY <1>2 DEF Attached
<1>4. /\ back \in Seq(Consumers) /\ Len(back) = Len(consumers) - p
      /\ \A i \in 1..(Len(consumers) - p) : back[i] = consumers[i + p] /\ i + p \in DOMAIN consumers
  BY <1>2
<1>5. \A i \in 1..(Len(consumers) - p) : back[i] \in Attached
  BY <1>4 DEF Attached
<1>6. consumers' = front \o back
  BY <1>1
<1> HIDE DEF front, back
<1>7. DOMAIN consumers' = 1..(Len(front) + Len(back))
  BY <1>3, <1>4, <1>6
<1>8. \A i \in 1..(Len(front) + Len(back)) :
          consumers'[i] = IF i <= Len(front) THEN front[i] ELSE back[i - Len(front)]
  BY <1>3, <1>4, <1>6, ConcatProperties
<1>9. ASSUME NEW i \in DOMAIN consumers' PROVE consumers'[i] \in Attached
  <2>1. CASE i <= Len(front)
    <3>1. i \in 1..(p - 1) /\ consumers'[i] = front[i]
      BY <1>2, <1>3, <1>4, <1>7, <1>8, <2>1
    <3> QED BY <1>3, <3>1
  <2>2. CASE i > Len(front)
    <3> DEFINE k == i - Len(front)
    <3>1. i \in 1..(Len(front) + Len(back)) /\ ~(i <= Len(front)) /\ i \in Nat /\ p \in Nat
      BY <1>2, <1>3, <1>4, <1>7, <2>2
    <3>2. consumers'[i] = back[k]
      BY <1>8, <3>1
    <3>3. k \in 1..(Len(consumers) - p)
      BY <1>2, <1>3, <1>4, <3>1
    <3> HIDE DEF k
    <3> QED BY <1>5, <3>2, <3>3
  <2> QED BY <1>2, <1>3, <1>7, <2>1, <2>2
<1> QED BY <1>9 DEF Attached

\* Only a consumer whose keys the vendor reads is attached.
LEMMA BatchInvariant == Spec => []BatchInv
<1>1. Init => BatchInv
  BY DEF Init, BatchInv, Nothing, Attached
<1>2. ServeInv /\ BatchInv /\ [Next]_vars => BatchInv'
  <2> SUFFICES ASSUME ServeInv, BatchInv, [Next]_vars PROVE BatchInv'
    OBVIOUS
  <2>1. ASSUME NEW c \in Consumers, Attach(c) PROVE BatchInv'
    <3>1. /\ consumers' = Append(consumers, c) /\ UNCHANGED <<vendor, batch>>
          /\ Wants(c) \subseteq VENDOR_MANIFESTS[vendor]
      BY <2>1 DEF Attach
    <3>2. Attached' \subseteq Attached \cup {c}
      BY <3>1 DEF ServeInv, Attached
    <3> QED BY <3>1, <3>2 DEF BatchInv, Wants
  <2>2. ASSUME NEW c \in Consumers, Detach(c) PROVE BatchInv'
    <3>1. UNCHANGED <<vendor, batch>>
      BY <2>2 DEF Detach
    <3>2. Attached' \subseteq Attached
      BY <2>2, DetachAttached
    <3> QED BY <3>1, <3>2 DEF BatchInv, Wants
  <2>3. CASE PollsNothing
    BY <2>3 DEF PollsNothing, BatchInv, Attached, Wants
  <2>4. CASE Delivers
    BY <2>4 DEF Delivers, BatchInv, Attached, Wants
  <2>5. CASE DeliveryFails
    BY <2>5 DEF DeliveryFails, BatchInv, Attached, Wants
  <2>6. CASE UNCHANGED vars
    BY <2>6 DEF vars, BatchInv, Attached, Wants
  <2> QED BY <2>1, <2>2, <2>3, <2>4, <2>5, <2>6, BeginBatch DEF Next
<1> QED BY ServeInvariant, <1>1, <1>2, PTL DEF Spec

\* Whatever reads of a composite are lost, the verdict and the frame stay.
LEMMA LossDecidesNothing ==
  ASSUME NEW key, NEW v, IsDict(v), IsReply(v), NEW subs \in SUBSET Enrichments(key),
         determine(vendor, key, v).state # "RAISED"
  PROVE  SameVerdict(determine(vendor, key, Losing(v, subs)), determine(vendor, key, v))
<1>1. CASE subs = {}
  <2>1. Losing(v, subs) = Dict([k \in DOMAIN v.dict |-> v.dict[k]])
    BY <1>1 DEF Losing
  <2>2. Losing(v, subs) = v
    BY <2>1 DEF IsReply
  <2> QED BY <2>2 DEF SameVerdict
<1>2. CASE subs # {}
  <2>1. vendor = "juniper" /\ key \in {"environment", "version", "interfaces"}
    BY <1>2 DEF Enrichments
  <2>2. \A x : determine(vendor, key, x) = Junos(key, x)
    BY <2>1 DEF determine, capabilities
  <2>3. CASE key = "environment"
    <3>1. subs \in SUBSET {"fan", "power", "thresholds"}
      BY <2>1, <2>3 DEF Enrichments
    <3> QED BY <2>2, <2>3, <3>1, EnvironmentNotDecided
  <2>4. CASE key = "version"
    <3>1. subs \in SUBSET {"hardware", "re"}
      BY <2>1, <2>4 DEF Enrichments
    <3> QED BY <2>2, <2>4, <3>1, VersionNotDecided
  <2>5. CASE key = "interfaces"
    <3>1. subs \in SUBSET {"descriptions"}
      BY <2>1, <2>5 DEF Enrichments
    <3> QED BY <2>2, <2>5, <3>1, InterfacesNotDecided
  <2> QED BY <2>1, <2>3, <2>4, <2>5
<1> QED BY <1>1, <1>2

\* Junos composites: losing any of the enriching reads changes neither the
\* verdict nor the frame that the cockpit shows, for every reply and every
\* set of losses (juniper.py: enrichment adds fields, never state).
THEOREM EnrichmentIsInert == Spec => []EnrichmentNeverDecides
<1>1. FeedInv /\ BatchInv => EnrichmentNeverDecides
  <2> SUFFICES ASSUME FeedInv, BatchInv, NEW key \in Fresh, NEW subs \in SUBSET Enrichments(key),
                      IsDict(batch[key])
               PROVE  SameVerdict(determine(vendor, key, Losing(batch[key], subs)), feed[key])
    BY DEF EnrichmentNeverDecides, SameVerdict
  <2> DEFINE v == batch[key]
  <2>1. /\ SameVerdict(feed[key], determine(vendor, key, v))
        /\ determine(vendor, key, v).state # "RAISED"
    BY FreshEntry, EntryVerdict
  <2>2. IsReply(v)
    BY DEF Fresh, BatchInv
  <2> HIDE DEF v
  <2>3. IsDict(v)
    BY DEF v
  <2>4. SameVerdict(determine(vendor, key, Losing(v, subs)), determine(vendor, key, v))
    BY <2>1, <2>2, <2>3, LossDecidesNothing
  <2> QED BY <2>1, <2>4 DEF SameVerdict, v
<1> QED BY FeedInvariant, BatchInvariant, <1>1, PTL

-----------------------------------------------------------------------------
\* No green over red.  A frame counts the records in trouble, and none is
\* counted only if there is none, since a payload has finitely many.

\* A payload of finitely many records, in finitely many groups.
FiniteRecords(payload) ==
    /\ IsFiniteSet(DOMAIN Elems(payload))
    /\ \A r \in RecordsOf(payload) : IsFiniteSet(DOMAIN Elems(r))

\* The frame of a reading says the truth of its payload.
Truthful(key, r) == Green(r) /\ FiniteRecords(r.payload) => ~Troubled(key, r.payload)

\* What a count of none means.
LEMMA NoneCounted ==
  ASSUME NEW S, IsFiniteSet(S), NEW T \in SUBSET S
  PROVE  Cardinality(T) \in Nat /\ (Cardinality(T) <= 0 => T = {})
<1>1. IsFiniteSet(T)
  BY FS_Subset
<1>2. Cardinality(T) \in Nat /\ (Cardinality(T) = 0 <=> T = {})
  BY <1>1, FS_CardinalityType, FS_EmptySet
<1> QED BY <1>2

\* A reading with one frame is green when its value is within the ceiling, and
\* one without frames is not.
LEMMA GreenWithin ==
  ASSUME NEW payload, NEW n
  PROVE  /\ Green(J!Framed(payload, J!Frame(n, 0))) => n <= 0
         /\ Green(A!Framed(payload, A!Frame(n, 0))) => n <= 0
<1> DEFINE x == J!Frame(n, 0)
<1>1. A!Frame(n, 0) = x /\ (x.status = "OK" => n <= 0)
  BY DEF J!Frame, J!FrameStatus, A!Frame, A!FrameStatus
<1> HIDE DEF x
<1>2. Green([state |-> "PRESENT", payload |-> payload, frames |-> <<x>>]) => x.status = "OK"
  BY DEF Green
<1> QED BY <1>1, <1>2, JunosFramed, EosFramed DEF x

\* Without frames, no green.
LEMMA NoFramesNoGreen == ASSUME NEW r, r.frames = <<>> PROVE ~Green(r)
  BY DEF Green

\* The maps and lists of a reply are walked alike in the three modules.
LEMMA Walks ==
  ASSUME NEW v
  PROVE  /\ J!Elems(v) = Elems(v) /\ A!Elems(v) = Elems(v)
         /\ J!Text(v) = Text(v) /\ J!Str(v) = Str(v) /\ J!Bool(v) = Bool(v)
  BY DEF J!Elems, A!Elems, Elems, J!Text, Text, J!IsDict, J!IsList, J!IsStr, J!IsNull,
         A!IsDict, A!IsList, IsDict, IsList, IsStr, IsNull, J!Str, Str, J!Bool, Bool

\* A green reading was let through by whatever gates it passed.
LEMMA GreenPasses ==
  ASSUME NEW v, NEW r
  PROVE  /\ Green(J!ReadGate(v, r)) => J!ReadGate(v, r) = r
         /\ \A tokens : Words(tokens) /\ Green(J!Screened(v, tokens, r)) => J!Screened(v, tokens, r) = r
         /\ \A shown : Green(J!OrUnproven(shown, v, r)) => J!OrUnproven(shown, v, r) = r
         /\ Green(A!Screened(v, r)) => A!Screened(v, r) = r
         /\ Green(A!Gated(v, r)) => A!Gated(v, r) = r
<1>1. \A said \in {"none", "no", "unproven"} :
          /\ said # "none" => J!Judged(said, v).frames = <<>> /\ A!Judged(said, v).frames = <<>>
          /\ J!ReadFailed(v).frames = <<>> /\ A!ReadFailed(v).frames = <<>>
  BY JunosEnds, EosEnds
<1>2. Green(J!ReadGate(v, r)) => J!ReadGate(v, r) = r
  BY JunosGate, NoFramesNoGreen
<1>3. ASSUME NEW tokens, Words(tokens), Green(J!Screened(v, tokens, r))
      PROVE  J!Screened(v, tokens, r) = r
  <2> DEFINE said == J!ErrorVerdict(v, tokens)
             heard == IF said = "none" THEN r ELSE J!Judged(said, v)
  <2>1. J!Screened(v, tokens, r) = J!ReadGate(v, heard)
    BY DEF J!Screened
  <2>2. said \in {"none", "no", "unproven"}
    BY <1>3, JunosError
  <2>3. said # "none" => heard.frames = <<>>
    BY <1>1, <2>2
  <2> HIDE DEF heard
  <2>4. J!ReadGate(v, heard) = heard
    BY <1>3, <2>1, JunosGate, NoFramesNoGreen
  <2>5. said = "none"
    BY <1>3, <2>1, <2>3, <2>4, NoFramesNoGreen
  <2> QED BY <2>1, <2>4, <2>5 DEF heard
<1>4. \A shown : Green(J!OrUnproven(shown, v, r)) => J!OrUnproven(shown, v, r) = r
  BY <1>1, NoFramesNoGreen DEF J!OrUnproven
<1>5. Green(A!Gated(v, r)) => A!Gated(v, r) = r
  BY <1>1, NoFramesNoGreen DEF A!Gated
<1>6. Green(A!Screened(v, r)) => A!Screened(v, r) = r
  <2> DEFINE said == A!ErrorsVerdict(v)
             heard == IF said = "none" THEN r ELSE A!Judged(said, v)
  <2>1. A!Screened(v, r) = IF A!ReadOk(v) THEN heard ELSE A!ReadFailed(v)
    BY DEF A!Screened, A!Gated
  <2>2. said \in {"none", "no", "unproven"}
    BY EosGate
  <2>3. said # "none" => heard.frames = <<>>
    BY <1>1, <2>2
  <2>4. said = "none" => heard = r
    OBVIOUS
  <2> HIDE DEF heard
  <2> QED BY <1>1, <2>1, <2>3, <2>4, NoFramesNoGreen
<1> QED BY <1>2, <1>3, <1>4, <1>5, <1>6

\* The modules of the vendors count as FiniteSets does.
LEMMA Counts ==
  ASSUME NEW T PROVE J!Cardinality(T) = Cardinality(T) /\ A!Cardinality(T) = Cardinality(T)
  BY DEF J!Cardinality, A!Cardinality, Cardinality

\* None of the records that a frame within its ceiling was counted over is one
\* of those it counts: `bad` are the places of the records in trouble.
LEMMA FramedTruthfully ==
  ASSUME NEW key, NEW payload, NEW S, NEW bad \in SUBSET S, NEW r,
         r \in {J!Framed(payload, J!Frame(Cardinality(bad), 0)),
                A!Framed(payload, A!Frame(Cardinality(bad), 0))},
         FiniteRecords(payload) => IsFiniteSet(S),
         bad = {} => ~Troubled(key, payload)
  PROVE  Truthful(key, r)
<1>1. r.payload = payload /\ (Green(r) => Cardinality(bad) <= 0)
  BY JunosFramed, EosFramed, GreenWithin
<1>2. IsFiniteSet(S) /\ Cardinality(bad) <= 0 => bad = {}
  BY NoneCounted
<1> QED BY <1>1, <1>2 DEF Truthful

\* Peers and neighbors: the records of the frame are the records shown.
LEMMA JunosPeersTruthful ==
  ASSUME NEW key \in {"bgp", "ospf"}, NEW v PROVE Truthful(key, Junos(key, v))
<1> DEFINE rows == IF key = "bgp" THEN J!JList(J!Get(J!Container(v, "bgp-information"), "bgp-peer"))
                   ELSE J!JList(J!Get(J!Container(v, "ospf-neighbor-information"), "ospf-neighbor"))
           tokens == IF key = "bgp" THEN J!NotRunning ELSE J!NoOspf
           records == J!ToContract(key, rows)
           field == IF key = "bgp" THEN "peerState" ELSE "adjacencyState"
           well == IF key = "bgp" THEN "established" ELSE "full"
           bad == {i \in DOMAIN J!Elems(records) : J!Text(J!Get(J!Elems(records)[i], field)) # well}
           reading == J!Framed(records, J!Frame(Cardinality(bad), 0))
           shown == J!OrUnproven(rows # <<>>, v, reading)
<1>1. Junos(key, v) = J!Screened(v, tokens, shown)
  <2>1. CASE key = "bgp"
    <3> DEFINE down(r) == J!Text(J!Get(r, "peerState")) # "established"
    <3>1. J!Count(records, down) = Cardinality(bad)
      BY <2>1, Counts DEF J!Count
    <3>2. Junos(key, v) =
              J!Screened(v, tokens, J!OrUnproven(rows # <<>>, v,
                  J!Framed(records, J!Frame(J!Count(records, down), 0))))
      BY <2>1 DEF Junos, J!juniper_bgp
    <3> QED BY <3>1, <3>2
  <2>2. CASE key = "ospf"
    <3> DEFINE down(r) == J!Text(J!Get(r, "adjacencyState")) # "full"
    <3>1. J!Count(records, down) = Cardinality(bad)
      BY <2>2, Counts DEF J!Count
    <3>2. Junos(key, v) =
              J!Screened(v, tokens, J!OrUnproven(rows # <<>>, v,
                  J!Framed(records, J!Frame(J!Count(records, down), 0))))
      BY <2>2 DEF Junos, J!juniper_ospf
    <3> QED BY <3>1, <3>2
  <2> QED BY <2>1, <2>2
<1>2. Words(tokens)
  BY JunosTokens
<1>3. Truthful(key, reading)
  <2>1. bad = {} => ~Troubled(key, records)
    <3> SUFFICES ASSUME bad = {}, NEW i \in DOMAIN Elems(records)
                 PROVE  Says(Elems(records)[i], field, well)
      BY DEF Troubled, RecordsOf
    <3> HIDE DEF records
    <3>1. J!Text(J!Get(J!Elems(records)[i], field)) = well
      BY Walks
    <3> QED BY <3>1, Walks, JunosReads DEF Says
  <2>2. bad \in SUBSET DOMAIN Elems(records)
    <3> HIDE DEF records
    <3> QED BY Walks
  <2>3. FiniteRecords(records) => IsFiniteSet(DOMAIN Elems(records))
    BY DEF FiniteRecords
  <2> HIDE DEF bad, records
  <2> QED BY <2>1, <2>2, <2>3, FramedTruthfully
<1>4. Green(shown) => shown = reading
  <2> HIDE DEF reading, rows
  <2> QED BY GreenPasses
<1> HIDE DEF reading, tokens, shown
<1>5. Green(Junos(key, v)) => Junos(key, v) = shown
  <2>1. Green(J!Screened(v, tokens, shown)) => J!Screened(v, tokens, shown) = shown
    BY <1>2, GreenPasses
  <2> QED BY <1>1, <2>1
<1> QED BY <1>3, <1>4, <1>5 DEF Truthful

\* A module in none of whose flags, nor its lanes', is on is not in trouble:
\* the module's fault is its own and its lanes'.
LEMMA OpticsModuleTruthful ==
  ASSUME NEW pif, Get(J!OpticsModule(pif), "fault") # Bool(TRUE)
  PROVE  \A r \in {J!OpticsModule(pif)} \cup Range(Lanes(J!OpticsModule(pif))) :
             Get(r, "fault") # Bool(TRUE)
<1> DEFINE diag == J!Container(pif, "optics-diagnostics")
           lanes == J!Firsts(J!JList(J!Get(diag, "optics-diagnostics-lane-values")))
           tripped(mod, lane) == \/ J!On(diag, mod)
                                 \/ \E i \in DOMAIN lanes : J!On(lanes[i], lane)
           fault == tripped(J!ModAlarms, J!LaneAlarms)
           warn == tripped(J!ModWarns, J!LaneWarns)
           own == [name |-> J!Str(J!JVal(J!Get(pif, "name"))), dom |-> J!Bool(J!IsDict(diag)),
                   fault |-> J!Bool(fault), warn |-> J!Bool(warn /\ ~fault)]
           rows == [i \in DOMAIN lanes |-> J!OpticsLane(lanes[i])]
           rest == IF lanes = <<>> THEN <<>> ELSE J!Field("lanes", J!List(rows))
           m == J!OpticsModule(pif)
<1>1. m = J!Dict(J!With(own, rest))
  BY DEF J!OpticsModule
<1>2. Get(m, "fault") = J!Bool(fault)
  <2>1. own.fault = J!Bool(fault) /\ "fault" \in DOMAIN own
    OBVIOUS
  <2> HIDE DEF own, rest, fault, m
  <2> QED BY <1>1, <2>1 DEF Get, Has, IsDict, J!Dict, J!With
<1>3. ~fault
  <2>1. fault => J!Bool(fault) = Bool(TRUE)
    BY DEF J!Bool, Bool
  <2> HIDE DEF fault
  <2> QED BY <1>2, <2>1
<1>4. \A i \in DOMAIN lanes : Get(J!OpticsLane(lanes[i]), "fault") # Bool(TRUE)
  <2> SUFFICES ASSUME NEW i \in DOMAIN lanes PROVE Get(J!OpticsLane(lanes[i]), "fault") # Bool(TRUE)
    OBVIOUS
  <2>1. ~J!On(lanes[i], J!LaneAlarms)
    BY <1>3
  <2> HIDE DEF lanes
  <2> QED BY <2>1 DEF J!OpticsLane, Get, Has, IsDict, J!Dict, J!Bool, Bool
<1>5. Lanes(m) \in {<<>>, rows}
  <2>1. "lanes" \notin DOMAIN own /\ (rest = <<>> \/ rest = [x \in {"lanes"} |-> J!List(rows)])
    BY DEF J!Field
  <2>2. Get(m, "lanes") \in {Null, J!List(rows)}
    <3> HIDE DEF own, rest, m, rows
    <3> QED BY <1>1, <2>1 DEF Get, Has, IsDict, J!Dict, J!With
  <2> HIDE DEF m, rows
  <2> QED BY <2>2 DEF Lanes, Items, IsList, Null, J!List
<1>6. \A r \in Range(Lanes(m)) : Get(r, "fault") # Bool(TRUE)
  <2>1. \A r \in Range(rows) : Get(r, "fault") # Bool(TRUE)
    BY <1>4 DEF Range
  <2>2. \A r \in Range(<<>>) : FALSE
    BY DEF Range
  <2> HIDE DEF m, rows
  <2> QED BY <1>5, <2>1, <2>2
<1> QED BY <1>6

\* Optics: the modules that the frame is counted over are those shown.
LEMMA JunosOpticsTruthful == ASSUME NEW v PROVE Truthful("optics", Junos("optics", v))
<1> DEFINE entries == J!JList(J!Get(J!Container(v, "interface-information"), "physical-interface"))
           pifs == J!Named(entries)
           odd == \E i \in DOMAIN entries : ~J!IsDict(J!First(entries[i]))
           recs == [i \in DOMAIN pifs |-> J!OpticsModule(pifs[i])]
           modules == J!List(recs)
           payload == J!Dict([modules |-> modules])
           bad == {i \in DOMAIN J!Elems(modules) : J!Flagged(J!Elems(modules)[i])}
           reading == J!Framed(payload, J!Frame(Cardinality(bad), 0))
           found == J!OrUnproven(pifs # <<>>, v, reading)
           shown == IF odd THEN J!Raised ELSE found
<1>1. Junos("optics", v) = J!Screened(v, {}, shown)
  <2>1. J!Count(modules, J!Flagged) = Cardinality(bad)
    BY Counts DEF J!Count
  <2>2. Junos("optics", v) =
            J!Screened(v, {}, IF odd THEN J!Raised
                ELSE J!OrUnproven(pifs # <<>>, v,
                         J!Framed(payload, J!Frame(J!Count(modules, J!Flagged), 0))))
    BY DEF Junos, J!juniper_optics
  <2> QED BY <2>1, <2>2
<1>2. /\ Get(payload, "modules") = modules /\ Elems(modules) = recs /\ J!Elems(modules) = recs
      /\ modules \in RecordsOf(payload)
  <2> HIDE DEF recs
  <2>1. Elems(modules) = recs
    BY DEF Elems, IsDict, IsList, J!List
  <2>2. Elems(payload) = [modules |-> modules]
    BY DEF Elems, IsDict, J!Dict
  <2>3. Get(payload, "modules") = modules
    BY DEF Get, Has, IsDict, J!Dict
  <2> QED BY <2>1, <2>2, <2>3, Walks DEF RecordsOf
<1>3. Truthful("optics", reading)
  <2>1. ASSUME bad = {}, NEW i \in DOMAIN recs
        PROVE  \A r \in {recs[i]} \cup Range(Lanes(recs[i])) : Get(r, "fault") # Bool(TRUE)
    <3>1. ~J!Flagged(recs[i])
      <4> HIDE DEF recs, modules
      <4> QED BY <1>2, <2>1
    <3>2. Get(J!OpticsModule(pifs[i]), "fault") # Bool(TRUE)
      <4> HIDE DEF pifs
      <4> QED BY <3>1, JunosReads, Walks DEF J!Flagged, J!Bool, Bool
    <3>3. recs[i] = J!OpticsModule(pifs[i])
      OBVIOUS
    <3> HIDE DEF recs, pifs
    <3> QED BY <3>2, <3>3, OpticsModuleTruthful
  <2>2. bad = {} => ~Troubled("optics", payload)
    <3>1. \A m \in RecordsOf(modules) : \E i \in DOMAIN recs : m = recs[i]
      <4> HIDE DEF recs, modules
      <4> QED BY <1>2 DEF RecordsOf
    <3> HIDE DEF recs, modules, payload, bad
    <3> QED BY <1>2, <2>1, <3>1 DEF Troubled
  <2>3. bad \in SUBSET DOMAIN Elems(modules)
    <3> HIDE DEF modules, recs
    <3> QED BY <1>2
  <2>4. FiniteRecords(payload) => IsFiniteSet(DOMAIN Elems(modules))
    BY <1>2 DEF FiniteRecords
  <2> HIDE DEF bad, modules, payload
  <2> QED BY <2>2, <2>3, <2>4, FramedTruthfully
<1>4. Green(shown) => shown = reading
  <2>1. Green(found) => found = reading
    <3> HIDE DEF reading, pifs
    <3> QED BY GreenPasses
  <2> HIDE DEF found, reading, odd
  <2>2. Green(shown) => shown = found
    BY JunosEnds, NoFramesNoGreen
  <2> QED BY <2>1, <2>2
<1> HIDE DEF reading, shown
<1>5. Green(Junos("optics", v)) => Junos("optics", v) = shown
  <2>1. Green(J!Screened(v, {}, shown)) => J!Screened(v, {}, shown) = shown
    BY JunosTokens, GreenPasses
  <2> QED BY <1>1, <2>1
<1> QED BY <1>3, <1>4, <1>5 DEF Truthful

\* Junos tells no errors of a port, and one that is up is up at both levels.
Calm(r) ==
    /\ ~Says(r, "linkStatus", "errdisabled")
    /\ ~(Says(r, "linkStatus", "connected") /\ Says(r, "lineProtocolStatus", "down"))

\* A port as terse lists it.
LEMMA TerseCalm == ASSUME NEW pif PROVE Calm(J!TerseRecord(pif)) /\ J!IsDict(J!TerseRecord(pif))
<1> DEFINE status == IF J!JVal(J!Get(pif, "admin-status")) = "down"
                     THEN J!Field("linkStatus", J!Str("disabled"))
                     ELSE IF J!JVal(J!Get(pif, "oper-status")) = "up"
                     THEN [linkStatus |-> J!Str("connected"), lineProtocolStatus |-> J!Str("up")]
                     ELSE [linkStatus |-> J!Str("notconnect"), lineProtocolStatus |-> J!Str("down")]
           units == Len(J!JList(J!Get(pif, "logical-interface")))
           more == IF units = 0 THEN <<>> ELSE J!Field("units", J!Num(units))
           r == J!TerseRecord(pif)
<1>1. r = J!Dict(J!With(status, more))
  BY DEF J!TerseRecord
<1>2. /\ "linkStatus" \in DOMAIN status
      /\ status["linkStatus"] \in {J!Str("disabled"), J!Str("connected"), J!Str("notconnect")}
      /\ status["linkStatus"] = J!Str("connected") =>
             "lineProtocolStatus" \in DOMAIN status /\ status["lineProtocolStatus"] = J!Str("up")
  BY DEF J!Field, J!Str
<1> HIDE DEF status, more, r
<1>3. /\ IsDict(r) /\ Get(r, "linkStatus") = status["linkStatus"]
      /\ "lineProtocolStatus" \in DOMAIN status =>
             Get(r, "lineProtocolStatus") = status["lineProtocolStatus"]
  BY <1>1, <1>2 DEF J!With, J!Dict, IsDict, Get, Has
<1>4. \A w : Text(J!Str(w)) = w
  BY DEF Text, J!Str, IsStr
<1>5. Calm(r)
  BY <1>2, <1>3, <1>4 DEF Calm, Says
<1> QED BY <1>3, <1>5 DEF r, J!IsDict, IsDict

\* A description adds no word about the link, and a port that only the
\* descriptions know is not there.
LEMMA DescribedCalm ==
  ASSUME NEW records, NEW sub, NEW n \in DOMAIN J!Described(records, sub),
         \A k \in DOMAIN records : Calm(records[k]) /\ J!IsDict(records[k])
  PROVE  Calm(J!Described(records, sub)[n])
<1> DEFINE pifs == J!SelectSeq(J!Pifs(sub), LAMBDA p : J!JVal(J!Get(p, "description")) # "")
           said == J!Text2("description", J!Get(J!LastOf(pifs, n), "description"))
           old == IF n \in DOMAIN records THEN records[n].dict
                  ELSE J!Field("linkStatus", J!Str("notpresent"))
           r == J!Described(records, sub)[n]
<1>1. n \in DOMAIN records \cup J!External(pifs)
  BY DEF J!Described
<1>2. r = IF n \notin J!External(pifs) THEN records[n] ELSE J!Dict(J!With(said, old))
  BY <1>1 DEF J!Described
<1>3. \A f \in {"linkStatus", "lineProtocolStatus"} : f \notin DOMAIN said
  <2>1. "linkStatus" \notin DOMAIN said
    BY TextField
  <2>2. "lineProtocolStatus" \notin DOMAIN said
    BY TextField
  <2> QED BY <2>1, <2>2
<1>4. CASE n \notin J!External(pifs)
  <2>1. r = records[n] /\ n \in DOMAIN records
    BY <1>1, <1>2, <1>4
  <2> HIDE DEF r
  <2> QED BY <2>1 DEF r
<1>5. CASE n \in J!External(pifs) /\ n \in DOMAIN records
  <2>1. r = J!Dict(J!With(said, records[n].dict))
    BY <1>2, <1>5
  <2> HIDE DEF said, r
  <2>2. \A f \in {"linkStatus", "lineProtocolStatus"} : Get(r, f) = Get(records[n], f)
    BY <1>3, <1>5, <2>1 DEF Get, Has, IsDict, J!IsDict, J!Dict, J!With
  <2>3. Calm(r)
    BY <1>5, <2>2 DEF Calm, Says
  <2> QED BY <2>3 DEF r
<1>6. CASE n \in J!External(pifs) /\ n \notin DOMAIN records
  <2>1. r = J!Dict(J!With(said, [x \in {"linkStatus"} |-> J!Str("notpresent")]))
    BY <1>2, <1>6 DEF J!Field
  <2> HIDE DEF said, r
  <2>2. Get(r, "linkStatus") = J!Str("notpresent")
    BY <1>3, <2>1 DEF Get, Has, IsDict, J!Dict, J!With
  <2>3. Calm(r)
    BY <2>2 DEF Calm, Says, Text, J!Str, IsStr
  <2> QED BY <2>3 DEF r
<1> QED BY <1>4, <1>5, <1>6

\* Interfaces: the frame is always within its ceiling, rightly.
LEMMA JunosInterfacesTruthful == ASSUME NEW v PROVE Truthful("interfaces", Junos("interfaces", v))
<1> DEFINE w == IF J!Has(v, "terse") \/ J!Has(v, "descriptions") THEN v ELSE J!Dict([terse |-> v])
           records == J!TerseRecords(J!Get(w, "terse"))
           payload == IF J!SubFailed(w, "descriptions") THEN records
                      ELSE J!Described(records, J!Get(w, "descriptions"))
           reading == J!Framed(J!Dict(payload), J!Frame(0, 0))
           r == J!InterfacesOf(w)
<1>1. Junos("interfaces", v) = J!ReadGate(v, r)
  BY DEF Junos, J!juniper_interfaces
<1>2. r \in {J!ReadFailed(w), J!Judged("unproven", w), reading}
  BY DEF J!InterfacesOf
<1>3. \A n \in DOMAIN payload : Calm(payload[n])
  <2> HIDE DEF w
  <2>1. \A n \in DOMAIN records : Calm(records[n]) /\ J!IsDict(records[n])
    BY TerseCalm DEF J!TerseRecords
  <2> HIDE DEF records
  <2>2. \A n \in DOMAIN J!Described(records, J!Get(w, "descriptions")) :
            Calm(J!Described(records, J!Get(w, "descriptions"))[n])
    BY <2>1, DescribedCalm
  <2> QED BY <2>1, <2>2
<1> HIDE DEF w, r, payload
<1>4. ~Troubled("interfaces", J!Dict(payload))
  <2>1. Elems(J!Dict(payload)) = payload
    BY DEF Elems, IsDict, J!Dict
  <2> QED BY <1>3, <2>1 DEF Troubled, RecordsOf, Calm
<1>5. Green(r) => r = reading
  BY <1>2, JunosEnds, NoFramesNoGreen
<1>6. reading.payload = J!Dict(payload)
  BY JunosFramed
<1> HIDE DEF reading
<1>7. Green(Junos("interfaces", v)) => Junos("interfaces", v) = r
  <2>1. Green(J!ReadGate(v, r)) => J!ReadGate(v, r) = r
    BY GreenPasses
  <2> QED BY <1>1, <2>1
<1> QED BY <1>4, <1>5, <1>6, <1>7 DEF Truthful

\* Of the groups there are four.
LEMMA FourGroups ==
  ASSUME NEW raw PROVE DOMAIN J!EnvToGroups(raw) \subseteq Groups \cup {"other"}
<1> DEFINE items == J!Named(raw)
           temp(i) == ~J!IsNull(J!JAttr(J!Get(items[i], "temperature"), "celsius"))
           group(i) == J!EnvGroup(J!StickyClass(items, i), J!JVal(J!Get(items[i], "name")), temp(i))
           is(g) == J!SelectSeq([i \in DOMAIN items |-> i], LAMBDA i : group(i) = g)
           recs(g) == J!List([k \in DOMAIN is(g) |-> J!EnvRecord(items[is(g)[k]])])
           own == [sensors |-> recs("sensors"), fans |-> recs("fans"), power |-> recs("power")]
           rest == IF recs("other") = J!List(<<>>) THEN <<>> ELSE J!Field("other", recs("other"))
<1>1. J!EnvToGroups(raw) = J!With(own, rest)
  BY DEF J!EnvToGroups
<1> HIDE DEF recs
<1>2. DOMAIN own = Groups /\ DOMAIN rest \subseteq {"other"}
  BY DEF Groups, J!Field
<1> HIDE DEF own, rest
<1> QED BY <1>1, <1>2 DEF J!With

\* What the enriching reads tell is never a verdict.
LEMMA NoVerdictTold ==
  ASSUME NEW items, NEW sub \in {"fan", "thresholds", "power"}
  PROVE  "fault" \notin DOMAIN J!ToldFields(items, sub)
<1>1. ASSUME NEW item PROVE "fault" \notin DOMAIN J!EnrichingFields(sub, item)
  <2>1. \A k, x : DOMAIN J!Optional(k, x) \subseteq {k}
    BY DEF J!Optional, J!Field
  <2>2. DOMAIN J!FanFields(item) \subseteq {"speedPct"}
    BY <2>1 DEF J!FanFields
  <2>3. "fault" \notin DOMAIN J!ThresholdFields(item)
    <3> DEFINE a == J!Optional("warnC", J!JNum(J!Get(item, "yellow-alarm")))
               b == J!Optional("critC", J!JNum(J!Get(item, "red-alarm")))
    <3>1. J!ThresholdFields(item) = J!With(a, b)
      BY DEF J!ThresholdFields
    <3>2. "fault" \notin DOMAIN a /\ "fault" \notin DOMAIN b
      BY <2>1
    <3> HIDE DEF a, b
    <3> QED BY <3>1, <3>2, FieldBehind
  <2>4. "fault" \notin DOMAIN J!PowerFields(item)
    <3> DEFINE dc == J!Container(item, "dc-output-detail")
               a == J!Optional("watts", J!JNum(J!Get(dc, "dc-power")))
               b == J!Optional("ampsOut", J!JFloat(J!Get(dc, "str3-dc-current")))
               c == J!Optional("volts", J!JFloat(J!Get(dc, "str3-dc-voltage")))
               d == J!Optional("capacityW", J!JNum(J!Get(J!Container(item, "pem-capacity-detail"),
                                                         "capacity-actual")))
    <3>1. J!PowerFields(item) = J!With(a, J!With(b, J!With(c, d)))
      BY DEF J!PowerFields
    <3>2. "fault" \notin DOMAIN a /\ "fault" \notin DOMAIN b
      BY <2>1
    <3>3. "fault" \notin DOMAIN c /\ "fault" \notin DOMAIN d
      BY <2>1
    <3> HIDE DEF a, b, c, d
    <3>4. "fault" \notin DOMAIN J!With(c, d)
      BY <3>3, FieldBehind
    <3>5. "fault" \notin DOMAIN J!With(b, J!With(c, d))
      BY <3>2, <3>4, FieldBehind
    <3> QED BY <3>1, <3>2, <3>5, FieldBehind
  <2> QED BY <2>2, <2>3, <2>4 DEF J!EnrichingFields
<1>2. DOMAIN J!ToldFields(items, sub) =
          UNION {DOMAIN J!EnrichingFields(sub, items[i]) : i \in DOMAIN items}
  BY DEF J!ToldFields
<1> QED BY <1>1, <1>2

\* Joining keeps every record in its place with its verdict.
LEMMA JoinedKeepsFaults ==
  ASSUME NEW records, EnvRecords(J!List(records)), NEW items,
         NEW sub \in {"fan", "thresholds", "power"}
  PROVE  /\ DOMAIN J!Joined(records, items, sub) = DOMAIN records
         /\ \A k \in DOMAIN records :
                Get(J!Joined(records, items, sub)[k], "fault") = Get(records[k], "fault")
<1> DEFINE name(r) == J!JVal(J!Get(r, "name"))
           bound(i) == \A j \in DOMAIN records : j > i => name(records[j]) # name(records[i])
           told(i) == J!SelectSeq(items, LAMBDA item : name(item) = name(records[i]))
           fields(i) == J!ToldFields(told(i), sub)
           joined == J!Joined(records, items, sub)
<1>1. joined = [i \in DOMAIN records |->
                  IF bound(i) THEN J!Dict(J!With(fields(i), records[i].dict)) ELSE records[i]]
  BY DEF J!Joined
<1>2. ASSUME NEW k \in DOMAIN records
      PROVE  Get(joined[k], "fault") = Get(records[k], "fault")
  <2>1. Has(records[k], "fault")
    BY <1>2 DEF EnvRecords, IsList, IsDict, J!List
  <2>2. "fault" \notin DOMAIN fields(k)
    BY NoVerdictTold
  <2>3. joined[k] \in {J!Dict(J!With(fields(k), records[k].dict)), records[k]}
    <3> HIDE DEF joined, fields
    <3> QED BY <1>1, <1>2
  <2> HIDE DEF joined, fields
  <2> QED BY <2>1, <2>2, <2>3 DEF Get, Has, IsDict, J!Dict, J!With
<1>3. DOMAIN joined = DOMAIN records
  BY <1>1
<1> QED BY <1>2, <1>3

\* A sum of counts of at most none: nothing was counted in any group.
LEMMA NoGroupFaulted ==
  ASSUME NEW groups, DOMAIN groups \subseteq Groups \cup {"other"},
         \A g \in DOMAIN groups : IsFiniteSet(DOMAIN Elems(groups[g])),
         Green(J!EnvFramed(groups))
  PROVE  \A g \in DOMAIN groups : \A i \in DOMAIN Elems(groups[g]) :
             Get(Elems(groups[g])[i], "fault") # Bool(TRUE)
<1> DEFINE of(g) == J!Get(J!Dict(groups), g)
           bad(g) == {i \in DOMAIN J!Elems(of(g)) : J!Flagged(J!Elems(of(g))[i])}
           faults(g) == J!Count(of(g), J!Flagged)
           n(g) == Cardinality(bad(g))
           four == Groups \cup {"other"}
<1>1. ASSUME NEW g PROVE faults(g) = n(g)
  BY Counts DEF J!Count
<1>2. Green(J!EnvFramed(groups)) => n("sensors") + n("fans") + n("power") + n("other") <= 0
  <2>1. J!EnvFramed(groups) =
            J!Framed(J!Dict(groups),
                     J!Frame(faults("sensors") + faults("fans") + faults("power") + faults("other"), 0))
    BY DEF J!EnvFramed
  <2> HIDE DEF faults, n
  <2> QED BY <1>1, <2>1, GreenWithin
<1>3. ASSUME NEW g PROVE of(g) = IF g \in DOMAIN groups THEN groups[g] ELSE Null
  BY DEF J!Get, J!Has, J!IsDict, J!Dict, J!Null, Null
<1>4. ASSUME NEW g \in four
      PROVE  n(g) \in Nat /\ (n(g) <= 0 => bad(g) = {})
  <2>1. bad(g) \in SUBSET DOMAIN Elems(of(g))
    <3> HIDE DEF of
    <3> QED BY Walks
  <2>2. IsFiniteSet(DOMAIN Elems(of(g)))
    <3>1. CASE g \in DOMAIN groups
      <4>1. of(g) = groups[g]
        BY <1>3, <3>1
      <4> HIDE DEF of
      <4> QED BY <3>1, <4>1
    <3>2. CASE g \notin DOMAIN groups
      <4>1. of(g) = Null
        BY <1>3, <3>2
      <4> HIDE DEF of
      <4>2. DOMAIN Elems(of(g)) = {}
        BY <4>1 DEF Elems, Null, IsDict, IsList
      <4> QED BY <4>2, FS_EmptySet
    <3> QED BY <3>1, <3>2
  <2> HIDE DEF bad, of
  <2> QED BY <2>1, <2>2, NoneCounted
<1> HIDE DEF n
<1>5. \A g \in four : n(g) <= 0
  <2>1. /\ n("sensors") \in Nat /\ n("fans") \in Nat /\ n("power") \in Nat /\ n("other") \in Nat
        /\ n("sensors") + n("fans") + n("power") + n("other") <= 0
    BY <1>2, <1>4 DEF Groups
  <2> QED BY <2>1 DEF Groups
<1>6. ASSUME NEW g \in DOMAIN groups, NEW i \in DOMAIN Elems(groups[g])
      PROVE  Get(Elems(groups[g])[i], "fault") # Bool(TRUE)
  <2>1. of(g) = groups[g] /\ bad(g) = {}
    <3> HIDE DEF bad, of
    <3> QED BY <1>3, <1>4, <1>5
  <2> HIDE DEF of
  <2>2. ~J!Flagged(Elems(groups[g])[i])
    BY <2>1, Walks
  <2> QED BY <2>2, JunosReads, Walks DEF J!Flagged, J!Bool, Bool
<1> QED BY <1>6

\* Enrichment keeps the groups, and the verdict of every record.
LEMMA EnrichedKeepsFaults ==
  ASSUME NEW groups, EnvGroupsMet(groups), NEW v
  PROVE  LET h == J!Enriched(groups, v)
         IN /\ DOMAIN h = DOMAIN groups
            /\ \A g \in DOMAIN groups :
                   /\ DOMAIN Elems(h[g]) = DOMAIN Elems(groups[g])
                   /\ \A i \in DOMAIN Elems(groups[g]) :
                          Get(Elems(h[g])[i], "fault") = Get(Elems(groups[g])[i], "fault")
<1> DEFINE fan == J!Joined(groups["fans"].list, J!Enrichment(v, "fan", "fan-information",
                            "fan-information-percent-rpm-item"), "fan")
           hot == J!Joined(groups["sensors"].list, J!Enrichment(v, "thresholds",
                            "temperature-threshold-information", "temperature-threshold"), "thresholds")
           psu == J!Joined(groups["power"].list, J!Enrichment(v, "power",
                            "power-usage-information", "power-usage-item"), "power")
           h == J!Enriched(groups, v)
<1>1. /\ h = [groups EXCEPT !["fans"] = J!List(fan), !["sensors"] = J!List(hot), !["power"] = J!List(psu)]
      /\ Groups \subseteq DOMAIN groups
  BY DEF J!Enriched, EnvGroupsMet, Groups
<1>2. ASSUME NEW recs, EnvRecords(recs), NEW items, NEW sub \in {"fan", "thresholds", "power"}
      PROVE  LET joined == J!List(J!Joined(recs.list, items, sub))
             IN /\ DOMAIN Elems(joined) = DOMAIN Elems(recs)
                /\ \A i \in DOMAIN Elems(recs) :
                       Get(Elems(joined)[i], "fault") = Get(Elems(recs)[i], "fault")
  <2> DEFINE joined == J!Joined(recs.list, items, sub)
  <2>1. EnvRecords(J!List(recs.list))
    BY <1>2 DEF EnvRecords, IsList, IsDict, J!List
  <2>2. /\ DOMAIN joined = DOMAIN recs.list
        /\ \A i \in DOMAIN recs.list : Get(joined[i], "fault") = Get(recs.list[i], "fault")
    BY <2>1, JoinedKeepsFaults
  <2> HIDE DEF joined
  <2>3. Elems(J!List(joined)) = joined
    BY DEF Elems, IsDict, IsList, J!List
  <2>4. Elems(recs) = recs.list
    BY <1>2 DEF Elems, EnvRecords
  <2>5. /\ DOMAIN Elems(J!List(joined)) = DOMAIN Elems(recs)
        /\ \A i \in DOMAIN Elems(recs) :
               Get(Elems(J!List(joined))[i], "fault") = Get(Elems(recs)[i], "fault")
    BY <2>2, <2>3, <2>4
  <2> QED BY <2>5 DEF joined
<1>3. /\ DOMAIN h = DOMAIN groups /\ {"fans", "sensors", "power"} \subseteq DOMAIN groups
      /\ h["fans"] = J!List(fan) /\ h["sensors"] = J!List(hot) /\ h["power"] = J!List(psu)
      /\ \A g \in DOMAIN groups : g \notin {"fans", "sensors", "power"} => h[g] = groups[g]
  <2> HIDE DEF fan, hot, psu, h
  <2> QED BY <1>1 DEF Groups
<1>4. ASSUME NEW g \in DOMAIN groups
      PROVE  /\ DOMAIN Elems(h[g]) = DOMAIN Elems(groups[g])
             /\ \A i \in DOMAIN Elems(groups[g]) :
                    Get(Elems(h[g])[i], "fault") = Get(Elems(groups[g])[i], "fault")
  <2>1. \A k \in {"fans", "sensors", "power"} : EnvRecords(groups[k])
    BY DEF EnvGroupsMet, Groups
  <2>2. CASE g = "fans"
    BY <1>2, <1>3, <2>1, <2>2
  <2>3. CASE g = "sensors"
    BY <1>2, <1>3, <2>1, <2>3
  <2>4. CASE g = "power"
    BY <1>2, <1>3, <2>1, <2>4
  <2>5. CASE g \notin {"fans", "sensors", "power"}
    <3>1. h[g] = groups[g]
      BY <1>3, <2>5
    <3> HIDE DEF h
    <3> QED BY <3>1
  <2> QED BY <2>2, <2>3, <2>4, <2>5
<1> QED BY <1>3, <1>4

\* Environment, alone or composed: what the frame was counted over is shown
\* with the verdicts that were counted.
LEMMA EnvTruthful ==
  ASSUME NEW w, NEW v
  PROVE  /\ Truthful("environment", J!EnvAnchor(w))
         /\ Truthful("environment", J!EnvComposed(J!EnvAnchor(w), v))
<1> DEFINE items == J!JList(J!Get(J!Container(w, "environment-information"), "environment-item"))
           groups == J!EnvToGroups(items)
           reading == J!EnvFramed(groups)
           shown == J!OrUnproven(items # <<>>, w, reading)
           a == J!EnvAnchor(w)
           c == J!EnvComposed(a, v)
           h == J!Enriched(groups, v)
<1>1. a = J!Screened(w, {}, shown)
  BY DEF J!EnvAnchor
<1>2. EnvGroupsMet(groups) /\ DOMAIN groups \subseteq Groups \cup {"other"}
  BY EnvGroupsConform, FourGroups
<1>3. Green(a) => a = reading
  <2> HIDE DEF reading, a, items
  <2>1. Green(J!Screened(w, {}, shown)) => J!Screened(w, {}, shown) = shown
    BY JunosTokens, GreenPasses
  <2>2. Green(shown) => shown = reading
    BY GreenPasses
  <2> HIDE DEF shown
  <2> QED BY <1>1, <2>1, <2>2
<1>4. reading.state = "PRESENT" /\ reading.payload = J!Dict(groups)
  BY JunosFramed DEF J!EnvFramed
<1>5. DOMAIN h = DOMAIN groups
      /\ \A g \in DOMAIN groups :
             /\ DOMAIN Elems(h[g]) = DOMAIN Elems(groups[g])
             /\ \A i \in DOMAIN Elems(groups[g]) :
                    Get(Elems(h[g])[i], "fault") = Get(Elems(groups[g])[i], "fault")
  <2> HIDE DEF groups
  <2> QED BY <1>2, EnrichedKeepsFaults
<1>6. \A f : RecordsOf(J!Dict(f)) = {f[g] : g \in DOMAIN f}
  BY DEF RecordsOf, Elems, IsDict, J!Dict
<1> HIDE DEF groups, h
<1>7. ASSUME Green(a), NEW f \in {groups, h}, FiniteRecords(J!Dict(f))
      PROVE  ~Troubled("environment", J!Dict(f))
  <2>1. \A g \in DOMAIN f : IsFiniteSet(DOMAIN Elems(f[g]))
    BY <1>6, <1>7 DEF FiniteRecords
  <2>2. /\ DOMAIN f = DOMAIN groups
        /\ \A g \in DOMAIN groups :
               /\ DOMAIN Elems(f[g]) = DOMAIN Elems(groups[g])
               /\ \A i \in DOMAIN Elems(groups[g]) :
                      Get(Elems(f[g])[i], "fault") = Get(Elems(groups[g])[i], "fault")
    BY <1>5
  <2>3. Green(J!EnvFramed(groups))
    BY <1>3, <1>7
  <2>4. \A g \in DOMAIN groups : \A i \in DOMAIN Elems(groups[g]) :
            Get(Elems(groups[g])[i], "fault") # Bool(TRUE)
    BY <1>2, <2>1, <2>2, <2>3, NoGroupFaulted
  <2>5. \A g \in DOMAIN f : \A i \in DOMAIN Elems(f[g]) :
            Get(Elems(f[g])[i], "fault") # Bool(TRUE)
    BY <2>2, <2>4
  <2>6. \A group \in RecordsOf(J!Dict(f)) : \A r \in RecordsOf(group) : Get(r, "fault") # Bool(TRUE)
    <3>1. RecordsOf(J!Dict(f)) = {f[g] : g \in DOMAIN f}
      BY <1>6
    <3>2. ASSUME NEW g \in DOMAIN f, NEW r \in RecordsOf(f[g])
          PROVE  Get(r, "fault") # Bool(TRUE)
      BY <2>5 DEF RecordsOf
    <3> QED BY <3>1, <3>2
  <2> QED BY <2>6 DEF Troubled
<1> HIDE DEF a, reading
<1>8. Truthful("environment", a)
  BY <1>3, <1>4, <1>7 DEF Truthful
<1>9. Green(c) => Green(a) /\ c.payload = J!Dict(h)
  <2>1. c = IF a.state # "PRESENT" THEN a
            ELSE [state |-> "PRESENT", payload |-> J!Dict(J!Enriched(a.payload.dict, v)), frames |-> a.frames]
    BY DEF J!EnvComposed, J!Reading
  <2> HIDE DEF c
  <2>2. Green(c) => Green(a)
    BY <2>1 DEF Green
  <2>3. J!Dict(groups).dict = groups
    BY DEF J!Dict
  <2> QED BY <1>3, <1>4, <2>1, <2>2, <2>3 DEF h
<1> HIDE DEF c
<1>10. Truthful("environment", c)
  BY <1>7, <1>9 DEF Truthful
<1> QED BY <1>8, <1>10 DEF a, c

\* The reply is the anchor's own, or a composite.
LEMMA JunosEnvironmentTruthful ==
  ASSUME NEW v PROVE Truthful("environment", Junos("environment", v))
<1> DEFINE r == IF \A sub \in J!EnvReads : ~J!Has(v, sub) THEN J!EnvAnchor(v)
                ELSE IF J!SubFailed(v, "environment") THEN J!ReadFailed(v)
                ELSE J!EnvComposed(J!EnvAnchor(J!Get(v, "environment")), v)
<1>1. Junos("environment", v) = J!ReadGate(v, r)
  BY DEF Junos, J!juniper_environment
<1>2. Truthful("environment", r)
  BY EnvTruthful, JunosEnds, NoFramesNoGreen DEF Truthful
<1> HIDE DEF r
<1>3. Green(J!ReadGate(v, r)) => J!ReadGate(v, r) = r
  BY GreenPasses
<1> QED BY <1>1, <1>2, <1>3 DEF Truthful

\* EOS peers, neighbors and ports: the widget's records are the frame's.
LEMMA EosTruthful ==
  ASSUME NEW key \in {"bgp", "ospf", "interfaces"}, NEW v PROVE Truthful(key, EOS(key, v))
<1>1. CASE key = "bgp"
  <2> DEFINE vrfs == A!Get(v, "vrfs")
             default == A!Get(vrfs, "default")
             peers == A!Get(default, "peers")
             present == A!FullMap(peers) \/ (A!EmptyMap(peers) /\ A!ProcessPresent(default))
             absent == A!EmptyMap(vrfs) \/ A!EmptyMap(peers)
             odd == present /\ \E addr \in DOMAIN peers.dict : ~A!IsDict(peers.dict[addr])
             records == A!EosBgpToContract(peers)
             bad == {i \in DOMAIN A!Elems(records) : A!NotEstablished(A!Elems(records)[i])}
             reading == A!Framed(records, A!Frame(Cardinality(bad), 0))
             found == A!Determined(present, absent, v, reading)
             answer == IF odd THEN A!Raised ELSE found
  <2>1. EOS(key, v) = A!Screened(v, answer)
    <3>1. A!Count(records, A!NotEstablished) = Cardinality(bad)
      BY Counts DEF A!Count
    <3>2. EOS(key, v) =
              A!Screened(v, IF odd THEN A!Raised
                            ELSE A!Determined(present, absent, v,
                                     A!Framed(records, A!Frame(A!Count(records, A!NotEstablished), 0))))
      BY <1>1 DEF EOS, A!arista_bgp
    <3> QED BY <3>1, <3>2
  <2>2. Truthful(key, reading)
    <3> HIDE DEF records
    <3>1. bad = {i \in DOMAIN Elems(records) : ~Says(Elems(records)[i], "peerState", "established")}
      BY Walks, EosReads DEF A!NotEstablished, Says
    <3>2. bad \in SUBSET DOMAIN Elems(records)
      BY <3>1
    <3>3. bad = {} => ~Troubled(key, records)
      <4> HIDE DEF bad
      <4> QED BY <1>1, <3>1 DEF Troubled, RecordsOf
    <3>4. FiniteRecords(records) => IsFiniteSet(DOMAIN Elems(records))
      BY DEF FiniteRecords
    <3> HIDE DEF bad
    <3> QED BY <3>2, <3>3, <3>4, FramedTruthfully
  <2>3. Green(found) => found = reading
    <3>1. found \in {reading, A!Judged("no", v), A!Judged("unproven", v)}
      <4> HIDE DEF reading
      <4> QED BY DEF A!Determined
    <3> HIDE DEF found, reading
    <3> QED BY <3>1, EosEnds, NoFramesNoGreen
  <2> HIDE DEF found, reading, odd
  <2>4. Green(answer) => answer = found
    BY EosEnds, NoFramesNoGreen
  <2> HIDE DEF answer
  <2>5. Green(A!Screened(v, answer)) => A!Screened(v, answer) = answer
    BY GreenPasses
  <2> QED BY <2>1, <2>2, <2>3, <2>4, <2>5 DEF Truthful
<1>2. CASE key = "ospf"
  <2> DEFINE vrfs == A!Get(v, "vrfs")
             default == A!Get(vrfs, "default")
             insts == A!Get(default, "instList")
             neighbors == A!FlattenSeq([i \in DOMAIN A!Keys(insts) |->
                              A!Items(A!Get(insts.dict[A!Keys(insts)[i]], "ospfNeighborEntries"))])
             present == A!FullMap(insts)
             absent == A!EmptyMap(vrfs) \/ A!EmptyMap(insts)
             odd == (A!Has(vrfs, "default") /\ ~A!IsDict(default)) \/ A!OddEntries(insts)
             records == A!EosOspfToContract(neighbors)
             bad == {i \in DOMAIN A!Elems(records) : A!NotFull(A!Elems(records)[i])}
             reading == A!Framed(records, A!Frame(Cardinality(bad), 0))
             found == A!Determined(present, absent, v, reading)
             answer == IF odd THEN A!Raised ELSE found
  <2>1. EOS(key, v) = A!Screened(v, answer)
    <3>1. A!Count(records, A!NotFull) = Cardinality(bad)
      BY Counts DEF A!Count
    <3>2. EOS(key, v) =
              A!Screened(v, IF odd THEN A!Raised
                            ELSE A!Determined(present, absent, v,
                                     A!Framed(records, A!Frame(A!Count(records, A!NotFull), 0))))
      BY <1>2 DEF EOS, A!arista_ospf
    <3> QED BY <3>1, <3>2
  <2>2. Truthful(key, reading)
    <3> HIDE DEF records
    <3>1. bad = {i \in DOMAIN Elems(records) : ~Says(Elems(records)[i], "adjacencyState", "full")}
      BY Walks, EosReads DEF A!NotFull, Says
    <3>2. bad \in SUBSET DOMAIN Elems(records)
      BY <3>1
    <3>3. bad = {} => ~Troubled(key, records)
      <4> HIDE DEF bad
      <4> QED BY <1>2, <3>1 DEF Troubled, RecordsOf
    <3>4. FiniteRecords(records) => IsFiniteSet(DOMAIN Elems(records))
      BY DEF FiniteRecords
    <3> HIDE DEF bad
    <3> QED BY <3>2, <3>3, <3>4, FramedTruthfully
  <2>3. Green(found) => found = reading
    <3>1. found \in {reading, A!Judged("no", v), A!Judged("unproven", v)}
      <4> HIDE DEF reading
      <4> QED BY DEF A!Determined
    <3> HIDE DEF found, reading
    <3> QED BY <3>1, EosEnds, NoFramesNoGreen
  <2> HIDE DEF found, reading, odd
  <2>4. Green(answer) => answer = found
    BY EosEnds, NoFramesNoGreen
  <2> HIDE DEF answer
  <2>5. Green(A!Screened(v, answer)) => A!Screened(v, answer) = answer
    BY GreenPasses
  <2> QED BY <2>1, <2>2, <2>3, <2>4, <2>5 DEF Truthful
<1>3. CASE key = "interfaces"
  <2> DEFINE statuses == A!Get(v, "interfaceStatuses")
             bad == {i \in DOMAIN A!Elems(statuses) : A!IntfFaulted(A!Elems(statuses)[i])}
             reading == A!Framed(statuses, A!Frame(Cardinality(bad), 0))
             found == A!Determined(A!FullMap(statuses), FALSE, v, reading)
  <2>1. EOS(key, v) = A!Gated(v, found)
    <3>1. A!Count(statuses, A!IntfFaulted) = Cardinality(bad)
      BY Counts DEF A!Count
    <3>2. EOS(key, v) =
              A!Gated(v, A!Determined(A!FullMap(statuses), FALSE, v,
                             A!Framed(statuses, A!Frame(A!Count(statuses, A!IntfFaulted), 0))))
      BY <1>3 DEF EOS, A!arista_interfaces
    <3> QED BY <3>1, <3>2
  <2>2. Truthful(key, reading)
    <3> HIDE DEF statuses
    <3>1. ASSUME NEW r PROVE A!IntfFaulted(r) <=> ~Calm(r)
      <4>1. A!IsDict(r) <=> IsDict(r)
        BY EosReads
      <4>2. \A f : A!Text(A!Get(r, f)) = Text(Get(r, f))
        BY EosReads
      <4>3. ~IsDict(r) => \A f : Text(Get(r, f)) = ""
        BY DEF Get, Has, Text, Null, IsStr, IsNull
      <4> QED BY <4>1, <4>2, <4>3 DEF A!IntfFaulted, Calm, Says
    <3>2. bad = {i \in DOMAIN Elems(statuses) : ~Calm(Elems(statuses)[i])}
      BY <3>1, Walks
    <3>3. bad \in SUBSET DOMAIN Elems(statuses)
      BY <3>2
    <3>4. bad = {} => ~Troubled(key, statuses)
      <4> HIDE DEF bad
      <4> QED BY <1>3, <3>2 DEF Troubled, RecordsOf, Calm
    <3>5. FiniteRecords(statuses) => IsFiniteSet(DOMAIN Elems(statuses))
      BY DEF FiniteRecords
    <3> HIDE DEF bad
    <3> QED BY <3>3, <3>4, <3>5, FramedTruthfully
  <2>3. Green(found) => found = reading
    <3>1. found \in {reading, A!Judged("unproven", v)}
      <4> HIDE DEF reading
      <4> QED BY DEF A!Determined
    <3> HIDE DEF found, reading
    <3> QED BY <3>1, EosEnds, NoFramesNoGreen
  <2> HIDE DEF found, reading
  <2>4. Green(A!Gated(v, found)) => A!Gated(v, found) = found
    BY GreenPasses
  <2> QED BY <2>1, <2>2, <2>3, <2>4 DEF Truthful
<1> QED BY <1>1, <1>2, <1>3

\* A record of a part is at fault as its part is.
LEMMA PartRow ==
  ASSUME NEW item, NEW word, NEW fault
  PROVE  Get(A!Row(item, word, fault), "fault") = Bool(fault)
<1> DEFINE f == [name |-> A!OrElse(A!Get(item, "name"), A!OrElse(A!Get(item, "label"), A!Str("part"))),
                 status |-> A!Str(word), fault |-> A!Bool(fault)]
<1>1. A!Row(item, word, fault) = A!Dict(f)
  BY DEF A!Row
<1>2. DOMAIN f = {"name", "status", "fault"} /\ f["fault"] = Bool(fault)
  BY DEF A!Bool, Bool
<1> HIDE DEF f
<1> QED BY <1>1, <1>2 DEF Get, Has, IsDict, A!Dict

\* The records of a list of parts none of which is counted.
LEMMA CalmRows ==
  ASSUME NEW items, Listed(items), NEW key
  PROVE  /\ A!BadOnes(items, key) \in Nat
         /\ DOMAIN A!Rows(items, key) = 1..Len(items)
         /\ A!Rows(items, key) = [i \in 1..Len(items) |-> A!Rows(items, key)[i]]
         /\ A!BadOnes(items, key) <= 0 =>
                \A i \in 1..Len(items) : Get(A!Rows(items, key)[i], "fault") # Bool(TRUE)
<1> DEFINE bad == {i \in DOMAIN items : A!Bad(items[i], key)}
           rows == A!Rows(items, key)
<1>1. DOMAIN items = 1..Len(items) /\ Len(items) \in Nat
  BY DEF Listed
<1>2. IsFiniteSet(DOMAIN items) /\ bad \in SUBSET DOMAIN items
  BY <1>1, FS_Interval
<1>3. A!BadOnes(items, key) = Cardinality(bad)
  BY Counts DEF A!BadOnes
<1>4. Cardinality(bad) \in Nat /\ (Cardinality(bad) <= 0 => bad = {})
  <2> HIDE DEF bad
  <2> QED BY <1>2, NoneCounted
<1>5. rows = [i \in DOMAIN items |-> A!Row(items[i], A!Text(A!Get(items[i], key)), A!Bad(items[i], key))]
  BY DEF A!Rows
<1>6. ASSUME bad = {}, NEW i \in DOMAIN items PROVE Get(rows[i], "fault") # Bool(TRUE)
  <2>1. ~A!Bad(items[i], key)
    BY <1>6
  <2>2. Get(rows[i], "fault") = Bool(A!Bad(items[i], key))
    BY <1>5, <1>6, PartRow
  <2> HIDE DEF rows
  <2>3. Bool(A!Bad(items[i], key)).bool = A!Bad(items[i], key) /\ Bool(TRUE).bool = TRUE
    BY DEF Bool
  <2> QED BY <2>1, <2>2, <2>3
<1> HIDE DEF bad
<1>7. rows = [i \in DOMAIN items |-> rows[i]] /\ DOMAIN rows = DOMAIN items
  BY <1>5
<1> HIDE DEF rows
<1> QED BY <1>1, <1>3, <1>4, <1>6, <1>7 DEF rows

\* A list of records none of which is at fault, and one put behind another.
CalmList(s, n) ==
    /\ n \in Nat /\ s = [i \in 1..n |-> s[i]]
    /\ \A i \in 1..n : Get(s[i], "fault") # Bool(TRUE)
LEMMA JoinedLists ==
  ASSUME NEW s, NEW t, NEW m, NEW n, CalmList(s, m), CalmList(t, n)
  PROVE  \A i \in DOMAIN (s \o t) : Get((s \o t)[i], "fault") # Bool(TRUE)
<1> DEFINE S == {s[i] : i \in 1..m} \cup {t[i] : i \in 1..n}
<1>1. s \in Seq(S) /\ t \in Seq(S) /\ Len(s) = m /\ Len(t) = n
  <2>1. s \in [1..m -> S] /\ t \in [1..n -> S] /\ m \in Nat /\ n \in Nat
    BY DEF CalmList
  <2> HIDE DEF S
  <2> QED BY <2>1
<1>2. \A e \in S : Get(e, "fault") # Bool(TRUE)
  BY DEF CalmList
<1> HIDE DEF S
<1>3. s \o t \in Seq(S)
  BY <1>1
<1>4. \A i \in DOMAIN (s \o t) : (s \o t)[i] \in S
  BY <1>3
<1> QED BY <1>2, <1>4

\* The counts of a frame that is within its ceiling of none, one by one.
LEMMA NothingAdded ==
  ASSUME NEW a \in Nat, NEW b \in Nat, NEW c \in Nat, NEW d \in Nat, NEW e \in Nat,
         NEW f \in Nat, NEW g \in Nat, NEW h \in Nat,
         a + b + c + d + e + f + g + h <= 0
  PROVE  b <= 0 /\ c <= 0 /\ d <= 0 /\ e <= 0 /\ g <= 0
  OBVIOUS

\* EOS environment: the parts that are counted are those that are shown.
LEMMA EosEnvironmentTruthful ==
  ASSUME NEW v, Walked(v) PROVE Truthful("environment", EOS("environment", v))
<1> DEFINE power == A!Get(v, "power")
           temp == A!Get(v, "temperature")
           cooling == A!Get(v, "cooling")
           hot == A!Dicts(A!ChassisSensors(temp))
           alarms == {i \in DOMAIN hot : A!EosSensorFault(hot[i])}
           sensors == [i \in DOMAIN hot |-> A!SensorRow(hot[i])]
           psuTemps == A!Rows(A!SupplyParts(power, "tempSensors"), "status")
           psuFans == A!Rows(A!SupplyParts(power, "fans"), "status")
           trayRows == A!Rows(A!TrayParts(cooling), "status")
           psus == A!Rows(A!Psus(power), "state")
           groups == A!EosEnvToGroups(power, temp, cooling)
           faults == A!EnvFaults(power, temp, cooling)
           reading == A!Framed(groups, A!Frame(faults, 0))
           r == IF \E sub \in A!EnvSubs : ~A!SubStructured(A!Get(v, sub)) THEN A!Judged("unproven", v)
                ELSE IF A!WalkRaises(power, temp, cooling) THEN A!Raised
                ELSE reading
<1>1. EOS("environment", v) = A!Gated(v, r)
  BY DEF EOS, A!arista_environment
<1>2. /\ Listed(hot) /\ Listed(A!Psus(power)) /\ Listed(A!Trays(cooling))
      /\ Listed(A!TrayParts(cooling)) /\ Listed(A!SupplyParts(power, "fans"))
      /\ Listed(A!SupplyParts(power, "tempSensors"))
  BY EosReads DEF Walked
<1>3. Cardinality(alarms) \in Nat
      /\ (Cardinality(alarms) <= 0 =>
              \A i \in 1..Len(hot) : Get(sensors[i], "fault") # Bool(TRUE))
  <2>1. Len(hot) \in Nat /\ DOMAIN hot = 1..Len(hot)
    BY <1>2 DEF Listed
  <2> HIDE DEF hot
  <2>2. alarms \in SUBSET DOMAIN hot /\ IsFiniteSet(DOMAIN hot)
    BY <2>1, FS_Interval
  <2>3. ASSUME alarms = {}, NEW i \in DOMAIN hot PROVE Get(sensors[i], "fault") # Bool(TRUE)
    <3>1. ~A!EosSensorFault(hot[i])
      BY <2>3
    <3>2. Get(sensors[i], "fault") = Bool(A!EosSensorFault(hot[i]))
      BY <2>3, PartRow DEF A!SensorRow
    <3>3. Bool(A!EosSensorFault(hot[i])).bool = A!EosSensorFault(hot[i]) /\ Bool(TRUE).bool = TRUE
      BY DEF Bool
    <3> HIDE DEF sensors
    <3> QED BY <3>1, <3>2, <3>3
  <2> HIDE DEF alarms, sensors
  <2>4. Cardinality(alarms) \in Nat /\ (Cardinality(alarms) <= 0 => alarms = {})
    BY <2>2, NoneCounted
  <2> QED BY <2>1, <2>3, <2>4
<1>4. A!Cardinality(A!BadTrays(cooling)) \in Nat
  <2>1. A!BadTrays(cooling) \in SUBSET (DOMAIN A!Trays(cooling))
    BY DEF A!BadTrays
  <2>2. IsFiniteSet(DOMAIN A!Trays(cooling))
    BY <1>2, FS_Interval DEF Listed
  <2> QED BY <2>1, <2>2, NoneCounted, Counts
<1>5. groups = A!Dict([sensors |-> A!List(sensors \o psuTemps),
                       fans |-> A!List(trayRows \o psuFans), power |-> A!List(psus)])
  BY DEF A!EosEnvToGroups
<1>6. faults = A!Bit(A!SystemBad(temp, {"temperatureok", "ok"}))
               + Cardinality(alarms)
               + A!BadOnes(A!Psus(power), "state")
               + A!BadOnes(A!SupplyParts(power, "fans"), "status")
               + A!BadOnes(A!SupplyParts(power, "tempSensors"), "status")
               + A!Bit(A!SystemBad(cooling, {"coolingok", "ok"}))
               + A!BadOnes(A!TrayParts(cooling), "status")
               + A!Cardinality(A!BadTrays(cooling))
  BY Counts DEF A!EnvFaults
<1>7. \A b : A!Bit(b) \in Nat
  BY DEF A!Bit
<1>8. /\ A!BadOnes(A!Psus(power), "state") \in Nat
      /\ A!BadOnes(A!SupplyParts(power, "fans"), "status") \in Nat
      /\ A!BadOnes(A!SupplyParts(power, "tempSensors"), "status") \in Nat
      /\ A!BadOnes(A!TrayParts(cooling), "status") \in Nat
  BY <1>2, CalmRows
<1>9. faults <= 0 =>
        /\ Cardinality(alarms) <= 0 /\ A!BadOnes(A!Psus(power), "state") <= 0
        /\ A!BadOnes(A!SupplyParts(power, "fans"), "status") <= 0
        /\ A!BadOnes(A!SupplyParts(power, "tempSensors"), "status") <= 0
        /\ A!BadOnes(A!TrayParts(cooling), "status") <= 0
  <2> HIDE DEF faults, alarms, power, temp, cooling
  <2> QED BY <1>3, <1>4, <1>6, <1>7, <1>8, NothingAdded
<1>10. sensors = [i \in 1..Len(hot) |-> sensors[i]] /\ Len(hot) \in Nat
  BY <1>2 DEF Listed
<1>11. ASSUME faults <= 0 PROVE ~Troubled("environment", groups)
  <2> DEFINE calm(s) == \A i \in DOMAIN s : Get(s[i], "fault") # Bool(TRUE)
  <2>0. \A items : Listed(items) => Len(items) \in Nat
    BY DEF Listed
  <2>1. calm(sensors \o psuTemps)
    <3> HIDE DEF hot, sensors, alarms
    <3>1. /\ psuTemps = [i \in 1..Len(A!SupplyParts(power, "tempSensors")) |-> psuTemps[i]]
          /\ \A i \in 1..Len(A!SupplyParts(power, "tempSensors")) : Get(psuTemps[i], "fault") # Bool(TRUE)
      BY <1>2, <1>9, <1>11, CalmRows
    <3>2. \A i \in 1..Len(hot) : Get(sensors[i], "fault") # Bool(TRUE)
      BY <1>3, <1>9, <1>11
    <3> DEFINE m == Len(hot)
               n == Len(A!SupplyParts(power, "tempSensors"))
    <3>3. m \in Nat /\ n \in Nat
      BY <1>2, <2>0
    <3> HIDE DEF psuTemps
    <3>4. CalmList(sensors, m) /\ CalmList(psuTemps, n)
      BY <1>10, <3>1, <3>2, <3>3 DEF CalmList
    <3> HIDE DEF m, n
    <3> QED BY <3>4, JoinedLists, Zenon
  <2>2. calm(trayRows \o psuFans)
    <3>1. /\ psuFans = [i \in 1..Len(A!SupplyParts(power, "fans")) |-> psuFans[i]]
          /\ \A i \in 1..Len(A!SupplyParts(power, "fans")) : Get(psuFans[i], "fault") # Bool(TRUE)
          /\ trayRows = [i \in 1..Len(A!TrayParts(cooling)) |-> trayRows[i]]
          /\ \A i \in 1..Len(A!TrayParts(cooling)) : Get(trayRows[i], "fault") # Bool(TRUE)
      BY <1>2, <1>9, <1>11, CalmRows
    <3> DEFINE m == Len(A!TrayParts(cooling))
               n == Len(A!SupplyParts(power, "fans"))
    <3>2. m \in Nat /\ n \in Nat
      BY <1>2, <2>0
    <3> HIDE DEF psuFans, trayRows
    <3>3. CalmList(trayRows, m) /\ CalmList(psuFans, n)
      BY <3>1, <3>2 DEF CalmList
    <3> HIDE DEF m, n
    <3> QED BY <3>3, JoinedLists, Zenon
  <2>3. calm(psus)
    <3>1. /\ DOMAIN psus = 1..Len(A!Psus(power))
          /\ \A i \in 1..Len(A!Psus(power)) : Get(psus[i], "fault") # Bool(TRUE)
      BY <1>2, <1>9, <1>11, CalmRows
    <3> QED BY <3>1
  <2> DEFINE a == sensors \o psuTemps
             b == trayRows \o psuFans
  <2> HIDE DEF calm, a, b, psus, groups
  <2>4. \A s : calm(s) => \A rec \in RecordsOf(A!List(s)) : Get(rec, "fault") # Bool(TRUE)
    BY DEF calm, RecordsOf, Elems, IsDict, IsList, A!List
  <2>5. RecordsOf(A!Dict([sensors |-> A!List(a), fans |-> A!List(b), power |-> A!List(psus)]))
            = {A!List(a), A!List(b), A!List(psus)}
    BY DEF RecordsOf, Elems, IsDict, A!Dict
  <2>6. RecordsOf(groups) = {A!List(a), A!List(b), A!List(psus)}
    BY <1>5, <2>5 DEF a, b
  <2>7. \A g \in RecordsOf(groups) : \A rec \in RecordsOf(g) : Get(rec, "fault") # Bool(TRUE)
    BY <2>1, <2>2, <2>3, <2>4, <2>6 DEF a, b
  <2> QED BY <2>7 DEF Troubled
<1> HIDE DEF faults, groups
<1>12. reading.payload = groups /\ (Green(reading) => faults <= 0)
  BY EosFramed, GreenWithin
<1> HIDE DEF reading
<1>13. Green(r) => r = reading
  BY EosEnds, NoFramesNoGreen
<1> HIDE DEF r
<1>14. Green(A!Gated(v, r)) => A!Gated(v, r) = r
  BY GreenPasses
<1> QED BY <1>1, <1>11, <1>12, <1>13, <1>14 DEF Truthful

\* Every reading is shown as it was counted.
LEMMA EveryReadingTruthful ==
  ASSUME NEW key, NEW v, vendor = "arista" /\ key = "environment" => Walked(v)
  PROVE  Truthful(key, determine(vendor, key, v))
<1> DEFINE r == determine(vendor, key, v)
<1>1. CASE key \notin {"environment", "optics", "bgp", "ospf", "interfaces"}
  BY <1>1 DEF Truthful, Troubled
<1>2. CASE key \notin capabilities(vendor)
  <2>1. r = [state |-> "UNREAD", payload |-> v, frames |-> <<>>]
    BY <1>2 DEF determine, Reading
  <2>2. Truthful(key, [state |-> "UNREAD", payload |-> v, frames |-> <<>>])
    BY NoFramesNoGreen DEF Truthful
  <2> QED BY <2>1, <2>2
<1>3. CASE key \in capabilities(vendor) /\ vendor = "arista" /\ key \in {"bgp", "ospf", "interfaces"}
  BY <1>3, EosTruthful DEF determine
<1>4. CASE key \in capabilities(vendor) /\ vendor = "arista" /\ key \in {"optics", "environment"}
  BY <1>4, EosEnvironmentTruthful DEF determine, capabilities, Protocols
<1>5. CASE /\ key \in capabilities(vendor) /\ vendor # "arista"
           /\ key \in {"environment", "optics", "bgp", "ospf", "interfaces"}
  <2>1. r = Junos(key, v)
    BY <1>5 DEF determine
  <2>2. Truthful(key, Junos(key, v))
    BY <1>5, JunosPeersTruthful, JunosOpticsTruthful, JunosInterfacesTruthful, JunosEnvironmentTruthful
  <2> QED BY <2>1, <2>2
<1> QED BY <1>1, <1>2, <1>3, <1>4, <1>5

\* Of finitely many records, and walked from the first to the last.
Weighed(key) ==
    /\ FiniteRecords(feed[key].payload)
    /\ vendor = "arista" /\ key = "environment" => Walked(batch[key])

\* No green over red, in every capability of both vendors, for every reply
\* whose records are finitely many and whose lists are lists, as any reply's are.
THEOREM NoGreenOverRed ==
  Spec => [](/\ \A key \in Fresh : Weighed(key) => (Green(feed[key]) => ~Troubled(key, feed[key].payload))
             /\ (\A key \in Fresh : Weighed(key)) => GreenHidesNoFault)
<1> DEFINE Told(key) == Green(feed[key]) => ~Troubled(key, feed[key].payload)
<1>1. ASSUME FeedInv, NEW key \in Fresh, Weighed(key) PROVE Told(key)
  <2> DEFINE r == determine(vendor, key, batch[key])
  <2>1. feed[key] = EntryOf(r)
    BY <1>1, FreshEntry
  <2>2. Truthful(key, r) /\ Shaped(r)
    BY <1>1, EveryReadingTruthful, EveryReadingLawful DEF Judicious, Lawful, Weighed
  <2> HIDE DEF r
  <2>3. ASSUME Green(feed[key]) PROVE feed[key].payload = r.payload /\ Green(r)
    <3>1. Green(r)
      BY <2>1, <2>3 DEF EntryOf, Green
    <3>2. r.state = "PRESENT"
      BY <2>2, <3>1, NoFramesNoGreen DEF Shaped
    <3> QED BY <2>1, <3>1, <3>2 DEF EntryOf
  <2> QED BY <1>1, <2>2, <2>3 DEF Truthful, Weighed
<1>2. FeedInv =>
          /\ \A key \in Fresh : Weighed(key) => (Green(feed[key]) => ~Troubled(key, feed[key].payload))
          /\ (\A key \in Fresh : Weighed(key)) => GreenHidesNoFault
  <2>1. FeedInv => \A key \in Fresh : Weighed(key) => Told(key)
    BY <1>1
  <2> QED BY <2>1 DEF GreenHidesNoFault
<1> QED BY FeedInvariant, <1>2, PTL

-----------------------------------------------------------------------------
\* Fragments.  _extract_json makes of a reply that was cut off one of the
\* objects inside it; no discriminator of EOS takes one for the answer unless it
\* has a key that the answer itself would open with.

\* Of nothing, nothing is read.
LEMMA EosNothing ==
  /\ \A k : A!Get(A!Null, k) = A!Null /\ ~A!Has(A!Null, k)
  /\ ~A!IsDict(A!Null) /\ ~A!IsList(A!Null) /\ ~A!IsNum(A!Null) /\ ~A!IsStr(A!Null)
  /\ ~A!Truthy(A!Null) /\ ~A!FullMap(A!Null) /\ ~A!EmptyMap(A!Null)
  BY DEF A!Get, A!Has, A!Null, A!IsDict, A!IsList, A!IsNum, A!IsStr, A!Truthy, A!Bool,
         A!FullMap, A!EmptyMap

\* What is not determined is unread, behind either gate.
LEMMA EosUndetermined ==
  ASSUME NEW w, NEW r
  PROVE  LET found == A!Determined(FALSE, FALSE, w, r)
         IN /\ found.state = "UNREAD"
            /\ A!Gated(w, found).state = "UNREAD"
            /\ A!Get(w, "errors") = A!Null => A!Screened(w, found).state = "UNREAD"
<1> DEFINE found == A!Determined(FALSE, FALSE, w, r)
<1>1. found.state = "UNREAD"
  BY EosEnds DEF A!Determined
<1>2. A!Gated(w, found).state = "UNREAD"
  <2>1. A!ReadFailed(w).state = "UNREAD"
    BY EosEnds
  <2> HIDE DEF found
  <2> QED BY <1>1, <2>1 DEF A!Gated
<1>3. ASSUME A!Get(w, "errors") = A!Null PROVE A!Screened(w, found).state = "UNREAD"
  <2>1. A!ErrorsVerdict(w) = "none"
    BY <1>3, EosNothing DEF A!ErrorsVerdict
  <2> QED BY <1>2, <2>1 DEF A!Screened
<1> QED BY <1>1, <1>2, <1>3

\* An object without any of a reply's opening keys is not judged.
LEMMA FragmentUnread ==
  ASSUME NEW key \in SingleReads, NEW w, Openings(key) \cap DOMAIN w.dict = {}
  PROVE  EOS(key, w).state = "UNREAD"
<1>1. \A k \in Openings(key) : A!Get(w, k) = A!Null /\ ~A!Has(w, k)
  BY DEF A!Get, A!Has
<1>2. CASE key = "bgp"
  <2> DEFINE vrfs == A!Get(w, "vrfs")
             peers == A!Get(A!Get(vrfs, "default"), "peers")
             present == A!FullMap(peers)
                        \/ (A!EmptyMap(peers) /\ A!ProcessPresent(A!Get(vrfs, "default")))
             absent == A!EmptyMap(vrfs) \/ A!EmptyMap(peers)
             records == A!EosBgpToContract(peers)
             reading == A!Framed(records, A!Frame(A!Count(records, A!NotEstablished), 0))
  <2>1. vrfs = A!Null /\ A!Get(w, "errors") = A!Null
    BY <1>1, <1>2 DEF Openings
  <2>2. peers = A!Null
    BY <2>1, EosNothing
  <2>3. present = FALSE /\ absent = FALSE
    BY <2>1, <2>2, EosNothing
  <2>4. EOS(key, w) =
            A!Screened(w, IF present /\ \E addr \in DOMAIN peers.dict : ~A!IsDict(peers.dict[addr])
                          THEN A!Raised ELSE A!Determined(present, absent, w, reading))
    BY <1>2 DEF EOS, A!arista_bgp
  <2> HIDE DEF reading, present, absent
  <2>5. EOS(key, w) = A!Screened(w, A!Determined(FALSE, FALSE, w, reading))
    BY <2>3, <2>4
  <2> QED BY <2>1, <2>5, EosUndetermined
<1>3. CASE key = "ospf"
  <2> DEFINE vrfs == A!Get(w, "vrfs")
             default == A!Get(vrfs, "default")
             insts == A!Get(default, "instList")
             present == A!FullMap(insts)
             absent == A!EmptyMap(vrfs) \/ A!EmptyMap(insts)
             odd == (A!Has(vrfs, "default") /\ ~A!IsDict(default)) \/ A!OddEntries(insts)
             neighbors == A!FlattenSeq([i \in DOMAIN A!Keys(insts) |->
                              A!Items(A!Get(insts.dict[A!Keys(insts)[i]], "ospfNeighborEntries"))])
             records == A!EosOspfToContract(neighbors)
             reading == A!Framed(records, A!Frame(A!Count(records, A!NotFull), 0))
  <2>1. vrfs = A!Null /\ A!Get(w, "errors") = A!Null
    BY <1>1, <1>3 DEF Openings
  <2>2. insts = A!Null
    BY <2>1, EosNothing
  <2>3. present = FALSE /\ absent = FALSE /\ odd = FALSE
    BY <2>1, <2>2, EosNothing DEF A!OddEntries
  <2>4. EOS(key, w) = A!Screened(w, IF odd THEN A!Raised
                                    ELSE A!Determined(present, absent, w, reading))
    BY <1>3 DEF EOS, A!arista_ospf
  <2> HIDE DEF reading, present, absent, odd
  <2>5. EOS(key, w) = A!Screened(w, A!Determined(FALSE, FALSE, w, reading))
    BY <2>3, <2>4
  <2> QED BY <2>1, <2>5, EosUndetermined
<1>4. CASE key = "mlag"
  <2> DEFINE word == A!MlagGet(w, "state", "mlagState")
             absent == A!IsStr(word) /\ word.str \in A!SaysDisabled \ A!SaysReload
             present == A!IsStr(word) /\ A!Truthy(word) /\ ~absent
  <2>1. word = A!Null /\ A!Get(w, "errors") = A!Null
    BY <1>1, <1>4 DEF Openings, A!MlagGet
  <2>2. present = FALSE /\ absent = FALSE
    BY <2>1, EosNothing
  <2>3. \E r : EOS(key, w) = A!Screened(w, A!Determined(present, absent, w, r))
    <3> HIDE DEF present
    <3> QED BY <1>4 DEF EOS, A!arista_mlag, present
  <2> HIDE DEF present, absent
  <2>4. \E r : EOS(key, w) = A!Screened(w, A!Determined(FALSE, FALSE, w, r))
    BY <2>2, <2>3
  <2> QED BY <2>1, <2>4, EosUndetermined
<1>5. CASE key = "lldp"
  <2> DEFINE neighbors == A!Get(w, "lldpNeighbors")
             present == A!IsList(neighbors) /\ A!Truthy(neighbors)
  <2>1. neighbors = A!Null /\ A!Get(w, "errors") = A!Null
    BY <1>1, <1>5 DEF Openings
  <2>2. present = FALSE
    BY <2>1, EosNothing
  <2>3. EOS(key, w) = A!Screened(w, A!Determined(present, FALSE, w, A!Judged("yes", neighbors)))
    BY <1>5 DEF EOS, A!arista_lldp
  <2> HIDE DEF present
  <2>4. EOS(key, w) = A!Screened(w, A!Determined(FALSE, FALSE, w, A!Judged("yes", neighbors)))
    BY <2>2, <2>3
  <2> QED BY <2>1, <2>4, EosUndetermined
<1>6. ASSUME NEW present, present = FALSE,
             \E r : EOS(key, w) = A!Gated(w, A!Determined(present, FALSE, w, r))
      PROVE  EOS(key, w).state = "UNREAD"
  BY <1>6, EosUndetermined
<1>7. CASE key = "interfaces"
  <2> DEFINE present == A!FullMap(A!Get(w, "interfaceStatuses"))
  <2>1. present = FALSE
    BY <1>1, <1>7, EosNothing DEF Openings
  <2>2. \E r : EOS(key, w) = A!Gated(w, A!Determined(present, FALSE, w, r))
    BY <1>7 DEF EOS, A!arista_interfaces
  <2> HIDE DEF present
  <2> QED BY <1>6, <2>1, <2>2
<1>8. CASE key = "version"
  <2> DEFINE present == \/ \E k \in {"modelName", "version", "internalVersion"} : A!Truthy(A!Get(w, k))
                        \/ A!Has(w, "memTotal")
  <2>1. present = FALSE
    BY <1>1, <1>8, EosNothing DEF Openings
  <2>2. \E r : EOS(key, w) = A!Gated(w, A!Determined(present, FALSE, w, r))
    BY <1>8 DEF EOS, A!arista_version
  <2> HIDE DEF present
  <2> QED BY <1>6, <2>1, <2>2
<1>9. CASE key = "routes"
  <2> DEFINE total == A!Get(A!Get(A!Get(w, "vrfs"), "default"), "totalRoutes")
             present == A!IsNum(total)
  <2>1. present = FALSE
    <3>1. A!Get(w, "vrfs") = A!Null
      BY <1>1, <1>9 DEF Openings
    <3>2. total = A!Null
      BY <3>1, EosNothing
    <3> QED BY <3>2, EosNothing
  <2>2. \E r : EOS(key, w) = A!Gated(w, A!Determined(present, FALSE, w, r))
    BY <1>9 DEF EOS, A!arista_routes
  <2> HIDE DEF present
  <2> QED BY <1>6, <2>1, <2>2
<1>10. CASE key = "transceivers"
  <2> DEFINE present == A!IsDict(A!Get(w, "xcvrSlots"))
  <2>1. present = FALSE
    BY <1>1, <1>10, EosNothing DEF Openings
  <2>2. \E r : EOS(key, w) = A!Gated(w, A!Determined(present, FALSE, w, r))
    BY <1>10 DEF EOS, A!arista_transceivers
  <2> HIDE DEF present
  <2> QED BY <1>6, <2>1, <2>2
<1>11. CASE key = "proc"
  <2> DEFINE used == A!CpuUsedPct(A!Get(w, "cpuInfo"))
             present == A!IsNum(used)
  <2>1. present = FALSE
    <3>1. A!Get(w, "cpuInfo") = A!Null
      BY <1>1, <1>11 DEF Openings
    <3>2. A!CpuUsedPct(A!Null) = A!Null
      BY EosNothing DEF A!CpuUsedPct
    <3> QED BY <3>1, <3>2, EosNothing
  <2>2. \E r : EOS(key, w) = A!Gated(w, A!Determined(present, FALSE, w, r))
    BY <1>11 DEF EOS, A!arista_proc
  <2> HIDE DEF present
  <2> QED BY <1>6, <2>1, <2>2
<1> QED BY <1>2, <1>3, <1>4, <1>5, <1>7, <1>8, <1>9, <1>10, <1>11 DEF SingleReads

\* A reply that was cut off is taken for no answer, as long as no object inside
\* a reply has a key that the reply itself opens with.
THEOREM FragmentsUnread ==
  Spec => []((\A key \in DOMAIN batch \cap SingleReads : OpensApart(key, batch[key]))
             => TruncationIsNeverJudged)
<1>1. (\A key \in DOMAIN batch \cap SingleReads : OpensApart(key, batch[key]))
          => TruncationIsNeverJudged
  <2> SUFFICES ASSUME vendor = "arista", NEW key \in DOMAIN batch \cap SingleReads,
                      OpensApart(key, batch[key]), NEW w \in Inner(batch[key])
               PROVE  determine(vendor, key, w).state = "UNREAD"
    BY DEF TruncationIsNeverJudged
  <2>1. Openings(key) \cap DOMAIN w.dict = {}
    BY DEF OpensApart
  <2>2. EOS(key, w).state = "UNREAD"
    BY <2>1, FragmentUnread
  <2>3. determine(vendor, key, w) = EOS(key, w)
    BY DEF determine, capabilities, Protocols, SingleReads
  <2> QED BY <2>2, <2>3
<1> QED BY <1>1, PTL
=============================================================================
