--------------------------- MODULE IdentityProofs ---------------------------
(* Between the separate stores and loads of any number of threads, a device   *)
(* that Netlapse lists all the time is never lost; and what they hand out is  *)
(* never older than the ttl and the two requests of a refresh.                *)
EXTENDS Identity, TLAPS

Typed ==
    /\ now \in Nat /\ now > Ttl /\ loadedAt \in Nat
    /\ DOMAIN pc = Threads /\ DOMAIN call = Threads /\ DOMAIN got = Threads
    /\ DOMAIN until = Threads /\ DOMAIN secondly = Threads /\ DOMAIN answer = Threads

\* What is stamped is complete; what a thread has, or is to read, is too.
IndicesInv == loadedAt # 0 => Lists(byName) /\ Lists(byIp)
ThreadInv ==
    \A t \in Threads :
        /\ pc[t] \in {"nodes", "devices", "storeNames", "storeIps"} => Lists(got[t])
        /\ pc[t] \in {"storeIps", "stamp", "byName", "byIp"} => Lists(byName)
        /\ pc[t] \in {"stamp", "byName", "byIp"} => Lists(byIp)
        /\ pc[t] # "idle" => call[t].tool = "devices" \/ call[t].by \in {"name", "ip"}
        /\ pc[t] = "byIp" => call[t].by = "ip" \/ call[t].device \notin Steady
IInv == Typed /\ Lists(nodes) /\ IndicesInv /\ ThreadInv

USE SteadyAssumption, SlicesAssumption, TtlAssumption, ChangesAssumption

\* The resolver starts empty and stale.
LEMMA InitInv == Init => IInv
  BY DEF Init, IInv, Typed, IndicesInv, ThreadInv, Lists, Nobody

\* A step by step account of one thread.
LEMMA ThreadStepInv ==
  ASSUME IInv, NEW t \in Threads, ThreadStep(t) PROVE IInv'
<1> USE DEF IInv, Typed, IndicesInv, ThreadInv, At, Ends, cache, local, world
<1>1. ASSUME NEW c \in Calls, Begins(t, c) PROVE IInv'
  <2>1. c.tool = "devices" \/ c.by \in {"name", "ip"}
    BY DEF Calls
  <2> QED BY <1>1, <2>1 DEF Begins
<1>2. CASE Ensures(t)
  <2>1. CASE Stale
    <3>1. Lists(got'[t])
      BY <1>2, <2>1 DEF Ensures, Lists
    <3> QED BY <1>2, <2>1, <3>1 DEF Ensures
  <2>2. CASE ~Stale
    <3>1. loadedAt # 0
      BY <2>2 DEF Stale
    <3> QED BY <1>2, <2>2, <3>1 DEF Ensures
  <2> QED BY <2>1, <2>2
<1>3. CASE NodesFail(t)
  BY <1>3 DEF NodesFail
<1>4. CASE NodesAnswer(t)
  BY <1>4 DEF NodesAnswer
<1>5. CASE DevicesAnswer(t)
  <2>1. Lists(got'[t])
    BY <1>5 DEF DevicesAnswer, Lists
  <2> QED BY <1>5, <2>1 DEF DevicesAnswer
<1>6. CASE StoreNames(t)
  BY <1>6 DEF StoreNames
<1>7. CASE StoreIps(t)
  BY <1>7 DEF StoreIps
<1>8. CASE Stamp(t)
  BY <1>8 DEF Stamp
<1>9. CASE ListsAll(t)
  BY <1>9 DEF ListsAll
<1>10. CASE FindsName(t)
  <2>1. CASE call[t].by = "name" /\ call[t].device \in DOMAIN byName
    BY <1>10, <2>1 DEF FindsName, Resolved
  <2>2. CASE ~(call[t].by = "name" /\ call[t].device \in DOMAIN byName)
    <3>1. call[t].by = "ip" \/ call[t].device \notin Steady
      BY <1>10, <2>2 DEF FindsName, Lists
    <3> QED BY <1>10, <2>2, <3>1 DEF FindsName
  <2> QED BY <2>1, <2>2
<1>11. CASE FindsIp(t)
  BY <1>11 DEF FindsIp, Resolved
<1>12. CASE SliceFails(t)
  BY <1>12 DEF SliceFails
<1>13. CASE SliceAnswers(t)
  BY <1>13 DEF SliceAnswers
<1> QED
  <2> HIDE DEF IInv, At, Ends
  <2> QED BY <1>1, <1>2, <1>3, <1>4, <1>5, <1>6, <1>7, <1>8, <1>9, <1>10, <1>11,
             <1>12, <1>13 DEF ThreadStep

\* Time, the listing and the threads leave the invariant as it is.
LEMMA NextInv == ASSUME IInv, [Next]_vars PROVE IInv'
<1>1. ASSUME NEW t \in Threads, ThreadStep(t) PROVE IInv'
  BY <1>1, ThreadStepInv
<1>2. ASSUME NEW d \in Devices, Collects(d) PROVE IInv'
  BY <1>2 DEF Collects, Changes, IInv, Typed, IndicesInv, ThreadInv, Lists, local, cache
<1>3. ASSUME NEW d \in Devices, Relists(d) PROVE IInv'
  <2>1. Lists(nodes')
    BY <1>3 DEF Relists, IInv, Lists
  <2> QED BY <1>3, <2>1 DEF Relists, Changes, IInv, Typed, IndicesInv, ThreadInv, Lists,
                            local, cache
<1>4. CASE Tick
  BY <1>4 DEF Tick, IInv, Typed, IndicesInv, ThreadInv, Lists, local, cache
<1>5. CASE UNCHANGED vars
  BY <1>5 DEF vars, IInv, Typed, IndicesInv, ThreadInv, Lists
<1> QED BY <1>1, <1>2, <1>3, <1>4, <1>5 DEF Next

\* The two indices that are stamped, and those a thread is to read, list every
\* device that Netlapse lists all the time, in every reachable state.
THEOREM IndicesComplete == Spec => []IInv
<1>1. IInv /\ [Next]_vars => IInv'
  BY NextInv
<1> QED BY InitInv, <1>1, PTL DEF Spec

\* No step answers that a steady device is unknown or not in the list, whatever
\* the number of threads, the ttl, the timeout and the order of their steps.
THEOREM SteadyDeviceNeverLost == Spec => NeverLost
<1> DEFINE Finds == \A t \in Threads :
               pc[t] # "idle" /\ pc'[t] = "idle"
               => /\ answer'[t] # "lacking"
                  /\ answer'[t] = "unknown" => call[t].device \notin Steady
<1>1. ASSUME IInv, [Next]_vars PROVE [Finds]_vars
  <2> SUFFICES ASSUME NEW t \in Threads, pc[t] # "idle", pc'[t] = "idle", Next
               PROVE /\ answer'[t] # "lacking"
                     /\ answer'[t] = "unknown" => call[t].device \notin Steady
    BY <1>1
  <2>1. PICK s \in Threads : ThreadStep(s)
    BY DEF Next, Collects, Relists, Changes, Tick
  <2>2. s = t
    BY <1>1, <2>1 DEF ThreadStep, Begins, Ensures, NodesFail, NodesAnswer, DevicesAnswer,
        StoreNames, StoreIps, Stamp, ListsAll, FindsName, FindsIp, SliceFails, SliceAnswers,
        Resolved, At, Ends, IInv, Typed
  <2> USE DEF IInv, Typed, ThreadInv, At, Ends
  <2>3. CASE NodesFail(t)
    BY <1>1, <2>3 DEF NodesFail
  <2>4. CASE SliceFails(t)
    BY <1>1, <2>4 DEF SliceFails
  <2>5. CASE ListsAll(t)
    BY <1>1, <2>5 DEF ListsAll
  <2>6. CASE FindsName(t)
    BY <1>1, <2>6 DEF FindsName, Resolved
  <2>7. CASE FindsIp(t)
    <3>1. CASE call[t].by = "ip" /\ call[t].device \in DOMAIN byIp
      BY <1>1, <2>7, <3>1 DEF FindsIp, Resolved
    <3>2. CASE ~(call[t].by = "ip" /\ call[t].device \in DOMAIN byIp)
      BY <1>1, <2>7, <3>2 DEF FindsIp, Lists
    <3> QED BY <3>1, <3>2
  <2> QED BY <1>1, <2>1, <2>2, <2>3, <2>4, <2>5, <2>6, <2>7 DEF ThreadStep, Begins, Ensures,
        NodesAnswer, DevicesAnswer, StoreNames, StoreIps, Stamp, SliceAnswers
<1> QED BY IndicesComplete, <1>1, PTL DEF Spec, NeverLost

-----------------------------------------------------------------------------
\* Every step of the resolver's threads and of time leaves every part of the
\* state of its kind.
THEOREM IdentityTypes == Spec => []TypeOK
<1> USE DEF TypeOK
<1>1. Init => TypeOK
  BY DEF Init, Answers, Places
<1>2. TypeOK /\ [Next]_vars => TypeOK'
  <2> SUFFICES ASSUME TypeOK, [Next]_vars PROVE TypeOK'
    OBVIOUS
  <2> USE DEF cache, local, world
  <2>1. ASSUME NEW t \in Threads, ThreadStep(t) PROVE TypeOK'
    <3>1. ASSUME NEW from, NEW to \in Places, At(t, from, to)
          PROVE pc' \in [Threads -> Places]
      BY <3>1 DEF At
    <3>2. ASSUME NEW from, NEW how \in Answers, Ends(t, from, how)
          PROVE /\ pc' \in [Threads -> Places] /\ answer' \in [Threads -> Answers]
                /\ call' \in [Threads -> Calls \cup {NoCall}] /\ until' \in [Threads -> Nat]
                /\ secondly' \in [Threads -> BOOLEAN]
      <4>1. "idle" \in Places
        BY DEF Places
      <4> QED BY <3>2, <4>1 DEF Ends, At
    <3>3. /\ {"ensure", "nodes", "devices", "storeNames", "storeIps", "stamp", "byName", "byIp",
              "slice"} \subseteq Places
          /\ {"raised", "listed", "lacking", "opened", "unknown", "unavailable", "available",
              "caveated"} \subseteq Answers
      BY DEF Places, Waiting, Answers
    <3>4. ASSUME NEW c \in Calls, Begins(t, c) PROVE TypeOK'
      BY <3>4, <3>1, <3>3 DEF Begins, Answers
    <3>5. CASE Ensures(t)
      BY <3>5, <3>1, <3>3 DEF Ensures
    <3>6. CASE NodesFail(t)
      <4>1. Ends(t, "nodes", "raised")
        BY <3>6 DEF NodesFail
      <4> QED BY <3>6, <4>1, <3>2, <3>3 DEF NodesFail
    <3>16. CASE SliceFails(t)
      <4>1. Ends(t, "slice", "unavailable")
        BY <3>16 DEF SliceFails
      <4> QED BY <3>16, <4>1, <3>2, <3>3 DEF SliceFails
    <3>7. CASE NodesAnswer(t)
      BY <3>7, <3>1, <3>3 DEF NodesAnswer
    <3>17. CASE SliceAnswers(t)
      BY <3>17, <3>1, <3>3 DEF SliceAnswers
    <3>13. CASE DevicesAnswer(t)
      <4>1. At(t, "devices", "storeNames") /\ until' = [until EXCEPT ![t] = 0]
        BY <3>13 DEF DevicesAnswer
      <4> QED BY <3>13, <4>1, <3>1, <3>3 DEF DevicesAnswer
    <3>8. CASE StoreNames(t) \/ StoreIps(t) \/ Stamp(t)
      BY <3>8, <3>1, <3>3 DEF StoreNames, StoreIps, Stamp
    <3>9. CASE ListsAll(t)
      BY <3>9, <3>2, <3>3 DEF ListsAll
    <3>10. ASSUME NEW from, NEW ident, Resolved(t, from, ident), UNCHANGED <<world, cache>>
           PROVE TypeOK'
      BY <3>10, <3>1, <3>2, <3>3 DEF Resolved
    <3>11. CASE FindsName(t)
      <4>1. CASE call[t].by = "name" /\ call[t].device \in DOMAIN byName
        BY <3>11, <4>1, <3>10 DEF FindsName
      <4>2. CASE ~(call[t].by = "name" /\ call[t].device \in DOMAIN byName)
        BY <3>11, <4>2, <3>1, <3>3 DEF FindsName
      <4> QED BY <4>1, <4>2
    <3>12. CASE FindsIp(t)
      <4>1. CASE call[t].by = "ip" /\ call[t].device \in DOMAIN byIp
        BY <3>12, <4>1, <3>10 DEF FindsIp
      <4>2. CASE ~(call[t].by = "ip" /\ call[t].device \in DOMAIN byIp)
        BY <3>12, <4>2, <3>2, <3>3 DEF FindsIp
      <4> QED BY <4>1, <4>2
    <3> QED BY <2>1, <3>4, <3>5, <3>6, <3>7, <3>8, <3>9, <3>11, <3>12, <3>13,
           <3>16, <3>17 DEF ThreadStep
  <2>2. ASSUME NEW d \in Devices, Collects(d) \/ Relists(d) PROVE TypeOK'
    BY <2>2 DEF Collects, Relists, Changes
  <2>3. CASE Tick
    BY <2>3 DEF Tick
  <2>4. CASE UNCHANGED vars
    BY <2>4 DEF vars
  <2> QED BY <2>1, <2>2, <2>3, <2>4 DEF Next
<1> QED BY <1>1, <1>2, PTL DEF Spec

-----------------------------------------------------------------------------
\* Who is ok in an index is ok in Netlapse, or has not been since then.
Fresh(index, then) ==
    \A d \in Steady : d \in DOMAIN index /\ index[d].ok
                      => nodes[d].ok \/ nodes[d].since >= then

NodesInv == \A d \in DOMAIN nodes : nodes[d].since \in Nat
StampInv ==
    /\ loadedAt <= now
    /\ Fresh(byName, loadedAt - 2 * Timeout)
    /\ Fresh(byIp, loadedAt - 2 * Timeout)
WaitInv ==
    \A t \in Threads :
        /\ until[t] \in Nat /\ until[t] <= now + Timeout
        /\ pc[t] = "nodes" => now <= until[t] /\ Fresh(got[t], until[t] - Timeout)
        /\ pc[t] = "devices" => now <= until[t] /\ Fresh(got[t], until[t] - 2 * Timeout)
        /\ pc[t] \in {"storeNames", "storeIps"} => Fresh(got[t], now - 2 * Timeout)
        /\ pc[t] \in {"storeIps", "stamp"} => Fresh(byName, now - 2 * Timeout)
        /\ pc[t] = "stamp" => Fresh(byIp, now - 2 * Timeout)
        /\ pc[t] \in {"byName", "byIp"} => now - loadedAt <= Ttl
AgeInv == NodesInv /\ StampInv /\ WaitInv

\* Nothing is fetched yet.
LEMMA InitAge == Init => AgeInv
  BY DEF Init, AgeInv, NodesInv, StampInv, WaitInv, Fresh, Nobody

\* A step of one thread: what it fetches is current, what it stores is recent.
LEMMA ThreadStepAge ==
  ASSUME IInv, AgeInv, NEW t \in Threads, ThreadStep(t) PROVE AgeInv'
<1> USE DEF IInv, Typed, AgeInv, NodesInv, StampInv, WaitInv, At, Ends, cache, local, world
<1>1. ASSUME NEW c \in Calls, Begins(t, c) PROVE AgeInv'
  BY <1>1 DEF Begins, Fresh
<1>2. CASE Ensures(t)
  <2>1. CASE Stale
    <3>1. Fresh(got[t], until[t] - Timeout)'
      BY <1>2, <2>1 DEF Ensures, Fresh, Lists
    <3> QED BY <1>2, <2>1, <3>1 DEF Ensures, Fresh
  <2>2. CASE ~Stale
    BY <1>2, <2>2 DEF Ensures, Stale, Fresh
  <2> QED BY <2>1, <2>2
<1>3. CASE NodesFail(t)
  BY <1>3 DEF NodesFail, Fresh
<1>4. CASE NodesAnswer(t)
  <2>1. Fresh(got[t], until[t] - 2 * Timeout)'
    BY <1>4 DEF NodesAnswer, Fresh, ThreadInv, Lists
  <2> QED BY <1>4, <2>1 DEF NodesAnswer, Fresh
<1>5. CASE DevicesAnswer(t)
  <2>1. Fresh(got[t], now - 2 * Timeout)'
    BY <1>5 DEF DevicesAnswer, Fresh, ThreadInv, Lists
  <2> QED BY <1>5, <2>1 DEF DevicesAnswer, Fresh
<1>6. CASE StoreNames(t)
  BY <1>6 DEF StoreNames, Fresh, ThreadInv, Lists
<1>7. CASE StoreIps(t)
  BY <1>7 DEF StoreIps, Fresh, ThreadInv, Lists
<1>8. CASE Stamp(t)
  BY <1>8 DEF Stamp, Fresh
<1>9. CASE ListsAll(t)
  BY <1>9 DEF ListsAll, Fresh
<1>10. CASE FindsName(t)
  BY <1>10 DEF FindsName, Resolved, Fresh
<1>11. CASE FindsIp(t)
  BY <1>11 DEF FindsIp, Resolved, Fresh
<1>12. CASE SliceFails(t)
  BY <1>12 DEF SliceFails, Fresh
<1>13. CASE SliceAnswers(t)
  BY <1>13 DEF SliceAnswers, Fresh
<1> QED
  <2> HIDE DEF AgeInv, At, Ends
  <2> QED BY <1>1, <1>2, <1>3, <1>4, <1>5, <1>6, <1>7, <1>8, <1>9, <1>10, <1>11,
             <1>12, <1>13 DEF ThreadStep

\* A device that turns is turned now; time stands while anything is computed.
LEMMA NextAge == ASSUME IInv, AgeInv, [Next]_vars PROVE AgeInv'
<1>1. ASSUME NEW t \in Threads, ThreadStep(t) PROVE AgeInv'
  BY <1>1, ThreadStepAge
<1> USE DEF IInv, Typed, AgeInv, NodesInv, StampInv, WaitInv, cache, local
<1>2. ASSUME NEW d \in Devices, Collects(d) PROVE AgeInv'
  <2>1. \A e \in Steady : nodes'[e] = nodes[e] \/ nodes'[e].since = now
    BY <1>2 DEF Collects, Lists
  <2>2. NodesInv'
    BY <1>2 DEF Collects
  <2> QED BY <1>2, <2>1, <2>2 DEF Collects, Changes, Fresh
<1>3. ASSUME NEW d \in Devices, Relists(d) PROVE AgeInv'
  <2>1. \A e \in Steady : nodes'[e] = nodes[e]
    BY <1>3 DEF Relists, Lists
  <2>2. NodesInv'
    BY <1>3 DEF Relists
  <2> QED BY <1>3, <2>1, <2>2 DEF Relists, Changes, Fresh
<1>4. CASE Tick
  BY <1>4 DEF Tick, Waiting, Fresh
<1>5. CASE UNCHANGED vars
  BY <1>5 DEF vars, Fresh
<1> QED BY <1>1, <1>2, <1>3, <1>4, <1>5 DEF Next

\* No step hands out a slice of a steady device without a caveat while the device
\* has been failing for longer than the ttl and two requests, whichever thread's
\* refresh, however late, was stored last.
THEOREM OldFailuresCaveated == Spec => OldFailuresAreCaveated
<1> DEFINE Safe(t) == \/ nodes[call[t].device].ok
                      \/ now - nodes[call[t].device].since <= Ttl + 2 * Timeout
<1>1. ASSUME IInv, AgeInv, Next, NEW t \in Threads, pc[t] # "idle", pc'[t] = "idle",
             answer'[t] = "available", call[t].device \in Steady
      PROVE  Safe(t)
  <2>1. PICK s \in Threads : ThreadStep(s)
    BY <1>1 DEF Next, Collects, Relists, Changes, Tick
  <2>2. s = t
    BY <1>1, <2>1 DEF ThreadStep, Begins, Ensures, NodesFail, NodesAnswer, DevicesAnswer,
        StoreNames, StoreIps, Stamp, ListsAll, FindsName, FindsIp, SliceFails, SliceAnswers,
        Resolved, At, Ends, IInv, Typed
  <2>3. CASE FindsName(t)
    <3>1. pc[t] = "byName" /\ call[t].device \in DOMAIN byName /\ byName[call[t].device].ok
      BY <1>1, <2>3 DEF FindsName, Resolved, At, Ends, IInv, Typed
    <3>2. now - loadedAt <= Ttl /\ Fresh(byName, loadedAt - 2 * Timeout)
      BY <1>1, <3>1 DEF AgeInv, WaitInv, StampInv
    <3> QED BY <1>1, <3>1, <3>2 DEF Fresh, AgeInv, NodesInv, IInv, Typed, Lists
  <2>4. CASE FindsIp(t)
    <3>1. pc[t] = "byIp" /\ call[t].device \in DOMAIN byIp /\ byIp[call[t].device].ok
      BY <1>1, <2>4 DEF FindsIp, Resolved, At, Ends, IInv, Typed
    <3>2. now - loadedAt <= Ttl /\ Fresh(byIp, loadedAt - 2 * Timeout)
      BY <1>1, <3>1 DEF AgeInv, WaitInv, StampInv
    <3> QED BY <1>1, <3>1, <3>2 DEF Fresh, AgeInv, NodesInv, IInv, Typed, Lists
  <2> QED BY <1>1, <2>1, <2>2, <2>3, <2>4 DEF ThreadStep, Begins, Ensures, NodesFail,
        NodesAnswer, DevicesAnswer, StoreNames, StoreIps, Stamp, ListsAll, SliceFails,
        SliceAnswers, At, Ends, IInv, Typed
<1>2. IInv /\ AgeInv /\ [Next]_vars => IInv' /\ AgeInv'
  BY NextInv, NextAge
<1>3. IInv /\ AgeInv /\ [Next]_vars =>
        [\A t \in Threads :
             /\ pc[t] # "idle" /\ pc'[t] = "idle"
             /\ answer'[t] = "available" /\ call[t].device \in Steady
             => Safe(t)]_vars
  BY <1>1
<1> QED BY InitInv, InitAge, <1>2, <1>3, PTL DEF Spec, OldFailuresAreCaveated
=============================================================================
