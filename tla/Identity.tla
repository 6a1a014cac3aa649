------------------------------ MODULE Identity ------------------------------
(* uf/host/identity.py and the Tier-1 tools of servers/tier1_netlapse.py that *)
(* resolve through it.  One resolver serves the whole cockpit: the GUI thread *)
(* opens tabs with it, and the model worker of each tab runs Tier-1 tools.    *)
(* It has no lock: every load and store of one of its fields is a step.       *)
EXTENDS Integers, FiniteSets

CONSTANTS Devices,       \* by name; each has its own address
          Steady,        \* those that Netlapse lists all the time
          Threads,
          Opened,        \* the names of tabs to open
          Slices,        \* what Tier 1 is asked for: [device, by, capability]
          Captured,      \* DOMAIN CAPABILITY_TO_CAPTURE
          Ttl,
          Timeout,       \* of one request
          MaxTime, MaxChanges

ASSUME SteadyAssumption == Steady \subseteq Devices
ASSUME SlicesAssumption ==
    /\ Opened \subseteq Devices
    /\ \A r \in Slices : r.device \in Devices /\ r.by \in {"name", "ip"}
ASSUME TtlAssumption == Ttl \in Nat /\ Timeout \in Nat /\ MaxTime \in Nat
ASSUME ChangesAssumption == MaxChanges \in Nat

VARIABLES now,
          changes,    \* of the listing so far
          nodes,      \* Netlapse: the devices it lists, [ok, since], since when they are (not) ok
          byName, byIp,  \* the two indices, by device: [ok, joined]
          loadedAt,
          pc,         \* where each thread is
          call,       \* what it serves: [tool, device, by, capability]
          until,      \* when its request times out
          got,        \* the listing it has fetched, as identities
          secondly,   \* whether it is at the second lookup, for the caveat
          answer      \* what its call came to

cache == <<byName, byIp, loadedAt>>
vars == <<now, changes, nodes, byName, byIp, loadedAt, pc, call, until, got, secondly, answer>>

Nobody == [d \in {} |-> {}]
NoCall == [tool |-> "none"]
Lists(index) == Steady \subseteq DOMAIN index

\* Fleet.devices, historical_inventory; Fleet.open; historical_snapshot, _diff.
Calls == [tool : {"devices"}]
         \cup [tool : {"open"}, device : Opened, by : {"name"}]
         \cup {[tool |-> "slice", device |-> r.device, by |-> r.by,
                capability |-> r.capability] : r \in Slices}

-----------------------------------------------------------------------------
Init ==
    /\ now = Ttl + 1     \* the epoch is further back than any ttl
    /\ nodes = [d \in Devices |-> [ok |-> TRUE, since |-> now]]
    /\ changes = 0
    /\ byName = Nobody
    /\ byIp = Nobody
    /\ loadedAt = 0
    /\ pc = [t \in Threads |-> "idle"]
    /\ call = [t \in Threads |-> NoCall]
    /\ until = [t \in Threads |-> 0]
    /\ got = [t \in Threads |-> Nobody]
    /\ secondly = [t \in Threads |-> FALSE]
    /\ answer = [t \in Threads |-> "none"]

At(t, from, to) == pc[t] = from /\ pc' = [pc EXCEPT ![t] = to]
Ends(t, from, how) ==
    /\ At(t, from, "idle")
    /\ answer' = [answer EXCEPT ![t] = how]
    /\ call' = [call EXCEPT ![t] = NoCall]
    /\ until' = [until EXCEPT ![t] = 0]
    /\ got' = [got EXCEPT ![t] = Nobody]
    /\ secondly' = [secondly EXCEPT ![t] = FALSE]
local == <<call, until, got, secondly>>
world == <<now, changes, nodes>>

Begins(t, c) ==
    /\ At(t, "idle", "ensure")
    /\ call' = [call EXCEPT ![t] = c]
    /\ answer' = [answer EXCEPT ![t] = "none"]
    /\ UNCHANGED <<until, got, secondly>> /\ UNCHANGED <<world, cache>>

Stale == DOMAIN byName = {} \/ now - loadedAt > Ttl

\* What Netlapse lists when it is asked; the answer may take until the timeout.
Ensures(t) ==
    /\ IF Stale
       THEN /\ At(t, "ensure", "nodes")
            /\ got' = [got EXCEPT ![t] = [d \in DOMAIN nodes |->
                                              [ok |-> nodes[d].ok, joined |-> FALSE]]]
            /\ until' = [until EXCEPT ![t] = now + Timeout]
       ELSE At(t, "ensure", "byName") /\ UNCHANGED <<got, until>>
    /\ UNCHANGED <<call, secondly, answer>> /\ UNCHANGED <<world, cache>>

\* A refresh that failed lets the old identities live on, as a pause between tries.
NodesFailExtends(t) ==
    /\ Ends(t, "nodes", "raised")
    /\ loadedAt' = IF loadedAt = 0 THEN 0 ELSE now
    /\ UNCHANGED <<byName, byIp>> /\ UNCHANGED world

NodesFail(t) ==
    /\ Ends(t, "nodes", "raised")
    /\ UNCHANGED <<world, cache>>

NodesAnswer(t) ==
    /\ At(t, "nodes", "devices")
    /\ until' = [until EXCEPT ![t] = now + Timeout]
    /\ UNCHANGED <<call, got, secondly, answer>> /\ UNCHANGED <<world, cache>>

\* The join is best effort: whatever goes wrong, the identities stay without id.
DevicesAnswer(t) ==
    /\ At(t, "devices", "storeNames")
    /\ until' = [until EXCEPT ![t] = 0]
    /\ \E joined \in BOOLEAN :
           got' = [got EXCEPT ![t] = [d \in DOMAIN got[t] |->
                                          [ok |-> got[t][d].ok, joined |-> joined]]]
    /\ UNCHANGED <<call, secondly, answer>> /\ UNCHANGED <<world, cache>>

\* The stamp as soon as the first index is there.
StoreNamesStamped(t) ==
    /\ At(t, "storeNames", "storeIps")
    /\ byName' = got[t]
    /\ loadedAt' = now
    /\ UNCHANGED <<byIp, answer>> /\ UNCHANGED <<local, world>>

StoreNames(t) ==
    /\ At(t, "storeNames", "storeIps")
    /\ byName' = got[t]
    /\ UNCHANGED <<byIp, loadedAt, answer>> /\ UNCHANGED <<local, world>>

StoreIps(t) ==
    /\ At(t, "storeIps", "stamp")
    /\ byIp' = got[t]
    /\ UNCHANGED <<byName, loadedAt, answer>> /\ UNCHANGED <<local, world>>

Stamp(t) ==
    /\ At(t, "stamp", "byName")
    /\ loadedAt' = now
    /\ got' = [got EXCEPT ![t] = Nobody]
    /\ UNCHANGED <<byName, byIp, call, until, secondly, answer>> /\ UNCHANGED world

ListsAll(t) ==
    /\ call[t].tool = "devices"
    /\ Ends(t, "byName", IF Lists(byName) THEN "listed" ELSE "lacking")
    /\ UNCHANGED <<world, cache>>

\* resolve came to this identity: on to the slice, to the caveat, or an answer.
Resolved(t, from, ident) ==
    IF secondly[t] THEN Ends(t, from, IF ident.ok THEN "available" ELSE "caveated")
    ELSE IF call[t].tool = "open" THEN Ends(t, from, "opened")
    ELSE IF call[t].capability \notin Captured \/ ~ident.joined
    THEN Ends(t, from, "unavailable")
    ELSE /\ At(t, from, "slice")
         /\ until' = [until EXCEPT ![t] = now + Timeout]
         /\ UNCHANGED <<call, got, secondly, answer>>

FindsName(t) ==
    /\ pc[t] = "byName" /\ call[t].tool # "devices"
    /\ IF call[t].by = "name" /\ call[t].device \in DOMAIN byName
       THEN Resolved(t, "byName", byName[call[t].device])
       ELSE At(t, "byName", "byIp") /\ UNCHANGED local /\ UNCHANGED answer
    /\ UNCHANGED <<world, cache>>

\* Unknown: the tab is not opened, the envelope or the caveat says so.
FindsIp(t) ==
    /\ pc[t] = "byIp"
    /\ IF call[t].by = "ip" /\ call[t].device \in DOMAIN byIp
       THEN Resolved(t, "byIp", byIp[call[t].device])
       ELSE Ends(t, "byIp", "unknown")
    /\ UNCHANGED <<world, cache>>

\* latest_snapshot, or structured_diff: no capture, or not two, or no answer.
SliceFails(t) ==
    /\ Ends(t, "slice", "unavailable")
    /\ UNCHANGED <<world, cache>>

SliceAnswers(t) ==
    /\ At(t, "slice", "ensure")
    /\ secondly' = [secondly EXCEPT ![t] = TRUE]
    /\ until' = [until EXCEPT ![t] = 0]
    /\ UNCHANGED <<call, got, answer>> /\ UNCHANGED <<world, cache>>

ThreadStep(t) ==
    \/ \E c \in Calls : Begins(t, c)
    \/ Ensures(t) \/ NodesFail(t) \/ NodesAnswer(t) \/ DevicesAnswer(t)
    \/ StoreNames(t) \/ StoreIps(t) \/ Stamp(t)
    \/ ListsAll(t) \/ FindsName(t) \/ FindsIp(t)
    \/ SliceFails(t) \/ SliceAnswers(t)

-----------------------------------------------------------------------------
\* Netlapse collects on: a device comes to be ok or not, or to be listed or not.
Changes ==
    /\ changes < MaxChanges
    /\ changes' = changes + 1
    /\ UNCHANGED <<now, pc, answer>> /\ UNCHANGED <<local, cache>>

Collects(d) ==
    /\ d \in DOMAIN nodes
    /\ nodes' = [nodes EXCEPT ![d] = [ok |-> ~@.ok, since |-> now]]
    /\ Changes

Relists(d) ==
    /\ d \notin Steady
    /\ nodes' = IF d \in DOMAIN nodes
                THEN [e \in DOMAIN nodes \ {d} |-> nodes[e]]
                ELSE [e \in DOMAIN nodes \cup {d} |->
                          IF e = d THEN [ok |-> TRUE, since |-> now] ELSE nodes[e]]
    /\ Changes

Waiting == {"nodes", "devices", "slice"}

\* Time goes on while nobody computes and no request is overdue.
Tick ==
    /\ now < MaxTime
    /\ \A t \in Threads : pc[t] = "idle" \/ (pc[t] \in Waiting /\ now < until[t])
    /\ now' = now + 1
    /\ UNCHANGED <<changes, nodes, pc, answer>> /\ UNCHANGED <<local, cache>>

Next ==
    \/ \E t \in Threads : ThreadStep(t)
    \/ \E d \in Devices : Collects(d) \/ Relists(d)
    \/ Tick

Spec == Init /\ [][Next]_vars

-----------------------------------------------------------------------------
Answers == {"none", "raised", "listed", "lacking", "opened", "unknown", "unavailable",
            "available", "caveated"}
Places == {"idle", "ensure", "storeNames", "storeIps", "stamp", "byName", "byIp"} \cup Waiting

\* Each part of the state is of its kind.
TypeOK ==
    /\ now \in Nat /\ loadedAt \in Nat
    /\ pc \in [Threads -> Places]
    /\ call \in [Threads -> Calls \cup {NoCall}]
    /\ until \in [Threads -> Nat]
    /\ secondly \in [Threads -> BOOLEAN]
    /\ answer \in [Threads -> Answers]

\* A device that Netlapse lists all the time is never lost between the stores of
\* two threads that refresh at once: no list lacks it, no tab or tool takes it
\* for unknown, by name or by address (identity.py:212, 220, 234).
NeverLost ==
    [][\A t \in Threads :
           pc[t] # "idle" /\ pc'[t] = "idle"
           => /\ answer'[t] # "lacking"
              /\ answer'[t] = "unknown" => call[t].device \notin Steady]_vars

\* A slice is handed out without a caveat only if the device's last collection
\* succeeded, or has been failing for no longer than a cached identity may be
\* old (tier1_netlapse.py:24-27).
OldFailuresAreCaveated ==
    [][\A t \in Threads :
           /\ pc[t] # "idle" /\ pc'[t] = "idle"
           /\ answer'[t] = "available" /\ call[t].device \in Steady
           => \/ nodes[call[t].device].ok
              \/ now - nodes[call[t].device].since <= Ttl + 2 * Timeout]_vars
=============================================================================
