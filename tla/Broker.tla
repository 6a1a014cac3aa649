------------------------------- MODULE Broker -------------------------------
(* uf/core/session.py: one read-only session to one device, the union of its  *)
(* consumers' keys run as one batch per poll, and the slices handed back in   *)
(* the order of attachment; with what the consumers make of a slice, the      *)
(* cockpit's from uf/cockpit/coordinator.py.                                  *)
EXTENDS Vendors, FiniteSets

CONSTANTS Consumers,   \* who may attach
          Manifest,    \* per vendor, the capability keys that each wants
          Kind,        \* [Consumers -> Kinds]
          Usual,       \* per vendor, a reply of every key
          Odd          \* per vendor and poll, by key, the replies it may get instead

VARIABLES vendor,      \* fixed when the broker is made
          authed,      \* _authed
          consumers,   \* _consumers: in the order of attachment
          polls,       \* polls begun with a union to read
          batch,       \* the replies of the last poll
          serving,     \* place of the next consumer in the poll under way, or 0
          sink,        \* the poll whose slice a consumer got last, since it attached
          feed         \* what the cockpit made of its last slice

vars == <<vendor, authed, consumers, polls, batch, serving, sink, feed>>

Kinds == {"cockpit", "widget", "ai"}
Nothing == [key \in {} |-> NoKeys]

ASSUME ManifestAssumption ==
    \A v \in DOMAIN Odd : \A c \in Consumers : Manifest[v][c] \subseteq STRING
ASSUME KindAssumption == Kind \in [Consumers -> Kinds]

\* The capability keys a vendor is polled for.
VENDOR_MANIFESTS ==
    [arista |-> {"version", "bgp", "ospf", "lldp", "mlag", "routes", "interfaces",
                 "transceivers", "proc", "environment"},
     juniper |-> {"bgp", "ospf", "lldp", "version", "environment", "optics",
                  "interfaces", "proc"}]

\* A reply is a JSON value: one that is a map is a map and nothing else.
IsReply(v) == IsDict(v) => v = Dict([k \in DOMAIN v.dict |-> v.dict[k]])
ASSUME RepliesAssumption ==
    \A v \in DOMAIN Odd :
        /\ Len(Odd[v]) \in Nat
        /\ \A key \in (UNION {Manifest[v][c] : c \in Consumers}) \cap VENDOR_MANIFESTS[v] :
               /\ IsReply(Usual[v][key])
               /\ \A n \in 1..Len(Odd[v]) : \A reply \in Odd[v][n][key] : IsReply(reply)

Wants(c) == Manifest[vendor][c]
Attached == {consumers[i] : i \in DOMAIN consumers}
Union == UNION {Wants(c) : c \in Attached}

Init ==
    /\ vendor \in DOMAIN Odd
    /\ authed = FALSE
    /\ consumers = <<>>
    /\ polls = 0
    /\ batch = Nothing
    /\ serving = 0
    /\ sink = [c \in Consumers |-> 0]
    /\ feed = Nothing

\* A consumer that asks for a key the vendor does not read is refused.
Attach(c) ==
    /\ serving = 0
    /\ c \notin Attached
    /\ Wants(c) \subseteq VENDOR_MANIFESTS[vendor]
    /\ consumers' = Append(consumers, c)
    /\ UNCHANGED <<vendor, authed, polls, batch, serving, sink, feed>>

Detach(c) ==
    /\ serving = 0
    /\ \E i \in DOMAIN consumers :
           /\ consumers[i] = c
           /\ consumers' = SubSeq(consumers, 1, i - 1) \o SubSeq(consumers, i + 1, Len(consumers))
    /\ sink' = [sink EXCEPT ![c] = 0]
    /\ UNCHANGED <<vendor, authed, polls, batch, serving, feed>>

\* authenticate once, ever; an empty union reads nothing.
PollsNothing ==
    /\ serving = 0 /\ Union = {}
    /\ authed' = TRUE
    /\ UNCHANGED <<vendor, consumers, polls, batch, serving, sink, feed>>

PollBegins ==
    /\ serving = 0 /\ Union # {}
    /\ polls < Len(Odd[vendor])
    /\ authed' = TRUE
    /\ polls' = polls + 1
    /\ \E key \in Union : \E reply \in {Usual[vendor][key]} \cup Odd[vendor][polls + 1][key] :
           batch' = [[k \in Union |-> Usual[vendor][k]] EXCEPT ![key] = reply]
    /\ serving' = 1
    /\ UNCHANGED <<vendor, consumers, sink, feed>>

Current == consumers[serving]
Slice(c) == [key \in Wants(c) |-> batch[key]]

\* A feed that keeps what was read of a reading that is not present.
FeedOfEverything(readings) == readings

\* The cockpit's feed: the digest of every reading, its payload when present.
EntryOf(r) == [state |-> r.state, frames |-> r.frames,
               payload |-> IF r.state = "PRESENT" THEN r.payload ELSE Null]
FeedOf(readings) == [key \in DOMAIN readings |-> EntryOf(readings[key])]

\* What deliver() raises on: the cockpit's when a discriminator raises, the
\* ai's always, for the module of the discriminators is not a name there.
DeliverRaises(c) ==
    CASE Kind[c] = "widget" -> FALSE
      [] Kind[c] = "ai" -> Wants(c) # {}
      [] Kind[c] = "cockpit" ->
             \E key \in Wants(c) : determine(vendor, key, batch[key]).state = "RAISED"

Delivers ==
    /\ serving # 0
    /\ ~DeliverRaises(Current)
    /\ sink' = [sink EXCEPT ![Current] = polls]
    /\ feed' = IF Kind[Current] = "cockpit" THEN FeedOf(determine_all(vendor, Slice(Current)))
               ELSE feed
    /\ serving' = IF serving = Len(consumers) THEN 0 ELSE serving + 1
    /\ UNCHANGED <<vendor, authed, consumers, polls, batch>>

\* A poll that goes on to the next consumer after an exception.
DeliveryFailsAlone ==
    /\ serving # 0
    /\ DeliverRaises(Current)
    /\ serving' = IF serving = Len(consumers) THEN 0 ELSE serving + 1
    /\ UNCHANGED <<vendor, authed, consumers, polls, batch, sink, feed>>

\* The exception leaves poll(): nobody later in the list is served.
DeliveryFails ==
    /\ serving # 0
    /\ DeliverRaises(Current)
    /\ serving' = 0
    /\ UNCHANGED <<vendor, authed, consumers, polls, batch, sink, feed>>

Next ==
    \/ \E c \in Consumers : Attach(c) \/ Detach(c)
    \/ PollsNothing
    \/ PollBegins
    \/ Delivers
    \/ DeliveryFails

Spec == Init /\ [][Next]_vars

-----------------------------------------------------------------------------
\* What the properties compare the readings with, by other means than the
\* discriminators': the reply as it is, and damaged replies.

\* The keys of which the feed holds a reading of the last batch.
Fresh == IF \E c \in Attached : Kind[c] = "cockpit" /\ sink[c] = polls
         THEN DOMAIN feed \cap DOMAIN batch ELSE {}

IsFailed(v) == ~IsDict(v) \/ Has(v, "_error")

\* The reads without which a composite reply is no reading.
CompositeOf(v, subs) == \E sub \in subs : Has(v, sub)
Anchors(key, v) ==
    CASE vendor = "arista" /\ key = "environment" -> {"power", "temperature", "cooling"}
      [] vendor # "arista" /\ key = "version" -> {"software"}
      [] /\ vendor # "arista" /\ key = "environment"
         /\ CompositeOf(v, {"environment", "fan", "power", "thresholds"}) -> {"environment"}
      [] /\ vendor # "arista" /\ key = "interfaces"
         /\ CompositeOf(v, {"terse", "descriptions"}) -> {"terse"}
      [] OTHER -> {}
AnchorFailed(key, v) == IsFailed(v) \/ \E sub \in Anchors(key, v) : IsFailed(Get(v, sub))

\* A map that is there and empty, on the way to the neighbors or the peers.
VrfMaps(v) == {Get(v, "vrfs")} \cup {Get(Get(Get(v, "vrfs"), "default"), k) : k \in {"instList", "peers"}}
SaysNone(v) ==
    \/ Str("inactive") \in Range(Items(Get(v, "errors")))
    \/ \E k \in {"rpc-error", "xnm:error", "error"} : Truthy(Get(v, k))
    \/ \E w \in VrfMaps(v) : IsDict(w) /\ ~Truthy(w)
    \/ \E k \in {"state", "mlagState"} : Text(Get(v, k)) = "disabled"

\* What a record says of itself.
Says(r, k, w) == Text(Get(r, k)) = w
Lanes(m) == Items(Get(m, "lanes"))
RecordsOf(payload) ==
    LET elems == Elems(payload) IN {elems[k] : k \in DOMAIN elems}
Troubled(key, payload) ==
    CASE key = "environment" ->
             \E g \in RecordsOf(payload) : \E r \in RecordsOf(g) : Get(r, "fault") = Bool(TRUE)
      [] key = "optics" ->
             \E m \in RecordsOf(Get(payload, "modules")) :
                 \E r \in {m} \cup Range(Lanes(m)) : Get(r, "fault") = Bool(TRUE)
      [] key = "bgp" -> \E r \in RecordsOf(payload) : ~Says(r, "peerState", "established")
      [] key = "ospf" -> \E r \in RecordsOf(payload) : ~Says(r, "adjacencyState", "full")
      [] key = "interfaces" ->
             \E r \in RecordsOf(payload) :
                 \/ Says(r, "linkStatus", "errdisabled")
                 \/ Says(r, "linkStatus", "connected") /\ Says(r, "lineProtocolStatus", "down")
      [] OTHER -> FALSE

\* A reading with a frame that is well.
Green(r) == \E i \in DOMAIN r.frames : r.frames[i].status = "OK"

\* A composite reply of which the reads in `subs` failed.
Losing(v, subs) ==
    Dict([k \in DOMAIN v.dict |-> IF k \in subs THEN Dict(Field("_error", Str("lost"))) ELSE v.dict[k]])
Enrichments(key) ==
    IF vendor # "juniper" THEN {}
    ELSE CASE key = "environment" -> {"fan", "power", "thresholds"}
           [] key = "version" -> {"hardware", "re"}
           [] key = "interfaces" -> {"descriptions"}
           [] OTHER -> {}

\* The objects inside a reply: one of them is what _extract_json returns for a
\* reply whose outer object was cut off.
MaxDepth == 7
Inner(v) ==
    LET level[n \in 0..MaxDepth] ==
            IF n = 0 THEN RecordsOf(v) ELSE UNION {RecordsOf(w) : w \in level[n - 1]}
    IN {w \in UNION {level[n] : n \in 0..MaxDepth} : IsDict(w)}
SingleReads == {"bgp", "ospf", "mlag", "lldp", "interfaces", "version", "routes",
                "transceivers", "proc"}

\* The keys of an answer on which its discriminator decides, none of which an
\* object inside the answer has.
Openings(key) ==
    CASE key \in {"bgp", "ospf"} -> {"vrfs", "errors"}
      [] key = "mlag" -> {"state", "mlagState", "errors"}
      [] key = "lldp" -> {"lldpNeighbors", "errors"}
      [] key = "interfaces" -> {"interfaceStatuses"}
      [] key = "version" -> {"modelName", "version", "internalVersion", "memTotal"}
      [] key = "routes" -> {"vrfs"}
      [] key = "transceivers" -> {"xcvrSlots"}
      [] key = "proc" -> {"cpuInfo"}
OpensApart(key, reply) == \A w \in Inner(reply) : Openings(key) \cap DOMAIN w.dict = {}

\* The parts that EOS's environment walks are lists.
Listed(parts) == Len(parts) \in Nat /\ DOMAIN parts = 1..Len(parts)
Walked(v) ==
    LET power == Get(v, "power")
        cooling == Get(v, "cooling")
    IN /\ Listed(A!Dicts(A!ChassisSensors(Get(v, "temperature"))))
       /\ Listed(A!Psus(power)) /\ Listed(A!Trays(cooling)) /\ Listed(A!TrayParts(cooling))
       /\ Listed(A!SupplyParts(power, "fans")) /\ Listed(A!SupplyParts(power, "tempSensors"))

(***************************************************************************)
(* Properties.                                                             *)
(***************************************************************************)

\* Each part of the session's state is of its kind.
TypeOK ==
    /\ authed \in BOOLEAN
    /\ polls \in Nat
    /\ consumers \in Seq(Consumers)
    /\ serving \in 0..Len(consumers)
    /\ sink \in [Consumers -> 0..polls]

\* The law (law.py:118, reading.py:8-19): a read that failed, or whose anchor
\* did, is UNREAD whatever else was read, and absence is never concluded
\* without something in the reply that says so.
VerdictIsEvidenced ==
    \A key \in Fresh :
        /\ AnchorFailed(key, batch[key]) => feed[key].state = "UNREAD"
        /\ feed[key].state = "ABSENT" =>
               SaysNone(batch[key]) /\ key \in Protocols \cup {"mlag"}

\* No green over red: the frame is counted by one walk over the reply and the
\* records the widget colours are translated by another; a frame that is OK
\* never stands over a record that says it is in trouble.
GreenHidesNoFault ==
    \A key \in Fresh : Green(feed[key]) => ~Troubled(key, feed[key].payload)

\* Only a PRESENT reading has frames or a payload, and a present payload meets
\* the contract of its capability whichever vendor's translator made it, and
\* whatever a tolerated read of it left out.
PresentConforms ==
    \A key \in DOMAIN feed :
        /\ feed[key].state \in States
        /\ IF feed[key].state = "PRESENT" THEN conforms(key, feed[key].payload)
           ELSE feed[key].frames = <<>> /\ feed[key].payload = Null

\* Junos composites: losing any of the enriching reads changes neither the
\* verdict nor the frame (juniper.py: enrichment adds fields, never state).
EnrichmentNeverDecides ==
    \A key \in Fresh : \A subs \in SUBSET Enrichments(key) :
        IsDict(batch[key]) =>
            LET r == determine(vendor, key, Losing(batch[key], subs))
            IN r.state = feed[key].state /\ r.frames = feed[key].frames

\* What _extract_json makes of a reply that was cut off is never taken for an
\* answer: no object inside a single read's reply is judged but UNREAD.
TruncationIsNeverJudged ==
    vendor = "arista" =>
        \A key \in DOMAIN batch \cap SingleReads : \A w \in Inner(batch[key]) :
            determine(vendor, key, w).state = "UNREAD"

\* Whatever polls raise in between, and whoever comes and goes: a consumer
\* never has an older slice than one that attached after it, so a consumer's
\* exception never reaches those before it (Broker.poll).
ServedInOrder ==
    \A i, j \in DOMAIN consumers : i < j => sink[consumers[i]] >= sink[consumers[j]]
==============================================================================
