------------------------------- MODULE Arista -------------------------------
(* uf/core/vendors/arista.py: one discriminator per capability.  EOS has no   *)
(* uniform way to say that a feature is not there, so each has its own        *)
(* evidence of absence, and most capabilities cannot be absent at all.        *)
EXTENDS Law

ReadOk(v) == IsDict(v) /\ ~Has(v, "_error")

\* The errors envelope: inactive, some other error, or none at all.
ErrorsVerdict(v) ==
    LET errors == Get(v, "errors")
    IN IF ~(IsList(errors) /\ Truthy(errors)) THEN "none"
       ELSE IF Str("inactive") \in Range(errors.list) THEN "no" ELSE "unproven"

Gated(v, reading) == IF ReadOk(v) THEN reading ELSE ReadFailed(v)
Screened(v, reading) ==
    Gated(v, IF ErrorsVerdict(v) = "none" THEN reading ELSE Judged(ErrorsVerdict(v), v))

EmptyMap(v) == IsDict(v) /\ ~Truthy(v)
FullMap(v) == IsDict(v) /\ Truthy(v)
Determined(isPresent, isAbsent, v, reading) ==
    IF isPresent THEN reading ELSE Judged(IF isAbsent THEN "no" ELSE "unproven", v)

-----------------------------------------------------------------------------
\* Protocols: an empty enumeration of contexts is evidence of absence.

\* Converged names for what EOS spells its own way; originals are kept.
OspfAliases(n) ==
    LET det == Get(n, "details")
    IN With(Optional("neighborAddress", OrElse(Get(n, "interfaceAddress"),
                                               OrElse(Get(det, "interfaceAddress"), Null))),
       With(Optional("drState", OrElse(Get(det, "drState"), Null)),
       With(Optional("area", IF Truthy(Get(n, "areaId")) THEN Get(n, "areaId")
                             ELSE Get(det, "areaId")),
            Optional("upTime", OrElse(Get(det, "stateTime"), Null)))))
EosOspfToContract(neighbors) ==
    LET ns == Dicts(neighbors)
    IN List([i \in DOMAIN ns |-> Dict(With(ns[i].dict, OspfAliases(ns[i])))])

OddEntries(insts) ==                                      \* extend() of a number
    /\ FullMap(insts)
    /\ \E pid \in DOMAIN insts.dict : ~Iterable(Get(insts.dict[pid], "ospfNeighborEntries"))

NotFull(r) == Text(Get(r, "adjacencyState")) # "full"

arista_ospf(v) ==
    LET vrfs == Get(v, "vrfs")
        default == Get(vrfs, "default")
        insts == Get(default, "instList")
        neighbors == FlattenSeq([i \in DOMAIN Keys(insts) |->
                         Items(Get(insts.dict[Keys(insts)[i]], "ospfNeighborEntries"))])
        records == EosOspfToContract(neighbors)
    IN Screened(v,
           IF (Has(vrfs, "default") /\ ~IsDict(default)) \/ OddEntries(insts) THEN Raised
           ELSE Determined(FullMap(insts), EmptyMap(vrfs) \/ EmptyMap(insts), v,
                           Framed(records, Frame(Count(records, NotFull), 0))))

\* The peers without the address they are keyed by.
EosBgpValues(peers) == List([i \in DOMAIN Keys(peers) |-> peers.dict[Keys(peers)[i]]])

EosBgpToContract(peers) ==
    List([i \in DOMAIN Keys(peers) |->
        LET addr == Keys(peers)[i]
        IN Dict(With(Field("peerAddress", Str(addr)), peers.dict[addr].dict))])

NotEstablished(r) == Text(Get(r, "peerState")) # "established"

\* Peers do not decide, the process does: routerId or asn in use.
ProcessPresent(default) ==
    \/ Printed(default, "routerId") \notin {"", "0.0.0.0"}
    \/ Printed(default, "asn") \notin {"", "0"}

\* A reply without the wrapper taken for the map of contexts itself.
AristaBgpUnwrapped(v) ==
    LET vrfs == OrElse(Get(v, "vrfs"), v)
        peers == Get(Get(vrfs, "default"), "peers")
    IN Screened(v, Determined(FullMap(peers), EmptyMap(vrfs) \/ EmptyMap(peers), v,
                              Framed(EosBgpToContract(peers),
                                     Frame(Count(EosBgpToContract(peers), NotEstablished), 0))))

arista_bgp(v) ==
    LET vrfs == Get(v, "vrfs")
        default == Get(vrfs, "default")
        peers == Get(default, "peers")
        present == FullMap(peers) \/ (EmptyMap(peers) /\ ProcessPresent(default))
        records == EosBgpToContract(peers)
    IN Screened(v,
           IF present /\ \E addr \in DOMAIN peers.dict : ~IsDict(peers.dict[addr])
           THEN Raised                                               \* {**p}
           ELSE Determined(present, EmptyMap(vrfs) \/ EmptyMap(peers), v,
                           Framed(records, Frame(Count(records, NotEstablished), 0))))

\* The first key that is there; spellings differ by version.
MlagGet(d, a, b) == IF Has(d, a) THEN Get(d, a) ELSE Get(d, b)
MlagWord(d, a, b) == IF Has(d, a) THEN Printed(d, a) ELSE Printed(d, b)
\* Words of the state field that contain "disabled", and "reload".
SaysDisabled == {"disabled", "disabled/reload"}
SaysReload == {"disabled/reload", "inactive/reload"}
Unwell(word, well) == word # "" /\ word \notin well

arista_mlag(v) ==
    LET word == MlagGet(v, "state", "mlagState")
        ports == Get(v, "mlagPorts")
        port(a, b) == LET n == MlagGet(ports, a, b) IN IF IsNum(n) THEN n.num ELSE 0
        issues == port("Inactive", "inactive") + port("Active-partial", "activePartial")
            + Bit(Unwell(MlagWord(v, "negStatus", "negotiationStatus"), {"connected"}))
            + Bit(Unwell(Printed(v, "peerLinkStatus"), {"up", "connected"}))
            + Bit(Unwell(MlagWord(v, "localIntfStatus", "localIntStatus"),
                         {"up", "connected"}))
        absent == IsStr(word) /\ word.str \in SaysDisabled \ SaysReload
    IN Screened(v, Determined(IsStr(word) /\ Truthy(word) /\ ~absent, absent, v,
                              Framed(v, Frame(issues, 0))))

\* LLDP read like a protocol: an empty list taken for absence.
AristaLldpByList(v) ==
    LET neighbors == Get(v, "lldpNeighbors")
    IN Screened(v, Determined(IsList(neighbors) /\ Truthy(neighbors), IsList(neighbors), v,
                              Judged("yes", neighbors)))

\* Neighbors prove the agent runs; their absence proves nothing.  No frame.
arista_lldp(v) ==
    LET neighbors == Get(v, "lldpNeighbors")
    IN Screened(v, Determined(IsList(neighbors) /\ Truthy(neighbors), FALSE, v,
                              Judged("yes", neighbors)))

-----------------------------------------------------------------------------
\* What every box has: these are present or unread, never absent.

\* Up at the link but not at the protocol, or an error state of the link.
IntfFaulted(i) ==
    LET link == Text(Get(i, "linkStatus"))
    IN /\ IsDict(i)
       /\ \/ (link = "connected" /\ Text(Get(i, "lineProtocolStatus")) = "down")
          \/ link = "errdisabled"
arista_interfaces(v) ==
    LET statuses == Get(v, "interfaceStatuses")
    IN Gated(v, Determined(FullMap(statuses), FALSE, v,
                           Framed(statuses, Frame(Count(statuses, IntfFaulted), 0))))

arista_version(v) ==
    Gated(v, Determined(\/ \E k \in {"modelName", "version", "internalVersion"} : Truthy(Get(v, k))
                        \/ Has(v, "memTotal"),
                        FALSE, v, Judged("yes", v)))

\* The same walk as the protocols, but a box always has a routing table.
arista_routes(v) ==
    LET default == Get(Get(v, "vrfs"), "default")
        total == Get(default, "totalRoutes")
    IN Gated(v, Determined(IsNum(total), FALSE, v,
                           Framed(default, Frame(Bit(total = Num(0)), 0))))

\* Empty cages are no fault, and a box without optics still answered.
arista_transceivers(v) ==
    LET slots == Get(v, "xcvrSlots")
    IN Gated(v, Determined(IsDict(slots), FALSE, v, Judged("yes", slots)))

CpuUsedPct(info) ==
    LET line == IF IsDict(Get(info, "%Cpu(s)")) THEN Get(info, "%Cpu(s)") ELSE info
        idle == Get(line, "idle")
    IN IF ~IsNum(idle) THEN Null
       ELSE Num(IF idle.num > 100 THEN 0 ELSE IF idle.num < 0 THEN 100 ELSE 100 - idle.num)
arista_proc(v) ==
    LET used == CpuUsedPct(Get(v, "cpuInfo"))
    IN Gated(v, Determined(IsNum(used), FALSE, v, Framed(v, CpuFrame(used.num))))

-----------------------------------------------------------------------------
\* Environment: three reads, all needed, one verdict.

EnvSubs == {"power", "temperature", "cooling"}
SubStructured(v) == ReadOk(v) /\ ErrorsVerdict(v) = "none"

\* A word other than ok or nothing; .get without a default prints None.
BadStatus(word, ok) == word # "" /\ word \notin ok
Bad(item, key) == BadStatus(Printed(item, key), {"ok"})
SystemBad(sub, ok) ==
    BadStatus(IF IsNull(Get(sub, "systemStatus")) THEN "none"
              ELSE Text(Get(sub, "systemStatus")), ok)

EosSensorFault(s) ==
    \/ Get(s, "inAlertState") = Bool(TRUE)
    \/ Bad(s, "hwStatus")
    \/ LET cur == Get(s, "currentTemperature")
           crit == Get(s, "criticalThreshold")
       IN IsNum(cur) /\ IsNum(crit) /\ cur.num >= crit.num

Slots(temp) == Items(Get(temp, "powerSupplySlots"))
ChassisSensors(temp) ==
    Items(Get(temp, "tempSensors"))
        \o FlattenSeq([i \in DOMAIN Slots(temp) |-> Items(Get(Slots(temp)[i], "tempSensors"))])
Trays(cooling) == Dicts(Items(Get(cooling, "fanTraySlots")))
TrayFans(tray) == Dicts(Items(Get(tray, "fans")))
Psus(power) == LET m == Get(power, "powerSupplies")
               IN SelectSeq([i \in DOMAIN Keys(m) |-> m.dict[Keys(m)[i]]], IsDict)
PsuParts(psu, part) == LET m == Get(psu, part)
                       IN SelectSeq([i \in DOMAIN Keys(m) |-> m.dict[Keys(m)[i]]], IsDict)

\* A container of another type than the walk over it takes.
WalkRaises(power, temp, cooling) ==
    LET slots == Get(temp, "powerSupplySlots")
    IN \/ Truthy(slots) /\ ~IsList(slots)
       \/ \E i \in DOMAIN Slots(temp) :
             ~IsDict(Slots(temp)[i]) \/ ~Iterable(Get(Slots(temp)[i], "tempSensors"))
       \/ ~Iterable(Get(temp, "tempSensors"))
       \/ ~Iterable(Get(cooling, "fanTraySlots"))
       \/ \E i \in DOMAIN Trays(cooling) : ~Iterable(Get(Trays(cooling)[i], "fans"))
       \/ ~Mapping(Get(power, "powerSupplies"))
       \/ \E i \in DOMAIN Psus(power), part \in {"fans", "tempSensors"} :
             ~Mapping(Get(Psus(power)[i], part))

\* A record: the box's word and the verdict; measurements are left out.
Row(item, word, fault) ==
    Dict([name |-> OrElse(Get(item, "name"), OrElse(Get(item, "label"), Str("part"))),
          status |-> Str(word), fault |-> Bool(fault)])
Rows(items, key) ==
    [i \in DOMAIN items |-> Row(items[i], Text(Get(items[i], key)), Bad(items[i], key))]
SensorRow(s) ==
    Row(s, IF Truthy(Get(s, "hwStatus")) THEN Text(Get(s, "hwStatus"))
           ELSE IF Truthy(Get(s, "inAlertState")) THEN "alert" ELSE "ok", EosSensorFault(s))

\* The parts of all the supplies, and those of the trays: a tray's fans, or the
\* tray itself when it has none.
SupplyParts(power, part) ==
    LET psus == Psus(power)
    IN FlattenSeq([i \in DOMAIN psus |-> PsuParts(psus[i], part)])
TrayParts(cooling) ==
    LET trays == Trays(cooling)
        fans(i) == TrayFans(trays[i])
    IN FlattenSeq([i \in DOMAIN trays |-> IF fans(i) = <<>> THEN <<trays[i]>> ELSE fans(i)])

\* Records of {name, status, fault}: a tray shows its own health only when it
\* has no fans, and a system-wide status word is no record at all.
EosEnvToGroups(power, temp, cooling) ==
    LET chassis == Dicts(ChassisSensors(temp))
        parts(part) == Rows(SupplyParts(power, part), "status")
    IN Dict([sensors |-> List([i \in DOMAIN chassis |-> SensorRow(chassis[i])]
                              \o parts("tempSensors")),
             fans |-> List(Rows(TrayParts(cooling), "status") \o parts("fans")),
             power |-> List(Rows(Psus(power), "state"))])

BadOnes(items, key) == Cardinality({i \in DOMAIN items : Bad(items[i], key)})

\* A count that does not descend into the power supplies.
EnvFaultsOutside(power, temp, cooling) ==
    LET hot == Dicts(ChassisSensors(temp))
    IN Bit(SystemBad(temp, {"temperatureok", "ok"}))
       + Cardinality({i \in DOMAIN hot : EosSensorFault(hot[i])})
       + BadOnes(Psus(power), "state")
       + Bit(SystemBad(cooling, {"coolingok", "ok"}))
       + BadOnes(Trays(cooling), "status")

\* Trays that are bad themselves are counted beside their fans.
BadTrays(cooling) ==
    LET trays == Trays(cooling)
    IN {i \in DOMAIN trays : TrayFans(trays[i]) # <<>> /\ Bad(trays[i], "status")}

EnvFaults(power, temp, cooling) ==
    LET hot == Dicts(ChassisSensors(temp))
    IN Bit(SystemBad(temp, {"temperatureok", "ok"}))
       + Cardinality({i \in DOMAIN hot : EosSensorFault(hot[i])})
       + BadOnes(Psus(power), "state")
       + BadOnes(SupplyParts(power, "fans"), "status")
       + BadOnes(SupplyParts(power, "tempSensors"), "status")
       + Bit(SystemBad(cooling, {"coolingok", "ok"}))
       + BadOnes(TrayParts(cooling), "status")
       + Cardinality(BadTrays(cooling))

arista_environment(v) ==
    LET power == Get(v, "power")
        temp == Get(v, "temperature")
        cooling == Get(v, "cooling")
    IN Gated(v,
           IF \E sub \in EnvSubs : ~SubStructured(Get(v, sub)) THEN Judged("unproven", v)
           ELSE IF WalkRaises(power, temp, cooling) THEN Raised
           ELSE Framed(EosEnvToGroups(power, temp, cooling),
                       Frame(EnvFaults(power, temp, cooling), 0)))
==============================================================================
