------------------------------ MODULE Juniper -------------------------------
(* uf/core/vendors/juniper.py: the same law over Junos evidence.  A feature   *)
(* is absent only when an rpc-error says so; the composites rest on one       *)
(* anchor read, and the other reads may add fields but decide nothing.        *)
EXTENDS Law

ReadGate(v, reading) == IF IsDict(v) /\ ~Has(v, "_error") THEN reading ELSE ReadFailed(v)

\* An rpc-error: absence when its message holds a token of the capability.
ErrorVerdict(v, tokens) ==
    LET err == OrElse(Get(v, "rpc-error"), OrElse(Get(v, "xnm:error"), Get(v, "error")))
        inner == First(err)
        message == IF IsDict(inner) THEN JVal(Get(inner, "message")) ELSE JVal(err)
    IN IF IsNull(err) THEN "none" ELSE IF message \in tokens THEN "no" ELSE "unproven"

Screened(v, tokens, reading) ==
    ReadGate(v, IF ErrorVerdict(v, tokens) = "none" THEN reading
                ELSE Judged(ErrorVerdict(v, tokens), v))
OrUnproven(shown, v, reading) == IF shown THEN reading ELSE Judged("unproven", v)

Container(v, name) == First(Get(v, name))
Firsts(s) == SelectSeq([i \in DOMAIN s |-> First(s[i])], IsDict)
Named(s) == SelectSeq(Firsts(s), LAMBDA item : JVal(Get(item, "name")) # "")
Text2(k, node) == IF JVal(node) = "" THEN <<>> ELSE Field(k, Str(JVal(node)))

-----------------------------------------------------------------------------
\* Flat capabilities: translate to the contract, frame over the translation.

NotRunning == {"not running", "not configured"}
NoOspf == NotRunning \cup {"instance is not"}
NoLldp == NotRunning \cup {"not enabled"}

JunosBgpPeer(p) ==
    LET rib == Container(p, "bgp-rib")
    IN Dict(With([peerAddress |-> Str(JVal(Get(p, "peer-address"))),
                  peerState |-> Str(JVal(Get(p, "peer-state")))],
            With(Text2("description", Get(p, "description")),
                 Optional("prefixReceived", JNum(Get(rib, "received-prefix-count"))))))

\* The role Junos does not report, from the addresses it does.
DrState(n) ==
    LET addr == JVal(Get(n, "neighbor-address"))
        dr == JVal(Get(n, "dr-address"))
        bdr == JVal(Get(n, "bdr-address"))
    IN IF addr = "" \/ (dr = "" /\ bdr = "") THEN <<>>
       ELSE Field("drState", Str(IF addr = dr THEN "dr" ELSE IF addr = bdr THEN "bdr"
                                 ELSE "drother"))
JunosOspfNeighbor(n) ==
    Dict(With([routerId |-> Str(JVal(Get(n, "neighbor-id"))),
               adjacencyState |-> Str(JVal(Get(n, "ospf-neighbor-state"))),
               interfaceName |-> Str(JVal(Get(n, "interface-name")))],
         With(Text2("neighborAddress", Get(n, "neighbor-address")),
         With(Text2("drAddress", Get(n, "dr-address")),
         With(Text2("bdrAddress", Get(n, "bdr-address")),
         With(Text2("area", Get(n, "ospf-area")),
         With(Optional("upTime", JAttr(Get(n, "neighbor-up-time"), "seconds")),
         With(Text2("upTime", Get(n, "neighbor-up-time")),
         With(Optional("priority", JNum(Get(n, "neighbor-priority"))), DrState(n))))))))))

JunosLldpNeighbor(n) ==
    LET either(a, b) == IF JVal(Get(n, a)) # "" THEN JVal(Get(n, a)) ELSE JVal(Get(n, b))
        rport == JVal(Get(n, "lldp-remote-port-id"))
        rdesc == JVal(Get(n, "lldp-remote-port-description"))
    IN Dict(With([port |-> Str(either("lldp-local-interface", "lldp-local-port-id")),
                  neighborDevice |-> Str(JVal(Get(n, "lldp-remote-system-name"))),
                  neighborPort |-> Str(IF rport # "" THEN rport ELSE rdesc)],
                 IF rport # "" /\ rdesc \notin {"", rport}
                 THEN Field("neighborPortDesc", Str(rdesc)) ELSE <<>>))

ToContract(key, rows) ==
    LET ds == Dicts(rows)
        record(row) == CASE key = "bgp" -> JunosBgpPeer(row)
                         [] key = "ospf" -> JunosOspfNeighbor(row)
                         [] key = "lldp" -> JunosLldpNeighbor(row)
    IN List([i \in DOMAIN ds |-> record(ds[i])])

juniper_bgp(v) ==
    LET peers == JList(Get(Container(v, "bgp-information"), "bgp-peer"))
        records == ToContract("bgp", peers)
        down(r) == Text(Get(r, "peerState")) # "established"
    IN Screened(v, NotRunning,
           OrUnproven(peers # <<>>, v, Framed(records, Frame(Count(records, down), 0))))

juniper_ospf(v) ==
    LET neighbors == JList(Get(Container(v, "ospf-neighbor-information"), "ospf-neighbor"))
        records == ToContract("ospf", neighbors)
        down(r) == Text(Get(r, "adjacencyState")) # "full"
    IN Screened(v, NoOspf,
           OrUnproven(neighbors # <<>>, v, Framed(records, Frame(Count(records, down), 0))))

juniper_lldp(v) ==
    LET neighbors == JList(Get(Container(v, "lldp-neighbors-information"),
                               "lldp-neighbor-information"))
    IN Screened(v, NoLldp,
           OrUnproven(neighbors # <<>>, v,
                      Judged("yes", ToContract("lldp", neighbors))))

-----------------------------------------------------------------------------
\* Composites: an anchor and subs that degrade.

SubFailed(v, sub) == ~IsDict(Get(v, sub)) \/ Has(Get(v, sub), "_error")

\* The first engine that says master, or the first.
Master(engines) ==
    LET masters == SelectSeq(engines,
                             LAMBDA e : JVal(Get(e, "mastership-state")) = "master")
    IN Head(masters \o engines)

SoftwareInfo(sub) ==
    LET direct == Container(sub, "software-information")
        item == Container(Container(sub, "multi-routing-engine-results"),
                          "multi-routing-engine-item")
    IN IF IsDict(direct) THEN direct ELSE Container(item, "software-information")

\* Serial, and the chassis description in place of a missing model.
HardwareFields(sub) ==
    LET chassis == Container(Container(sub, "chassis-inventory"), "chassis")
    IN With(Text2("serialNumber", Get(chassis, "serial-number")),
            Text2("modelName", Get(chassis, "description")))

\* Uptime and memory of the master; memory in kilobytes from megabytes.
EngineFields(sub) ==
    LET engines == Dicts(JList(Get(Container(sub, "route-engine-information"), "route-engine")))
        re == Master(engines)
        dram == JNumLead(Get(re, "memory-dram-size"))
        used == JNum(Get(re, "memory-buffer-utilization"))
        up == JAttr(Get(re, "up-time"), "seconds")
        total == dram.num * 1024
    IN IF engines = <<>> THEN <<>>
       ELSE With(IF IsNull(up) THEN Text2("uptimeText", Get(re, "up-time")) ELSE Field("uptime", up),
            With(IF IsNull(dram) THEN <<>> ELSE Field("memTotal", Num(total)),
            With(IF IsNull(dram) \/ IsNull(used) THEN <<>>
                 ELSE With(Field("memFree", Num((total * (100 - used.num)) \div 100)),
                           Field("memUsedPct", used)),
            With(Text2("reMastership", Get(re, "mastership-state")),
                 Field("reCount", Num(Len(engines)))))))

juniper_version(v) ==
    LET info == SoftwareInfo(Get(v, "software"))
        identity == With(Text2("modelName", Get(info, "product-model")),
                         Text2("version", Get(info, "junos-version")))
        payload == With(identity, With(Text2("hostName", Get(info, "host-name")),
                   With(IF SubFailed(v, "hardware") THEN <<>> ELSE HardwareFields(Get(v, "hardware")),
                        IF SubFailed(v, "re") THEN <<>> ELSE EngineFields(Get(v, "re")))))
        \* the memory percentage of the reason divides by memTotal
        divides == {"memTotal", "memFree"} \subseteq DOMAIN payload
    IN ReadGate(v,
           IF SubFailed(v, "software") THEN ReadFailed(v)
           ELSE IF DOMAIN identity = {} THEN Judged("unproven", v)
           ELSE IF divides /\ payload["memTotal"] = Num(0) THEN Raised
           ELSE Judged("yes", Dict(payload)))

-----------------------------------------------------------------------------
\* Environment: `show chassis environment` certifies, three reads enrich.

EnvFault == {"failed", "check"}
EnvVacant == {"absent"}
FanNames == {"fan 0", "fan 1"}
PowerNames == {"pem 0", "pem 1"}

\* The class word sticks until the next; before any, the item is guessed at.
StickyClass(items, i) ==
    LET told == {j \in 1..i : JVal(Get(items[j], "class")) # ""}
    IN IF told = {} THEN "" ELSE JVal(Get(items[CHOOSE j \in told : \A k \in told : k <= j], "class"))
EnvGroup(cls, name, hasTemp) ==
    IF cls = "temp" THEN "sensors"
    ELSE IF cls \in {"fans", "power"} THEN cls
    ELSE IF hasTemp THEN "sensors"
    ELSE IF name \in FanNames THEN "fans"
    ELSE IF name \in PowerNames THEN "power"
    ELSE "other"
EnvRecord(item) ==
    LET status == JVal(Get(item, "status"))
    IN Dict(With([name |-> Str(JVal(Get(item, "name"))), status |-> Str(status),
                  fault |-> Bool(status \in EnvFault)],
            With(IF status \in EnvVacant THEN Field("vacant", Bool(TRUE)) ELSE <<>>,
                 Optional("tempC", JAttr(Get(item, "temperature"), "celsius")))))
EnvToGroups(raw) ==
    LET items == Named(raw)
        temp(i) == ~IsNull(JAttr(Get(items[i], "temperature"), "celsius"))
        group(i) == EnvGroup(StickyClass(items, i), JVal(Get(items[i], "name")), temp(i))
        of(g) == LET is == SelectSeq([i \in DOMAIN items |-> i], LAMBDA i : group(i) = g)
                 IN List([k \in DOMAIN is |-> EnvRecord(items[is[k]])])
    IN With([sensors |-> of("sensors"), fans |-> of("fans"), power |-> of("power")],
            IF of("other") = List(<<>>) THEN <<>> ELSE Field("other", of("other")))

Flagged(r) == Get(r, "fault") = Bool(TRUE)
EnvFramed(groups) ==
    LET faults(g) == Count(Get(Dict(groups), g), Flagged)
    IN Framed(Dict(groups),
              Frame(faults("sensors") + faults("fans") + faults("power") + faults("other"), 0))
EnvAnchor(v) ==
    LET items == JList(Get(Container(v, "environment-information"), "environment-item"))
    IN Screened(v, {}, OrUnproven(items # <<>>, v, EnvFramed(EnvToGroups(items))))

FanFields(item) == Optional("speedPct", JPct(Get(item, "rpm-percent")))
ThresholdFields(item) ==
    With(Optional("warnC", JNum(Get(item, "yellow-alarm"))),
         Optional("critC", JNum(Get(item, "red-alarm"))))
PowerFields(item) ==
    LET dc == Container(item, "dc-output-detail")
    IN With(Optional("watts", JNum(Get(dc, "dc-power"))),
       With(Optional("ampsOut", JFloat(Get(dc, "str3-dc-current"))),
       With(Optional("volts", JFloat(Get(dc, "str3-dc-voltage"))),
            Optional("capacityW",
                     JNum(Get(Container(item, "pem-capacity-detail"), "capacity-actual"))))))

EnrichingFields(sub, item) ==
    CASE sub = "fan" -> FanFields(item)
      [] sub = "thresholds" -> ThresholdFields(item)
      [] sub = "power" -> PowerFields(item)

\* What items of one name tell: of a field, what the last to have it says.
ToldFields(items, sub) ==
    LET fields(i) == EnrichingFields(sub, items[i])
        tell(f) == {i \in DOMAIN items : f \in DOMAIN fields(i)}
    IN [f \in UNION {DOMAIN fields(i) : i \in DOMAIN items} |->
           fields(CHOOSE i \in tell(f) : \A j \in tell(f) : j <= i)[f]]

\* Items joined by name; of two records of one name the last is enriched.
Joined(records, items, sub) ==
    LET name(r) == JVal(Get(r, "name"))
        bound(i) == \A j \in DOMAIN records : j > i => name(records[j]) # name(records[i])
        told(i) == SelectSeq(items, LAMBDA item : name(item) = name(records[i]))
    IN [i \in DOMAIN records |->
           IF bound(i) THEN Dict(With(ToldFields(told(i), sub), records[i].dict))
           ELSE records[i]]

\* The items of an enrichment; none when its read failed.
Enrichment(v, sub, container, element) ==
    IF SubFailed(v, sub) THEN <<>>
    ELSE Firsts(JList(Get(Container(Get(v, sub), container), element)))
Enriched(groups, v) ==
    [groups EXCEPT
        !["fans"] = List(Joined(@.list, Enrichment(v, "fan", "fan-information",
                        "fan-information-percent-rpm-item"), "fan")),
        !["sensors"] = List(Joined(@.list, Enrichment(v, "thresholds",
                        "temperature-threshold-information", "temperature-threshold"),
                        "thresholds")),
        !["power"] = List(Joined(@.list, Enrichment(v, "power", "power-usage-information",
                        "power-usage-item"), "power"))]

EnvReads == {"environment", "fan", "power", "thresholds"}
EnvComposed(anchor, v) ==
    IF anchor.state # "PRESENT" THEN anchor
    ELSE Reading(anchor.state, Dict(Enriched(anchor.payload.dict, v)), anchor.frames)

\* Every read of the composite needed, as on EOS.
JuniperEnvironmentStrict(v) ==
    ReadGate(v, IF \A sub \in EnvReads : ~Has(v, sub) THEN EnvAnchor(v)
                ELSE IF \E sub \in EnvReads : SubFailed(v, sub) THEN ReadFailed(v)
                ELSE EnvComposed(EnvAnchor(Get(v, "environment")), v))

juniper_environment(v) ==
    ReadGate(v, IF \A sub \in EnvReads : ~Has(v, sub) THEN EnvAnchor(v)
                ELSE IF SubFailed(v, "environment") THEN ReadFailed(v)
                ELSE EnvComposed(EnvAnchor(Get(v, "environment")), v))

-----------------------------------------------------------------------------
\* Optics: the box's own flags, never values against thresholds.

ModAlarms == {"module-temperature-high-alarm", "module-temperature-low-alarm",
              "module-voltage-high-alarm", "module-voltage-low-alarm"}
ModWarns == {"module-temperature-high-warn", "module-temperature-low-warn",
             "module-voltage-high-warn", "module-voltage-low-warn"}
RxAlarms == {"laser-rx-power-high-alarm", "laser-rx-power-low-alarm"}
BiasAlarms == {"laser-bias-current-high-alarm", "laser-bias-current-low-alarm"}
RxWarns == {"laser-rx-power-high-warn", "laser-rx-power-low-warn"}
BiasWarns == {"laser-bias-current-high-warn", "laser-bias-current-low-warn"}
LaneAlarms == RxAlarms \cup BiasAlarms \cup
    {"tx-loss-of-signal-functionality-alarm", "rx-loss-of-signal-alarm", "tx-laser-disabled-alarm"}
LaneWarns == RxWarns \cup BiasWarns

\* A flag that is neither on nor off is not counted.
On(item, flags) == \E f \in flags : JVal(Get(item, f)) = "on"

OpticsLane(lv) ==
    Dict([rxAlarm |-> Bool(On(lv, RxAlarms)), biasAlarm |-> Bool(On(lv, BiasAlarms)),
          rxWarn |-> Bool(On(lv, RxWarns)), biasWarn |-> Bool(On(lv, BiasWarns)),
          fault |-> Bool(On(lv, LaneAlarms)), warn |-> Bool(On(lv, LaneWarns))])
OpticsModule(pif) ==
    LET diag == Container(pif, "optics-diagnostics")
        lanes == Firsts(JList(Get(diag, "optics-diagnostics-lane-values")))
        tripped(mod, lane) == \/ On(diag, mod)
                              \/ \E i \in DOMAIN lanes : On(lanes[i], lane)
        fault == tripped(ModAlarms, LaneAlarms)
    IN Dict(With([name |-> Str(JVal(Get(pif, "name"))), dom |-> Bool(IsDict(diag)),
                  fault |-> Bool(fault),
                  warn |-> Bool(tripped(ModWarns, LaneWarns) /\ ~fault)],
                 IF lanes = <<>> THEN <<>>
                 ELSE Field("lanes", List([i \in DOMAIN lanes |-> OpticsLane(lanes[i])]))))

juniper_optics(v) ==
    LET entries == JList(Get(Container(v, "interface-information"), "physical-interface"))
        pifs == Named(entries)
        modules == List([i \in DOMAIN pifs |-> OpticsModule(pifs[i])])
    IN Screened(v, {},
           IF \E i \in DOMAIN entries : ~IsDict(First(entries[i])) THEN Raised  \* .get of it
           ELSE OrUnproven(pifs # <<>>, v,
                    Framed(Dict([modules |-> modules]), Frame(Count(modules, Flagged), 0))))

-----------------------------------------------------------------------------
\* Interfaces: terse enumerates, descriptions name, and nothing is faulted.

Internal == {"vtep", "lsi"}
TerseRecord(pif) ==
    LET units == Len(JList(Get(pif, "logical-interface")))
        status == IF JVal(Get(pif, "admin-status")) = "down" THEN Field("linkStatus", Str("disabled"))
                  ELSE IF JVal(Get(pif, "oper-status")) = "up"
                  THEN [linkStatus |-> Str("connected"), lineProtocolStatus |-> Str("up")]
                  ELSE [linkStatus |-> Str("notconnect"), lineProtocolStatus |-> Str("down")]
    IN Dict(With(status, IF units = 0 THEN <<>> ELSE Field("units", Num(units))))

Pifs(sub) == Named(JList(Get(Container(sub, "interface-information"), "physical-interface")))
PifName(pif) == JVal(Get(pif, "name"))
External(pifs) == {PifName(pifs[i]) : i \in DOMAIN pifs} \ Internal
LastOf(pifs, n) == pifs[CHOOSE i \in DOMAIN pifs :
                           /\ PifName(pifs[i]) = n
                           /\ \A j \in DOMAIN pifs : j > i => PifName(pifs[j]) # n]

TerseRecords(sub) == [n \in External(Pifs(sub)) |-> TerseRecord(LastOf(Pifs(sub), n))]

\* A described port that terse did not list is a ghost, not a reading.
Described(records, sub) ==
    LET pifs == SelectSeq(Pifs(sub), LAMBDA p : JVal(Get(p, "description")) # "")
        description(n) == Text2("description", Get(LastOf(pifs, n), "description"))
    IN [n \in DOMAIN records \cup External(pifs) |->
           IF n \notin External(pifs) THEN records[n]
           ELSE Dict(With(description(n), IF n \in DOMAIN records THEN records[n].dict
                                          ELSE Field("linkStatus", Str("notpresent"))))]

InterfacesOf(v) ==
    LET records == TerseRecords(Get(v, "terse"))
        payload == IF SubFailed(v, "descriptions") THEN records
                   ELSE Described(records, Get(v, "descriptions"))
    IN IF SubFailed(v, "terse") THEN ReadFailed(v)
       ELSE IF ErrorVerdict(Get(v, "terse"), {}) # "none" \/ DOMAIN records = {}
       THEN Judged("unproven", v)
       ELSE Framed(Dict(payload), Frame(0, 0))

\* A value with neither sub is the terse read itself.
juniper_interfaces(v) ==
    ReadGate(v, IF Has(v, "terse") \/ Has(v, "descriptions") THEN InterfacesOf(v)
                ELSE InterfacesOf(Dict([terse |-> v])))

-----------------------------------------------------------------------------
\* Compute: the master engine's idle, now.

Engine(re) ==
    With([mastership |-> Str(JVal(Get(re, "mastership-state"))),
          status |-> Str(JVal(Get(re, "status")))],
    With(Optional("idlePct", JNum(Get(re, "cpu-idle"))),
    With(Optional("userPct", JNum(Get(re, "cpu-user"))),
    With(Optional("loadAvg1", JFloat(Get(re, "load-average-one"))),
    With(Optional("tempC", JAttr(Get(re, "temperature"), "celsius")),
         Optional("upSeconds", JAttr(Get(re, "up-time"), "seconds")))))))

juniper_proc(v) ==
    LET res == Firsts(JList(Get(Container(v, "route-engine-information"), "route-engine")))
        engines == List([i \in DOMAIN res |-> Dict(Engine(res[i]))])
        idle == JNum(Get(Master(res), "cpu-idle"))
    IN Screened(v, {},
           IF res = <<>> THEN Judged("unproven", v)
           ELSE IF IsNull(idle) THEN Judged("unproven", Dict(Field("engines", engines)))
           ELSE Framed(Dict([cpuInfo |-> Dict(Field("%Cpu(s)", Dict(Field("idle", idle)))),
                             processes |-> NoKeys, engines |-> engines]),
                       CpuFrame(100 - idle.num)))
==============================================================================
