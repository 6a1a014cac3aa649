------------------------------- MODULE Replies ------------------------------
(* The replies that the runs of Broker range over, by vendor and capability:  *)
(* what the boxes were seen to print (the fixtures of the discriminators'     *)
(* self-tests), cut down to the parts that a discriminator looks at, with     *)
(* every part well, in trouble, odd, or missing.                              *)
EXTENDS Vendors

Failed == Dict(Field("_error", Str("read timed out")))
Envelope(word) == Dict([errors |-> List(<<Str(word)>>)])
Envelopes == {Envelope("inactive"), Envelope("unconverted")}

One(k, v) == Dict(Field(k, v))
SeqsUpTo(S, n) == UNION {[1..k -> S] : k \in 0..n}
ListsOf(S, n) == {List(s) : s \in SeqsUpTo(S, n)}
Pairs(S, T) == {With(a, b) : a \in S, b \in T}
Maybe(k, S) == {<<>>} \cup {Field(k, v) : v \in S}
Words(S) == {Str(w) : w \in S}

-----------------------------------------------------------------------------
\* Arista: `| json`.

DefaultVrf(S) == {One("vrfs", One("default", d)) : d \in S}
OddVrfs == {NoKeys, One("vrfs", NoKeys), One("vrfs", List(<<>>)), One("vrfs", Null)}

FullNeighbor ==
    Dict([routerId |-> Str("r1"), adjacencyState |-> Str("full"), interfaceName |-> Str("et1"),
          interfaceAddress |-> Str("a1"), details |-> One("areaId", Str("0"))])
OspfNeighbor == {
    FullNeighbor,
    Dict([routerId |-> Str("r2"), adjacencyState |-> Str("2way"), interfaceName |-> Str("et2"),
          drState |-> Str("dr")])}
AristaOspf ==
    OddVrfs \cup DefaultVrf({NoKeys, One("instList", NoKeys), Str("n/a")})
    \cup DefaultVrf({One("instList", One("1", One("ospfNeighborEntries", l))) :
                         l \in ListsOf(OspfNeighbor, 2)})

BgpPeer == {Dict([peerState |-> Str("established"), prefixReceived |-> Num(5)]),
            Dict([peerState |-> Str("active")])}
AristaBgp ==
    OddVrfs \cup DefaultVrf({NoKeys})
    \cup DefaultVrf({Dict([routerId |-> Str(id), asn |-> Str("0"), peers |-> Dict(p)]) :
             id \in {"0.0.0.0", "r1"},
             p \in {<<>>} \cup [{"p1"} -> BgpPeer] \cup [{"p1", "p2"} -> BgpPeer]})

AristaMlag ==
    {NoKeys} \cup {Dict(f) : f \in Pairs(
        {Field("state", w) : w \in Words({"active", "disabled", "inactive", "inactive/reload"})},
        Pairs(Maybe("mlagPorts", {One("Inactive", Num(2))}),
        Pairs(Maybe("negStatus", Words({"connecting"})),
              Maybe("peerLinkStatus", Words({"up", "down"})))))}

LldpNeighbor == Dict([port |-> Str("et1"), neighborDevice |-> Str("spine1"),
                      neighborPort |-> Str("et9")])
AristaLldp == {NoKeys, One("lldpNeighbors", Null)}
                  \cup {One("lldpNeighbors", l) : l \in ListsOf({LldpNeighbor}, 2)}

Port(link, proto) == Dict([linkStatus |-> Str(link), lineProtocolStatus |-> Str(proto),
                           vlanInformation |-> One("vlanId", Num(1))])
AristaPorts == {Port("connected", "up"), Port("connected", "down"), Port("errdisabled", "down"),
                Port("notconnect", "down"), Port("disabled", "down")}
AristaInterfaces ==
    {NoKeys, One("interfaceStatuses", NoKeys)}
    \cup {One("interfaceStatuses", Dict(p)) : p \in [{"et1", "et2"} -> AristaPorts]}

AristaVersion ==
    {NoKeys} \cup {Dict(f) : f \in Pairs(Maybe("modelName", Words({"dcs"})),
                             Pairs(Maybe("version", Words({"4.27"})),
                                   Maybe("memTotal", {Num(0), Num(8)})))}
AristaRoutes == OddVrfs \cup DefaultVrf({NoKeys, One("totalRoutes", Num(0)),
                                         One("totalRoutes", Num(9))})
AristaTransceivers ==
    {NoKeys} \cup {One("xcvrSlots", s) : s \in
        {NoKeys, One("1", One("mfgName", Str("arista"))), One("1", One("mfgName", Str("not present")))}}
AristaProc ==
    {NoKeys} \cup {Dict([cpuInfo |-> c, processes |-> NoKeys]) : c \in
        {NoKeys, One("idle", Num(92))} \cup {One("%Cpu(s)", One("idle", Num(n))) : n \in {0, 15, 30, 92}}}

Part(w) == Dict([name |-> Str("part"), status |-> Str(w)])
PowerSubs ==
    {Failed, Envelope("unconverted"), NoKeys}
    \cup {One("powerSupplies", One("1", Dict(With(Field("state", Str(w)), x)))) :
              w \in {"ok", "powerloss"},
              x \in Maybe("fans", {One("f1", Part("ok")), One("f1", Part("failed"))})}
Sensor(w, alert) == Dict([name |-> Str("s1"), hwStatus |-> Str(w), inAlertState |-> Bool(alert),
                          currentTemperature |-> Num(40), criticalThreshold |-> Num(95)])
Hot == Dict([name |-> Str("s2"), currentTemperature |-> Num(95), criticalThreshold |-> Num(95)])
TemperatureSubs ==
    {Failed, Envelope("unconverted"), NoKeys, One("powerSupplySlots", List(<<Str("x")>>))}
    \cup {Dict([systemStatus |-> Str(w), tempSensors |-> List(<<s>>)]) :
              w \in {"temperatureok", "temperaturecritical"},
              s \in {Sensor("ok", FALSE), Sensor("ok", TRUE), Sensor("failed", FALSE), Hot}}
    \cup {Dict([systemStatus |-> Str("temperatureok"),
                powerSupplySlots |-> List(<<One("tempSensors", List(<<Hot>>))>>)])}
CoolingSubs ==
    {Failed, NoKeys}
    \cup {Dict([systemStatus |-> Str(w), fanTraySlots |-> List(<<t>>)]) :
              w \in {"coolingok", "coolingbad"},
              t \in {Part("ok"), Part("failed"),
                     Dict([status |-> Str("failed"), fans |-> List(<<Part("ok")>>)]),
                     Dict([status |-> Str("ok"), fans |-> List(<<Part("ok"), Part("failed")>>)])}}
Well == [power |-> One("powerSupplies", One("1", One("state", Str("ok")))),
         temperature |-> Dict([systemStatus |-> Str("temperatureok"),
                               tempSensors |-> List(<<Sensor("ok", FALSE)>>)]),
         cooling |-> Dict([systemStatus |-> Str("coolingok"),
                           fanTraySlots |-> List(<<Part("ok")>>)])]
OneOdd(sub, S) == {Dict([Well EXCEPT ![sub] = s]) : s \in S}
AristaEnvironment ==
    OneOdd("power", PowerSubs) \cup OneOdd("temperature", TemperatureSubs)
        \cup OneOdd("cooling", CoolingSubs)
        \cup {Dict([power |-> p, temperature |-> t, cooling |-> Well.cooling]) :
                  p \in PowerSubs, t \in {Failed, NoKeys}}
        \cup {Failed, NoKeys}

AristaReplies ==
    [ospf |-> AristaOspf \cup Envelopes \cup {Failed}, bgp |-> AristaBgp \cup Envelopes \cup {Failed},
     mlag |-> AristaMlag \cup Envelopes \cup {Failed}, lldp |-> AristaLldp \cup Envelopes \cup {Failed},
     interfaces |-> AristaInterfaces \cup {Failed}, version |-> AristaVersion \cup {Failed},
     routes |-> AristaRoutes \cup {Failed}, transceivers |-> AristaTransceivers \cup {Failed},
     proc |-> AristaProc \cup {Failed}, environment |-> AristaEnvironment]

AristaUsual ==
    [ospf |-> One("vrfs", One("default", One("instList",
                  One("1", One("ospfNeighborEntries", List(<<FullNeighbor>>)))))),
     bgp |-> One("vrfs", One("default", Dict([routerId |-> Str("r1"), asn |-> Str("65001"),
                  peers |-> One("p1", Dict([peerState |-> Str("established")]))]))),
     mlag |-> Dict([state |-> Str("active"), negStatus |-> Str("connected")]),
     lldp |-> One("lldpNeighbors", List(<<LldpNeighbor>>)),
     interfaces |-> One("interfaceStatuses", One("et1", Port("connected", "up"))),
     version |-> Dict([modelName |-> Str("dcs"), version |-> Str("4.27")]),
     routes |-> One("vrfs", One("default", One("totalRoutes", Num(9)))),
     transceivers |-> One("xcvrSlots", One("1", One("mfgName", Str("arista")))),
     proc |-> Dict([cpuInfo |-> One("%Cpu(s)", One("idle", Num(92))), processes |-> NoKeys]),
     environment |-> Dict(Well)]

-----------------------------------------------------------------------------
\* Junos: `| display xml`, every leaf wrapped, every container in a list.

Wrap(v) == List(<<One("data", v)>>)
Word(w) == Wrap(Str(w))
Tagged(attr, n) == List(<<Dict([data |-> Str("text"), attributes |-> One(attr, Num(n))])>>)
Box(k, f) == One(k, List(<<Dict(f)>>))
Rpc(word) == Box("rpc-error", [message |-> Word(word)])
RpcErrors == {Rpc(w) : w \in {"not running", "not enabled", "instance is not", "syntax error"}}

Reply(container, element, lists) ==
    {NoKeys, Box(container, <<>>)} \cup {Box(container, Field(element, l)) : l \in lists}

JuniperBgp ==
    Reply("bgp-information", "bgp-peer", ListsOf(
        {Dict([x \in {"peer-address", "peer-state", "bgp-rib"} |->
                   CASE x = "peer-address" -> Word("p1") [] x = "peer-state" -> Word(w)
                     [] OTHER -> List(<<One("received-prefix-count", Wrap(Num(7)))>>)]) :
             w \in {"established", "active"}}, 2))
JuniperOspf ==
    Reply("ospf-neighbor-information", "ospf-neighbor", ListsOf(
        {Dict([x \in {"neighbor-id", "ospf-neighbor-state", "interface-name", "neighbor-address",
                      "dr-address", "bdr-address"} |->
                   CASE x = "ospf-neighbor-state" -> Word(w) [] x = "neighbor-address" -> Word("a1")
                     [] x = "dr-address" -> Word(dr) [] x = "bdr-address" -> Word("a2")
                     [] OTHER -> Word("i1")]) :
             w \in {"full", "init"}, dr \in {"a1", "a3"}}, 1))
JuniperLldp ==
    Reply("lldp-neighbors-information", "lldp-neighbor-information", ListsOf(
        {Dict(With(Field("lldp-remote-system-name", Word("spine1")), f)) : f \in Pairs(
             {Field("lldp-local-interface", Word("xe0")), Field("lldp-local-port-id", Word("xe0"))},
             Maybe("lldp-remote-port-id", {Word("et1")}))}, 1))

RoutingEngine(role, idle, dram) ==
    Dict(With(Field("mastership-state", Word(role)),
         With(idle, With(dram, [x \in {"memory-buffer-utilization", "up-time", "status"} |->
             CASE x = "up-time" -> Tagged("seconds", 60) [] x = "status" -> Word("ok")
               [] OTHER -> Wrap(Num(50))]))))
Engines ==
    {<<>>} \cup
    {<<RoutingEngine(role, idle, dram)>> :
         role \in {"master", "backup"}, idle \in Maybe("cpu-idle", {Wrap(Num(n)) : n \in {10, 25, 90}}),
         dram \in Maybe("memory-dram-size", {Wrap([sized |-> 2])})}
    \cup {<<RoutingEngine("backup", Field("cpu-idle", Wrap(Num(90))), <<>>),
            RoutingEngine("master", Field("cpu-idle", Wrap(Num(10))), <<>>)>>}
EngineReplies == {NoKeys} \cup {Box("route-engine-information", Field("route-engine", List(s))) :
                                    s \in Engines}
MasterReply == Box("route-engine-information", Field("route-engine", List(<<
    RoutingEngine("master", Field("cpu-idle", Wrap(Num(90))), <<>>)>>)))
JuniperProc == EngineReplies \cup RpcErrors

Software == [x \in {"product-model", "junos-version", "host-name"} |->
                 IF x = "product-model" THEN Word("mx204") ELSE Word("21.4")]
SoftwareSubs ==
    {Failed, NoKeys, Box("software-information", Software),
     Box("software-information", Field("host-name", Word("edge"))),
     Box("multi-routing-engine-results", Field("multi-routing-engine-item",
         List(<<Box("software-information", Software)>>)))}
HardwareSubs ==
    {Failed, NoKeys, Box("chassis-inventory", Field("chassis", List(<<
         Dict([x \in {"serial-number", "description"} |-> Word("chassis")])>>)))}
JuniperVersion ==
    {Dict([software |-> s, hardware |-> h, re |-> r]) :
         s \in SoftwareSubs, h \in HardwareSubs, r \in {MasterReply, NoKeys, Failed}}
    \cup {Dict([software |-> Box("software-information", Software), hardware |-> NoKeys,
                re |-> r]) : r \in EngineReplies}

EnvItem(name, word, class, temp) ==
    Dict(With(class, With(temp, [name |-> Word(name), status |-> Word(word)])))
EnvItems ==
    {<<>>} \cup {<<EnvItem("pem 0", w, c, <<>>), EnvItem("fan 0", x, d, <<>>),
                   EnvItem("cpu", "ok", <<>>, t)>> :
        w \in {"ok", "failed", "absent"}, x \in {"ok", "check"},
        c \in Maybe("class", {Word("power")}), d \in Maybe("class", {Word("fans")}),
        t \in Maybe("temperature", {Tagged("celsius", 42)})}
EnvAnchors == {Failed, NoKeys} \cup {Box("environment-information", Field("environment-item", List(s))) :
                                         s \in EnvItems}
EnvFan == Box("fan-information", Field("fan-information-percent-rpm-item", List(<<
    Dict(With([name |-> Word("fan 0")], Field("rpm-percent", Wrap([percent |-> 40]))))>>)))
EnvPower == Box("power-usage-information", Field("power-usage-item", List(<<
    Dict(With([name |-> Word("pem 0")], Field("dc-output-detail",
        List(<<Dict([x \in {"dc-power", "str3-dc-current"} |->
                   IF x = "dc-power" THEN Wrap(Num(300)) ELSE Wrap([decimal |-> 6])])>>))))>>)))
EnvThresholds == Box("temperature-threshold-information", Field("temperature-threshold", List(<<
    Dict([x \in {"name", "yellow-alarm", "red-alarm"} |->
              CASE x = "name" -> Word("cpu") [] x = "red-alarm" -> Wrap(Num(100))
                [] OTHER -> Wrap(Num(80))])>>)))
JuniperEnvironment ==
    {Dict([environment |-> e, fan |-> EnvFan, power |-> EnvPower, thresholds |-> EnvThresholds]) :
         e \in EnvAnchors \cup RpcErrors}
    \cup {Dict([environment |-> Box("environment-information", Field("environment-item", List(
                    <<EnvItem("pem 0", "failed", <<>>, <<>>), EnvItem("cpu", "ok", <<>>,
                          Field("temperature", Tagged("celsius", 42)))>>))),
                fan |-> f, power |-> p, thresholds |-> t]) :
              f \in {Failed, NoKeys, EnvFan}, p \in {Failed, NoKeys, EnvPower},
              t \in {Failed, Rpc("syntax error"), EnvThresholds}}

LaneOf(flag, w) == Dict(Field(flag, Word(w)))
Module(diag) == Dict(With([name |-> Word("xe0")], diag))
OpticsModules ==
    {Module(<<>>)} \cup {Module(Field("optics-diagnostics", List(<<Dict(With(m, l))>>))) :
        m \in Maybe("module-temperature-high-alarm", {Word("on"), Word("off")})
                  \cup {Field("module-voltage-low-warn", Word("on"))},
        l \in Maybe("optics-diagnostics-lane-values", {List(<<LaneOf(flag, w)>>) :
                  flag \in {"laser-rx-power-low-alarm", "rx-loss-of-signal-alarm",
                            "laser-bias-current-high-warn"}, w \in {"on", "n/a"}})}
JuniperOptics == Reply("interface-information", "physical-interface", ListsOf(OpticsModules, 1))
                     \cup {Rpc("syntax error")}

TersePif(name, admin, oper, units) ==
    Dict([x \in {"name", "admin-status", "oper-status", "logical-interface"} |->
              CASE x = "name" -> Word(name) [] x = "admin-status" -> Word(admin)
                [] x = "oper-status" -> Word(oper) [] OTHER -> List([i \in 1..units |-> NoKeys])])
TerseSubs ==
    {Failed, NoKeys, Rpc("syntax error")}
    \cup {Box("interface-information", Field("physical-interface", List(s))) : s \in
        {<<>>, <<TersePif("lsi", "up", "up", 0)>>}
        \cup {<<TersePif("xe0", a, o, 1), TersePif("xe1", "up", "up", 0)>> :
                  a \in {"up", "down"}, o \in {"up", "down"}}}
DescriptionSubs ==
    {Failed, NoKeys}
    \cup {Box("interface-information", Field("physical-interface", List(<<
              Dict([name |-> Word(n), description |-> Word("uplink")])>>))) :
              n \in {"xe0", "ghost", "lsi"}}
JuniperInterfaces ==
    {Dict([terse |-> t, descriptions |-> d]) : t \in TerseSubs, d \in DescriptionSubs}
    \cup TerseSubs

JuniperReplies ==
    [bgp |-> JuniperBgp \cup RpcErrors \cup {Failed}, ospf |-> JuniperOspf \cup RpcErrors \cup {Failed},
     lldp |-> JuniperLldp \cup RpcErrors \cup {Failed}, version |-> JuniperVersion,
     environment |-> JuniperEnvironment, optics |-> JuniperOptics \cup {Failed},
     interfaces |-> JuniperInterfaces, proc |-> JuniperProc \cup {Failed}]

BgpReply == Box("bgp-information", Field("bgp-peer", List(<<
    Dict([x \in {"peer-address", "peer-state"} |->
              IF x = "peer-address" THEN Word("p1") ELSE Word("established")])>>)))
OspfReply == Box("ospf-neighbor-information", Field("ospf-neighbor", List(<<
    Dict([x \in {"neighbor-id", "ospf-neighbor-state", "interface-name"} |->
              IF x = "ospf-neighbor-state" THEN Word("full") ELSE Word("i1")])>>)))
LldpReply == Box("lldp-neighbors-information", Field("lldp-neighbor-information", List(<<
    Dict([x \in {"lldp-remote-system-name", "lldp-local-interface", "lldp-remote-port-id"} |->
              Word("spine1")])>>)))
OpticsReply == Box("interface-information", Field("physical-interface", List(<<
    Module(Field("optics-diagnostics", List(<<Dict(
        Field("module-temperature-high-alarm", Word("off")))>>)))>>)))
TerseReply == Box("interface-information", Field("physical-interface", List(<<
    TersePif("xe0", "up", "up", 1)>>)))
ItemReply == Box("environment-information", Field("environment-item", List(<<
    EnvItem("fan 0", "ok", <<>>, <<>>)>>)))

JuniperUsual ==
    [bgp |-> BgpReply, ospf |-> OspfReply, lldp |-> LldpReply,
     version |-> Dict([software |-> Box("software-information", Software), hardware |-> NoKeys,
                       re |-> MasterReply]),
     environment |-> Dict([environment |-> ItemReply, fan |-> EnvFan, power |-> EnvPower,
                           thresholds |-> EnvThresholds]),
     optics |-> OpticsReply, interfaces |-> TerseReply, proc |-> MasterReply]
==============================================================================
