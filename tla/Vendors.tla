------------------------------ MODULE Vendors -------------------------------
(* uf/core/reading.py and contract.py: the registry that makes one total      *)
(* operation of the vendors' discriminators, and the floor that the payload   *)
(* of a PRESENT reading has to meet whichever vendor produced it.             *)
EXTENDS Law
A == INSTANCE Arista
J == INSTANCE Juniper

Protocols == {"bgp", "ospf", "lldp"}
capabilities(vendor) ==
    Protocols \cup {"version", "interfaces", "environment", "proc"}
        \cup IF vendor = "arista" THEN {"mlag", "routes", "transceivers"} ELSE {"optics"}

EOS(key, v) ==
    CASE key = "ospf" -> A!arista_ospf(v)
      [] key = "bgp" -> A!arista_bgp(v)
      [] key = "mlag" -> A!arista_mlag(v)
      [] key = "lldp" -> A!arista_lldp(v)
      [] key = "interfaces" -> A!arista_interfaces(v)
      [] key = "version" -> A!arista_version(v)
      [] key = "environment" -> A!arista_environment(v)
      [] key = "routes" -> A!arista_routes(v)
      [] key = "transceivers" -> A!arista_transceivers(v)
      [] key = "proc" -> A!arista_proc(v)
Junos(key, v) ==
    CASE key = "ospf" -> J!juniper_ospf(v)
      [] key = "bgp" -> J!juniper_bgp(v)
      [] key = "lldp" -> J!juniper_lldp(v)
      [] key = "interfaces" -> J!juniper_interfaces(v)
      [] key = "version" -> J!juniper_version(v)
      [] key = "environment" -> J!juniper_environment(v)
      [] key = "optics" -> J!juniper_optics(v)
      [] key = "proc" -> J!juniper_proc(v)

\* A key without a discriminator is the tool's gap: unread, never green.
determine(vendor, key, v) ==
    IF key \notin capabilities(vendor) THEN Reading("UNREAD", v, <<>>)
    ELSE IF vendor = "arista" THEN EOS(key, v) ELSE Junos(key, v)

determine_all(vendor, results) ==
    [key \in DOMAIN results |-> determine(vendor, key, results[key])]

-----------------------------------------------------------------------------
\* The contracts: fields that every record of a list, or of every group, has.

Required ==
    [bgp |-> {"peerAddress", "peerState"},
     ospf |-> {"routerId", "adjacencyState", "interfaceName"},
     lldp |-> {"port", "neighborDevice", "neighborPort"},
     environment |-> {"name", "status", "fault"}]
Groups == {"sensors", "fans", "power"}

Records(recs, fields) ==
    /\ IsList(recs)
    /\ \A i \in DOMAIN recs.list : \A f \in fields : Has(recs.list[i], f)
conforms(cap, payload) ==
    CASE cap \notin DOMAIN Required -> TRUE
      [] cap = "environment" ->
             \A g \in Groups : Records(Get(payload, g), Required[cap])
      [] OTHER -> Records(payload, Required[cap])
==============================================================================
