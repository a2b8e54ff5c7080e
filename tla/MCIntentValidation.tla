------------------------- MODULE MCIntentValidation -------------------------
(***************************************************************************)
(* Three devices in a triangle of links, in racks of two pods, and the     *)
(* declarations made over it, one kind of declaration at a time.           *)
(* Collections are declared out of order.                                  *)
(***************************************************************************)
EXTENDS IntentValidation, TLC

Device(n) == <<"device", n>>
P(n) == <<"port", n>>
L(n) == <<"link", n>>
Pod(n) == <<"pod", n>>
Rack(n) == <<"rack", n>>
Tenant(n) == <<"tenant", n>>
Class(n) == <<"class", n>>
Site == <<"site", 1>>
Fabric == <<"fabric", 1>>
Router == <<"model", 1>>

-----------------------------------------------------------------------------
(* The topology.                                                           *)

ADevice(n, pod, rack, admin) ==
    [id |-> Device(n), site |-> Site, pod |-> pod, rack |-> rack, model |-> Router,
     role |-> "leaf", admin |-> admin, slots |-> 2, classes |-> {}]
APort(n, device, index, admin) ==
    [id |-> P(n), device |-> Device(device), index |-> index, role |-> "fabric",
     admin |-> admin, speed |-> 4, classes |-> {}]
ALink(n, a, b, admin) ==
    [id |-> L(n), a |-> P(a), b |-> P(b), kind |-> "fabric", capacity |-> 4,
     admin |-> admin, classes |-> {}]
AModel(provides) ==
    [id |-> Router, provides |-> provides, slots |-> 2, speed |-> 4, roles |-> {"leaf"}]

Topology(rack3, admin3, port5, link2, link3) ==
    [domain |-> <<"domain", 1>>, minor |-> 1, requires |-> {}, optional |-> {}, flaws |-> 0,
     fabrics |-> <<[id |-> Fabric]>>,
     sites |-> <<[id |-> Site, fabric |-> Fabric]>>,
     pods |-> <<[id |-> Pod(2), site |-> Site], [id |-> Pod(1), site |-> Site]>>,
     racks |-> <<[id |-> Rack(3), pod |-> Pod(2)], [id |-> Rack(1), pod |-> Pod(1)],
                 [id |-> Rack(2), pod |-> Pod(1)]>>,
     devices |-> <<ADevice(3, Pod(2), rack3, admin3),
                   ADevice(1, Pod(1), Rack(1), "enabled"),
                   ADevice(2, Pod(1), Rack(2), "enabled")>>,
     ports |-> <<APort(6, 3, 1, "enabled"), APort(1, 1, 0, "enabled"), APort(2, 1, 1, "enabled"),
                 APort(3, 2, 0, "enabled"), APort(4, 2, 1, "enabled"), APort(5, 3, 0, port5)>>,
     links |-> <<ALink(3, 6, 2, link3), ALink(1, 1, 3, "enabled"), ALink(2, 4, 5, link2)>>,
     models |-> <<AModel({"bfd"})>>,
     classes |-> <<[id |-> Class(1), share |-> 600, needs |-> {"bfd"}]>>,
     tenants |-> <<[id |-> Tenant(2)], [id |-> Tenant(1)]>>,
     policies |-> <<>>, workloads |-> <<>>, intents |-> <<>>]

Whole1 == Topology(Rack(3), "enabled", "enabled", "enabled", "enabled")

(* One or two things differ from the whole topology.                       *)
Topologies ==
    {Topology(rack3, "enabled", "enabled", link2, link3) :
        rack3 \in {Rack(3), Rack(2), NoId},
        link2 \in {"enabled", "disabled"}, link3 \in {"enabled", "disabled"}}
    \cup {Topology(Rack(3), admin3, "enabled", "enabled", link3) :
        admin3 \in {"draining", "disabled"}, link3 \in {"enabled", "disabled"}}
    \cup {Topology(Rack(3), "enabled", "disabled", link2, "enabled") :
        link2 \in {"enabled", "disabled"}}

-----------------------------------------------------------------------------
(* Declarations.                                                           *)

Policy(n) == <<"policy", n>>
Admin(n, scope, state, first) ==
    [id |-> Policy(n), kind |-> "admin", scope |-> scope, state |-> state, drainFirst |-> first]
Reserve(n, scope, bps) ==
    [id |-> Policy(n), kind |-> "capacity", scope |-> scope, classes |-> {}, reserved |-> bps]
Redundancy(n, scope, level, paths) ==
    [id |-> Policy(n), kind |-> "redundancy", scope |-> scope, level |-> level,
     paths |-> paths, classes |-> {}]
Routing(n, priority, tenants, action, path) ==
    [id |-> Policy(n), kind |-> "routing", priority |-> priority, classes |-> {},
     tenants |-> tenants, source |-> NoId, destination |-> NoId, action |-> action,
     path |-> path, extends |-> NoId]
Maintenance(n, scope) ==
    [id |-> Policy(n), kind |-> "maintenance", scope |-> scope, drain |-> TRUE]
Isolation(n, tenant, scopes) ==
    [id |-> Policy(n), kind |-> "isolation", tenant |-> tenant, scopes |-> scopes]
Workload(placement, replicas, level, domains) ==
    [id |-> <<"workload", 1>>, tenant |-> Tenant(1), class |-> Class(1), placement |-> placement,
     replicas |-> replicas, level |-> level, domains |-> domains, sites |-> {}]
Intent(n, subject, property, desired, mode) ==
    [id |-> <<"intent", n>>, subject |-> subject, property |-> property, desired |-> desired,
     mode |-> mode, tenant |-> NoId]

PolicySets ==
    {<<>>}
    \cup {<<Admin(2, scope, state, TRUE), Admin(1, Pod(1), "enabled", FALSE)>> :
             scope \in {Site, Pod(2), Rack(2), Device(3), L(2)}, state \in {"enabled", "draining"}}
    \cup {<<Reserve(2, scope, m), Reserve(1, scope, n)>> :
             scope \in {L(3), Device(3), Pod(1)}, m \in {0, 5}, n \in {3, 5}}
    \cup {<<Redundancy(1, scope, level, paths)>> :
             scope \in {Site, Pod(2)}, level \in {"device", "rack", "pod", "link"}, paths \in {1, 2}}
    \cup {<<Routing(2, 1, {Tenant(1)}, "explicit", path), Routing(1, 1, tenants, "shortest", <<>>)>> :
             path \in {<<Device(1), Device(3)>>, <<Device(1), Device(2), Device(3)>>,
                       <<Device(1), L(1), Device(3)>>},
             tenants \in {{}, {Tenant(2)}}}
    \cup {<<Maintenance(2, scope), Admin(1, Pod(1), "enabled", first)>> :
             scope \in {Rack(2), Device(3)}, first \in BOOLEAN}
    \cup {<<Isolation(2, Tenant(1), {Pod(1)}), Isolation(1, Tenant(2), scopes)>> :
             scopes \in {{}, {Pod(1)}, {Pod(2)}}}

IntentSets ==
    {<<Intent(2, Device(3), "admin_state", state, mode), Intent(1, Device(3), "admin_state", "enabled", "enforce")>> :
        state \in {"enabled", "draining", "text"}, mode \in {"enforce", "reserved"}}
    \cup {<<Intent(1, Pod(1), property, "text", "enforce")>> :
             property \in {"none", "upgrade_group", "isolation_id"}}

Workloads ==
    {<<Workload(placement, replicas, level, domains)>> :
        placement \in {{Device(1), Device(2)}, {Device(1), Device(3)}, {Device(3)}, {NoId}},
        replicas \in {1, 2}, level \in {"rack", "pod"}, domains \in {1, 2}}

(* Documents that other layers refuse: the whole topology with one or more *)
(* declarations changed or added.                                          *)
W == Whole1
With(c, x) == [W EXCEPT ![c] = <<x>> \o @]
Odd ==
    {[W EXCEPT !.requires = r, !.optional = o] :
        r \in SUBSET {<<"feature", 1>>, <<"feature", 2>>, <<"feature", 3>>},
        o \in {{}, {<<"feature", 1>>, <<"feature", 4>>}}}
    \cup {[W EXCEPT !.flaws = 1, !.classes[1].share = 1001], [W EXCEPT !.flaws = 5]}
    \* references
    \cup {With("policies", Admin(1, scope, "enabled", TRUE)) : scope \in {NoId, Pod(3), <<"intent", 9>>}}
    \cup {[W EXCEPT !.racks[1].pod = <<"pod", 7>>], [W EXCEPT !.ports[1].device = NoId],
          With("intents", Intent(1, <<"intent", 1>>, "none", "text", "enforce"))}
    \cup {[W EXCEPT !.policies = <<[Routing(1, 1, {}, "drop", <<>>) EXCEPT !.extends = e],
                                   [Routing(2, 2, {}, "drop", <<>>) EXCEPT !.extends = Policy(1)],
                                   Maintenance(3, Site)>>] :
             e \in {Policy(1), Policy(2), Policy(3), Pod(1)}}
    \* an identity declared twice, differently
    \cup {With("devices", ADevice(1, Pod(2), Rack(3), "enabled")), With("links", ALink(2, 5, 4, "disabled")),
          With("models", AModel({})), With("models", AModel({"bfd"})),
          [W EXCEPT !.tenants = <<[id |-> NoId], [id |-> Tenant(1)], [id |-> NoId]>>],
          [W EXCEPT !.policies = <<Admin(2, Site, "enabled", FALSE), Maintenance(1, Site)>>],
          [W EXCEPT !.policies = <<Maintenance(1, Site), [Maintenance(2, Site) EXCEPT !.id = NoId]>>],
          [W EXCEPT !.policies = <<Maintenance(1, Site), Maintenance(1, Site),
                                   [Reserve(2, L(3), 3) EXCEPT !.id = NoId]>>],
          [W EXCEPT !.policies = <<Maintenance(1, Site), Admin(1, Site, "draining", FALSE)>>],
          [W EXCEPT !.policies = <<Admin(1, Site, "enabled", FALSE), Admin(1, Site, "draining", FALSE)>>]}
    \* capabilities
    \cup {[W EXCEPT !.classes[1].needs = {"mpls"}, !.devices[1].classes = {Class(1)},
                    !.ports[2].classes = {Class(1)}],
          [W EXCEPT !.devices[2].model = NoId, !.ports[2].speed = 5],
          [W EXCEPT !.models[1].roles = {}, !.devices[1].role = "spine", !.devices[1].slots = 3],
          [W EXCEPT !.devices[1].role = "spine", !.models[1].speed = 3],
          With("policies", Reserve(1, Rack(9), 1))}
    \* topology
    \cup {[W EXCEPT !.ports[1].index = i] : i \in {0, 2}}
    \cup {[W EXCEPT !.links[1].a = a, !.links[1].kind = kind, !.ports[3].role = role] :
             a \in {P(1), P(2), P(6)}, kind \in {"fabric", "host"}, role \in {"fabric", "access"}}
    \cup {[W EXCEPT !.ports[2].speed = 3, !.links[2].capacity = 0],
          With("policies", Routing(1, 1, {}, "explicit", <<Device(1), Device(2), Device(3), Device(1)>>)),
          With("policies", Routing(1, 1, {}, "pinned", <<>>))}
    \* a link that ends nowhere
    \cup {[W EXCEPT !.links[1].a = NoId, !.policies = <<Reserve(1, L(3), 3)>>]}
    \* more than one document declares
    \cup {[W EXCEPT !.tenants = [i \in 1 .. 20 |-> [id |-> Tenant(i)]]]}

MCDocuments ==
    {[t EXCEPT !.policies = p] : t \in Topologies, p \in PolicySets}
    \cup {[t EXCEPT !.intents = i] : t \in Topologies, i \in IntentSets}
    \cup {[t EXCEPT !.workloads = w] : t \in Topologies, w \in Workloads}
    \cup Odd

(* A device that drains, and an intent on a property nobody knows.         *)
MCHidden ==
    {[Topology(rack3, admin3, "enabled", link2, "enabled")
         EXCEPT !.intents = <<Intent(1, Pod(1), property, "text", "enforce")>>] :
        rack3 \in {Rack(3), NoId}, admin3 \in {"enabled", "draining", "maintenance"},
        link2 \in {"enabled", "disabled"}, property \in {"upgrade_group", "unheard_of"}}

MCParent ==
    Normalize([Whole1 EXCEPT !.policies = <<Reserve(1, L(3), 3), Routing(2, 1, {}, "drop", <<>>)>>,
                             !.workloads = <<Workload({Device(1)}, 1, "rack", 1)>>])

MCIntroduced == <<"feature", 1>> :> 1 @@ <<"feature", 2>> :> 2
=============================================================================
