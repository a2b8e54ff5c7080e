-------------------------- MODULE IntentValidation --------------------------
(***************************************************************************)
(* Layered validation of one proposed document (src/validate.cpp) and the  *)
(* comparison with the head that validate_proposal makes afterwards        *)
(* (src/runtime.cpp).                                                      *)
(*                                                                         *)
(* Each layer is one step that adds what it finds to the report.  The      *)
(* report holds at most MaxDiagnostics entries: what comes later is        *)
(* dropped, and which of a layer's findings still fit depends on the order *)
(* in which it happens to look, so that choice is left open.  Two findings *)
(* of one kind about the same thing are one entry.                         *)
(***************************************************************************)
EXTENDS IntentConflicts

CONSTANTS
    Documents,       \* the documents proposed, in the order they declare
    Parent,          \* the document of the head, normalized
    MaxDiagnostics,  \* kMaxDiagnostics
    MaxObjects,      \* kMaxObjectsPerDocument
    MaxHops,         \* kMaxPathHops
    Introduced,      \* the feature registry: the minor that introduced each
    Vocabulary       \* known_capabilities()

ASSUME ValidationAssumption ==
    /\ {MaxDiagnostics, MaxObjects, MaxHops} \subseteq Nat
    /\ MaxDiagnostics > 0
    /\ \A d \in Documents : WellTyped(d)
    /\ WellTyped(Parent)
    /\ \A d \in Documents : Alike(Parent, d)

VARIABLES
    given,        \* the document as it was declared
    doc,          \* its normal form
    stage,        \* the layer that looks next
    diagnostics,  \* the report
    conflicts,    \* report.conflicts
    changes       \* the diff with the parent

vars == <<given, doc, stage, diagnostics, conflicts, changes>>

(* A finding is about an identity, and a field of it or a second identity. *)
Field(f) == <<f, 0>>
Finding(severity, layer, code, id, about) ==
    [severity |-> severity, layer |-> layer, code |-> code, on |-> <<id, about>>]

-----------------------------------------------------------------------------
(* Schema compatibility.                                                   *)

SchemaFindings(d) ==
    LET Error(code, f) == Finding("error", "schema", code, f, Field("requires"))
    IN {Error("FeatureNotAvailable", f) : f \in d.requires \ DOMAIN Introduced}
       \cup {Error("AmbiguousSemantics", f) :
                f \in {g \in d.requires \cap DOMAIN Introduced : Introduced[g] > d.minor}}
       \cup {Finding("info", "schema", "FeatureNotAvailable", f, Field("optional")) :
                f \in d.optional \ DOMAIN Introduced}
       \cup {Finding("error", "schema", "AmbiguousSemantics", f, Field("optional")) :
                f \in d.optional \cap d.requires \cap DOMAIN Introduced}

(* Syntax.  flaws counts the fields outside their range that no other      *)
(* layer looks at.                                                         *)
SyntaxFindings(d) ==
    LET Error(code, id, f) == Finding("error", "syntax", code, id, Field(f))
        Shares == FoldFunction(LAMBDA c, n : c.share + n, 0, d.classes)
    IN {Error("InvalidArgument", <<"flaw", i>>, "range") : i \in 1 .. d.flaws}
       \cup {Error("MissingField", p.id, "device") :
                p \in {q \in ToSet(d.ports) : q.device = NoId}}
       \cup {Error("MissingField", p.id, "speed") :
                p \in {q \in ToSet(d.ports) : q.speed = 0}}
       \cup {Error("MissingField", l.id, "capacity") :
                l \in {k \in ToSet(d.links) : k.capacity = 0}}
       \cup {Error("AmbiguousSemantics", p.id, "path") :
                p \in {q \in Policies(d, "routing") :
                          q.action \in {"explicit", "pinned"} /\ q.path = <<>>}}
       \cup {Error("InvalidArgument", p.id, "paths") :
                p \in {q \in Policies(d, "redundancy") : q.paths = 0}}
       \cup {Error("InvalidArgument", w.id, "replicas") :
                w \in {v \in ToSet(d.workloads) : v.replicas = 0}}
       \cup {Error("InvalidArgument", w.id, "domains") :
                w \in {v \in ToSet(d.workloads) : v.domains = 0}}
       \cup {Error("MissingField", i.id, "property") :
                i \in {j \in ToSet(d.intents) : j.property = "none"}}
       \cup (IF Shares > 1000
             THEN {Error("CapacityExceeded", Field("classes"), "share")} ELSE {})

-----------------------------------------------------------------------------
(* Referential integrity.  Scopes of policies are mandatory: an empty one  *)
(* does not parse.                                                         *)

Scoped == {"capacity", "admin", "redundancy", "maintenance"}

Refs(x, targets) == {<<x.id, t>> : t \in targets}

References(d) ==
    UNION ({Refs(x, {x.fabric}) : x \in ToSet(d.sites)}
      \cup {Refs(x, {x.site}) : x \in ToSet(d.pods)}
      \cup {Refs(x, {x.pod}) : x \in ToSet(d.racks)}
      \cup {Refs(x, {x.site, x.pod, x.rack} \cup x.classes) : x \in ToSet(d.devices)}
      \cup {Refs(x, {x.device} \cup x.classes) : x \in ToSet(d.ports)}
      \cup {Refs(x, Ends(x) \cup x.classes) : x \in ToSet(d.links)}
      \cup {Refs(x, {x.tenant, x.class} \cup x.placement \cup x.sites) : x \in ToSet(d.workloads)}
      \cup {Refs(x, {x.subject, x.tenant}) : x \in ToSet(d.intents)}
      \cup {Refs(x, {x.source, x.destination} \cup ToSet(x.path) \cup x.classes \cup x.tenants) :
               x \in Policies(d, "routing")}
      \cup {Refs(x, {x.extends}) :
               x \in {p \in Policies(d, "routing") : p.extends[1] = "policy"}}
      \cup {Refs(x, {x.scope}) : x \in {p \in ToSet(d.policies) : p.kind \in Scoped}}
      \cup {Refs(x, x.classes) : x \in Policies(d, "capacity") \cup Policies(d, "redundancy")}
      \cup {Refs(x, {x.tenant} \cup x.scopes) : x \in Policies(d, "isolation")})

ReferenceFindings(d) ==
    LET Error(code, id, about) == Finding("error", "references", code, id, about)
    IN {Error("DuplicateIdentity", id, Field("id")) : id \in Duplicates(d)}
       \cup {Error("DanglingReference", r[1], r[2]) :
                r \in {q \in References(d) : q[2] # NoId /\ ~ Resolves(d, q[2])}}
       \cup {Error("IdentityMalformed", p.id, Field("scope")) :
                p \in {q \in ToSet(d.policies) : q.kind \in Scoped /\ q.scope = NoId}}
       \cup {Error("IdentityMalformed", p.id, Field("scopes")) :
                p \in {q \in Policies(d, "isolation") : NoId \in q.scopes}}
       \cup {Error("IdentityMalformed", p.id, Field("path")) :
                p \in {q \in Policies(d, "routing") : NoId \in ToSet(q.path)}}
       \cup {Error("IdentityClassMismatch", p.id, p.extends) :
                p \in {q \in Policies(d, "routing") : q.extends[1] \notin {"none", "policy"}}}
       \cup {Error("AmbiguousSemantics", p.id, p.extends) :
                p \in {q \in Policies(d, "routing") :
                          Has(d.policies, q.extends)
                          /\ Lookup(d.policies, q.extends).kind # "routing"}}
       \cup {Error("CyclicReference", CHOOSE v \in c : TRUE, Field("cycle")) :
                c \in CyclesFound(ReferenceGraph(d))}

-----------------------------------------------------------------------------
(* Capabilities.  A device whose model is not in the catalog is not looked *)
(* at any further.                                                         *)

ModelOf(d, x)   == Lookup(d.models, x.model)
Described(d)    == {x \in ToSet(d.devices) : Has(d.models, x.model)}
Unmet(d, m, classes) ==
    (UNION {Lookup(d.classes, c).needs : c \in {e \in classes : Has(d.classes, e)}}) \ m.provides

CapabilityFindings(d) ==
    LET Error(code, id, f) == Finding("error", "capabilities", code, id, Field(f))
        Unknown(id, caps)  == {Finding("error", "capabilities", "UnknownCapability", id, c) : c \in caps}
        Ports(x)           == {p \in ToSet(d.ports) : p.device = x.id}
        Observed           == {x \in Described(d) : Lookup(d.devices, x.id) = x}
    IN (UNION {Unknown(c.id, c.needs \ Vocabulary) : c \in ToSet(d.classes)})
       \cup {Error("UnknownCapability", x.id, "model") : x \in ToSet(d.devices) \ Described(d)}
       \cup {Error("UnknownCapability", x.id, "role") :
                x \in {y \in Described(d) : ModelOf(d, y).roles # {}
                                            /\ y.role \notin ModelOf(d, y).roles}}
       \cup {Error("CapacityExceeded", x.id, "slots") :
                x \in {y \in Described(d) : ModelOf(d, y).slots \in 1 .. y.slots - 1}}
       \cup (UNION {Unknown(x.id, Unmet(d, ModelOf(d, x), x.classes)) : x \in Described(d)})
       \cup (UNION {UNION {Unknown(p.id, Unmet(d, ModelOf(d, x), p.classes)) : p \in Ports(x)} :
                   x \in Observed})
       \cup (UNION {{Error("CapacityExceeded", p.id, "speed") :
                       p \in {q \in Ports(x) : ModelOf(d, x).speed \in 1 .. q.speed - 1}} :
                   x \in Observed})
       \cup {Error("UnknownCapability", p.id, "scope") :
                p \in {q \in Reservations(d) : Contributing(d, q.scope) = {}}}

-----------------------------------------------------------------------------
(* Topology feasibility.                                                   *)

Port(d, id) == Lookup(d.ports, id)

PortFindings(d) ==
    LET Error(code, p, f) == Finding("error", "topology", code, p.id, Field(f))
    IN {Error("InfeasibleTopology", p, "index") :
           p \in {q \in ToSet(d.ports) : Has(d.devices, q.device)
                     /\ Lookup(d.devices, q.device).slots \in 1 .. q.index}}
       \cup {Error("DuplicateIdentity", d.ports[i], "index") :
                i \in {j \in DOMAIN d.ports : \E k \in 1 .. j - 1 :
                    /\ d.ports[k].device = d.ports[j].device
                    /\ d.ports[k].index = d.ports[j].index}}

(* A link that ends twice on one port is not looked at any further; the    *)
(* others take their ports in the order of the links.                      *)
Taken(d, i, port) ==
    \E k \in 1 .. i - 1 :
        /\ Wired(d, d.links[k])
        /\ d.links[k].a # d.links[k].b
        /\ port \in Ends(d.links[k])
        /\ d.links[k].id # d.links[i].id

LinkFindings(d) ==
    LET Error(l, f)     == Finding("error", "topology", "InfeasibleTopology", l.id, Field(f))
        At              == {i \in DOMAIN d.links : Wired(d, d.links[i])}
        Proper          == {i \in At : d.links[i].a # d.links[i].b}
        AccessEnds(l)   == {e \in Ends(l) : Port(d, e).role = "access"}
    IN {Error(d.links[i], "port") : i \in At \ Proper}
       \cup {Error(d.links[i], "device") :
                i \in {j \in Proper : DeviceOf(d, d.links[j].a) = DeviceOf(d, d.links[j].b)}}
       \cup {Error(d.links[i], "speed") :
                i \in {j \in Proper : Port(d, d.links[j].a).speed # Port(d, d.links[j].b).speed}}
       \cup (UNION {{Finding("error", "topology", "InfeasibleTopology", d.links[i].id, e) :
                       e \in {f \in Ends(d.links[i]) : Taken(d, i, f)}} : i \in Proper})
       \cup {Error(d.links[i], "kind") :
                i \in {j \in Proper :
                    IF d.links[j].kind = "host"
                    THEN Cardinality(AccessEnds(d.links[j])) # 1
                    ELSE AccessEnds(d.links[j]) # {}}}

(* The devices that enabled links join.                                    *)
JoinsAnyLink(d) ==                             \* mutant: disabled links join
    {<<DeviceOf(d, l.a), DeviceOf(d, l.b)>> : l \in {k \in ToSet(d.links) : Wired(d, k)}}
Joins(d) ==
    {<<DeviceOf(d, l.a), DeviceOf(d, l.b)>> :
        l \in {k \in ToSet(d.links) : Enabled(k) /\ Wired(d, k)}}
Symmetric(E) == E \cup {<<e[2], e[1]>> : e \in E}

Parted(d) ==
    LET nodes == Ids(d.devices) \cup UNION {{e[1], e[2]} : e \in Joins(d)}
    IN /\ Len(d.devices) > 1
       /\ \E v \in nodes : Reachable(Symmetric(Joins(d)), {v}) # nodes

(* Consecutive hops of an explicit path; only two devices need a link.     *)
Adjacent(d, from, to) ==
    from[1] = "device" /\ to[1] = "device"
        => \E l \in LinksAt(d, from) : Enabled(l) /\ Wired(d, l) /\ FarEnd(d, l, from) = to

PathFindings(d) ==
    UNION {IF Len(p.path) > MaxHops
           THEN {Finding("error", "topology", "LimitExceeded", p.id, Field("path"))}
           ELSE {Finding("error", "topology", "InfeasibleTopology", p.id, <<"hop", i>>) :
                    i \in {j \in 2 .. Len(p.path) :
                        /\ \A h \in ToSet(p.path) : Resolves(d, h)
                        /\ ~ Adjacent(d, p.path[j - 1], p.path[j])}} :
           p \in Policies(d, "routing")}

SpreadOfDevices(d, w) == w.placement           \* mutant: counts devices
SpreadOf(d, w) ==
    {DomainOf(d, Lookup(d.devices, id), w.level) : id \in {e \in w.placement : Has(d.devices, e)}}

WorkloadFindings(d) ==
    LET Error(w, f) == Finding("error", "topology", "InfeasibleTopology", w.id, Field(f))
        Placed1     == {w \in ToSet(d.workloads) : w.placement # {}}
    IN {Error(w, "replicas") : w \in {v \in Placed1 : v.replicas > Cardinality(v.placement)}}
       \cup {Error(w, "domains") :
                w \in {v \in Placed1 : v.domains > 1 /\ Cardinality(SpreadOf(d, v)) < v.domains}}

TopologyFindings(d) ==
    PortFindings(d) \cup LinkFindings(d) \cup PathFindings(d) \cup WorkloadFindings(d)
    \cup (IF Parted(d)
          THEN {Finding("error", "topology", "InfeasibleTopology", Field("topology"), Field("parted"))}
          ELSE {})

-----------------------------------------------------------------------------
(* Policy conflicts: one error for each.                                   *)

ConflictFindings(d) ==
    {[severity |-> "error", layer |-> "conflicts", code |-> "PolicyConflict",
      on |-> <<<<"conflict", c[1]>>, c[2]>>] :
        c \in AllConflicts(d)}

-----------------------------------------------------------------------------
(* Invariants, one loop after the other.                                   *)

LinkStateFindings(d) ==
    LET On(severity, l, e) == Finding(severity, "invariants", "InvariantViolation", l.id, e)
        Live     == {l \in ToSet(d.links) : Enabled(l)}
        Seen(l)  == {e \in Ends(l) : Has(d.ports, e)}
        State(e) == Lookup(d.devices, DeviceOf(d, e)).admin
        Owned(l) == {e \in Seen(l) : Has(d.devices, DeviceOf(d, e))}
    IN (UNION {{On("error", l, e) : e \in {f \in Seen(l) : ~ Enabled(Port(d, f))}} : l \in Live})
       \cup (UNION {{On("error", l, DeviceOf(d, e)) :
                       e \in {f \in Owned(l) : State(f) = "disabled"}} : l \in Live})
       \cup UNION {{On("warning", l, DeviceOf(d, e)) :
                       e \in {f \in Owned(l) : State(f) \in {"draining", "maintenance"}}} : l \in Live}

PortStateFindings(d) ==
    {Finding("error", "invariants", "InvariantViolation", p.id, p.device) :
        p \in {q \in ToSet(d.ports) :
            Enabled(q) /\ Has(d.devices, q.device) /\ Lookup(d.devices, q.device).admin = "disabled"}}

PlacementFindings(d) ==
    LET Placed1(w) == {Lookup(d.devices, id) : id \in {e \in w.placement : Has(d.devices, e)}}
        On(severity, w, x) == Finding(severity, "invariants", "InvariantViolation", w.id, x.id)
    IN UNION {{On("error", w, x) : x \in {y \in Placed1(w) : y.admin = "disabled"}}
              \cup {On("warning", w, x) :
                       x \in {y \in Placed1(w) : y.admin \in {"draining", "maintenance"}
                                                 /\ w.replicas <= 1}} : w \in ToSet(d.workloads)}

(* known_properties(): the classes a property constrains and the values it *)
(* takes.                                                                  *)
AnyText == AdminStates \cup Actions \cup Levels \cup {"text"}
Registry ==
    [admin_state       |-> <<{"device", "port", "link"}, AdminStates>>,
     service_classes   |-> <<{"device", "port", "link", "workload"}, {"ids"}>>,
     bandwidth_reservation_bps
                       |-> <<{"link", "device", "site", "pod", "rack"}, {"integer"}>>,
     path_policy       |-> <<{"device", "site", "link", "fabric"}, Actions>>,
     redundancy_level  |-> <<{"device", "site", "fabric"}, Levels>>,
     maintenance_window |-> <<{"device", "rack", "pod"}, AnyText>>,
     upgrade_group     |-> <<{"device", "rack", "pod"}, AnyText>>,
     tenant            |-> <<{"device", "port", "workload"}, AnyText>>,
     isolation_id      |-> <<{"tenant"}, {"integer"}>>]

IntentFindings(d) ==
    LET On(severity, code, i, f) == Finding(severity, "invariants", code, i.id, Field(f))
        Known  == {i \in ToSet(d.intents) : i.property \in DOMAIN Registry}
        Apt    == {i \in Known : i.subject[1] \in Registry[i.property][1]}
    IN {On("error", "UnknownField", i, "property") : i \in ToSet(d.intents) \ Known}
       \cup {On("error", "AmbiguousSemantics", i, "subject") : i \in Known \ Apt}
       \cup {On("error", "JsonTypeMismatch", i, "desired") :
                i \in {j \in Apt : j.desired \notin Registry[j.property][2]}}
       \cup {On("warning", "AmbiguousSemantics", i, "mode") :
                i \in {j \in Apt : j.mode = "reserved" /\ j.tenant # NoId}}

IsolationFindings(d) ==
    {Finding("warning", "invariants", "AmbiguousSemantics", p.id, Field("scopes")) :
        p \in {q \in Policies(d, "isolation") : q.scopes = {} /\ Has(d.tenants, q.tenant)}}

FindingsOf(d) ==
    SchemaFindings(d) \cup SyntaxFindings(d) \cup ReferenceFindings(d)
    \cup CapabilityFindings(d) \cup TopologyFindings(d) \cup ConflictFindings(d)
    \cup LinkStateFindings(d) \cup PortStateFindings(d) \cup PlacementFindings(d)
    \cup IntentFindings(d) \cup IsolationFindings(d)

(* Documents are finite, and so is what is found in them.                  *)
ASSUME FindingsAssumption == \A d \in Documents : IsFiniteSet(FindingsOf(Normalize(d)))

-----------------------------------------------------------------------------
(* One validation.                                                         *)

Init ==
    /\ given \in Documents
    /\ doc = given
    /\ stage = "canonicalize"
    /\ diagnostics = {}
    /\ conflicts = {}
    /\ changes = {}

Objects(d) == FoldSet(LAMBDA c, n : Len(d[c]) + n, 0, Collections)

Refuse ==
    /\ stage = "canonicalize"
    /\ Objects(given) > MaxObjects
    /\ diagnostics' = {Finding("error", "syntax", "LimitExceeded", NoId, Field("$"))}
    /\ stage' = "compare"
    /\ UNCHANGED <<given, doc, conflicts, changes>>

Canonicalize ==
    /\ stage = "canonicalize"
    /\ Objects(given) <= MaxObjects
    /\ doc' = Normalize(given)
    /\ stage' = "schema"
    /\ UNCHANGED <<given, diagnostics, conflicts, changes>>

(* add and add_subject.  Room is never negative.                           *)
Room == MaxDiagnostics - Cardinality(diagnostics)

Report(found) ==
    LET new == found \ diagnostics
    IN \E kept \in IF Cardinality(new) <= Room THEN {new} ELSE kSubset(Room, new) :
           diagnostics' = diagnostics \cup kept

Look(layer, found, next) ==
    /\ stage = layer
    /\ Report(found)
    /\ stage' = next
    /\ UNCHANGED <<given, doc, changes>>

CheckSchema       == Look("schema", SchemaFindings(doc), "syntax") /\ UNCHANGED conflicts
CheckSyntax       == Look("syntax", SyntaxFindings(doc), "references") /\ UNCHANGED conflicts
CheckReferences   == Look("references", ReferenceFindings(doc), "capabilities") /\ UNCHANGED conflicts
CheckCapabilities == Look("capabilities", CapabilityFindings(doc), "topology") /\ UNCHANGED conflicts
CheckTopology     == Look("topology", TopologyFindings(doc), "conflicts") /\ UNCHANGED conflicts
CheckConflicts    == Look("conflicts", ConflictFindings(doc), "links") /\ conflicts' = AllConflicts(doc)
CheckLinkStates   == Look("links", LinkStateFindings(doc), "ports") /\ UNCHANGED conflicts
CheckPortStates   == Look("ports", PortStateFindings(doc), "placements") /\ UNCHANGED conflicts
CheckPlacements   == Look("placements", PlacementFindings(doc), "intents") /\ UNCHANGED conflicts
CheckIntents      == Look("intents", IntentFindings(doc), "isolation") /\ UNCHANGED conflicts

(* The warning that the limit was reached goes through add as well, which  *)
(* drops it: by then the report is full.                                   *)
CheckIsolation    == Look("isolation", IsolationFindings(doc), "compare") /\ UNCHANGED conflicts

(* validate_proposal computes the diff whatever the verdict, of the        *)
(* document as it was declared: diff_documents normalizes both sides.      *)
Compare ==
    /\ stage = "compare"
    /\ changes' = Diff(Parent, Normalize(given))
    /\ stage' = "done"
    /\ UNCHANGED <<given, doc, diagnostics, conflicts>>

Next ==
    \/ Refuse
    \/ Canonicalize
    \/ CheckSchema
    \/ CheckSyntax
    \/ CheckReferences
    \/ CheckCapabilities
    \/ CheckTopology
    \/ CheckConflicts
    \/ CheckLinkStates
    \/ CheckPortStates
    \/ CheckPlacements
    \/ CheckIntents
    \/ CheckIsolation
    \/ Compare

Spec == Init /\ [][Next]_vars

Passed == \A f \in diagnostics : f.severity # "error"

-----------------------------------------------------------------------------
(* Properties.  Those of an eligible document are about a report that      *)
(* stayed below the limit; NoHiddenErrors is about any.                    *)

Done     == stage = "done"
Eligible == Done /\ Passed /\ Room > 0

(* The report never holds more than the limit, whichever layers write to   *)
(* it.                                                                     *)
TypeOK ==
    /\ stage \in {"canonicalize", "schema", "syntax", "references", "capabilities", "topology",
                  "conflicts", "links", "ports", "placements", "intents", "isolation",
                  "compare", "done"}
    /\ Cardinality(diagnostics) <= MaxDiagnostics
    /\ \A f \in diagnostics : f.severity \in {"error", "warning", "info"}

(* A link that forwards: enabled, on enabled ports of devices that are not *)
(* disabled.                                                               *)
Alive(l) ==
    /\ Enabled(l)
    /\ \A e \in Ends(l) :
        /\ Has(doc.ports, e) /\ Enabled(Port(doc, e))
        /\ Has(doc.devices, DeviceOf(doc, e))
        /\ Lookup(doc.devices, DeviceOf(doc, e)).admin # "disabled"

AliveLinks == {l \in ToSet(doc.links) : Alive(l)}
Between(l, x, y) == {DeviceOf(doc, l.a), DeviceOf(doc, l.b)} = {x, y}

(* Every cut of an eligible topology is crossed by a link that forwards:   *)
(* the partition rule of the topology layer and the state rules of the     *)
(* invariant layer leave no device, not even a disabled one, apart.        *)
Connected ==
    Eligible =>
        \A S \in (SUBSET Ids(doc.devices)) \ {{}, Ids(doc.devices)} :
            \E l \in AliveLinks :
                Cardinality({DeviceOf(doc, l.a), DeviceOf(doc, l.b)} \cap S) = 1

(* What a device lies within, following every reference of the containment *)
(* hierarchy, and not just the fields of the device the index looks at.    *)
Containment == (UNION {EdgesOf(x, {x.site, x.pod, x.rack}) : x \in ToSet(doc.devices)})
    \cup {e \in ReferenceGraph(doc) : e[1][1] \in {"rack", "pod", "site"}}
Around(x) == Reachable(Containment, {x})

(* Every device names itself all that is around it.  Nothing checks that   *)
(* it does: a device may name a rack of another pod, or a rack and no pod. *)
Nested ==
    \A x \in ToSet(doc.devices) :
        Around(x.id) \subseteq {x.id, x.rack, x.pod, x.site, DomainOf(doc, x, "fabric")}

(* No two declarations of an eligible document require different           *)
(* administrative states of one device: two policies on scopes around it,  *)
(* or a policy and an enforced intent on the device itself.                *)
OneState ==
    Eligible /\ Nested =>
        \A x \in ToSet(doc.devices) :
            Cardinality(
                {p.state : p \in {q \in Policies(doc, "admin") : q.scope \in Around(x.id)}}
                \cup {i.desired : i \in {j \in Enforced(doc) :
                         j.subject = x.id /\ j.property = "admin_state"}}) <= 1

(* Where an eligible document requires paths over n failure domains, the   *)
(* loss of any n - 1 of them leaves each device of the scope a neighbour   *)
(* over a link that forwards.                                              *)
Redundant ==
    Eligible =>
        \A p \in Policies(doc, "redundancy") : p.level \notin {"link", "port"} =>
            \A x \in DevicesOf(doc, p.scope) :
                LET Domains == {DomainOf(doc, y, p.level) : y \in ToSet(doc.devices)}
                IN \A lost \in SUBSET Domains : Cardinality(lost) < p.paths =>
                       \E y \in ToSet(doc.devices) \ {x} : \E l \in AliveLinks :
                           Between(l, x.id, y.id) /\ DomainOf(doc, y, p.level) \notin lost

(* A workload of an eligible document that asks for n failure domains has, *)
(* after the loss of any n - 1, a device left that is not disabled.  One   *)
(* placed on empty identities alone is placed on nothing.                  *)
WorkloadsSurvive ==
    Eligible =>
        \A w \in ToSet(doc.workloads) : w.placement \ {NoId} # {} =>
            \A lost \in SUBSET {DomainOf(doc, y, w.level) : y \in ToSet(doc.devices)} :
                Cardinality(lost) < w.domains =>
                    \E y \in ToSet(doc.devices) :
                        /\ y.id \in w.placement
                        /\ y.admin # "disabled"
                        /\ DomainOf(doc, y, w.level) \notin lost

(* The reservations an eligible document makes on a scope fit into what    *)
(* the links that forward there offer together, however large the numbers. *)
(* A link may leave an end empty, which no layer flags: it counts as       *)
(* capacity of its scope and forwards nothing.                             *)
WithinCapacity ==
    Eligible =>
        \A p \in Policies(doc, "capacity") :
            (\A l \in LinksOf(doc, p.scope) : NoId \notin Ends(l)) =>
                FoldSet(LAMBDA q, n : q.reserved + n, 0,
                        {q \in Policies(doc, "capacity") : q.scope = p.scope})
                <= FoldSet(LAMBDA l, n : l.capacity + n, 0, AliveLinks \cap LinksOf(doc, p.scope))

(* Declarations that the normal form cannot order: same name, and the same *)
(* in the part that is compared.                                           *)
Tied(d) ==
    \E c \in Collections : \E i, j \in DOMAIN d[c] :
        d[c][i] # d[c][j] /\ d[c][i].id = d[c][j].id
        /\ TieKey(c, d[c][i]) = TieKey(c, d[c][j])

Reversed(d) == [f \in DOMAIN d |-> IF f \in Collections THEN Reverse(d[f]) ELSE d[f]]

(* What the layers look at does not depend on the order of declaration,    *)
(* even where an identity is declared twice.                               *)
OrderInsensitive ==
    stage = "schema" /\ ~ Tied(given) => Normalize(Reversed(given)) = doc

Entries(c) == {e \in changes : Where(e)[1] = c}
Whole(c, change) == {e \in Entries(c) : Change(e) = change /\ Where(e)[3] = "whole"}
Keys(c)    == IF IsKeyed(c, Parent[c], doc[c]) THEN Ids(Parent[c]) ELSE DOMAIN Parent[c]
Old(c, k)  == IF IsKeyed(c, Parent[c], doc[c]) THEN Lookup(Parent[c], k) ELSE Parent[c][k]

(* A declaration that stays, with what the entries say of it: a new body,  *)
(* if they add one, and the members they modify.                           *)
Edited(c, k) ==
    LET mine    == {e \in Entries(c) : Where(e)[2] = k}
        body    == {e \in mine : Change(e) = "added"}
        from    == IF body = {} THEN Old(c, k) ELSE After(CHOOSE e \in body : TRUE)
        said(f) == {e \in mine : Change(e) = "modified" /\ Where(e)[3] = f}
    IN [f \in DOMAIN from |->
           IF said(f) # {} THEN After(CHOOSE e \in said(f) : TRUE)
           ELSE IF f \in {"id", "kind"} THEN Old(c, k)[f]
           ELSE from[f]]

Patched(c) ==
    {After(e) : e \in Whole(c, "added")}
    \cup {Edited(c, k) : k \in Keys(c) \ {Where(e)[2] : e \in Whole(c, "removed")}}

Reconstructed ==
    /\ \A c \in Collections : Patched(c) = ToSet(doc[c])
    /\ \A f \in DOMAIN doc \ Collections :
           doc[f] = IF \E e \in Entries("document") : Where(e)[3] = f
                    THEN After(CHOOSE e \in Entries("document") : Where(e)[3] = f)
                    ELSE Parent[f]

(* The diff is complete: what it says, applied to the head, gives the      *)
(* document, whether a collection is matched by identity or by position,   *)
(* and of a refused document as well, unless it declares an identity twice *)
(* (of which the diff, like the index, looks at one declaration).          *)
DiffComplete ==
    Done /\ Objects(given) <= MaxObjects /\ Duplicates(doc) = {} => Reconstructed

(* A document that passes has no error in any layer ("A proposal only      *)
(* becomes eligible for commit when every layer passes", validate.hpp).    *)
NoHiddenErrors ==
    Done /\ Passed => \A f \in FindingsOf(doc) : f.severity # "error"
=============================================================================
