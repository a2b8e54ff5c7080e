--------------------------- MODULE IntentDocument ---------------------------
(***************************************************************************)
(* Intent documents: their normal form (src/canonical.cpp), the queries of *)
(* TopologyIndex (src/index.cpp) and the semantic diff (src/diff.cpp).     *)
(*                                                                         *)
(* A document is a record of collections, each a sequence of declarations  *)
(* in the order in which they are declared.  An identity is a pair of its  *)
(* class and its name, and names are numbers, which order them.  Fields    *)
(* that hold a set once they are normalized (service classes, placements,  *)
(* features) are sets, and free text is left out.                          *)
(***************************************************************************)
EXTENDS DirectedGraphs, Integers, Sequences, FiniteSets, SequencesExt, FiniteSetsExt

CONSTANT MaxBps     \* the largest capacity a counter holds

ASSUME DocumentAssumption == MaxBps \in Nat \ {0}

-----------------------------------------------------------------------------
(* Identities.  NoId is the empty one, and stands for text that does not   *)
(* parse where the code parses it: scopes, hops and composed policies.     *)

NoId == <<"none", 0>>

(* The classes in the order that compares identities, with the collection  *)
(* in which each is declared.                                              *)
Classes ==
    <<"domain", "fabric", "site", "pod", "rack", "device", "port", "link",
      "policy", "intent", "tenant", "workload", "class">>

CollectionOf ==
    [fabric |-> "fabrics", site |-> "sites", pod |-> "pods", rack |-> "racks",
     device |-> "devices", port |-> "ports", link |-> "links",
     policy |-> "policies", tenant |-> "tenants", workload |-> "workloads",
     class |-> "classes"]

ClassRank(id) == CHOOSE i \in DOMAIN Classes : Classes[i] = id[1]

IdBefore(a, b) ==
    \/ ClassRank(a) < ClassRank(b)
    \/ a[1] = b[1] /\ a[2] < b[2]

(* The collections of a document; models is the capability catalog.        *)
Keyed ==
    {"fabrics", "sites", "pods", "racks", "devices", "ports", "links",
     "classes", "policies", "tenants", "workloads", "intents"}
Collections == Keyed \cup {"models"}

(* The types of a document, as far as they matter to what is proved about  *)
(* one: identities are of the class their field names, or empty.           *)
ClassIn ==
    [fabrics |-> "fabric", sites |-> "site", pods |-> "pod", racks |-> "rack",
     devices |-> "device", ports |-> "port", links |-> "link", classes |-> "class",
     policies |-> "policy", tenants |-> "tenant", workloads |-> "workload",
     intents |-> "intent", models |-> "model"]

Identity(class) == {NoId} \cup {class} \X (Nat \ {0})

WellTyped(d) ==
    /\ Collections \cup {"domain"} \subseteq DOMAIN d
    /\ \A c \in Collections :
        d[c] \in Seq(ToSet(d[c])) /\ \A x \in ToSet(d[c]) : x.id \in Identity(ClassIn[c])
    /\ d.domain \in Identity("domain")
    /\ \A x \in ToSet(d.sites) : x.fabric \in Identity("fabric")
    /\ \A x \in ToSet(d.devices) :
        x.site \in Identity("site") /\ x.pod \in Identity("pod") /\ x.rack \in Identity("rack")
    /\ \A x \in ToSet(d.ports) : x.device \in Identity("device")
    /\ \A x \in ToSet(d.links) : {x.a, x.b} \subseteq Identity("port") /\ x.capacity \in Nat
    /\ \A x \in ToSet(d.workloads) : x.placement \subseteq Identity("device") /\ x.domains \in Nat
    /\ \A x \in ToSet(d.policies) :
        /\ x.kind = "redundancy" => x.paths \in Nat
        /\ x.kind = "capacity" => x.reserved \in Nat

(* Documents of one schema have the same members, and so have declarations *)
(* of one collection; of policies, those of one kind, and all have an      *)
(* identity and a kind.                                                    *)
PolicyKinds == {"routing", "capacity", "redundancy", "maintenance", "isolation", "admin"}

Alike(d, e) ==
    /\ DOMAIN d = DOMAIN e
    /\ \A x \in ToSet(d.policies) \cup ToSet(e.policies) :
        /\ {"id", "kind"} \subseteq DOMAIN x /\ x = [f \in DOMAIN x |-> x[f]]
        /\ x.kind \in PolicyKinds
    /\ \A c \in Collections : \A x \in ToSet(d[c]), y \in ToSet(e[c]) :
        (c = "policies" => x.kind = y.kind) =>
            DOMAIN x = DOMAIN y /\ y = [f \in DOMAIN y |-> y[f]]

-----------------------------------------------------------------------------
(* The index.  Where an identity is declared twice it answers with the     *)
(* first declaration.                                                      *)

Ids(s)     == {s[i].id : i \in DOMAIN s}
Has(s, id) == \E i \in DOMAIN s : s[i].id = id
Lookup(s, id) ==
    s[CHOOSE i \in DOMAIN s : s[i].id = id /\ \A j \in 1 .. i - 1 : s[j].id # id]

(* Identities of intents always resolve.                                   *)
Resolves(d, id) ==
    \/ id[1] = "intent"
    \/ id = d.domain
    \/ id[1] \in DOMAIN CollectionOf /\ Has(d[CollectionOf[id[1]]], id)

(* Identities a collection declares more than once.  Names of models are   *)
(* not identities, and an empty identity does not parse: the index passes  *)
(* over those that repeat one.                                             *)
Duplicates(d) ==
    (UNION {{d[c][i].id : i \in {j \in DOMAIN d[c] :
        \E k \in DOMAIN d[c] : k # j /\ d[c][k].id = d[c][j].id}} : c \in Keyed}) \ {NoId}

(* The device a port belongs to; NoId for a port or a device that is not   *)
(* declared.                                                               *)
DeviceOf(d, port) ==
    IF Has(d.ports, port) THEN Lookup(d.ports, port).device ELSE NoId

Ends(l) == {l.a, l.b}
Wired(d, l) == \A e \in Ends(l) : Has(d.ports, e)

LinksAt(d, device) ==
    {l \in ToSet(d.links) : \E e \in Ends(l) :
        Has(d.ports, e) /\ DeviceOf(d, e) = device}

(* The device at the other end of a link that is wired at both ends.       *)
FarEnd(d, l, device) ==
    IF DeviceOf(d, l.a) = device THEN DeviceOf(d, l.b) ELSE DeviceOf(d, l.a)

Policies(d, kind) == {p \in ToSet(d.policies) : p.kind = kind}
Enabled(x) == x.admin = "enabled"

(* The devices a scope covers.  A port stands for its device and a link    *)
(* for the devices it joins; where the index looks a device up by its      *)
(* identity, it finds the first that declares it.                          *)
Placed(d, tenant) ==
    UNION {w.placement : w \in {w \in ToSet(d.workloads) : w.tenant = tenant}}

Found(d, x) == Lookup(d.devices, x.id) = x

Covers(d, scope, x) ==
    CASE scope[1] = "fabric" -> \E s \in ToSet(d.sites) : s.fabric = scope /\ s.id = x.site
      [] scope[1] = "site"   -> x.site = scope
      [] scope[1] = "pod"    -> x.pod = scope
      [] scope[1] = "rack"   -> x.rack = scope
      [] scope[1] = "class"  -> scope \in x.classes
      [] scope[1] = "device" -> Found(d, x) /\ x.id = scope
      [] scope[1] = "port"   -> Found(d, x) /\ Has(d.ports, scope) /\ x.id = DeviceOf(d, scope)
      [] scope[1] = "tenant" -> Found(d, x) /\ x.id \in Placed(d, scope)
      [] scope[1] = "link"   -> Found(d, x) /\ Has(d.links, scope)
             /\ \E e \in Ends(Lookup(d.links, scope)) : Has(d.ports, e) /\ x.id = DeviceOf(d, e)
      [] OTHER -> FALSE

DevicesOf(d, scope) == {x \in ToSet(d.devices) : Covers(d, scope, x)}

(* The index lists them as they are declared, those of a fabric site by    *)
(* site, and those of a link as its ends are.                              *)
Turn(d, scope, x) ==
    CASE scope[1] = "fabric" -> x.site[2]
      [] scope[1] = "link"   -> IF x.id = DeviceOf(d, Lookup(d.links, scope).a) THEN 0 ELSE 1
      [] OTHER -> 0
Declared(d, x) == CHOOSE i \in DOMAIN d.devices : d.devices[i] = x /\ x \notin ToSet(SubSeq(d.devices, 1, i - 1))
ListedBefore(d, scope, x, y) ==
    \/ Turn(d, scope, x) < Turn(d, scope, y)
    \/ Turn(d, scope, x) = Turn(d, scope, y) /\ Declared(d, x) < Declared(d, y)

LinksOf(d, scope) ==
    IF scope[1] = "link"
    THEN {Lookup(d.links, id) : id \in {scope} \cap Ids(d.links)}
    ELSE UNION {LinksAt(d, x.id) : x \in DevicesOf(d, scope)}

(* The failure domain a device belongs to at a level.                      *)
DomainOf(d, x, level) ==
    CASE level = "rack"   -> IF x.rack = NoId THEN x.id ELSE x.rack
      [] level = "pod"    -> IF x.pod = NoId THEN x.id ELSE x.pod
      [] level = "site"   -> x.site
      [] level = "fabric" -> IF Has(d.sites, x.site)
                             THEN Lookup(d.sites, x.site).fabric ELSE NoId
      [] OTHER            -> x.id

-----------------------------------------------------------------------------
(* The reference graph of a document.                                      *)
EdgesOf(x, targets) == {<<x.id, t>> : t \in targets \ {NoId}}

ReferenceGraph(d) ==
    UNION ({EdgesOf(x, {x.rack, x.pod, x.site}) : x \in ToSet(d.devices)}
      \cup {EdgesOf(x, {x.pod}) : x \in ToSet(d.racks)}
      \cup {EdgesOf(x, {x.site}) : x \in ToSet(d.pods)}
      \cup {EdgesOf(x, {x.fabric}) : x \in ToSet(d.sites)}
      \cup {EdgesOf(x, {x.device}) : x \in ToSet(d.ports)}
      \cup {EdgesOf(x, Ends(x)) : x \in ToSet(d.links)}
      \cup {EdgesOf(x, {x.tenant} \cup x.placement) : x \in ToSet(d.workloads)}
      \cup {EdgesOf(x, {x.extends}) :
               x \in Policies(d, "routing")}
      \cup {EdgesOf(x, {x.tenant} \cup x.scopes) :
               x \in Policies(d, "isolation")}
      \cup {EdgesOf(x, {x.subject, x.tenant}) : x \in ToSet(d.intents)})

-----------------------------------------------------------------------------
(* The normal form: every collection sorted by name.  Declarations that    *)
(* share a name are ordered by a serialization, TieKey, that holds only a  *)
(* part of a policy, a tenant, a workload, an intent, a service class or a *)
(* model; those that agree in it too keep the order they are declared in.  *)

TieKey(c, x) ==
    CASE c = "policies"  -> <<x.id, x.kind>>
      [] c = "tenants"   -> <<x.id>>
      [] c = "workloads" -> <<x.id, x.tenant, x.class>>
      [] c = "intents"   -> <<x.id, x.subject, x.property, x.desired>>
      [] c = "classes"   -> <<x.id>>
      [] c = "models"    -> <<x.id, x.provides>>
      [] OTHER           -> x

(* Some order of the serializations that occur, the same whenever the same *)
(* ones do.                                                                *)
TieRank(c, tied) ==
    LET keys == {TieKey(c, x) : x \in tied}
    IN CHOOSE f \in [keys -> 1 .. Cardinality(keys)] :
           \A k, l \in keys : f[k] = f[l] => k = l

Rank(c, s, i) == TieRank(c, {x \in ToSet(s) : x.id = s[i].id})[TieKey(c, s[i])]

Precedes(c, s, i, j) ==
    \/ s[i].id[2] < s[j].id[2]
    \/ s[i].id = s[j].id /\ Rank(c, s, i) < Rank(c, s, j)
    \/ s[i].id = s[j].id /\ Rank(c, s, i) = Rank(c, s, j) /\ i < j

Nth(c, s, n) ==
    CHOOSE j \in DOMAIN s : Cardinality({i \in DOMAIN s : Precedes(c, s, i, j)}) = n - 1

SortedAsDeclared(c, s) == s                    \* mutant: no sorting
Sorted(c, s) == [n \in DOMAIN s |-> s[Nth(c, s, n)]]

Normalize(d) == [c \in DOMAIN d |-> IF c \in Collections THEN Sorted(c, d[c]) ELSE d[c]]

-----------------------------------------------------------------------------
(* The semantic diff of two normalized documents.  An entry says where a   *)
(* change is, collection, key and field, what kind of change it is, and    *)
(* the values before and after.  A collection is matched by identity if    *)
(* both sides declare something and all they declare has an identity, and  *)
(* by position otherwise, as the catalog always is.  The impact an entry   *)
(* is classified with is left out.                                         *)

NoValue == "no value"

Entry(at, change, before, after) == <<at, change, before, after>>
Where(e)  == e[1]
Change(e) == e[2]
After(e)  == e[4]

Modified(c, key, F, x, y) ==
    {Entry(<<c, key, f>>, "modified", x[f], y[f]) : f \in {g \in F : x[g] # y[g]}}
FieldChanges(c, key, x, y) == Modified(c, key, DOMAIN x, x, y)

(* The body of a policy is a member of its own, named after its kind, next *)
(* to its identity and its kind.                                           *)
KindChange(c, key, x, y) ==
    {Entry(<<c, key, x.kind>>, "removed", x, NoValue),
     Entry(<<c, key, y.kind>>, "added", NoValue, y)}
    \cup Modified(c, key, {"id", "kind"}, x, y)

Changes(c, key, x, y) ==
    IF c = "policies" /\ x.kind # y.kind
    THEN KindChange(c, key, x, y)
    ELSE FieldChanges(c, key, x, y)

Removed(c, key, x) == Entry(<<c, key, "whole">>, "removed", x, NoValue)
Added(c, key, x)   == Entry(<<c, key, "whole">>, "added", NoValue, x)

KeyedDiffOfOld(c, s, t) ==                     \* mutant: walks the old side only
    {Removed(c, id, Lookup(s, id)) : id \in Ids(s) \ Ids(t)}
    \cup UNION {Changes(c, id, Lookup(s, id), Lookup(t, id)) : id \in Ids(s) \cap Ids(t)}
KeyedDiff(c, s, t) ==
    {Removed(c, id, Lookup(s, id)) : id \in Ids(s) \ Ids(t)}
    \cup {Added(c, id, Lookup(t, id)) : id \in Ids(t) \ Ids(s)}
    \cup UNION {Changes(c, id, Lookup(s, id), Lookup(t, id)) : id \in Ids(s) \cap Ids(t)}

PositionalDiff(c, s, t) ==
    {Removed(c, i, s[i]) : i \in DOMAIN s \ DOMAIN t}
    \cup {Added(c, i, t[i]) : i \in DOMAIN t \ DOMAIN s}
    \cup UNION {Changes(c, i, s[i], t[i]) : i \in DOMAIN s \cap DOMAIN t}

IsKeyed(c, s, t) ==
    /\ c \in Keyed /\ s # <<>> /\ t # <<>>
    /\ NoId \notin Ids(s) \cup Ids(t)

Diff(d, e) ==
    (UNION {IF IsKeyed(c, d[c], e[c]) THEN KeyedDiff(c, d[c], e[c])
                                     ELSE PositionalDiff(c, d[c], e[c]) : c \in Collections})
    \cup {Entry(<<"document", NoId, f>>, "modified", d[f], e[f]) :
              f \in {g \in DOMAIN d \ Collections : d[g] # e[g]}}
=============================================================================
