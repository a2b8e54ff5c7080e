---------------------------- MODULE IntentSchema ----------------------------
(***************************************************************************)
(* The JSON projection of a document (src/model_json.cpp): the upgrade of  *)
(* an older minor of the schema, one migration per minor; the strict       *)
(* reader; and the writer, whose output is what the store keeps and reads  *)
(* back after a restart.                                                   *)
(*                                                                         *)
(* The reader treats every object of a document alike, so a behaviour      *)
(* follows one object of one section.  A tree is the object as JSON: a     *)
(* function from the members that are there to their values.  A section is *)
(* a table: its members, the type each is read as, whether it must be      *)
(* there, and the value it has otherwise; and the members the writer puts. *)
(***************************************************************************)
EXTENDS Integers, Sequences

CONSTANTS
    MaxInt64,      \* numeric_limits<int64_t>::max()
    MaxUint32,
    MaxMembers,    \* kMaxCollectionMembers
    MaxSpeed,      \* the largest number of a speed text, before its unit
    Unit,          \* what the units of a speed text stand for
    Json,          \* the values a member is tried with
    Versions       \* the <<major, minor>> a text declares

(* A JSON value: its kind and what the code tells apart in it.  A text is  *)
(* "good" (well formed as an identity or an enumerator), "default" (the    *)
(* enumerator a member has by default), "zero" (a time or a digest that is *)
(* all zero), "", "bad" (well formed as nothing but a string) or "long"    *)
(* (beyond the limit); a text such as "100g" is a speed.  Of an object     *)
(* that is read elsewhere, the values are kept as a sequence.              *)
Null           == <<"null">>
Text(t)        == <<"text", t>>
Speed(n, unit) == <<"speed", n, unit>>
Num(n)         == <<"int", n>>
Bool(b)        == <<"bool", b>>
Array(items)   == <<"array", items>>
Object(items)  == <<"object", items>>

Is(kind, v) == v[1] = kind
Empty == Text("")
Good  == Text("good")

MaxUint64 == 2 * MaxInt64 + 1

ASSUME SchemaAssumption ==
    /\ {MaxInt64, MaxUint32, MaxMembers, MaxSpeed} \subseteq Nat
    /\ 0 < MaxUint32 /\ MaxUint32 <= MaxInt64
    /\ DOMAIN Unit = {"", "m", "g"} /\ \A u \in DOMAIN Unit : Unit[u] \in Nat

(* An integer of a tree is an int64_t; a speed text is a number with one   *)
(* of the units after it.                                                  *)
Representable(v) ==
    /\ Is("int", v) => v[2] \in -(MaxInt64 + 1) .. MaxInt64
    /\ Is("speed", v) => v[2] \in Nat /\ v[3] \in DOMAIN Unit

ASSUME JsonAssumption == \A v \in Json : Representable(v)

-----------------------------------------------------------------------------
(* What each reader takes                                                  *)

Fine(v)             == Is("speed", v) \/ (Is("text", v) /\ v # Text("long"))
ReadsString(v)      == v = Null \/ Fine(v)
ReadsBool(v)        == Is("bool", v)
ReadsUint32(v)      == Is("int", v) /\ v[2] \in 0 .. MaxUint32
ReadsUint64(v)      == Is("int", v) /\ v[2] \in 0 .. MaxInt64
ReadsIdentity(v)    == v \in {Null, Empty, Good}
ReadsEnumerator(v)  == v \in {Good, Text("default")}
ReadsStamp(v)       == v \in {Null, Empty, Good, Text("zero")}
ReadsIdentities(v)  == /\ Is("array", v) /\ DOMAIN v[2] \subseteq 1 .. MaxMembers
                       /\ \A i \in DOMAIN v[2] : ReadsIdentity(v[2][i])
ReadsStrings(v)     == /\ Is("array", v) /\ DOMAIN v[2] \subseteq 1 .. MaxMembers
                       /\ \A i \in DOMAIN v[2] : Fine(v[2][i])
ReadsEnumerators(v) == /\ Is("array", v)
                       /\ \A i \in DOMAIN v[2] : ReadsEnumerator(v[2][i])
ReadsMeta(v)        == /\ Is("object", v) /\ DOMAIN v[2] \subseteq 1 .. MaxMembers
                       /\ \A i \in DOMAIN v[2] :
                              v[2][i][1] \in {"text", "speed", "bool", "int"}
ReadsItems(v)       == /\ Is("array", v)
                       /\ \A i \in DOMAIN v[2] : Is("object", v[2][i])

Readable(type, v) ==
    CASE type = "string"   -> ReadsString(v)
      [] type = "note"     -> v = Null \/ v[1] \in {"text", "speed"}
      [] type = "bool"     -> ReadsBool(v)
      [] type = "u32"      -> ReadsUint32(v)
      [] type = "u64"      -> ReadsUint64(v)
      [] type \in {"id", "revision"} -> ReadsIdentity(v)
      [] type = "identity" -> v = Good
      [] type = "enum"     -> ReadsEnumerator(v)
      [] type = "stamp"    -> ReadsStamp(v)
      [] type = "ids"      -> ReadsIdentities(v)
      [] type = "strings"  -> ReadsStrings(v)
      [] type = "enums"    -> ReadsEnumerators(v)
      [] type = "meta"     -> ReadsMeta(v)
      [] type = "labels"   -> v = Null \/ ReadsMeta(v)
      [] type = "items"    -> ReadsItems(v)
      [] type = "object"   -> Is("object", v)
      [] type \in {"part", "parent"} -> v = Null \/ Is("object", v)
      [] type = "any"      -> TRUE

(* The member of the C++ object that a readable value sets.                *)
Identified(v) == IF v = Null THEN Empty ELSE v

Read(type, v) ==
    CASE type \in {"string", "id", "revision"} -> Identified(v)
      [] type = "stamp" -> IF v \in {Null, Empty} THEN Text("zero") ELSE v
      [] type = "ids"  -> Array([i \in DOMAIN v[2] |-> Identified(v[2][i])])
      [] type \in {"labels", "part"} -> IF v = Null THEN Object(<<>>) ELSE v
      [] OTHER -> v

(* An unsigned number goes out as int64_t.                                 *)
Signed(x) == IF x[2] > MaxInt64 THEN Num(x[2] - (MaxUint64 + 1)) ELSE x

(* An identity in a list goes out as its class and its name with a dot     *)
(* between, also when it has no name: a text no reader of an identity      *)
(* takes.                                                                  *)
Prefixed(x) == IF x = Empty THEN Text("bad") ELSE x
PrefixedAll(x) == Array([i \in DOMAIN x[2] |-> Prefixed(x[2][i])])

(* Mutant: annotations that are empty are written as null.                 *)
WriteMetaNull(type, x) ==
    CASE type = "u64" -> Signed(x)
      [] type = "id"  -> IF x = Empty THEN Null ELSE x
      [] type = "ids" -> PrefixedAll(x)
      [] type = "meta" -> IF x = Object(<<>>) THEN Null ELSE x
      [] OTHER -> x

(* What the writer makes of a member.                                      *)
Write(type, x) ==
    CASE type = "u64" -> Signed(x)
      [] type = "id"  -> IF x = Empty THEN Null ELSE x
      [] type = "ids" -> PrefixedAll(x)
      [] OTHER -> x

-----------------------------------------------------------------------------
(* The sections                                                            *)

Default(type) ==
    CASE type \in {"string", "note", "id", "revision", "identity"} -> Empty
      [] type = "bool"                       -> Bool(FALSE)
      [] type \in {"u32", "u64"}             -> Num(0)
      [] type = "enum"                       -> Text("default")
      [] type = "stamp"                      -> Text("zero")
      [] type \in {"ids", "strings", "enums", "items"}  -> Array(<<>>)
      [] type \in {"meta", "labels", "object", "part"}  -> Object(<<>>)
      [] type \in {"parent", "any"}          -> Null

Req(type)       == [type |-> type, required |-> TRUE, default |-> Default(type)]
Opt(type)       == [type |-> type, required |-> FALSE, default |-> Default(type)]
OptOr(type, v)  == [type |-> type, required |-> FALSE, default |-> v]

(* The version members of the schema are read by the upgrade.  The note    *)
(* upgraded_from is any text, and is not kept.                             *)
SchemaMembers ==
    [name |-> Req("identity"), requires |-> Opt("strings"),
     optional |-> Opt("strings"), upgraded_from |-> Opt("note")]
SchemaWritten == {"name", "requires", "optional"}
RootMembers ==
    [domain |-> Req("identity"), provenance |-> Opt("part"),
     topology |-> Req("object"), capability_catalog |-> Req("items"),
     service_classes |-> Req("items"), policies |-> Opt("items"),
     tenants |-> Opt("items"), workloads |-> Opt("items"), intents |-> Opt("items")]
RootWritten ==
    {"domain", "provenance", "topology", "capability_catalog",
     "service_classes", "policies", "tenants", "workloads", "intents"}
TopologyMembers ==
    [m \in {"fabrics", "sites", "pods", "racks", "devices", "ports", "links"} |->
        Req("items")]
TopologyWritten ==
    {"fabrics", "sites", "pods", "racks", "devices", "ports", "links"}
ProvenanceMembers ==
    [actor |-> Opt("id"), source_revision |-> Opt("revision"), parent_intent |-> Opt("parent"),
     created_at |-> Opt("stamp"), description |-> Opt("string"), labels |-> Opt("labels")]
ProvenanceWritten ==
    {"actor", "source_revision", "parent_intent", "created_at", "description",
     "labels"}
ParentMembers == [generation |-> Req("id"), content_digest |-> Opt("stamp")]
ParentWritten == {"generation", "content_digest"}
FabricMembers ==
    [id |-> Req("id"), display_name |-> Opt("string"), description |-> Opt("string")]
FabricWritten == {"id", "display_name", "description"}
SiteMembers ==
    [id |-> Req("id"), fabric |-> Req("id"), display_name |-> Opt("string"),
     region |-> Opt("string"), description |-> Opt("string")]
SiteWritten == {"id", "fabric", "display_name", "region", "description"}
PodMembers ==
    [id |-> Req("id"), site |-> Req("id"), display_name |-> Opt("string"),
     description |-> Opt("string")]
PodWritten == {"id", "site", "display_name", "description"}
RackMembers ==
    [id |-> Req("id"), pod |-> Req("id"), position |-> Opt("u32"),
     description |-> Opt("string")]
RackWritten == {"id", "pod", "position", "description"}
DeviceMembers ==
    [id |-> Req("id"), site |-> Req("id"), pod |-> Opt("id"), rack |-> Opt("id"),
     role |-> Opt("enum"), model |-> Opt("string"), admin |-> Opt("enum"),
     declared_port_count |-> Opt("u32"), service_classes |-> Opt("ids"),
     meta |-> Opt("meta"), description |-> Opt("string")]
DeviceWritten ==
    {"id", "site", "pod", "rack", "role", "model", "admin",
     "declared_port_count", "service_classes", "meta", "description"}
PortMembers ==
    [id |-> Req("id"), device |-> Req("id"), index |-> Req("u32"),
     role |-> Opt("enum"), admin |-> Opt("enum"), speed_bps |-> Opt("u64"),
     media |-> Opt("string"), service_classes |-> Opt("ids"),
     description |-> Opt("string")]
PortWritten ==
    {"id", "device", "index", "role", "admin", "speed_bps", "media",
     "service_classes", "description"}
LinkMembers ==
    [id |-> Req("id"), endpoint_a |-> Req("id"), endpoint_b |-> Req("id"),
     kind |-> Opt("enum"), capacity_bps |-> Opt("u64"), admin |-> Opt("enum"),
     service_classes |-> Opt("ids"), description |-> Opt("string")]
LinkWritten ==
    {"id", "endpoint_a", "endpoint_b", "kind", "capacity_bps", "admin",
     "service_classes", "description"}
CapabilityMembers ==
    [model |-> Req("string"), capabilities |-> Opt("strings"), port_count |-> Opt("u32"),
     max_speed_bps |-> Opt("u64"), supported_roles |-> Opt("enums")]
CapabilityWritten ==
    {"model", "capabilities", "port_count", "max_speed_bps",
     "supported_roles"}
ServiceClassMembers ==
    [id |-> Req("id"), display_name |-> Opt("string"), priority |-> Opt("u32"),
     bandwidth_share_permille |-> Opt("u32"), latency_budget_us |-> Opt("u64"),
     loss_budget_ppm |-> Opt("u32"), lossless |-> Opt("bool"),
     required_capabilities |-> Opt("strings"), description |-> Opt("string")]
ServiceClassWritten ==
    {"id", "display_name", "priority", "bandwidth_share_permille",
     "latency_budget_us", "loss_budget_ppm", "lossless",
     "required_capabilities", "description"}
RoutingMembers ==
    [priority |-> Opt("u32"), match_service_classes |-> Opt("ids"),
     match_tenants |-> Opt("ids"), match_source |-> Opt("id"),
     match_destination |-> Opt("id"), action |-> Opt("enum"),
     explicit_path |-> Opt("strings"), max_ecmp_width |-> OptOr("u32", Num(1)),
     min_bandwidth_bps |-> Opt("u64"), extends_policy |-> Opt("id"),
     description |-> Opt("string")]
RoutingWritten ==
    {"priority", "match_service_classes", "match_tenants", "match_source",
     "match_destination", "action", "explicit_path", "max_ecmp_width",
     "min_bandwidth_bps", "extends_policy", "description"}
CapacityMembers ==
    [scope |-> Req("id"), service_classes |-> Opt("ids"), reserved_bps |-> Opt("u64"),
     max_utilization_permille |-> OptOr("u32", Num(1)), description |-> Opt("string")]
CapacityWritten ==
    {"scope", "service_classes", "reserved_bps", "max_utilization_permille",
     "description"}
AdminStateMembers ==
    [scope |-> Req("id"), state |-> Req("enum"), drain_first |-> Opt("bool"),
     reason |-> Opt("string"), description |-> Opt("string")]
AdminStateWritten ==
    {"scope", "state", "drain_first", "reason", "description"}
RedundancyMembers ==
    [scope |-> Req("id"), level |-> Req("enum"), min_disjoint_paths |-> Req("u32"),
     service_classes |-> Opt("ids"), description |-> Opt("string")]
RedundancyWritten ==
    {"scope", "level", "min_disjoint_paths", "service_classes", "description"}
MaintenanceMembers ==
    [scope |-> Req("id"), upgrade_groups |-> Opt("strings"),
     max_concurrent_operations |-> OptOr("u32", Num(1)),
     drain_required |-> OptOr("bool", Bool(TRUE)),
     requires_redundancy_headroom |-> OptOr("bool", Bool(TRUE)),
     allowed_impact |-> Opt("strings"), description |-> Opt("string")]
MaintenanceWritten ==
    {"scope", "upgrade_groups", "max_concurrent_operations", "drain_required",
     "requires_redundancy_headroom", "allowed_impact", "description"}
IsolationMembers ==
    [tenant |-> Req("id"), exclusive_scopes |-> Opt("strings"),
     forbid_shared_links |-> OptOr("bool", Bool(TRUE)), description |-> Opt("string")]
IsolationWritten ==
    {"tenant", "exclusive_scopes", "forbid_shared_links", "description"}

(* A policy has the body its kind names; another body is unknown to it.    *)
PolicyMembers == [id |-> Req("id"), kind |-> Req("enum"), body |-> Req("object")]
PolicyWritten == {"id", "kind", "body"}
TenantMembers ==
    [id |-> Req("id"), display_name |-> Opt("string"), isolation_id |-> Opt("u32"),
     description |-> Opt("string")]
TenantWritten == {"id", "display_name", "isolation_id", "description"}
WorkloadMembers ==
    [id |-> Req("id"), tenant |-> Req("id"), service_class |-> Req("id"),
     placement |-> Opt("ids"), bandwidth_bps |-> Opt("u64"),
     replicas |-> OptOr("u32", Num(1)), redundancy_level |-> Opt("enum"),
     min_disjoint_domains |-> OptOr("u32", Num(1)), allowed_sites |-> Opt("ids"),
     description |-> Opt("string")]
WorkloadWritten ==
    {"id", "tenant", "service_class", "placement", "bandwidth_bps",
     "replicas", "redundancy_level", "min_disjoint_domains", "allowed_sites",
     "description"}
IntentMembers ==
    [id |-> Req("id"), subject |-> Req("identity"), property |-> Req("string"),
     desired |-> Req("any"), mode |-> Opt("enum"), priority |-> Opt("u32"),
     tenant |-> Opt("id"), description |-> Opt("string")]
IntentWritten ==
    {"id", "subject", "property", "desired", "mode", "priority", "tenant",
     "description"}

Members ==
    [schema |-> SchemaMembers, root |-> RootMembers, topology |-> TopologyMembers,
     provenance |-> ProvenanceMembers, parent |-> ParentMembers,
     fabric |-> FabricMembers, site |-> SiteMembers, pod |-> PodMembers,
     rack |-> RackMembers, device |-> DeviceMembers, port |-> PortMembers,
     link |-> LinkMembers, capability |-> CapabilityMembers,
     service_class |-> ServiceClassMembers, policy |-> PolicyMembers,
     routing |-> RoutingMembers, capacity |-> CapacityMembers,
     admin_state |-> AdminStateMembers, redundancy |-> RedundancyMembers,
     maintenance |-> MaintenanceMembers, isolation |-> IsolationMembers,
     tenant |-> TenantMembers, workload |-> WorkloadMembers, intent |-> IntentMembers]

Written ==
    [schema |-> SchemaWritten, root |-> RootWritten,
     topology |-> TopologyWritten, fabric |-> FabricWritten,
     site |-> SiteWritten, pod |-> PodWritten, rack |-> RackWritten,
     device |-> DeviceWritten, port |-> PortWritten, link |-> LinkWritten,
     capability |-> CapabilityWritten,
     service_class |-> ServiceClassWritten, policy |-> PolicyWritten,
     routing |-> RoutingWritten, capacity |-> CapacityWritten,
     admin_state |-> AdminStateWritten, redundancy |-> RedundancyWritten,
     maintenance |-> MaintenanceWritten, isolation |-> IsolationWritten,
     tenant |-> TenantWritten, workload |-> WorkloadWritten,
     intent |-> IntentWritten, provenance |-> ProvenanceWritten,
     parent |-> ParentWritten]

Section == DOMAIN Members

-----------------------------------------------------------------------------
(* The reader and the writer                                               *)

(* Mutant: a member no field is read from is passed over.                  *)
ParsesLoosely(sec, t) ==
    \A m \in DOMAIN Members[sec] :
        IF m \in DOMAIN t THEN Readable(Members[sec][m].type, t[m])
        ELSE ~ Members[sec][m].required

Parses(sec, t) ==
    /\ DOMAIN t \subseteq DOMAIN Members[sec]
    /\ \A m \in DOMAIN Members[sec] :
        IF m \in DOMAIN t THEN Readable(Members[sec][m].type, t[m])
        ELSE ~ Members[sec][m].required

Kept(sec) == {m \in DOMAIN Members[sec] : Members[sec][m].type # "note"}

Parsed(sec, t) ==
    [m \in Kept(sec) |->
        IF m \in DOMAIN t THEN Read(Members[sec][m].type, t[m])
        ELSE Members[sec][m].default]

Projected(sec, x) == [m \in Written[sec] |-> Write(Members[sec][m].type, x[m])]

-----------------------------------------------------------------------------
(* The migrations                                                          *)

Current == 3
Supported(version) == version[1] = 1 /\ version[2] \in 0 .. Current

With(t, m, v)  == [x \in DOMAIN t \cup {m} |-> IF x = m THEN v ELSE t[x]]
Without(t, m)  == [x \in DOMAIN t \ {m} |-> t[x]]

(* speed_from_json: a speed text, or a number of bits.                     *)
SpeedTextUnchecked(v) == v[2] <= MaxSpeed         \* mutant: no checked_mul
SpeedText(v) == v[2] <= MaxSpeed /\ v[2] * Unit[v[3]] <= MaxUint64
IsSpeed(v) == (Is("speed", v) /\ SpeedText(v)) \/ (Is("int", v) /\ v[2] >= 0)
Bits(v) == IF Is("speed", v) THEN Num((v[2] * Unit[v[3]]) % (MaxUint64 + 1)) ELSE v

(* 1.0 to 1.1: a legacy speed becomes a bit rate, over the top of one that *)
(* is there already; one of the two must be there.                         *)
LegacySpeed ==
    [port |-> [from |-> "speed", to |-> "speed_bps"],
     link |-> [from |-> "bandwidth", to |-> "capacity_bps"]]

Converts(t, r) ==
    /\ {r.from, r.to} \cap DOMAIN t # {}
    /\ r.from \in DOMAIN t => IsSpeed(t[r.from])

Converted(t, r) ==
    IF r.from \in DOMAIN t
    THEN With(Without(t, r.from), r.to, Signed(Bits(t[r.from]))) ELSE t

(* 1.1 to 1.2: what a maintenance policy leaves out is made explicit.      *)
Completed(t) ==
    [m \in DOMAIN t \cup {"requires_redundancy_headroom", "upgrade_groups"} |->
        IF m \in DOMAIN t THEN t[m]
        ELSE IF m = "upgrade_groups" THEN Array(<<>>) ELSE Bool(TRUE)]

(* 1.2 to 1.3: a member is renamed, unless the new name is taken.          *)
LegacyCount ==
    [device |-> [from |-> "port_count", to |-> "declared_port_count"],
     capability |-> [from |-> "ports", to |-> "port_count"]]

Renames(t, r) == ~ ({r.from, r.to} \subseteq DOMAIN t)
Renamed(t, r) ==
    IF r.from \in DOMAIN t THEN With(Without(t, r.from), r.to, t[r.from]) ELSE t

-----------------------------------------------------------------------------
VARIABLES
    section,    \* the section of the object that is followed
    declared,   \* the version its text declares
    given,      \* the tree as it was given
    stage,      \* how far it got
    minor,      \* the minor the tree has been upgraded to
    tree,       \* the tree after those migrations
    document,   \* the object the reader made of it
    record,     \* what the writer made of that
    reread      \* the object the reader makes of the record

vars == <<section, declared, given, stage, minor, tree, document, record,
          reread>>

Nothing == [m \in {} |-> Null]

(* What is tried: objects with every member or with the required ones      *)
(* only, one member of which, or one beside them, is something else or not *)
(* there; and a renamed member under both names.                           *)
Usual(type) ==
    CASE type \in {"u32", "u64"} -> Num(1)
      [] type = "bool" -> Bool(FALSE)
      [] type \in {"ids", "strings", "enums"} -> Array(<<Good>>)
      [] type = "items" -> Array(<<Object(<<>>)>>)
      [] type \in {"meta", "labels", "object", "part", "parent"} -> Object(<<Good>>)
      [] OTHER -> Good

Rules(sec) ==
    (IF sec \in DOMAIN LegacySpeed THEN {LegacySpeed[sec]} ELSE {})
        \cup IF sec \in DOMAIN LegacyCount THEN {LegacyCount[sec]} ELSE {}

Usually(sec, names) == [m \in names |-> Usual(Members[sec][m].type)]
Samples(sec) ==
    {Usually(sec, DOMAIN Members[sec]),
     Usually(sec, {m \in DOMAIN Members[sec] : Members[sec][m].required})}

Trees(sec) ==
    LET names == DOMAIN Members[sec] \cup {"stray"} \cup {r.from : r \in Rules(sec)}
    IN  UNION {   {Without(t, m) : m \in names}
             \cup {With(t, m, v) : m \in names, v \in Json}
             \cup {With(With(t, r.from, v), r.to, w) :
                       r \in Rules(sec), v \in Json, w \in Json}
             \cup {With(Without(t, r.to), r.from, v) : r \in Rules(sec), v \in Json}
              : t \in Samples(sec)}

Init ==
    /\ section \in Section
    /\ declared \in Versions
    /\ given \in Trees(section)
    /\ stage = "upgrade"
    /\ minor = declared[2]
    /\ tree = given
    /\ document = Nothing
    /\ record = Nothing
    /\ reread = Nothing

-----------------------------------------------------------------------------
Upgrading(n) == stage = "upgrade" /\ Supported(declared) /\ minor = n

RefuseVersion ==
    /\ stage = "upgrade"
    /\ ~ Supported(declared)
    /\ stage' = "refused"
    /\ UNCHANGED <<section, declared, given, minor, tree, document, record,
                   reread>>

MigrateTo11 ==
    /\ Upgrading(0)
    /\ LET old == section \in DOMAIN LegacySpeed IN
        \/ /\ old => Converts(tree, LegacySpeed[section])
           /\ tree' = IF old THEN Converted(tree, LegacySpeed[section]) ELSE tree
           /\ minor' = 1
           /\ UNCHANGED stage
        \/ /\ old /\ ~ Converts(tree, LegacySpeed[section])
           /\ stage' = "refused"
           /\ UNCHANGED <<tree, minor>>
    /\ UNCHANGED <<section, declared, given, document, record, reread>>

MigrateTo12 ==
    /\ Upgrading(1)
    /\ tree' = IF section = "maintenance" THEN Completed(tree) ELSE tree
    /\ minor' = 2
    /\ UNCHANGED <<section, declared, given, stage, document, record, reread>>

MigrateTo13 ==
    /\ Upgrading(2)
    /\ LET old == section \in DOMAIN LegacyCount IN
        \/ /\ old => Renames(tree, LegacyCount[section])
           /\ tree' = IF old THEN Renamed(tree, LegacyCount[section]) ELSE tree
           /\ minor' = 3
           /\ UNCHANGED stage
        \/ /\ old /\ ~ Renames(tree, LegacyCount[section])
           /\ stage' = "refused"
           /\ UNCHANGED <<tree, minor>>
    /\ UNCHANGED <<section, declared, given, document, record, reread>>

(* An upgraded schema says which version it was upgraded from.             *)
FinishUpgrade ==
    /\ Upgrading(Current)
    /\ tree' = IF section = "schema" /\ declared[2] # Current
               THEN With(tree, "upgraded_from", Good) ELSE tree
    /\ stage' = "parse"
    /\ UNCHANGED <<section, declared, given, minor, document, record, reread>>

(* parse_document, on the object that is followed.                         *)
Parse ==
    /\ stage = "parse"
    /\ \/ Parses(section, tree) /\ stage' = "accepted"
          /\ document' = Parsed(section, tree)
       \/ ~ Parses(section, tree) /\ stage' = "refused" /\ UNCHANGED document
    /\ UNCHANGED <<section, declared, given, minor, tree, record, reread>>

(* to_json, when a commit writes the document into its record.             *)
WriteRecord ==
    /\ stage = "accepted"
    /\ record' = Projected(section, document)
    /\ stage' = "recorded"
    /\ UNCHANGED <<section, declared, given, minor, tree, document, reread>>

(* from_json, when the record is loaded: it needs no upgrade.              *)
LoadRecord ==
    /\ stage = "recorded"
    /\ \/ Parses(section, record) /\ stage' = "loaded"
          /\ reread' = Parsed(section, record)
       \/ ~ Parses(section, record) /\ stage' = "unreadable" /\ UNCHANGED reread
    /\ UNCHANGED <<section, declared, given, minor, tree, document, record>>

Next ==
    \/ RefuseVersion
    \/ MigrateTo11
    \/ MigrateTo12
    \/ MigrateTo13
    \/ FinishUpgrade
    \/ Parse
    \/ WriteRecord
    \/ LoadRecord

Spec == Init /\ [][Next]_vars

-----------------------------------------------------------------------------
(* Properties                                                              *)

Accepted == stage \in {"accepted", "recorded", "loaded", "unreadable"}

(* The renames a text of the declared minor may still use.                 *)
InForce ==
    {r \in Rules(section) :
        declared[2] <= IF section \in DOMAIN LegacySpeed THEN 0 ELSE 2}

Contradictory == \E r \in InForce : {r.from, r.to} \subseteq DOMAIN given

(* What a member says, whatever name the declared minor has for it: the    *)
(* legacy value in exact arithmetic, or the value itself, or the default.  *)
Meaning(m) ==
    LET type == Members[section][m].type
        old  == {r \in InForce : r.to = m /\ r.from \in DOMAIN given}
    IN  IF old # {}
        THEN LET v == given[(CHOOSE r \in old : TRUE).from]
             IN  IF Is("speed", v) THEN Num(v[2] * Unit[v[3]]) ELSE Read(type, v)
        ELSE IF m \in DOMAIN given THEN Read(type, given[m])
        ELSE Members[section][m].default

(* An upgrade preserves the content: a text that is accepted is read as    *)
(* what it says under the minor it declares, also where a speed text is    *)
(* large, a member was renamed or a default was written out.               *)
FaithfulUpgrade ==
    Accepted /\ ~ Contradictory =>
        \A m \in Kept(section) : document[m] = Meaning(m)

(* Nothing in an accepted text is passed over: each member is one the      *)
(* declared minor defines or one of the current schema.                    *)
NothingIgnored ==
    Accepted =>
        DOMAIN given \subseteq DOMAIN Members[section] \cup {r.from : r \in InForce}

(* A list of identities one of which is empty: the reader takes null and   *)
(* the empty text for one.                                                 *)
Blank(type, x) == type = "ids" /\ \E i \in DOMAIN x[2] : x[2][i] = Empty
HasBlank == \E m \in Kept(section) : Blank(Members[section][m].type, document[m])

(* A committed document can be loaded again and is the same: what the      *)
(* writer writes of an accepted document the strict reader takes, although *)
(* the two treat null, the default and the sign of a number differently.   *)
(* What cannot be loaded is a document with an empty identity in a list,   *)
(* always, and nothing else.  (tests/test_model.cpp expects it of all:     *)
(* json_round_trip_preserves_both_digests.)                                *)
RoundTrip ==
    /\ stage = "unreadable" => HasBlank
    /\ stage = "loaded" => reread = document /\ ~ HasBlank

=============================================================================
