------------------------ MODULE IntentSchema_proofs ------------------------
(***************************************************************************)
(* Proofs about IntentSchema, for every supported version and every tree   *)
(* the values of Json make.                                                *)
(*                                                                         *)
(* The first part is about the reader and the writer: type by type, a      *)
(* value that was read is written as something the reader takes for the    *)
(* same value, but for a list with an empty identity, which is written as  *)
(* something it refuses; and section by section, the table is right, that  *)
(* is, the writer writes exactly the members the reader keeps and every    *)
(* default can be read back.  The second part is the invariant: the tree   *)
(* of a stage is the given one, upgraded by the migrations between the     *)
(* minor it declares and the minor it has reached.                         *)
(***************************************************************************)
EXTENDS IntentSchema, TLAPS

-----------------------------------------------------------------------------
(* The reader and the writer, type by type                                 *)

Types ==
    {"string", "note", "bool", "u32", "u64", "id", "revision", "identity",
     "enum", "stamp", "ids", "strings", "enums", "meta", "labels", "items",
     "object", "part", "parent", "any"}

LEMMA Bounds ==
    /\ MaxInt64 \in Nat /\ MaxUint32 \in Nat /\ MaxMembers \in Nat /\ MaxSpeed \in Nat
    /\ 0 < MaxUint32 /\ MaxUint32 <= MaxInt64
BY SchemaAssumption

(* The value of a field survives being written and read again.             *)
Survives(type, x) ==
    Readable(type, Write(type, x)) /\ Read(type, Write(type, x)) = x

(* What a reader makes of a list of identities.                            *)
LEMMA IdentitiesRead ==
    ASSUME NEW v, Readable("ids", v)
    PROVE  \E f : /\ Read("ids", v) = Array(f)
                  /\ f = [i \in DOMAIN f |-> f[i]]
                  /\ DOMAIN f \subseteq 1 .. MaxMembers
                  /\ \A i \in DOMAIN f : f[i] \in {Empty, Good}
<1> DEFINE f == [i \in DOMAIN v[2] |-> Identified(v[2][i])]
<1>1. /\ DOMAIN v[2] \subseteq 1 .. MaxMembers
      /\ \A i \in DOMAIN v[2] : ReadsIdentity(v[2][i])
    BY DEF Readable, ReadsIdentities
<1>2. \A i \in DOMAIN f : f[i] \in {Empty, Good}
    BY <1>1 DEF ReadsIdentity, Identified, Null, Empty, Good, Text
<1>3. Read("ids", v) = Array(f)
    BY DEF Read
<1>4. DOMAIN f = DOMAIN v[2] /\ f = [i \in DOMAIN f |-> f[i]]
    OBVIOUS
<1> HIDE DEF f
<1> QED BY <1>1, <1>2, <1>3, <1>4

(* Whatever a reader made of a value survives, unless it is a list with an *)
(* empty identity (the note upgraded_from is the one member that is not    *)
(* kept).                                                                  *)
LEMMA ReadSurvives ==
    ASSUME NEW type \in Types \ {"note"}, NEW v, Readable(type, v),
           ~ Blank(type, Read(type, v))
    PROVE  Survives(type, Read(type, v))
<1>1. CASE type = "string"
    BY <1>1 DEF Survives, Readable, Read, Write, ReadsString, Fine, Is,
                Identified, Null, Empty, Text
<1>2. CASE type = "bool"
    BY <1>2 DEF Survives, Readable, Read, Write
<1>3. CASE type = "u32"
    <2>1. Write(type, v) = v /\ Read(type, v) = v
        BY <1>3 DEF Read, Write
    <2> QED BY <2>1 DEF Survives
<1>4. CASE type = "u64"
    BY <1>4, Bounds
    DEF Survives, Readable, Read, Write, ReadsUint64, Signed
<1>5. CASE type = "id"
    BY <1>5 DEF Survives, Readable, Read, Write, ReadsIdentity, Identified,
                Null, Empty, Good, Text
<1>6. CASE type = "revision"
    BY <1>6 DEF Survives, Readable, Read, Write, ReadsIdentity, Identified,
                Null, Empty, Good, Text
<1>7. CASE type = "identity"
    BY <1>7 DEF Survives, Readable, Read, Write
<1>8. CASE type = "enum"
    BY <1>8 DEF Survives, Readable, Read, Write
<1>9. CASE type = "stamp"
    BY <1>9 DEF Survives, Readable, Read, Write, ReadsStamp, Null, Empty, Good,
                Text
<1>10. CASE type = "ids"
    <2>1. PICK f : /\ Read("ids", v) = Array(f)
                   /\ f = [i \in DOMAIN f |-> f[i]]
                   /\ DOMAIN f \subseteq 1 .. MaxMembers
                   /\ \A i \in DOMAIN f : f[i] \in {Empty, Good}
        BY <1>10, IdentitiesRead
    <2>2. Array(f)[1] = "array" /\ Array(f)[2] = f
        BY DEF Array
    <2>3. \A i \in DOMAIN f : f[i] = Good
        BY <1>10, <2>1, <2>2 DEF Blank
    <2>4. Prefixed(Good) = Good /\ Identified(Good) = Good /\ ReadsIdentity(Good)
        BY DEF Prefixed, ReadsIdentity, Identified, Null, Empty, Good, Text
    <2>5. /\ [i \in DOMAIN f |-> Prefixed(f[i])] = f
          /\ [i \in DOMAIN f |-> Identified(f[i])] = f
        BY <2>1, <2>3, <2>4
    <2>6. Write(type, Array(f)) = Array(f)
        BY <1>10, <2>2, <2>5 DEF Write, PrefixedAll
    <2>7. Readable(type, Array(f))
        BY <1>10, <2>1, <2>2, <2>3, <2>4 DEF Readable, ReadsIdentities, Is
    <2>8. Read(type, Array(f)) = Array(f)
        BY <1>10, <2>2, <2>5 DEF Read
    <2> QED BY <1>10, <2>1, <2>6, <2>7, <2>8 DEF Survives
<1>11. CASE type = "strings"
    BY <1>11 DEF Survives, Readable, Read, Write
<1>12. CASE type = "enums"
    BY <1>12 DEF Survives, Readable, Read, Write
<1>13. CASE type = "meta"
    BY <1>13 DEF Survives, Readable, Read, Write
<1>14. CASE type = "labels"
    <2>1. ReadsMeta(Object(<<>>)) /\ Object(<<>>) # Null
        BY DEF ReadsMeta, Object, Null, Is
    <2> QED BY <1>14, <2>1 DEF Survives, Readable, Read, Write
<1>15. CASE type = "items"
    BY <1>15 DEF Survives, Readable, Read, Write
<1>16. CASE type = "object"
    BY <1>16 DEF Survives, Readable, Read, Write
<1>17. CASE type = "part"
    <2>1. Is("object", Object(<<>>)) /\ Object(<<>>) # Null
        BY DEF Object, Null, Is
    <2> QED BY <1>17, <2>1 DEF Survives, Readable, Read, Write
<1>18. CASE type = "parent"
    BY <1>18 DEF Survives, Readable, Read, Write
<1>19. CASE type = "any"
    BY <1>19 DEF Survives, Readable, Read, Write
<1> QED
    BY <1>1, <1>2, <1>3, <1>4, <1>5, <1>6, <1>7, <1>8, <1>9, <1>10, <1>11,
       <1>12, <1>13, <1>14, <1>15, <1>16, <1>17, <1>18, <1>19 DEF Types

(* Such a list is written as something the reader refuses.                 *)
LEMMA BlankIsLost ==
    ASSUME NEW x, Blank("ids", x)
    PROVE  ~ Readable("ids", Write("ids", x))
<1> DEFINE g == [j \in DOMAIN x[2] |-> Prefixed(x[2][j])]
<1>1. PICK i \in DOMAIN x[2] : x[2][i] = Empty
    BY DEF Blank
<1>2. Write("ids", x) = Array(g) /\ Array(g)[2] = g
    BY DEF Write, PrefixedAll, Array
<1>3. i \in DOMAIN g /\ g[i] = Text("bad")
    BY <1>1 DEF Prefixed
<1> HIDE DEF g
<1>4. ~ ReadsIdentity(g[i])
    BY <1>3 DEF ReadsIdentity, Null, Empty, Good, Text
<1>5. ~ ReadsIdentities(Array(g))
    BY <1>2, <1>3, <1>4 DEF ReadsIdentities
<1> QED BY <1>2, <1>5 DEF Readable

(* So does the default of a type, but for an identity, which every table   *)
(* requires.                                                               *)
LEMMA DefaultSurvives ==
    ASSUME NEW type \in Types \ {"note", "identity"}
    PROVE  Survives(type, Default(type))
<1>1. CASE type \in {"string", "id", "revision"}
    BY <1>1 DEF Survives, Readable, Read, Write, Default, ReadsString,
                ReadsIdentity, Fine, Is, Identified, Null, Empty, Good, Text
<1>2. CASE type = "bool"
    <2>1. ReadsBool(Bool(FALSE))
        BY DEF ReadsBool, Bool, Is
    <2> QED BY <1>2, <2>1 DEF Survives, Readable, Read, Write, Default
<1>7. CASE type = "enum"
    <2>1. ReadsEnumerator(Text("default"))
        BY DEF ReadsEnumerator
    <2> QED BY <1>7, <2>1 DEF Survives, Readable, Read, Write, Default
<1>8. CASE type = "stamp"
    <2>1. ReadsStamp(Text("zero")) /\ Text("zero") \notin {Null, Empty}
        BY DEF ReadsStamp, Null, Empty, Text
    <2> QED BY <1>8, <2>1 DEF Survives, Readable, Read, Write, Default
<1>3. CASE type \in {"u32", "u64"}
    <2>1. Num(0)[1] = "int" /\ Num(0)[2] = 0 /\ Signed(Num(0)) = Num(0)
        BY Bounds DEF Num, Signed
    <2>2. ReadsUint32(Num(0)) /\ ReadsUint64(Num(0))
        BY <2>1, Bounds DEF ReadsUint32, ReadsUint64, Is
    <2>3. Default(type) = Num(0)
        BY <1>3 DEF Default
    <2>4. Write(type, Num(0)) = Num(0) /\ Read(type, Num(0)) = Num(0)
        BY <1>3, <2>1 DEF Write, Read
    <2>5. Readable(type, Num(0))
        BY <1>3, <2>2 DEF Readable
    <2> QED BY <2>3, <2>4, <2>5 DEF Survives
<1>4. CASE type \in {"ids", "strings", "enums", "items"}
    <2>1. /\ Array(<<>>)[1] = "array" /\ Array(<<>>)[2] = <<>>
          /\ DOMAIN <<>> = {}
        BY DEF Array
    <2>2. [i \in DOMAIN <<>> |-> Identified(<<>>[i])] = <<>>
        BY <2>1
    <2>3. Readable(type, Array(<<>>))
        BY <1>4, <2>1 DEF Readable, ReadsIdentities, ReadsStrings,
                          ReadsEnumerators, ReadsItems, Is
    <2>4. Read(type, Array(<<>>)) = Array(<<>>)
        BY <1>4, <2>1, <2>2 DEF Read
    <2>5. [i \in DOMAIN <<>> |-> Prefixed(<<>>[i])] = <<>>
        BY <2>1
    <2>6. PrefixedAll(Array(<<>>)) = Array(<<>>)
        BY <2>1, <2>5 DEF PrefixedAll
    <2>7. Write(type, Array(<<>>)) = Array(<<>>)
        BY <1>4, <2>6 DEF Write
    <2>8. Default(type) = Array(<<>>)
        BY <1>4 DEF Default
    <2> QED BY <2>3, <2>4, <2>7, <2>8 DEF Survives
<1>5. CASE type \in {"meta", "labels", "object", "part"}
    <2>1. ReadsMeta(Object(<<>>)) /\ Is("object", Object(<<>>)) /\ Object(<<>>) # Null
        BY DEF ReadsMeta, Object, Null, Is
    <2> QED BY <1>5, <2>1 DEF Survives, Readable, Read, Write, Default
<1>6. CASE type \in {"parent", "any"}
    BY <1>6 DEF Survives, Readable, Read, Write, Default
<1> QED BY <1>1, <1>2, <1>3, <1>4, <1>5, <1>6, <1>7, <1>8 DEF Types

-----------------------------------------------------------------------------
(* The tables                                                              *)

(* An entry of a table: of a member that may be missing and is kept, the   *)
(* default survives; one that is not kept may be missing.                  *)
GoodEntry(entry) ==
    /\ entry.type \in Types
    /\ entry.type = "note" => entry.required = FALSE
    /\ entry.required \/ entry.type = "note" \/ Survives(entry.type, entry.default)

LEMMA RequiredEntry ==
    ASSUME NEW type \in Types \ {"note"}
    PROVE  GoodEntry(Req(type)) /\ Req(type).type = type
BY DEF GoodEntry, Req

LEMMA OptionalEntry ==
    ASSUME NEW type \in Types \ {"identity"}
    PROVE  GoodEntry(Opt(type)) /\ Opt(type).type = type
BY DefaultSurvives DEF GoodEntry, Opt

(* The three entries whose default is not that of their type; for the      *)
(* number one, a uint32_t has to hold one.                                 *)
LEMMA OwnDefault ==
    /\ GoodEntry(OptOr("u32", Num(1))) /\ OptOr("u32", Num(1)).type = "u32"
    /\ GoodEntry(OptOr("bool", Bool(TRUE))) /\ OptOr("bool", Bool(TRUE)).type = "bool"
<1>1. Survives("u32", Num(1))
    <2>1. Num(1)[1] = "int" /\ Num(1)[2] = 1
        BY DEF Num
    <2>2. 1 \in 0 .. MaxUint32
        BY Bounds
    <2>3. ReadsUint32(Num(1))
        BY <2>1, <2>2 DEF ReadsUint32, Is
    <2> QED BY <2>3 DEF Survives, Readable, Read, Write
<1>2. Survives("bool", Bool(TRUE))
    <2>1. ReadsBool(Bool(TRUE))
        BY DEF ReadsBool, Is, Bool
    <2> QED BY <2>1 DEF Survives, Readable, Read, Write
<1> QED BY <1>1, <1>2 DEF GoodEntry, OptOr, Types

(* A table and what the writer writes of its objects.                      *)
Tabulated(table, written) ==
    /\ written = {m \in DOMAIN table : table[m].type # "note"}
    /\ \A m \in DOMAIN table : GoodEntry(table[m])

(* Every table is right: of each section the writer writes the members     *)
(* the reader keeps, no more and no less, and defaults can be read back.   *)
LEMMA Tables ==
    ASSUME NEW sec \in Section
    PROVE  Tabulated(Members[sec], Written[sec])
<1>1. CASE sec = "schema"
    <2>1. Members[sec] = SchemaMembers /\ Written[sec] = SchemaWritten
        BY <1>1 DEF Members, Written
    <2>2. Tabulated(SchemaMembers, SchemaWritten)
        BY RequiredEntry, OptionalEntry, OwnDefault
        DEF Tabulated, SchemaMembers, SchemaWritten, Types
    <2> QED BY <2>1, <2>2
<1>2. CASE sec = "root"
    <2>1. Members[sec] = RootMembers /\ Written[sec] = RootWritten
        BY <1>2 DEF Members, Written
    <2>2. Tabulated(RootMembers, RootWritten)
        BY RequiredEntry, OptionalEntry, OwnDefault
        DEF Tabulated, RootMembers, RootWritten, Types
    <2> QED BY <2>1, <2>2
<1>3. CASE sec = "topology"
    <2>1. Members[sec] = TopologyMembers /\ Written[sec] = TopologyWritten
        BY <1>3 DEF Members, Written
    <2>2. Tabulated(TopologyMembers, TopologyWritten)
        BY RequiredEntry, OptionalEntry, OwnDefault
        DEF Tabulated, TopologyMembers, TopologyWritten, Types
    <2> QED BY <2>1, <2>2
<1>4. CASE sec = "provenance"
    <2>1. Members[sec] = ProvenanceMembers /\ Written[sec] = ProvenanceWritten
        BY <1>4 DEF Members, Written
    <2>2. Tabulated(ProvenanceMembers, ProvenanceWritten)
        BY RequiredEntry, OptionalEntry, OwnDefault
        DEF Tabulated, ProvenanceMembers, ProvenanceWritten, Types
    <2> QED BY <2>1, <2>2
<1>5. CASE sec = "parent"
    <2>1. Members[sec] = ParentMembers /\ Written[sec] = ParentWritten
        BY <1>5 DEF Members, Written
    <2>2. Tabulated(ParentMembers, ParentWritten)
        BY RequiredEntry, OptionalEntry, OwnDefault
        DEF Tabulated, ParentMembers, ParentWritten, Types
    <2> QED BY <2>1, <2>2
<1>6. CASE sec = "fabric"
    <2>1. Members[sec] = FabricMembers /\ Written[sec] = FabricWritten
        BY <1>6 DEF Members, Written
    <2>2. Tabulated(FabricMembers, FabricWritten)
        BY RequiredEntry, OptionalEntry, OwnDefault
        DEF Tabulated, FabricMembers, FabricWritten, Types
    <2> QED BY <2>1, <2>2
<1>7. CASE sec = "site"
    <2>1. Members[sec] = SiteMembers /\ Written[sec] = SiteWritten
        BY <1>7 DEF Members, Written
    <2>2. Tabulated(SiteMembers, SiteWritten)
        BY RequiredEntry, OptionalEntry, OwnDefault
        DEF Tabulated, SiteMembers, SiteWritten, Types
    <2> QED BY <2>1, <2>2
<1>8. CASE sec = "pod"
    <2>1. Members[sec] = PodMembers /\ Written[sec] = PodWritten
        BY <1>8 DEF Members, Written
    <2>2. Tabulated(PodMembers, PodWritten)
        BY RequiredEntry, OptionalEntry, OwnDefault
        DEF Tabulated, PodMembers, PodWritten, Types
    <2> QED BY <2>1, <2>2
<1>9. CASE sec = "rack"
    <2>1. Members[sec] = RackMembers /\ Written[sec] = RackWritten
        BY <1>9 DEF Members, Written
    <2>2. Tabulated(RackMembers, RackWritten)
        BY RequiredEntry, OptionalEntry, OwnDefault
        DEF Tabulated, RackMembers, RackWritten, Types
    <2> QED BY <2>1, <2>2
<1>10. CASE sec = "device"
    <2>1. Members[sec] = DeviceMembers /\ Written[sec] = DeviceWritten
        BY <1>10 DEF Members, Written
    <2>2. Tabulated(DeviceMembers, DeviceWritten)
        BY RequiredEntry, OptionalEntry, OwnDefault
        DEF Tabulated, DeviceMembers, DeviceWritten, Types
    <2> QED BY <2>1, <2>2
<1>11. CASE sec = "port"
    <2>1. Members[sec] = PortMembers /\ Written[sec] = PortWritten
        BY <1>11 DEF Members, Written
    <2>2. Tabulated(PortMembers, PortWritten)
        BY RequiredEntry, OptionalEntry, OwnDefault
        DEF Tabulated, PortMembers, PortWritten, Types
    <2> QED BY <2>1, <2>2
<1>12. CASE sec = "link"
    <2>1. Members[sec] = LinkMembers /\ Written[sec] = LinkWritten
        BY <1>12 DEF Members, Written
    <2>2. Tabulated(LinkMembers, LinkWritten)
        BY RequiredEntry, OptionalEntry, OwnDefault
        DEF Tabulated, LinkMembers, LinkWritten, Types
    <2> QED BY <2>1, <2>2
<1>13. CASE sec = "capability"
    <2>1. Members[sec] = CapabilityMembers /\ Written[sec] = CapabilityWritten
        BY <1>13 DEF Members, Written
    <2>2. Tabulated(CapabilityMembers, CapabilityWritten)
        BY RequiredEntry, OptionalEntry, OwnDefault
        DEF Tabulated, CapabilityMembers, CapabilityWritten, Types
    <2> QED BY <2>1, <2>2
<1>14. CASE sec = "service_class"
    <2>1. Members[sec] = ServiceClassMembers /\ Written[sec] = ServiceClassWritten
        BY <1>14 DEF Members, Written
    <2>2. Tabulated(ServiceClassMembers, ServiceClassWritten)
        BY RequiredEntry, OptionalEntry, OwnDefault
        DEF Tabulated, ServiceClassMembers, ServiceClassWritten, Types
    <2> QED BY <2>1, <2>2
<1>15. CASE sec = "policy"
    <2>1. Members[sec] = PolicyMembers /\ Written[sec] = PolicyWritten
        BY <1>15 DEF Members, Written
    <2>2. Tabulated(PolicyMembers, PolicyWritten)
        BY RequiredEntry, OptionalEntry, OwnDefault
        DEF Tabulated, PolicyMembers, PolicyWritten, Types
    <2> QED BY <2>1, <2>2
<1>16. CASE sec = "routing"
    <2>1. Members[sec] = RoutingMembers /\ Written[sec] = RoutingWritten
        BY <1>16 DEF Members, Written
    <2>2. Tabulated(RoutingMembers, RoutingWritten)
        BY RequiredEntry, OptionalEntry, OwnDefault
        DEF Tabulated, RoutingMembers, RoutingWritten, Types
    <2> QED BY <2>1, <2>2
<1>17. CASE sec = "capacity"
    <2>1. Members[sec] = CapacityMembers /\ Written[sec] = CapacityWritten
        BY <1>17 DEF Members, Written
    <2>2. Tabulated(CapacityMembers, CapacityWritten)
        BY RequiredEntry, OptionalEntry, OwnDefault
        DEF Tabulated, CapacityMembers, CapacityWritten, Types
    <2> QED BY <2>1, <2>2
<1>18. CASE sec = "admin_state"
    <2>1. Members[sec] = AdminStateMembers /\ Written[sec] = AdminStateWritten
        BY <1>18 DEF Members, Written
    <2>2. Tabulated(AdminStateMembers, AdminStateWritten)
        BY RequiredEntry, OptionalEntry, OwnDefault
        DEF Tabulated, AdminStateMembers, AdminStateWritten, Types
    <2> QED BY <2>1, <2>2
<1>19. CASE sec = "redundancy"
    <2>1. Members[sec] = RedundancyMembers /\ Written[sec] = RedundancyWritten
        BY <1>19 DEF Members, Written
    <2>2. Tabulated(RedundancyMembers, RedundancyWritten)
        BY RequiredEntry, OptionalEntry, OwnDefault
        DEF Tabulated, RedundancyMembers, RedundancyWritten, Types
    <2> QED BY <2>1, <2>2
<1>20. CASE sec = "maintenance"
    <2>1. Members[sec] = MaintenanceMembers /\ Written[sec] = MaintenanceWritten
        BY <1>20 DEF Members, Written
    <2> DEFINE yes == OptOr("bool", Bool(TRUE))
    <2> DEFINE one == OptOr("u32", Num(1))
    <2>2. /\ GoodEntry(yes) /\ yes.type = "bool"
          /\ GoodEntry(one) /\ one.type = "u32"
        BY OwnDefault
    <2>3. MaintenanceMembers =
              [scope |-> Req("id"), upgrade_groups |-> Opt("strings"),
              max_concurrent_operations |-> one,
              drain_required |-> yes,
              requires_redundancy_headroom |-> yes,
              allowed_impact |-> Opt("strings"), description |-> Opt("string")]
        BY DEF MaintenanceMembers
    <2> HIDE DEF yes, one
    <2>4. Tabulated(MaintenanceMembers, MaintenanceWritten)
        BY <2>2, <2>3, RequiredEntry, OptionalEntry
        DEF Tabulated, MaintenanceWritten, Types
    <2> QED BY <2>1, <2>4
<1>21. CASE sec = "isolation"
    <2>1. Members[sec] = IsolationMembers /\ Written[sec] = IsolationWritten
        BY <1>21 DEF Members, Written
    <2> DEFINE yes == OptOr("bool", Bool(TRUE))
    <2> DEFINE one == OptOr("u32", Num(1))
    <2>2. /\ GoodEntry(yes) /\ yes.type = "bool"
          /\ GoodEntry(one) /\ one.type = "u32"
        BY OwnDefault
    <2>3. IsolationMembers =
              [tenant |-> Req("id"), exclusive_scopes |-> Opt("strings"),
              forbid_shared_links |-> yes, description |-> Opt("string")]
        BY DEF IsolationMembers
    <2> HIDE DEF yes, one
    <2>4. Tabulated(IsolationMembers, IsolationWritten)
        BY <2>2, <2>3, RequiredEntry, OptionalEntry
        DEF Tabulated, IsolationWritten, Types
    <2> QED BY <2>1, <2>4
<1>22. CASE sec = "tenant"
    <2>1. Members[sec] = TenantMembers /\ Written[sec] = TenantWritten
        BY <1>22 DEF Members, Written
    <2>2. Tabulated(TenantMembers, TenantWritten)
        BY RequiredEntry, OptionalEntry, OwnDefault
        DEF Tabulated, TenantMembers, TenantWritten, Types
    <2> QED BY <2>1, <2>2
<1>23. CASE sec = "workload"
    <2>1. Members[sec] = WorkloadMembers /\ Written[sec] = WorkloadWritten
        BY <1>23 DEF Members, Written
    <2>2. Tabulated(WorkloadMembers, WorkloadWritten)
        BY RequiredEntry, OptionalEntry, OwnDefault
        DEF Tabulated, WorkloadMembers, WorkloadWritten, Types
    <2> QED BY <2>1, <2>2
<1>24. CASE sec = "intent"
    <2>1. Members[sec] = IntentMembers /\ Written[sec] = IntentWritten
        BY <1>24 DEF Members, Written
    <2>2. Tabulated(IntentMembers, IntentWritten)
        BY RequiredEntry, OptionalEntry, OwnDefault
        DEF Tabulated, IntentMembers, IntentWritten, Types
    <2> QED BY <2>1, <2>2
<1> QED
    BY <1>1, <1>2, <1>3, <1>4, <1>5, <1>6, <1>7, <1>8, <1>9, <1>10, <1>11, <1>12,
       <1>13, <1>14, <1>15, <1>16, <1>17, <1>18, <1>19, <1>20, <1>21, <1>22, <1>23, <1>24 DEF Section, Members

-----------------------------------------------------------------------------
(* The whole object                                                        *)

(* Whatever object the reader made of a tree, the writer writes something  *)
(* that it makes the same object of, if no list has an empty identity ...  *)
BlankIn(sec, x) == \E m \in Kept(sec) : Blank(Members[sec][m].type, x[m])

LEMMA ObjectSurvives ==
    ASSUME NEW sec \in Section, NEW t, Parses(sec, t), ~ BlankIn(sec, Parsed(sec, t))
    PROVE  /\ Parses(sec, Projected(sec, Parsed(sec, t)))
           /\ Parsed(sec, Projected(sec, Parsed(sec, t))) = Parsed(sec, t)
<1> DEFINE x == Parsed(sec, t)
<1> DEFINE r == Projected(sec, x)
<1>1. Written[sec] = Kept(sec)
    BY Tables DEF Tabulated, Kept
<1>2. \A m \in DOMAIN Members[sec] :
        /\ GoodEntry(Members[sec][m])
        /\ m \in DOMAIN t => Readable(Members[sec][m].type, t[m])
        /\ m \notin DOMAIN t => ~ Members[sec][m].required
    BY Tables DEF Tabulated, Parses
<1>3. ASSUME NEW m \in Kept(sec)
      PROVE  Survives(Members[sec][m].type, x[m])
    <2>1. /\ m \in DOMAIN Members[sec]
          /\ Members[sec][m].type \in Types \ {"note"}
        BY <1>2 DEF Kept, GoodEntry
    <2>2. x[m] = IF m \in DOMAIN t THEN Read(Members[sec][m].type, t[m])
                 ELSE Members[sec][m].default
        BY DEF Parsed
    <2>3. CASE m \in DOMAIN t
        <3>1. ~ Blank(Members[sec][m].type, x[m])
            BY DEF BlankIn
        <3> HIDE DEF x
        <3> QED BY <1>2, <2>1, <2>2, <2>3, <3>1, ReadSurvives
    <2>4. CASE m \notin DOMAIN t
        BY <1>2, <2>1, <2>2, <2>4 DEF GoodEntry
    <2> QED BY <2>3, <2>4
<1>4. /\ DOMAIN r = Kept(sec)
      /\ \A m \in Kept(sec) : r[m] = Write(Members[sec][m].type, x[m])
    BY <1>1 DEF Projected
<1>5. x = [m \in Kept(sec) |-> x[m]]
    BY DEF Parsed
<1> HIDE DEF x, r
<1>6. Parses(sec, r)
    <2>1. DOMAIN r \subseteq DOMAIN Members[sec]
        BY <1>4 DEF Kept
    <2>2. ASSUME NEW m \in DOMAIN Members[sec], m \in DOMAIN r
          PROVE  Readable(Members[sec][m].type, r[m])
        BY <1>3, <1>4, <2>2 DEF Survives
    <2>3. ASSUME NEW m \in DOMAIN Members[sec], m \notin DOMAIN r
          PROVE  ~ Members[sec][m].required
        BY <1>2, <1>4, <2>3 DEF Kept, GoodEntry
    <2> QED BY <2>1, <2>2, <2>3 DEF Parses
<1>7. Parsed(sec, r) = x
    <2>1. ASSUME NEW m \in Kept(sec)
          PROVE  (IF m \in DOMAIN r THEN Read(Members[sec][m].type, r[m])
                  ELSE Members[sec][m].default) = x[m]
        BY <1>3, <1>4 DEF Survives
    <2>2. Parsed(sec, r) = [m \in Kept(sec) |-> x[m]]
        BY <2>1 DEF Parsed
    <2> QED BY <1>5, <2>2
<1> QED BY <1>6, <1>7 DEF x, r

(* ... and something that it refuses, if one has.                          *)
LEMMA ObjectIsLost ==
    ASSUME NEW sec \in Section, NEW t, Parses(sec, t), BlankIn(sec, Parsed(sec, t))
    PROVE  ~ Parses(sec, Projected(sec, Parsed(sec, t)))
<1> DEFINE x == Parsed(sec, t)
<1> DEFINE r == Projected(sec, x)
<1>1. PICK m \in Kept(sec) : Members[sec][m].type = "ids" /\ Blank("ids", x[m])
    BY DEF BlankIn, Blank
<1>2. m \in DOMAIN Members[sec] /\ m \in Written[sec]
    BY Tables DEF Tabulated, Kept
<1>3. r[m] = Write("ids", x[m]) /\ m \in DOMAIN r
    BY <1>1, <1>2 DEF Projected
<1>4. ~ Readable("ids", r[m])
    BY <1>1, <1>3, BlankIsLost
<1> HIDE DEF r
<1> QED BY <1>1, <1>2, <1>3, <1>4 DEF Parses, r

-----------------------------------------------------------------------------
(* The migrations                                                          *)

(* What the migrations between two minors make of a tree, and what they    *)
(* ask of it.  Each section is the business of one migration at most.      *)
Migrated(sec, from, to, t) ==
    IF sec \in DOMAIN LegacySpeed /\ from = 0 /\ 1 <= to
    THEN Converted(t, LegacySpeed[sec])
    ELSE IF sec = "maintenance" /\ from <= 1 /\ 2 <= to THEN Completed(t)
    ELSE IF sec \in DOMAIN LegacyCount /\ from <= 2 /\ 3 <= to
    THEN Renamed(t, LegacyCount[sec]) ELSE t

Migrates(sec, from, to, t) ==
    /\ sec \in DOMAIN LegacySpeed /\ from = 0 /\ 1 <= to =>
        Converts(t, LegacySpeed[sec])
    /\ sec \in DOMAIN LegacyCount /\ from <= 2 /\ 3 <= to =>
        Renames(t, LegacyCount[sec])

LEMMA LegacySections ==
    /\ DOMAIN LegacySpeed = {"port", "link"}
    /\ DOMAIN LegacyCount = {"device", "capability"}
BY DEF LegacySpeed, LegacyCount

(* Nothing to do between a minor and itself.                               *)
LEMMA MigratesNothing ==
    ASSUME NEW sec, NEW n \in 0 .. 3, NEW t
    PROVE  Migrated(sec, n, n, t) = t /\ Migrates(sec, n, n, t)
BY DEF Migrated, Migrates

(* A legacy name is not a member of the current schema; the new one is.    *)
LEMMA SpeedRule ==
    ASSUME NEW sec \in DOMAIN LegacySpeed
    PROVE  /\ LegacySpeed[sec].from # LegacySpeed[sec].to
           /\ LegacySpeed[sec].from \notin DOMAIN Members[sec]
           /\ LegacySpeed[sec].to \in DOMAIN Members[sec]
           /\ Members[sec][LegacySpeed[sec].to].type = "u64"
           /\ Rules(sec) = {LegacySpeed[sec]}
<1>1. Rules(sec) = {LegacySpeed[sec]}
    BY LegacySections DEF Rules
<1>2. CASE sec = "port"
    BY <1>1, <1>2 DEF LegacySpeed, Members, PortMembers, Opt, Req
<1>3. CASE sec = "link"
    BY <1>1, <1>3 DEF LegacySpeed, Members, LinkMembers, Opt, Req
<1> QED BY <1>2, <1>3, LegacySections

LEMMA CountRule ==
    ASSUME NEW sec \in DOMAIN LegacyCount
    PROVE  /\ LegacyCount[sec].from # LegacyCount[sec].to
           /\ LegacyCount[sec].from \notin DOMAIN Members[sec]
           /\ LegacyCount[sec].to \in DOMAIN Members[sec]
           /\ Members[sec][LegacyCount[sec].to].type = "u32"
           /\ Rules(sec) = {LegacyCount[sec]}
<1>1. Rules(sec) = {LegacyCount[sec]}
    BY LegacySections DEF Rules
<1>2. CASE sec = "device"
    BY <1>1, <1>2 DEF LegacyCount, Members, DeviceMembers, Opt, Req
<1>3. CASE sec = "capability"
    BY <1>1, <1>3 DEF LegacyCount, Members, CapabilityMembers, Opt, Req
<1> QED BY <1>2, <1>3, LegacySections

(* A speed whose bit rate the reader takes is read as what it says: one    *)
(* that is too large for an int64_t is written negative, and refused.      *)
LEMMA SpeedIsRead ==
    ASSUME NEW v, Representable(v), IsSpeed(v),
           Readable("u64", Signed(Bits(v)))
    PROVE  Read("u64", Signed(Bits(v))) =
               IF Is("speed", v) THEN Num(v[2] * Unit[v[3]]) ELSE Read("u64", v)
<1>1. \A x : Read("u64", x) = x /\ (Readable("u64", x) <=> ReadsUint64(x))
    BY DEF Read, Readable
<1>2. CASE Is("speed", v)
    <2> DEFINE p == v[2] * Unit[v[3]]
    <2>1. v[2] \in Nat /\ Unit[v[3]] \in Nat
        BY <1>2, SchemaAssumption DEF Representable
    <2>2. p \in Nat /\ p <= MaxUint64
        BY <1>2, <2>1 DEF IsSpeed, Is, SpeedText
    <2>3. Bits(v) = Num(p % (MaxUint64 + 1))
        BY <1>2 DEF Bits
    <2> HIDE DEF p
    <2>4. p % (MaxUint64 + 1) = p
        BY <2>2, Bounds DEF MaxUint64
    <2>5. Num(p)[1] = "int" /\ Num(p)[2] = p
        BY DEF Num
    <2>6. p <= MaxInt64
        <3> SUFFICES ASSUME MaxInt64 < p PROVE FALSE
            BY <2>2, Bounds
        <3> DEFINE q == p - (MaxUint64 + 1)
        <3>1. q \in Int /\ q < 0
            BY <2>2, Bounds DEF MaxUint64
        <3>2. Signed(Num(p)) = Num(q)
            BY <2>2, <2>5, Bounds DEF Signed
        <3> HIDE DEF q
        <3>3. Num(q)[2] = q
            BY DEF Num
        <3>4. ReadsUint64(Num(q))
            BY <1>1, <2>3, <2>4, <3>2
        <3> QED BY <3>1, <3>3, <3>4, Bounds DEF ReadsUint64
    <2>7. Signed(Num(p)) = Num(p)
        BY <2>2, <2>5, <2>6, Bounds DEF Signed
    <2> QED BY <1>1, <1>2, <2>3, <2>4, <2>7 DEF p
<1>3. CASE ~ Is("speed", v)
    <2>1. Is("int", v) /\ Bits(v) = v
        BY <1>3 DEF IsSpeed, Bits
    <2>2. v[2] \in Int /\ v[2] <= MaxInt64
        BY <2>1, Bounds DEF Representable
    <2>3. Signed(v) = v
        BY <2>2, Bounds DEF Signed
    <2> QED BY <1>1, <1>3, <2>1, <2>3
<1> QED BY <1>2, <1>3

-----------------------------------------------------------------------------
(* The invariant                                                           *)

Upgraded(sec, from, t) ==
    IF sec = "schema" /\ from # Current THEN With(t, "upgraded_from", Good)
    ELSE Migrated(sec, from, Current, t)

(* Where a text is in its upgrade, and what became of its tree.            *)
UpgradeInv ==
    /\ section \in Section
    /\ \A m \in DOMAIN given : Representable(given[m])
    /\ stage = "upgrade" /\ Supported(declared) =>
        /\ minor \in declared[2] .. Current
        /\ tree = Migrated(section, declared[2], minor, given)
        /\ Migrates(section, declared[2], minor, given)
    /\ stage = "parse" \/ Accepted =>
        /\ Supported(declared)
        /\ tree = Upgraded(section, declared[2], given)
        /\ Migrates(section, declared[2], Current, given)

(* What was read of the tree, and written of that.                         *)
ReadInv ==
    /\ stage \in {"upgrade", "refused", "parse", "accepted", "recorded", "loaded",
                  "unreadable"}
    /\ Accepted => Parses(section, tree) /\ document = Parsed(section, tree)
    /\ stage \in {"recorded", "loaded", "unreadable"} =>
        record = Projected(section, document)
    /\ stage = "loaded" => Parses(section, record) /\ reread = Parsed(section, record)
    /\ stage = "unreadable" => ~ Parses(section, record)

SchemaInv == UpgradeInv /\ ReadInv

LEMMA UsualRepresentable ==
    ASSUME NEW type
    PROVE  Representable(Usual(type))
<1>1. Usual(type) \in {Num(1), Bool(FALSE), Array(<<Good>>),
                       Array(<<Object(<<>>)>>), Object(<<Good>>), Good}
    BY DEF Usual
<1>2. Num(1)[1] = "int" /\ Num(1)[2] = 1
    BY DEF Num
<1>3. Representable(Num(1))
    BY <1>2, Bounds DEF Representable, Is
<1>4. /\ \A x : Array(x)[1] = "array" /\ Object(x)[1] = "object"
      /\ Bool(FALSE)[1] = "bool" /\ Good[1] = "text"
    BY DEF Bool, Array, Object, Good, Text
<1>5. CASE Usual(type) # Num(1)
    <2>1. Usual(type)[1] \in {"array", "object", "bool", "text"}
        BY <1>1, <1>4, <1>5
    <2> QED BY <2>1 DEF Representable, Is
<1> QED BY <1>3, <1>5

(* The values of a tree that is tried are those of Json and the usual ones.*)
LEMMA TreesRepresentable ==
    ASSUME NEW sec \in Section, NEW g \in Trees(sec), NEW m \in DOMAIN g
    PROVE  Representable(g[m])
<1> DEFINE Sane(t) == \A x \in DOMAIN t : Representable(t[x])
<1>1. \A t \in Samples(sec) : Sane(t)
    BY UsualRepresentable DEF Samples, Usually
<1>2. ASSUME NEW t, Sane(t), NEW x
      PROVE  Sane(Without(t, x))
    BY <1>2 DEF Without
<1>3. ASSUME NEW t, Sane(t), NEW x, NEW v \in Json
      PROVE  Sane(With(t, x, v))
    BY <1>3, JsonAssumption DEF With
<1> HIDE DEF Sane
<1>4. Sane(g)
    <2>1. PICK t \in Samples(sec) :
            \/ \E x : g = Without(t, x)
            \/ \E x : \E v \in Json : g = With(t, x, v)
            \/ \E r \in Rules(sec) : \E v \in Json, w \in Json :
                   g = With(With(t, r.from, v), r.to, w)
            \/ \E r \in Rules(sec) : \E v \in Json :
                   g = With(Without(t, r.to), r.from, v)
        BY DEF Trees
    <2>2. Sane(t)
        BY <1>1
    <2> QED BY <1>2, <1>3, <2>1, <2>2
<1> QED BY <1>4 DEF Sane

LEMMA SchemaInit == Init => SchemaInv
<1> SUFFICES ASSUME Init PROVE SchemaInv
    OBVIOUS
<1>1. \A m \in DOMAIN given : Representable(given[m])
    BY TreesRepresentable DEF Init
<1>2. Supported(declared) =>
        /\ minor \in declared[2] .. Current
        /\ tree = Migrated(section, declared[2], minor, given)
        /\ Migrates(section, declared[2], minor, given)
    BY MigratesNothing DEF Init, Supported, Current
<1> QED BY <1>1, <1>2 DEF Init, SchemaInv, UpgradeInv, ReadInv, Accepted

LEMMA SchemaNext == SchemaInv /\ [Next]_vars => SchemaInv'
<1> SUFFICES ASSUME SchemaInv, [Next]_vars
             PROVE  SchemaInv'
    OBVIOUS
<1> USE DEF SchemaInv
<1>1. CASE RefuseVersion
    BY <1>1 DEF RefuseVersion, UpgradeInv, ReadInv, Accepted
<1>2. CASE MigrateTo11
    <2>1. /\ stage = "upgrade" /\ minor = 0 /\ declared[2] = 0 /\ tree = given
          /\ Supported(declared) /\ Supported(declared)'
          /\ UNCHANGED <<section, declared, given, document, record, reread>>
        BY <1>2, MigratesNothing
        DEF MigrateTo11, Upgrading, UpgradeInv, Supported, Current
    <2>2. CASE stage' = "refused"
        BY <2>1, <2>2 DEF UpgradeInv, ReadInv, Accepted
    <2>3. CASE stage' # "refused"
        <3>1. stage' = stage /\ minor' = 1
            BY <1>2, <2>3 DEF MigrateTo11
        <3>2. tree' = Migrated(section, 0, 1, given)
            BY <1>2, <2>1, <2>3, LegacySections DEF MigrateTo11, Migrated
        <3>3. Migrates(section, 0, 1, given)
            BY <1>2, <2>1, <2>3, LegacySections DEF MigrateTo11, Migrates
        <3> QED BY <2>1, <3>1, <3>2, <3>3
                DEF UpgradeInv, ReadInv, Accepted, Current
    <2> QED BY <2>2, <2>3
<1>3. CASE MigrateTo12
    <2>1. /\ stage = "upgrade" /\ minor = 1 /\ declared[2] \in 0 .. 1
          /\ tree = Migrated(section, declared[2], 1, given)
          /\ Migrates(section, declared[2], 1, given)
          /\ Supported(declared) /\ Supported(declared)'
          /\ stage' = stage /\ minor' = 2
          /\ tree' = IF section = "maintenance" THEN Completed(tree) ELSE tree
          /\ UNCHANGED <<section, declared, given, document, record, reread>>
        BY <1>3 DEF MigrateTo12, Upgrading, UpgradeInv, Supported, Current
    <2>2. tree' = Migrated(section, declared[2], 2, given)
        BY <2>1, LegacySections DEF Migrated
    <2>3. Migrates(section, declared[2], 2, given)
        BY <2>1 DEF Migrates
    <2> QED BY <2>1, <2>2, <2>3 DEF UpgradeInv, ReadInv, Accepted, Current
<1>4. CASE MigrateTo13
    <2>1. /\ stage = "upgrade" /\ minor = 2 /\ declared[2] \in 0 .. 2
          /\ tree = Migrated(section, declared[2], 2, given)
          /\ Migrates(section, declared[2], 2, given)
          /\ Supported(declared) /\ Supported(declared)'
          /\ UNCHANGED <<section, declared, given, document, record, reread>>
        BY <1>4 DEF MigrateTo13, Upgrading, UpgradeInv, Supported, Current
    <2>2. CASE stage' = "refused"
        BY <2>1, <2>2 DEF UpgradeInv, ReadInv, Accepted
    <2>3. CASE stage' # "refused"
        <3>1. stage' = stage /\ minor' = 3
            BY <1>4, <2>3 DEF MigrateTo13
        <3>2. section \in DOMAIN LegacyCount => tree = given
            BY <2>1, LegacySections DEF Migrated
        <3>3. tree' = Migrated(section, declared[2], 3, given)
            BY <1>4, <2>1, <2>3, <3>2, LegacySections DEF MigrateTo13, Migrated
        <3>4. Migrates(section, declared[2], 3, given)
            BY <1>4, <2>1, <2>3, <3>2, LegacySections DEF MigrateTo13, Migrates
        <3> QED BY <2>1, <3>1, <3>3, <3>4
                DEF UpgradeInv, ReadInv, Accepted, Current
    <2> QED BY <2>2, <2>3
<1>5. CASE FinishUpgrade
    <2>1. /\ stage = "upgrade" /\ minor = Current /\ declared[2] \in 0 .. Current
          /\ tree = Migrated(section, declared[2], Current, given)
          /\ Migrates(section, declared[2], Current, given)
          /\ Supported(declared) /\ Supported(declared)'
          /\ stage' = "parse"
          /\ tree' = IF section = "schema" /\ declared[2] # Current
                     THEN With(tree, "upgraded_from", Good) ELSE tree
          /\ UNCHANGED <<section, declared, given, document, record, reread>>
        BY <1>5 DEF FinishUpgrade, Upgrading, UpgradeInv, Supported, Current
    <2>2. section = "schema" => tree = given
        BY <2>1, LegacySections DEF Migrated
    <2>3. tree' = Upgraded(section, declared[2], given)
        BY <2>1, <2>2 DEF Upgraded
    <2> QED BY <2>1, <2>3 DEF UpgradeInv, ReadInv, Accepted
<1>6. CASE Parse
    BY <1>6 DEF Parse, UpgradeInv, ReadInv, Accepted, Supported
<1>7. CASE WriteRecord
    BY <1>7 DEF WriteRecord, UpgradeInv, ReadInv, Accepted, Supported
<1>8. CASE LoadRecord
    BY <1>8 DEF LoadRecord, UpgradeInv, ReadInv, Accepted, Supported
<1>9. CASE UNCHANGED vars
    BY <1>9 DEF vars, UpgradeInv, ReadInv, Accepted, Supported
<1> QED
    BY <1>1, <1>2, <1>3, <1>4, <1>5, <1>6, <1>7, <1>8, <1>9 DEF Next

(* The strict reader, the migrations and the writer keep SchemaInv.        *)
THEOREM SchemaInvariant == Spec => []SchemaInv
<1>1. Init => SchemaInv
    BY SchemaInit
<1>2. SchemaInv /\ [Next]_vars => SchemaInv'
    BY SchemaNext
<1> QED BY <1>1, <1>2, PTL DEF Spec

(* What a commit writes of an accepted document can be loaded again after  *)
(* a restart, and is the same document, exactly if no list of identities   *)
(* in it has an empty one: to_json and from_json.                          *)
THEOREM RoundTripHolds == Spec => []RoundTrip
<1>1. SchemaInv => RoundTrip
    <2> SUFFICES ASSUME SchemaInv PROVE RoundTrip
        OBVIOUS
    <2>1. Accepted => /\ section \in Section /\ Parses(section, tree)
                      /\ document = Parsed(section, tree)
        BY DEF SchemaInv, ReadInv, UpgradeInv
    <2>2. HasBlank <=> BlankIn(section, document)
        BY DEF HasBlank, BlankIn
    <2>3. CASE stage = "unreadable"
        <3>1. Accepted /\ ~ Parses(section, Projected(section, document))
            BY <2>3 DEF SchemaInv, ReadInv, Accepted
        <3>2. HasBlank
            BY <2>1, <2>2, <3>1, ObjectSurvives
        <3> QED BY <2>3, <3>2 DEF RoundTrip
    <2>4. CASE stage = "loaded"
        <3>1. /\ Accepted /\ Parses(section, Projected(section, document))
              /\ reread = Parsed(section, Projected(section, document))
            BY <2>4 DEF SchemaInv, ReadInv, Accepted
        <3>2. ~ HasBlank
            BY <2>1, <2>2, <3>1, ObjectIsLost
        <3>3. reread = document
            BY <2>1, <2>2, <3>1, <3>2, ObjectSurvives
        <3> QED BY <2>4, <3>2, <3>3 DEF RoundTrip
    <2> QED BY <2>3, <2>4 DEF RoundTrip
<1> QED BY <1>1, SchemaInvariant, PTL

(* What a text may leave out under the minor it declares, or name          *)
(* otherwise, is all the reader does not find in its tree: no member of an *)
(* accepted text is passed over.                                           *)
THEOREM NothingIgnoredHolds == Spec => []NothingIgnored
<1>1. SchemaInv => NothingIgnored
    <2> SUFFICES ASSUME SchemaInv, Accepted
                 PROVE  DOMAIN given \subseteq
                            DOMAIN Members[section] \cup {r.from : r \in InForce}
        BY DEF NothingIgnored
    <2>1. /\ section \in Section
          /\ declared[2] \in 0 .. 3
          /\ tree = Upgraded(section, declared[2], given)
          /\ DOMAIN tree \subseteq DOMAIN Members[section]
        BY DEF SchemaInv, UpgradeInv, ReadInv, Parses, Supported, Current
    <2>2. CASE section \in DOMAIN LegacySpeed
        <3> DEFINE r == LegacySpeed[section]
        <3>1. tree = IF declared[2] = 0 THEN Converted(given, r) ELSE given
            BY <2>1, <2>2, LegacySections DEF Upgraded, Migrated, Current
        <3>2. declared[2] = 0 => r \in InForce
            BY <2>2, SpeedRule DEF InForce
        <3>3. DOMAIN given \ {r.from} \subseteq DOMAIN tree
            BY <3>1 DEF Converted, With, Without
        <3>4. declared[2] # 0 => DOMAIN given = DOMAIN tree
            BY <3>1
        <3> HIDE DEF r
        <3> QED BY <2>1, <3>2, <3>3, <3>4
    <2>3. CASE section \in DOMAIN LegacyCount
        <3> DEFINE r == LegacyCount[section]
        <3>1. tree = IF declared[2] <= 2 THEN Renamed(given, r) ELSE given
            BY <2>1, <2>3, LegacySections DEF Upgraded, Migrated, Current
        <3>2. declared[2] <= 2 => r \in InForce
            BY <2>3, CountRule, LegacySections DEF InForce
        <3>3. DOMAIN given \ {r.from} \subseteq DOMAIN tree
            BY <3>1 DEF Renamed, With, Without
        <3>4. ~ (declared[2] <= 2) => DOMAIN given = DOMAIN tree
            BY <3>1
        <3> HIDE DEF r
        <3> QED BY <2>1, <3>2, <3>3, <3>4
    <2>4. CASE section \notin DOMAIN LegacySpeed \cup DOMAIN LegacyCount
        <3>1. \/ tree = With(given, "upgraded_from", Good)
              \/ tree = Completed(given)
              \/ tree = given
            BY <2>1, <2>4 DEF Upgraded, Migrated, Current
        <3>2. DOMAIN given \subseteq DOMAIN tree
            BY <3>1 DEF With, Completed
        <3> QED BY <2>1, <3>2
    <2> QED BY <2>2, <2>3, <2>4
<1> QED BY <1>1, SchemaInvariant, PTL

-----------------------------------------------------------------------------
(* Meaning                                                                 *)

(* The meaning of a member that no rule in force renamed.                  *)
LEMMA MeaningUnchanged ==
    ASSUME SchemaInv, Accepted, NEW m \in Kept(section),
           {r \in InForce : r.to = m /\ r.from \in DOMAIN given} = {},
           m \in DOMAIN tree <=> m \in DOMAIN given,
           m \in DOMAIN given => tree[m] = given[m]
    PROVE  document[m] = Meaning(m)
<1>1. document[m] = IF m \in DOMAIN tree THEN Read(Members[section][m].type, tree[m])
                    ELSE Members[section][m].default
    BY DEF SchemaInv, ReadInv, Parsed
<1> QED BY <1>1 DEF Meaning

(* The meaning of one that the only rule in force did.                     *)
LEMMA MeaningRenamed ==
    ASSUME SchemaInv, Accepted, NEW r, InForce = {r}, r.from \in DOMAIN given,
           r.to \in Kept(section), r.to \in DOMAIN tree
    PROVE  /\ document[r.to] = Read(Members[section][r.to].type, tree[r.to])
           /\ Readable(Members[section][r.to].type, tree[r.to])
           /\ Meaning(r.to) =
                  IF Is("speed", given[r.from])
                  THEN Num(given[r.from][2] * Unit[given[r.from][3]])
                  ELSE Read(Members[section][r.to].type, given[r.from])
<1>1. document[r.to] = Read(Members[section][r.to].type, tree[r.to])
    BY DEF SchemaInv, ReadInv, Parsed
<1>2. Readable(Members[section][r.to].type, tree[r.to])
    BY DEF SchemaInv, ReadInv, Parses, Kept
<1>3. {q \in InForce : q.to = r.to /\ q.from \in DOMAIN given} = {r}
    OBVIOUS
<1>4. (CHOOSE q \in {r} : TRUE) = r
    OBVIOUS
<1> QED BY <1>1, <1>2, <1>3, <1>4 DEF Meaning

(* The meaning of a member is kept by the migration of a speed ...         *)
LEMMA SpeedMeaning ==
    ASSUME SchemaInv, Accepted, ~ Contradictory, section \in DOMAIN LegacySpeed,
           NEW m \in Kept(section)
    PROVE  document[m] = Meaning(m)
<1> DEFINE r == LegacySpeed[section]
<1>1. /\ r.from # r.to /\ r.from \notin DOMAIN Members[section]
      /\ Members[section][r.to].type = "u64" /\ Rules(section) = {r}
    BY SpeedRule
<1>2. /\ declared[2] \in 0 .. 3 /\ m \in DOMAIN Members[section]
      /\ tree = IF declared[2] = 0 THEN Converted(given, r) ELSE given
      /\ declared[2] = 0 => Converts(given, r)
    BY LegacySections DEF SchemaInv, UpgradeInv, Upgraded, Migrated, Migrates,
                          Supported, Current, Kept
<1>3. InForce = IF declared[2] = 0 THEN {r} ELSE {}
    BY <1>1, <1>2 DEF InForce
<1> HIDE DEF r
<1>4. CASE declared[2] = 0 /\ r.from \in DOMAIN given
    <2>1. /\ tree = With(Without(given, r.from), r.to, Signed(Bits(given[r.from])))
          /\ IsSpeed(given[r.from]) /\ InForce = {r}
        BY <1>2, <1>3, <1>4 DEF Converted, Converts
    <2>2. r.to \notin DOMAIN given
        BY <1>4, <2>1 DEF Contradictory
    <2>3. CASE m = r.to
        <3>1. r.to \in DOMAIN tree /\ tree[r.to] = Signed(Bits(given[r.from]))
            BY <2>1 DEF With
        <3>2. Representable(given[r.from])
            BY <1>4 DEF SchemaInv, UpgradeInv
        <3> QED BY <1>1, <1>4, <2>1, <2>3, <3>1, <3>2, MeaningRenamed, SpeedIsRead
    <2>4. CASE m # r.to
        <3>1. m # r.from
            BY <1>1, <1>2
        <3>2. m \in DOMAIN tree <=> m \in DOMAIN given
            BY <2>1, <2>4, <3>1 DEF With, Without
        <3>3. m \in DOMAIN given => tree[m] = given[m]
            BY <2>1, <2>4, <3>1 DEF With, Without
        <3>4. {q \in InForce : q.to = m /\ q.from \in DOMAIN given} = {}
            BY <2>1, <2>4
        <3> QED BY <3>2, <3>3, <3>4, MeaningUnchanged
    <2> QED BY <2>3, <2>4
<1>5. CASE ~ (declared[2] = 0 /\ r.from \in DOMAIN given)
    <2>1. tree = given
        BY <1>2, <1>5 DEF Converted
    <2>2. {q \in InForce : q.to = m /\ q.from \in DOMAIN given} = {}
        BY <1>3, <1>5
    <2> QED BY <2>1, <2>2, MeaningUnchanged
<1> QED BY <1>4, <1>5

(* ... by that of a count ...                                              *)
LEMMA CountMeaning ==
    ASSUME SchemaInv, Accepted, ~ Contradictory, section \in DOMAIN LegacyCount,
           NEW m \in Kept(section)
    PROVE  document[m] = Meaning(m)
<1> DEFINE r == LegacyCount[section]
<1>1. /\ r.from # r.to /\ r.from \notin DOMAIN Members[section]
      /\ Members[section][r.to].type = "u32" /\ Rules(section) = {r}
    BY CountRule
<1>2. /\ declared[2] \in 0 .. 3 /\ m \in DOMAIN Members[section]
      /\ tree = IF declared[2] <= 2 THEN Renamed(given, r) ELSE given
    BY LegacySections DEF SchemaInv, UpgradeInv, Upgraded, Migrated, Supported,
                          Current, Kept
<1>3. InForce = IF declared[2] <= 2 THEN {r} ELSE {}
    BY <1>1, <1>2, LegacySections DEF InForce
<1> HIDE DEF r
<1>4. CASE declared[2] <= 2 /\ r.from \in DOMAIN given
    <2>1. /\ tree = With(Without(given, r.from), r.to, given[r.from])
          /\ InForce = {r}
        BY <1>2, <1>3, <1>4 DEF Renamed
    <2>2. CASE m = r.to
        <3>1. r.to \in DOMAIN tree /\ tree[r.to] = given[r.from]
            BY <2>1 DEF With
        <3>2. /\ document[r.to] = Read("u32", given[r.from])
              /\ Readable("u32", given[r.from])
              /\ Meaning(r.to) =
                     IF Is("speed", given[r.from])
                     THEN Num(given[r.from][2] * Unit[given[r.from][3]])
                     ELSE Read("u32", given[r.from])
            BY <1>1, <1>4, <2>1, <2>2, <3>1, MeaningRenamed
        <3>3. Readable("u32", given[r.from]) <=> ReadsUint32(given[r.from])
            BY DEF Readable
        <3>4. ~ Is("speed", given[r.from])
            BY <3>2, <3>3 DEF ReadsUint32, Is
        <3> QED BY <2>2, <3>2, <3>4
    <2>3. CASE m # r.to
        <3>1. m # r.from
            BY <1>1, <1>2
        <3>2. m \in DOMAIN tree <=> m \in DOMAIN given
            BY <2>1, <2>3, <3>1 DEF With, Without
        <3>3. m \in DOMAIN given => tree[m] = given[m]
            BY <2>1, <2>3, <3>1 DEF With, Without
        <3>4. {q \in InForce : q.to = m /\ q.from \in DOMAIN given} = {}
            BY <2>1, <2>3
        <3> QED BY <3>2, <3>3, <3>4, MeaningUnchanged
    <2> QED BY <2>2, <2>3
<1>5. CASE ~ (declared[2] <= 2 /\ r.from \in DOMAIN given)
    <2>1. tree = given
        BY <1>2, <1>5 DEF Renamed
    <2>2. {q \in InForce : q.to = m /\ q.from \in DOMAIN given} = {}
        BY <1>3, <1>5
    <2> QED BY <2>1, <2>2, MeaningUnchanged
<1> QED BY <1>4, <1>5

(* ... and by all that happens to the other sections.                      *)
LEMMA OtherMeaning ==
    ASSUME SchemaInv, Accepted, NEW m \in Kept(section),
           section \notin DOMAIN LegacySpeed \cup DOMAIN LegacyCount
    PROVE  document[m] = Meaning(m)
<1>1. InForce = {}
    BY DEF InForce, Rules
<1>2. /\ m \in DOMAIN Members[section] /\ Members[section][m].type # "note"
      /\ tree = Upgraded(section, declared[2], given)
    BY DEF SchemaInv, UpgradeInv, Kept
<1>3. CASE section = "maintenance"
    <2>1. /\ MaintenanceMembers["upgrade_groups"].type = "strings"
          /\ MaintenanceMembers["upgrade_groups"].default = Array(<<>>)
        BY DEF MaintenanceMembers, Opt, Default
    <2> DEFINE yes == OptOr("bool", Bool(TRUE))
    <2>2. yes.type = "bool" /\ yes.default = Bool(TRUE)
        BY DEF OptOr
    <2> HIDE DEF yes
    <2>3. MaintenanceMembers["requires_redundancy_headroom"] = yes
        BY DEF MaintenanceMembers, yes
    <2>4. Members[section] = MaintenanceMembers
        BY <1>3 DEF Members
    <2>5. tree = Completed(given) \/ tree = given
        BY <1>2, <1>3, LegacySections DEF Upgraded, Migrated
    <2>6. Read("strings", Array(<<>>)) = Array(<<>>)
        BY DEF Read
    <2>7. Read("bool", Bool(TRUE)) = Bool(TRUE)
        BY DEF Read
    <2>8. CASE m \in DOMAIN given \/ tree = given
        <3>1. /\ m \in DOMAIN tree <=> m \in DOMAIN given
              /\ m \in DOMAIN given => tree[m] = given[m]
            BY <2>5, <2>8 DEF Completed
        <3> QED BY <1>1, <3>1, MeaningUnchanged
    <2>9. CASE m \notin DOMAIN given /\ tree = Completed(given)
        <3>1. Meaning(m) = Members[section][m].default
            BY <1>1, <2>9 DEF Meaning
        <3>2. document[m] = IF m \in DOMAIN tree
                            THEN Read(Members[section][m].type, tree[m])
                            ELSE Members[section][m].default
            BY DEF SchemaInv, ReadInv, Parsed
        <3>3. CASE m = "upgrade_groups"
            <4>1. m \in DOMAIN tree /\ tree[m] = Array(<<>>)
                BY <2>9, <3>3 DEF Completed
            <4> QED BY <2>1, <2>4, <2>6, <3>1, <3>2, <3>3, <4>1
        <3>4. CASE m = "requires_redundancy_headroom"
            <4> DEFINE true == Bool(TRUE)
            <4>1. m \in DOMAIN tree /\ tree[m] = true
                BY <2>9, <3>4 DEF Completed
            <4>2. Read("bool", true) = true /\ yes.default = true
                BY <2>2, <2>7
            <4> HIDE DEF true
            <4> QED BY <2>2, <2>3, <2>4, <3>1, <3>2, <3>4, <4>1, <4>2
        <3>5. CASE m \notin {"upgrade_groups", "requires_redundancy_headroom"}
            <4>1. m \notin DOMAIN tree
                BY <2>9, <3>5 DEF Completed
            <4> QED BY <3>1, <3>2, <4>1
        <3> QED BY <3>3, <3>4, <3>5
    <2> QED BY <2>5, <2>8, <2>9
<1>4. CASE section = "schema"
    <2>1. m # "upgraded_from"
        BY <1>2, <1>4 DEF Members, SchemaMembers, Opt
    <2>2. tree = With(given, "upgraded_from", Good) \/ tree = given
        BY <1>2, <1>4, LegacySections DEF Upgraded, Migrated
    <2>3. /\ m \in DOMAIN tree <=> m \in DOMAIN given
          /\ m \in DOMAIN given => tree[m] = given[m]
        BY <2>1, <2>2 DEF With
    <2> QED BY <1>1, <2>3, MeaningUnchanged
<1>5. CASE section \notin {"maintenance", "schema"}
    <2>1. tree = given
        BY <1>2, <1>5 DEF Upgraded, Migrated
    <2> QED BY <1>1, <2>1, MeaningUnchanged
<1> QED BY <1>3, <1>4, <1>5

(* Every member of an accepted document says what its text says under the  *)
(* minor it declares: upgrade_to_current, the migrations and the reader.   *)
THEOREM FaithfulUpgradeHolds == Spec => []FaithfulUpgrade
<1>1. SchemaInv => FaithfulUpgrade
    BY SpeedMeaning, CountMeaning, OtherMeaning DEF FaithfulUpgrade
<1> QED BY <1>1, SchemaInvariant, PTL

=============================================================================
