-------------------------- MODULE IntentConflicts --------------------------
(***************************************************************************)
(* The seven conflict rules of src/conflict.cpp over a normalized          *)
(* document.  A conflict is its rule and the set of its participants, from *)
(* which the code derives its identity; a participant is a role, a value   *)
(* and an identity.  Summaries and explanations are left out.              *)
(***************************************************************************)
EXTENDS IntentDocument

Conflict(rule, participants) == <<rule, participants>>

(* Desired values in the order of their text, which decides between equal  *)
(* claims: the strings, then integers, then lists.                         *)
AdminStates == {"disabled", "draining", "enabled", "maintenance"}
Actions     == {"drop", "explicit", "pinned", "shortest"}
Levels      == {"device", "fabric", "link", "pod", "port", "rack", "site"}
TextOrder ==
    <<"device", "disabled", "draining", "drop", "enabled", "explicit", "fabric",
      "link", "maintenance", "pinned", "pod", "port", "rack", "shortest", "site",
      "text", "integer", "ids">>
TextRank(v) == CHOOSE i \in DOMAIN TextOrder : TextOrder[i] = v

(* The first and the last of a set of <<source, value>> claims.            *)
Before(c, e) ==
    \/ TextRank(c[2]) < TextRank(e[2])
    \/ c[2] = e[2] /\ IdBefore(c[1], e[1])
FirstOf(claims) == CHOOSE c \in claims : \A e \in claims \ {c} : Before(c, e)
LastOf(claims)  == CHOOSE c \in claims : \A e \in claims \ {c} : Before(e, c)

Enforced(d) == {i \in ToSet(d.intents) : i.mode = "enforce"}

-----------------------------------------------------------------------------
(* Rule 1.  A policy claims a state for every device and every link of its *)
(* scope, an enforced intent for its subject.  The first claim is set      *)
(* against each one that wants another state.                              *)

ClaimsOnScopes(d) ==                           \* mutant: scopes are not expanded
    {<<p.scope, p.id, p.state>> : p \in Policies(d, "admin")}
Claims(d) ==
    (UNION {{<<x.id, p.id, p.state>> :
                x \in DevicesOf(d, p.scope) \cup LinksOf(d, p.scope)} :
            p \in Policies(d, "admin")})
    \cup {<<i.subject, i.id, i.desired>> :
             i \in {j \in Enforced(d) : j.property = "admin_state" /\ j.desired \in AdminStates}}

ClaimsOn(d, subject) == {<<c[2], c[3]>> : c \in {e \in Claims(d) : e[1] = subject}}

AdminConflicts(d) ==
    UNION {LET first == FirstOf(ClaimsOn(d, s))
           IN {Conflict(1, {<<first[1][1], first[2], first[1]>>, <<c[1][1], c[2], c[1]>>,
                            <<"subject", "subject", s>>}) :
                   c \in {e \in ClaimsOn(d, s) : e[2] # first[2]}} :
            s \in {c[1] : c \in Claims(d)}}

(* Rule 2.  Enforced intents on one property of one subject: the extremes  *)
(* are set against each other.                                             *)
ValueConflicts(d) ==
    LET Wants(i) == {<<j.id, j.desired>> : j \in {k \in Enforced(d) :
                        k.subject = i.subject /\ k.property = i.property}}
    IN {LET first == FirstOf(Wants(i))
            last  == LastOf(Wants(i))
        IN Conflict(2, {<<"intent", first[2], first[1]>>, <<"intent", last[2], last[1]>>,
                        <<"subject", i.property, i.subject>>}) :
           i \in {j \in Enforced(d) : FirstOf(Wants(j))[2] # LastOf(Wants(j))[2]}}

(* Rule 3.  Routing policies of one precedence that match something in     *)
(* common and choose different actions; an empty match matches all.        *)
Overlap(A, B) == A = {} \/ B = {} \/ A \cap B # {}
SameOrAny(a, b) == NoId \in {a, b} \/ a = b

Collide(p, q) ==
    /\ p.priority = q.priority
    /\ p.action # q.action
    /\ Overlap(p.classes, q.classes)
    /\ Overlap(p.tenants, q.tenants)
    /\ SameOrAny(p.source, q.source)
    /\ SameOrAny(p.destination, q.destination)

RoutingConflicts(d) ==
    {Conflict(3, {<<"policy", pq[1].action, pq[1].id>>, <<"policy", pq[2].action, pq[2].id>>}) :
        pq \in {e \in Policies(d, "routing") \X Policies(d, "routing") : Collide(e[1], e[2])}}

-----------------------------------------------------------------------------
(* What links offer.  The sum stays at the largest number once it would go *)
(* beyond it.                                                              *)

ContributingAny(d, scope) ==                   \* mutant: disabled links offer capacity
    {l \in LinksOf(d, scope) : l.capacity > 0}
Contributing(d, scope) == {l \in LinksOf(d, scope) : Enabled(l) /\ l.capacity > 0}

Capacity(d, scope) ==
    FoldSet(LAMBDA l, n : IF n + l.capacity > MaxBps THEN MaxBps ELSE n + l.capacity,
            0, Contributing(d, scope))

(* Rule 4.  The reservations on a scope, beyond what it is known to offer. *)
Reservations(d) == {p \in Policies(d, "capacity") : p.reserved > 0 /\ p.scope # NoId}
Reserved(d, scope) ==
    FoldSet(LAMBDA p, n : p.reserved + n, 0, {p \in Reservations(d) : p.scope = scope})

CapacityConflicts(d) ==
    {Conflict(4, {<<"policy", p.reserved, p.id>> : p \in {q \in Reservations(d) : q.scope = s}}
                 \cup {<<"scope", Capacity(d, s), s>>}) :
        s \in {p.scope : p \in {q \in Reservations(d) :
                  /\ Contributing(d, q.scope) # {}
                  /\ \/ Reserved(d, q.scope) > MaxBps
                     \/ Reserved(d, q.scope) > Capacity(d, q.scope)}}}

(* Rule 5.  The failure domains a device reaches over enabled links; the   *)
(* device of the scope that reaches the fewest is compared.                *)
NeighboursByLink(d, x, level) ==               \* mutant: counts links, not domains
    {l.id : l \in {k \in LinksAt(d, x.id) : Enabled(k) /\ Wired(d, k)}}
Neighbours(d, x, level) ==
    {IF level \in {"link", "port"} THEN l.id
     ELSE DomainOf(d, Lookup(d.devices, FarEnd(d, l, x.id)), level) :
        l \in {k \in LinksAt(d, x.id) :
            /\ Enabled(k)
            /\ Wired(d, k)
            /\ FarEnd(d, k, x.id) # x.id
            /\ Has(d.devices, FarEnd(d, k, x.id))}}

Achievable(d, x, level) == Cardinality(Neighbours(d, x, level))

Worst(d, scope, level) ==
    LET Fewest == {x \in DevicesOf(d, scope) : \A y \in DevicesOf(d, scope) :
                      Achievable(d, x, level) <= Achievable(d, y, level)}
    IN CHOOSE x \in Fewest : \A y \in Fewest : ~ ListedBefore(d, scope, y, x)

RedundancyConflicts(d) ==
    {LET worst == Worst(d, p.scope, p.level)
     IN Conflict(5, {<<"policy", p.paths, p.id>>,
                     <<"scope", Achievable(d, worst, p.level), p.scope>>,
                     <<"worst-device", p.level, worst.id>>}) :
        p \in {q \in Policies(d, "redundancy") :
                  \E x \in DevicesOf(d, q.scope) : Achievable(d, x, q.level) < q.paths}}

-----------------------------------------------------------------------------
(* Rule 6.  One exclusive scope, two tenants.                              *)
IsolationConflicts(d) ==
    LET Claimants(s) == {p \in Policies(d, "isolation") : s \in p.scopes}
    IN {Conflict(6, {<<"policy", p.tenant, p.id>> : p \in Claimants(s)}
                    \cup {<<"scope", "exclusive", s>> : t \in {u \in {s} : u # NoId}}) :
           s \in {t \in UNION {p.scopes : p \in Policies(d, "isolation")} :
                     Cardinality({p.tenant : p \in Claimants(t)}) > 1}}

(* Rule 7.  A drain before maintenance, of a device pinned up without one. *)
Pins(d, x) ==
    SelectSeq(d.policies, LAMBDA p :
        /\ p.kind = "admin"
        /\ p.state = "enabled"
        /\ ~ p.drainFirst
        /\ x \in DevicesOf(d, p.scope))

MaintenanceConflicts(d) ==
    UNION {{Conflict(7, {<<"policy", "drain", p.id>>, <<"policy", "pinned", Pins(d, x)[1].id>>,
                         <<"subject", "enabled", x.id>>}) :
               x \in {y \in DevicesOf(d, p.scope) : Pins(d, y) # <<>>}} :
            p \in {q \in Policies(d, "maintenance") : q.drain}}

AllConflicts(d) ==
    AdminConflicts(d) \cup ValueConflicts(d) \cup RoutingConflicts(d)
    \cup CapacityConflicts(d) \cup RedundancyConflicts(d)
    \cup IsolationConflicts(d) \cup MaintenanceConflicts(d)
=============================================================================
